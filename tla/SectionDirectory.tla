-------------------------- MODULE SectionDirectory --------------------------
(***************************************************************************)
(* What a coil_object_t promises: a sequence of named sections of bytes,   *)
(* in memory and on disk.  Creating appends, deleting removes, updating    *)
(* replaces, loading shows, and saving and loading carry all of it to the  *)
(* disk and back.  Where the bytes are (in the object, in the client's     *)
(* structure, in a mapping) cannot be seen, and a call that fails changes  *)
(* nothing but the disk, if it is a save.                                  *)
(*                                                                         *)
(* One exception: a section that is still stored in the file is read by    *)
(* the load that asks for it, and that read may come short.  The load      *)
(* succeeds all the same, and the section is what came.                    *)
(***************************************************************************)
EXTENDS Naturals, Sequences

CONSTANTS
  Names, Targets, Contents,
  Handle,     \* the client's section structures
  Nothing,    \* the content of an unused structure, and of a bad file
  MaxSections

VARIABLES
  dir,      \* the sections, [name, target, bytes, stored]
  target,   \* the target of the sections to come
  held,     \* the bytes in the client's structures
  disk,     \* the sections on disk, [name, target, bytes], or Nothing
  state,    \* "raw", "ready" or "failed"
  ret       \* the last call: [op, err, index]

vars == <<dir, target, held, disk, state, ret>>

Done(op, err) == ret' = [op |-> op, err |-> err, index |-> 0]
Indices == 0 .. Len(dir) - 1
Section(n, t, b, stored) == [name |-> n, target |-> t, bytes |-> b, stored |-> stored]

(* A directory as it is on disk, and as it is when it was opened. *)
OnDisk(d) ==
  [j \in DOMAIN d |-> [name |-> d[j].name, target |-> d[j].target, bytes |-> d[j].bytes]]
Opened(d) ==
  [j \in DOMAIN d |-> Section(d[j].name, d[j].target, d[j].bytes, d[j].bytes # <<>>)]

(* A call that has no effect but its result. *)
Refused(op, errors) ==
  /\ \E e \in errors : Done(op, e)
  /\ UNCHANGED <<dir, target, held, disk, state>>

-----------------------------------------------------------------------------
Become(s, d) ==
  /\ state' = s
  /\ dir' = d
  /\ target' = 0
  /\ UNCHANGED <<held, disk>>

Begin == state # "ready" /\ Become("ready", <<>>) /\ Done("init", "GOOD")

End == state # "raw" /\ Become("raw", <<>>) /\ Done("cleanup", "GOOD")

Open(op) ==
  /\ state # "ready"
  /\ \/ /\ disk # Nothing
        /\ Become("ready", Opened(disk))
        /\ Done(op, "GOOD")
     \/ /\ Become("failed", <<>>)
        /\ \E e \in {"IO", "FORMAT", "NOMEM"} : Done(op, e)

(* A save that fails may leave anything on disk, but not in the object. *)
Save ==
  /\ state = "ready"
  /\ \/ disk' = OnDisk(dir) /\ Done("save_file", "GOOD")
     \/ Done("save_file", "IO")
     \/ disk' = disk /\ Done("save_file", "NOMEM")
  /\ UNCHANGED <<dir, target, held, state>>

-----------------------------------------------------------------------------
Default(t) ==
  /\ state = "ready"
  /\ target' = t
  /\ Done("set_target_defaults", "GOOD")
  /\ UNCHANGED <<dir, held, disk, state>>

Find(n) ==
  /\ state = "ready"
  /\ \/ \E i \in Indices :
          /\ dir[i + 1].name = n
          /\ ret' = [op |-> "find_section", err |-> "GOOD", index |-> i]
     \/ /\ \A i \in Indices : dir[i + 1].name # n
        /\ Done("find_section", "NOTFOUND")
  /\ UNCHANGED <<dir, target, held, disk, state>>

(* A new section, of the bytes in h or of none. *)
Create(n) ==
  /\ state = "ready"
  /\ \A i \in Indices : dir[i + 1].name # n
  /\ \/ /\ dir' = Append(dir, Section(n, target, <<>>, FALSE))
        /\ UNCHANGED held
     \/ \E h \in Handle :
          /\ held[h] # Nothing
          /\ dir' = Append(dir, Section(n, target, held[h], FALSE))
          /\ held' = [held EXCEPT ![h] = Nothing]
  /\ ret' = [op |-> "create_section", err |-> "GOOD", index |-> Len(dir)]
  /\ UNCHANGED <<target, disk, state>>

Delete(i) ==
  /\ i \in Indices
  /\ dir' = SubSeq(dir, 1, i) \o SubSeq(dir, i + 2, Len(dir))
  /\ Done("delete_section", "GOOD")
  /\ UNCHANGED <<target, held, disk, state>>

Update(i, h) ==
  /\ i \in Indices
  /\ held[h] # Nothing
  /\ dir' = [dir EXCEPT ![i + 1].bytes = held[h], ![i + 1].stored = FALSE]
  /\ held' = [held EXCEPT ![h] = Nothing]
  /\ Done("update_section", "GOOD")
  /\ UNCHANGED <<target, disk, state>>

(***************************************************************************)
(* A load shows the section, or a beginning of it if it is stored.  The    *)
(* object keeps what it read, if it has memory for it.                     *)
(***************************************************************************)
Load(i, h) ==
  /\ i \in Indices
  /\ held[h] = Nothing
  /\ LET s == dir[i + 1]
     IN  \E n \in IF s.stored THEN 1 .. Len(s.bytes) ELSE {Len(s.bytes)} :
           /\ held' = [held EXCEPT ![h] = SubSeq(s.bytes, 1, n)]
           /\ \/ dir' = dir
              \/ dir' = [dir EXCEPT ![i + 1].bytes = SubSeq(@, 1, n),
                                    ![i + 1].stored = FALSE]
  /\ Done("load_section", "GOOD")
  /\ UNCHANGED <<target, disk, state>>

(* Calls that are refused. *)
Refuse ==
  \/ state = "ready" /\ \E n \in Names : \E i \in Indices :
       dir[i + 1].name = n /\ Refused("create_section", {"EXISTS"})
  \/ state = "ready" /\ Refused("create_section", {"NOMEM"})
  \/ state = "ready" /\ Refused("load_section", {"NOMEM", "IO"})
  \/ state = "ready" /\ \E op \in {"delete_section", "update_section", "load_section"} :
       Len(dir) <= MaxSections /\ Refused(op, {"NOTFOUND"})

-----------------------------------------------------------------------------
Fill(h) ==
  /\ held[h] = Nothing
  /\ \/ \E b \in Contents : held' = [held EXCEPT ![h] = b] /\ Done("client", "GOOD")
     \/ held' = held /\ Done("client", "NOMEM")
  /\ UNCHANGED <<dir, target, disk, state>>

Drop(h) ==
  /\ held[h] # Nothing
  /\ held' = [held EXCEPT ![h] = Nothing]
  /\ Done("client", "GOOD")
  /\ UNCHANGED <<dir, target, disk, state>>

(* The client empties the file. *)
Truncate ==
  /\ disk' = Nothing
  /\ Done("client", "GOOD")
  /\ UNCHANGED <<dir, target, held, state>>

Init ==
  /\ dir = <<>> /\ target = 0
  /\ held = [h \in Handle |-> Nothing]
  /\ disk = Nothing
  /\ state = "raw"
  /\ ret = [op |-> "none", err |-> "GOOD", index |-> 0]

Next ==
  \/ Begin \/ End \/ Open("load_file") \/ Open("mmap") \/ Save \/ Refuse \/ Truncate
  \/ \E t \in Targets : Default(t)
  \/ \E n \in Names : Create(n) \/ Find(n)
  \/ \E i \in Indices : Delete(i) \/ \E h \in Handle : Update(i, h) \/ Load(i, h)
  \/ \E h \in Handle : Fill(h) \/ Drop(h)
  \/ \E op \in {"client", "unmap"} : Refused(op, {"GOOD", "NOMEM"})

Spec == Init /\ [][Next]_vars
=============================================================================
