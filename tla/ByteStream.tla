----------------------------- MODULE ByteStream ------------------------------
(***************************************************************************)
(* What a section promises its client: a sequence of bytes with a read and *)
(* a write cursor, filled from a file and written to it.  There are no     *)
(* buffers, capacities or mappings here: reserving and compacting change   *)
(* nothing, and a call that fails changes nothing the client can see.      *)
(***************************************************************************)
EXTENDS Naturals, Sequences

CONSTANTS Byte, Nul, MaxBuf, MaxPos, MaxRead

VARIABLES
  kind,      \* "raw", "owned", "view" or "closed"
  content,   \* the bytes of the section
  rd, wr,    \* bytes before the read and the write cursor
  base,      \* where in the file a view starts
  disk,      \* the bytes of the file
  at,        \* the file position
  ret        \* the last call: [op, err, n, out]

vars == <<kind, content, rd, wr, base, disk, at, ret>>

Result(op, err, n, out) == [op |-> op, err |-> err, n |-> n, out |-> out]
Done(op, err) == Result(op, err, 0, <<>>)

Least(x, y) == IF x < y THEN x ELSE y
IsOpen == kind \in {"owned", "view"}

(* b in place of the bytes of s from offset o on; o is at most Len(s). *)
Splice(s, o, b) == SubSeq(s, 1, o) \o b \o SubSeq(s, o + Len(b) + 1, Len(s))

(* s, padded with zero bytes up to length o. *)
Padded(s, o) == s \o [i \in 1 .. (IF o > Len(s) THEN o - Len(s) ELSE 0) |-> Nul]

Ahead == IF at < Len(disk) THEN Len(disk) - at ELSE 0

-----------------------------------------------------------------------------
Become(k, bytes, write, from) ==
  /\ kind' = k
  /\ content' = bytes
  /\ rd' = 0
  /\ wr' = write
  /\ base' = from

Create ==
  /\ ~IsOpen
  /\ Become("owned", <<>>, 0, 0)
  /\ \E e \in {"GOOD", "NOMEM"} : ret' = Done("init", e)
  /\ UNCHANGED <<disk, at>>

(* Some of what the file has left, and all of it fits when it is little. *)
Load ==
  /\ ~IsOpen
  /\ \/ \E n \in 0 .. Ahead :
          /\ Ahead > 0 => n > 0
          /\ Become("owned", SubSeq(disk, at + 1, at + n), n, 0)
          /\ at' = at + n
          /\ ret' = Done("load", "GOOD")
     \/ /\ Become("closed", <<>>, 0, 0)
        /\ \E e \in {"NOMEM", "IO"} : ret' = Done("load", e)
        /\ UNCHANGED at
  /\ UNCHANGED disk

LoadView ==
  /\ ~IsOpen
  /\ \/ \E n \in 0 .. Ahead :
          /\ Become("view", SubSeq(disk, at + 1, at + n), 0, at)
          /\ ret' = Done("loadv", "GOOD")
     \/ /\ ret' = Done("loadv", "IO")
        /\ UNCHANGED <<kind, content, rd, wr, base>>
  /\ UNCHANGED <<disk, at>>

Close ==
  /\ kind # "raw"
  /\ Become("closed", <<>>, 0, 0)
  /\ ret' = Done("cleanup", "GOOD")
  /\ UNCHANGED <<disk, at>>

-----------------------------------------------------------------------------
Unchanged == UNCHANGED <<kind, base, disk, at>>

Write(b) ==
  /\ IsOpen
  /\ \/ /\ kind = "owned"
        /\ content' = Splice(content, wr, b)
        /\ wr' = wr + Len(b)
        /\ ret' = Result("write", "GOOD", Len(b), <<>>)
     \/ /\ ret' = Done("write", IF kind = "view" THEN "BADSTATE" ELSE "NOMEM")
        /\ UNCHANGED <<content, wr>>
  /\ UNCHANGED rd
  /\ Unchanged

(* Sizing the buffer is invisible but for its result. *)
Reserve ==
  /\ IsOpen
  /\ \E op \in {"ensure_capacity", "compact"} :
       \E e \in IF kind = "view" THEN {"BADSTATE"}
                ELSE {"GOOD", "NOMEM"}
                     \cup (IF op = "compact" /\ content = <<>>
                             THEN {"BADSTATE"} ELSE {}) :
         ret' = Done(op, e)
  /\ UNCHANGED <<content, rd, wr>>
  /\ Unchanged

Read(n) ==
  /\ IsOpen
  /\ LET k == Least(n, Len(content) - rd)
     IN  /\ rd' = rd + k
         /\ ret' = Result("read", "GOOD", k, SubSeq(content, rd + 1, rd + k))
  /\ UNCHANGED <<content, wr>>
  /\ Unchanged

GetStr(p) ==
  /\ IsOpen
  /\ ret' = IF p < Len(content) THEN Result("getstr", "GOOD", p, <<>>)
            ELSE Done("getstr", "INVAL")
  /\ UNCHANGED <<content, rd, wr>>
  /\ Unchanged

Reset ==
  /\ IsOpen
  /\ rd' = 0
  /\ wr' = 0
  /\ ret' = Done("reset", "GOOD")
  /\ UNCHANGED content
  /\ Unchanged

Seek(p) ==
  /\ IsOpen
  /\ IF p <= Len(content)
       THEN \/ rd' = p /\ wr' = wr /\ ret' = Done("seek_read", "GOOD")
            \/ wr' = p /\ rd' = rd /\ ret' = Done("seek_write", "GOOD")
       ELSE /\ UNCHANGED <<rd, wr>>
            /\ \E op \in {"seek_read", "seek_write"} : ret' = Done(op, "INVAL")
  /\ UNCHANGED content
  /\ Unchanged

(***************************************************************************)
(* A prefix of the content goes to the file and the result is good if it   *)
(* is all of it; a view goes on showing the file.                          *)
(***************************************************************************)
Serialize ==
  /\ IsOpen
  /\ \E k \in 0 .. Len(content) :
       /\ disk' = IF k = 0 THEN disk
                  ELSE Splice(Padded(disk, at), at, SubSeq(content, 1, k))
       /\ at' = at + k
       /\ ret' = Done("serialize", IF k = Len(content) THEN "GOOD" ELSE "IO")
  /\ content' = IF kind = "view" THEN SubSeq(disk', base + 1, base + Len(content))
                ELSE content
  /\ UNCHANGED <<kind, base, rd, wr>>

Move ==
  /\ at' \in 0 .. MaxPos
  /\ ret' = Done("lseek", "GOOD")
  /\ UNCHANGED <<kind, content, rd, wr, base, disk>>

-----------------------------------------------------------------------------
Init ==
  /\ kind = "raw"
  /\ content = <<>>
  /\ rd = 0
  /\ wr = 0
  /\ base = 0
  /\ disk \in Seq(Byte)
  /\ at = 0
  /\ ret = Done("none", "GOOD")

Next ==
  \/ Create \/ Load \/ LoadView \/ Close
  \/ \E n \in 0 .. MaxBuf : Read(n) \/ \E b \in [1 .. n -> Byte] : Write(b)
  \/ \E p \in 0 .. MaxRead : GetStr(p) \/ Seek(p)
  \/ Reserve \/ Reset \/ Serialize \/ Move

Spec == Init /\ [][Next]_vars
=============================================================================
