------------------------------- MODULE MCObject ------------------------------
(***************************************************************************)
(* CoilObject for TLC, and the mapping under which it implements           *)
(* SectionDirectory.                                                       *)
(***************************************************************************)
EXTENDS CoilObject, TLC

CONSTANTS n1, n2, n3, x, y, h1, f, Nothing

NameSymmetry == Permutations({n1, n2, n3})
ByteSymmetry == {p @@ q : p \in NameSymmetry, q \in Permutations({x, y})}

(***************************************************************************)
(* The view of the runs with a file.  No action depends on the result of   *)
(* the call before, so that two states that differ in ret only have the    *)
(* same steps, and TLC may take them for one.  Properties that speak of    *)
(* ret speak of the step that sets it.                                     *)
(***************************************************************************)
ButResult == <<obj, mem, hs, file, fds, phase>>

One   == {<<x>>}
Short == {<<x>>, <<y>>}
Lengths == {<<x>>, <<y, y>>}
Mixed == {<<>>, <<x>>, <<y, y>>}
Pairs == {<<x, y>>, <<y, x>>}

(* Is section i to be read from the file? *)
Stored(i) ==
  ~Resident(obj, i) /\ obj.fd # NoFd /\ obj.headers[i + 1].size > 0

Directory ==
  INSTANCE SectionDirectory WITH
    dir    <- IF phase # "ready" THEN <<>>
              ELSE [j \in 1 .. obj.count |->
                      [name |-> obj.headers[j].name,
                       target |-> obj.headers[j].target,
                       bytes |-> SectionBytes(j - 1),
                       stored |-> Stored(j - 1)]],
    target <- obj.target,
    held   <- [h \in Handle |-> IF hs[h].data = 0 THEN Nothing ELSE Bytes(hs[h], mem)],
    disk   <- IF ~WellFormed THEN Nothing
              ELSE [j \in 1 .. file[1].section_count |->
                      LET hdr == HeaderAt(1 + j)
                      IN  [name |-> hdr.name, target |-> hdr.target,
                           bytes |-> CellsOf(file, hdr.off, hdr.size)]],
    state  <- phase

(* CoilObject implements SectionDirectory. *)
RefinesDirectory == Directory!Spec
=============================================================================
