------------------------------ MODULE MCSection ------------------------------
(***************************************************************************)
(* CoilSection for TLC, and the mapping under which it implements          *)
(* ByteStream.                                                             *)
(***************************************************************************)
EXTENDS CoilSection, TLC

CONSTANTS a1, a2, b

Symmetry == Permutations({a1, a2})

AsSeq(n, cells) == [i \in 1 .. n |-> cells[i - 1]]

(* A section that is not open shows nothing. *)
Shown == IF phase = "open" THEN sect ELSE ZeroSection

Kind ==
  IF phase # "open" THEN phase
  ELSE IF sect.mode = "VIEW" THEN "view" ELSE "owned"

Bytes == AsSeq(Shown.size, Slice(Shown, 0, Shown.size))
Base  == Shown.map_start + Shown.map_off
Disk  == AsSeq(file.len, file.bytes)

Reply(r) == [r EXCEPT !.out = AsSeq(IF r.op = "read" THEN r.n ELSE 0, @)]

Stream ==
  INSTANCE ByteStream WITH
    MaxRead <- MaxAlloc + 1,
    kind    <- Kind,
    content <- Bytes,
    rd      <- Shown.rindex,
    wr      <- Shown.windex,
    base    <- Base,
    disk    <- Disk,
    at      <- pos,
    ret     <- Reply(ret)

(* CoilSection implements ByteStream: the client of a section cannot tell  *)
(* where its bytes are kept, when they move, or that a call failed half    *)
(* way.                                                                    *)
RefinesByteStream == Stream!Spec
=============================================================================
