------------------------------ MODULE MCInstr ------------------------------
(***************************************************************************)
(* CoilInstr for TLC.                                                      *)
(***************************************************************************)
EXTENDS CoilInstr

CONSTANTS a1, a2

AllBytes == 0 .. 255

(* Two words without a byte in common, and an offset of different bytes.   *)
ZeroWord == [i \in 0 .. WordSize - 1 |-> 0]
CountUp  == [i \in 0 .. WordSize - 1 |-> i + 1]
MCWords  == {ZeroWord, CountUp}
MCOffsets == {[i \in 0 .. OffsetSize - 1 |-> 100 + i]}

(* CoilInstr implements InstrStream: the reader gets the writer's pieces,  *)
(* each as it was written and in order, and it gets all of them.           *)
RefinesInstrStream == Stream!Spec
=============================================================================
