------------------------- MODULE SectionBufferProofs -------------------------
(***************************************************************************)
(* Lemmas about images and the heap, for every module that allocates.      *)
(***************************************************************************)
EXTENDS SectionBuffer, TLAPS

USE BufferAssumption

(***************************************************************************)
(* Images                                                                  *)
(***************************************************************************)

(* A function on 0 .. n-1 is the image of a region of n cells. *)
LEMMA ImageIntro ==
  ASSUME NEW n \in 0 .. MaxAlloc, NEW f \in [0 .. n - 1 -> Cell]
  PROVE  f \in Image
BY DEF Image

(* The empty image is an image, and stands for a free address. *)
LEMMA NoImageFacts == NoImage \in Image /\ DOMAIN NoImage = {}
<1>1. 0 .. 0 - 1 = {}
  OBVIOUS
<1>2. NoImage \in [0 .. 0 - 1 -> Cell]
  BY <1>1 DEF NoImage
<1>3. NoImage \in Image
  BY <1>2, 0 \in 0 .. MaxAlloc, ImageIntro
<1> QED BY <1>3 DEF NoImage

(* A region of at least one cell counts as allocated. *)
LEMMA NonEmpty ==
  ASSUME NEW n \in 1 .. MaxAlloc, NEW f \in [0 .. n - 1 -> Cell]
  PROVE  DOMAIN f # {}
<1>1. 0 \in 0 .. n - 1
  OBVIOUS
<1> QED BY <1>1

(* A copy that stays inside a region keeps its size. *)
LEMMA OverlayInside ==
  ASSUME NEW c \in Nat, NEW img \in [0 .. c - 1 -> Cell],
         NEW at \in Nat, NEW n \in Nat, at + n <= c,
         NEW buf, \A i \in 0 .. n - 1 : buf[i] \in Cell
  PROVE  Overlay(img, at, n, buf) \in [0 .. c - 1 -> Cell]
<1>1. DOMAIN img \cup at .. at + n - 1 = 0 .. c - 1
  OBVIOUS
<1>2. \A i \in at .. at + n - 1 : i - at \in 0 .. n - 1
  OBVIOUS
<1>3. \A i \in 0 .. c - 1 :
        (IF i \in at .. at + n - 1 THEN buf[i - at] ELSE img[i]) \in Cell
  BY <1>2
<1> QED BY <1>1, <1>3 DEF Overlay

(* A copy to the start of a region puts the source there. *)
LEMMA OverlayStart ==
  ASSUME NEW img, NEW n \in Nat, NEW buf, NEW i \in 0 .. n - 1
  PROVE  Overlay(img, 0, n, buf)[i] = buf[i]
<1>1. i \in DOMAIN img \cup 0 .. 0 + n - 1 /\ i \in 0 .. 0 + n - 1 /\ i - 0 = i
  OBVIOUS
<1> QED BY <1>1 DEF Overlay

(***************************************************************************)
(* The heap                                                                *)
(***************************************************************************)

(* malloc either fails and changes nothing, or makes one free address a    *)
(* region of n cells of junk.                                              *)
LEMMA MallocFacts ==
  ASSUME NEW h \in [Addr -> Image], NEW n \in Nat, NEW m \in Malloc(h, n)
  PROVE  \/ m.data = NULL /\ m.heap = h
         \/ /\ m.data \in Addr
            /\ m.data \notin Allocated(h)
            /\ n \in 1 .. MaxAlloc
            /\ m.heap = [h EXCEPT ![m.data] = [i \in 0 .. n - 1 |-> Junk]]
<1> DEFINE fresh == IF n \in 1 .. MaxAlloc THEN Addr \ Allocated(h) ELSE {}
           good == {[data |-> a, heap |-> [h EXCEPT ![a] = [i \in 0 .. n - 1 |-> Junk]]] :
                      a \in fresh}
           bad == {[data |-> x, heap |-> h] :
                     x \in IF fresh = {} \/ MallocMayFail THEN {NULL} ELSE {}}
<1>1. m \in good \cup bad
  BY Zenon DEF Malloc
<1>2. CASE m \in good
  <2>1. PICK a \in fresh :
          m = [data |-> a, heap |-> [h EXCEPT ![a] = [i \in 0 .. n - 1 |-> Junk]]]
    BY <1>2, Zenon
  <2>2. m.data = a /\ m.heap = [h EXCEPT ![a] = [i \in 0 .. n - 1 |-> Junk]]
    BY <2>1, Zenon
  <2> QED BY <2>1, <2>2, Zenon
<1>3. CASE m \in bad
  <2>1. PICK x \in {NULL} : m = [data |-> x, heap |-> h]
    BY <1>3, Zenon
  <2> QED BY <2>1, Zenon
<1> QED BY <1>1, <1>2, <1>3, Zenon

(* What malloc returned is a new region; the others are untouched. *)
LEMMA MallocGives ==
  ASSUME NEW h \in [Addr -> Image], NEW n \in Nat, NEW m \in Malloc(h, n),
         m.data # NULL
  PROVE  /\ m.data \in Addr \ Allocated(h)
         /\ n \in 1 .. MaxAlloc
         /\ m.heap \in [Addr -> Image]
         /\ m.heap[m.data] \in [0 .. n - 1 -> Cell]
         /\ \A a \in Addr : a # m.data => m.heap[a] = h[a]
         /\ Allocated(m.heap) = Allocated(h) \cup {m.data}
<1>1. /\ m.data \in Addr \ Allocated(h)
      /\ n \in 1 .. MaxAlloc
      /\ m.heap = [h EXCEPT ![m.data] = [i \in 0 .. n - 1 |-> Junk]]
  BY MallocFacts
<1> DEFINE new == [i \in 0 .. n - 1 |-> Junk]
<1>2. new \in [0 .. n - 1 -> Cell]
  BY DEF Cell
<1>3. new \in Image
  BY <1>1, <1>2, n \in 0 .. MaxAlloc, ImageIntro
<1>4. DOMAIN new # {}
  BY <1>1, <1>2, NonEmpty
<1> HIDE DEF new
<1>5. m.heap \in [Addr -> Image]
  BY <1>1, <1>3 DEF new
<1>6. m.heap[m.data] = new /\ \A a \in Addr : a # m.data => m.heap[a] = h[a]
  BY <1>1 DEF new
<1>7. Allocated(m.heap) = Allocated(h) \cup {m.data}
  BY <1>1, <1>4, <1>6 DEF Allocated
<1> QED BY <1>1, <1>2, <1>5, <1>6, <1>7

(* free makes an address available and leaves the others. *)
LEMMA FreeFacts ==
  ASSUME NEW h \in [Addr -> Image], NEW a \in Addr
  PROVE  /\ Free(h, a) \in [Addr -> Image]
         /\ Allocated(Free(h, a)) = Allocated(h) \ {a}
         /\ \A x \in Addr : x # a => Free(h, a)[x] = h[x]
BY NoImageFacts DEF Free, Allocated
=============================================================================
