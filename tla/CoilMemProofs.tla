---------------------------- MODULE CoilMemProofs ----------------------------
(***************************************************************************)
(* Proofs about CoilMem, for any number of threads, blocks and pages, any  *)
(* sizes and any pattern of failures.                                      *)
(*                                                                         *)
(* The invariant MemInv is inductive: the types, the blocks held, the      *)
(* mappings and the reasons of failures each need nothing but themselves   *)
(* and the types, and the mappings also that none of them is of a size     *)
(* that wrapped to 0 (coil_mmap gives that size to mmap(2), which refuses  *)
(* it).                                                                    *)
(***************************************************************************)
EXTENDS CoilMem, SectionBufferProofs

USE BufferAssumption, MemAssumption

(* The program does not reallocate a block to size 0. *)
Careful == "realloc to zero" \notin Liberties

(***************************************************************************)
(* Alignment                                                               *)
(***************************************************************************)

(* The quotient and remainder of a division. *)
LEMMA Division ==
  ASSUME NEW x \in Nat, NEW d \in Nat \ {0}
  PROVE  /\ x \div d \in Nat
         /\ x % d \in 0 .. d - 1
         /\ x = d * (x \div d) + (x % d)
BY Z3

(* The quotient is determined by its product. *)
LEMMA Quotient ==
  ASSUME NEW d \in Nat \ {0}, NEW q \in Nat, NEW r \in 0 .. d - 1
  PROVE  (d * q + r) \div d = q /\ (d * q + r) % d = r
BY Z3

(* Aligning down gives the multiple below. *)
LEMMA AlignDown ==
  ASSUME NEW x \in Nat, NEW d \in Nat \ {0}
  PROVE  /\ coil_align_down(x, d) = d * (x \div d)
         /\ coil_align_down(x, d) \in 0 .. x
         /\ coil_align_down(x, d) \div d = x \div d
<1>1. /\ x \div d \in Nat /\ x % d \in 0 .. d - 1
      /\ x = d * (x \div d) + (x % d)
  BY Division
<1> DEFINE q == x \div d
           r == x % d
<1>2. /\ q \in Nat /\ r \in 0 .. d - 1 /\ x = d * q + r /\ d * q \in Nat
      /\ coil_align_down(x, d) = x - r
  BY <1>1 DEF coil_align_down
<1>3. 0 \in 0 .. d - 1 /\ d * q + 0 = d * q
  BY <1>2
<1>4. (d * q) \div d = q
  BY <1>2, <1>3, Quotient
<1> HIDE DEF q, r
<1>5. coil_align_down(x, d) = d * q /\ coil_align_down(x, d) \in 0 .. x
  BY <1>2
<1> QED BY <1>4, <1>5 DEF q

(* The size that coil_mmap asks for: the pages that cover size bytes, or 0 *)
(* if the sum wraps.                                                       *)
LEMMA AlignedSize ==
  ASSUME NEW size \in Size, size # 0
  PROVE  LET aligned == coil_aligned_size(size, PageSize)
         IN  /\ aligned \in Nat
             /\ aligned # 0 =>
                  /\ aligned \div PageSize = (size + PageSize - 1) \div PageSize
                  /\ aligned \div PageSize \in Nat \ {0}
<1> DEFINE sum == Minus(Plus(size, PageSize), 1)
           aligned == coil_aligned_size(size, PageSize)
<1>1. aligned = coil_align_down(sum, PageSize)
  BY DEF coil_aligned_size, coil_align_up
<1>2. PageSize \in Nat \ {0} /\ size \in 1 .. SizeMod - 1 /\ SizeMod \in Nat
  BY DEF Size
<1>3. PageSize <= SizeMod
  <2>1. /\ SizeMod \div PageSize \in Nat
        /\ SizeMod = PageSize * (SizeMod \div PageSize) + (SizeMod % PageSize)
    BY <1>2, Division
  <2> DEFINE q == SizeMod \div PageSize
  <2>2. q \in Nat /\ SizeMod = PageSize * q
    BY <2>1, SizeMod % PageSize = 0, <1>2
  <2> HIDE DEF q
  <2>3. q # 0
    BY <2>2, <1>2
  <2> QED BY <2>2, <2>3, <1>2, Z3
<1>4. /\ sum \in Nat
      /\ \/ sum = size + PageSize - 1
         \/ sum < PageSize
  BY <1>2, <1>3 DEF Plus, Minus
<1>5. /\ aligned = PageSize * (sum \div PageSize)
      /\ aligned \in Nat
      /\ aligned \div PageSize = sum \div PageSize
  <2>1. sum \in Nat /\ PageSize \in Nat \ {0}
    BY <1>2, <1>4
  <2> HIDE DEF sum, aligned
  <2>2. /\ aligned = PageSize * (sum \div PageSize)
        /\ aligned \in 0 .. sum
        /\ aligned \div PageSize = sum \div PageSize
    BY <1>1, <2>1, AlignDown, Zenon
  <2> QED BY <2>1, <2>2
<1>6. CASE sum < PageSize
  <2>1. sum = PageSize * 0 + sum /\ sum \in 0 .. PageSize - 1
    BY <1>6, <1>4, <1>2
  <2>2. sum \div PageSize = 0
    BY <2>1, <1>2, Quotient
  <2>3. aligned = 0
    BY <1>5, <2>2, <1>2
  <2> QED BY <2>3
<1>7. CASE sum = size + PageSize - 1
  <2>1. sum \div PageSize \in Nat
    BY <1>4, <1>2, Division
  <2>2. aligned # 0 => sum \div PageSize # 0
    BY <1>5, <1>2
  <2> QED BY <1>5, <1>7, <2>1, <2>2
<1> QED BY <1>4, <1>6, <1>7

-----------------------------------------------------------------------------
(***************************************************************************)
(* The invariant                                                           *)
(***************************************************************************)

(* The mappings, and that each is one mmap(2) can have granted.            *)
Recorded ==
  /\ MappingsExact
  /\ \A m \in maps : m.size # 0 /\ coil_aligned_size(m.size, PageSize) # 0

MemInv == TypeOK /\ HeldIsLive /\ FailureExplained /\ FatalEnds /\ Recorded

(* How a call on memory returns to its thread. *)
Answered(t) ==
  \/ Succeed(t)
  \/ Fail(t, "INVAL", TRUE)
  \/ Fail(t, "NOMEM", FALSE)

(* A return explains a failure to its thread and to no other.              *)
LEMMA AnsweredStep ==
  ASSUME TypeOK, FailureExplained, NEW t \in Thread, Answered(t)
  PROVE  /\ coil_last_error' \in [Thread -> Err]
         /\ told' \in [Thread -> [null : BOOLEAN, zero : BOOLEAN]]
         /\ FailureExplained'
         /\ UNCHANGED logging
<1>1. CASE Succeed(t)
  <2>1. /\ told' = [told EXCEPT ![t] = [null |-> FALSE, zero |-> FALSE]]
        /\ UNCHANGED <<coil_last_error, logging>>
    BY <1>1 DEF Succeed
  <2> QED BY <2>1 DEF TypeOK, FailureExplained
<1>2. ASSUME NEW code \in {"INVAL", "NOMEM"}, NEW zero \in BOOLEAN,
             code = (IF zero THEN "INVAL" ELSE "NOMEM"), Fail(t, code, zero)
      PROVE  /\ coil_last_error' \in [Thread -> Err]
             /\ told' \in [Thread -> [null : BOOLEAN, zero : BOOLEAN]]
             /\ FailureExplained'
             /\ UNCHANGED logging
  <2>1. /\ told' = [told EXCEPT ![t] = [null |-> TRUE, zero |-> zero]]
        /\ coil_last_error' = [coil_last_error EXCEPT ![t] = code]
        /\ UNCHANGED logging
    BY <1>2 DEF Fail, coil_error_set
  <2>2. code \in Err
    BY DEF Err
  <2> QED BY <1>2, <2>1, <2>2 DEF TypeOK, FailureExplained
<1> QED BY <1>1, <1>2 DEF Answered

(***************************************************************************)
(* The heap                                                                *)
(***************************************************************************)

(* An allocation adds the new block, or nothing, to both accounts.         *)
LEMMA AllocateStep ==
  ASSUME TypeOK, HeldIsLive, NEW t \in Thread, NEW n \in Nat, Allocate(t, n)
  PROVE  /\ heap' \in [Addr -> Image]
         /\ HeldIsLive'
         /\ Answered(t)
         /\ UNCHANGED <<mapped, maps>>
<1>1. PICK m \in Malloc(heap, n) :
        /\ heap' = m.heap
        /\ IF m.data = NULL THEN held' = held /\ Fail(t, "NOMEM", FALSE)
           ELSE held' = held \cup {m.data} /\ Succeed(t)
        /\ UNCHANGED <<mapped, maps>>
  BY DEF Allocate
<1>2. heap \in [Addr -> Image]
  BY DEF TypeOK
<1>3. CASE m.data = NULL
  <2>1. heap' = heap
    BY <1>1, <1>2, <1>3, MallocFacts
  <2> QED BY <1>1, <1>2, <1>3, <2>1 DEF HeldIsLive, Answered
<1>4. CASE m.data # NULL
  <2>1. heap' \in [Addr -> Image] /\ Allocated(heap') = Allocated(heap) \cup {m.data}
    BY <1>1, <1>2, <1>4, MallocGives
  <2> QED BY <1>1, <1>4, <2>1 DEF HeldIsLive, Answered
<1> QED BY <1>3, <1>4

(* free of a block, or of NULL, takes just that block out of the heap.      *)
LEMMA FreeHeld ==
  ASSUME NEW h \in [Addr -> Image], NEW p \in Allocated(h) \cup {NULL}
  PROVE  LET rest == IF p = NULL THEN h ELSE Free(h, p)
         IN  rest \in [Addr -> Image] /\ Allocated(rest) = Allocated(h) \ {p}
<1>1. Allocated(h) \subseteq Addr
  BY DEF Allocated
<1>2. CASE p = NULL
  BY <1>1, <1>2
<1>3. CASE p # NULL
  <2>1. p \in Addr
    BY <1>1, <1>3
  <2> QED BY <2>1, <1>3, FreeFacts, Zenon
<1> QED BY <1>2, <1>3

(* coil_realloc to a size that is not 0 exchanges one block for another,   *)
(* or keeps it.                                                            *)
LEMMA ReallocStep ==
  ASSUME TypeOK, HeldIsLive, NEW t \in Thread, NEW p \in held \cup {NULL},
         NEW n \in Nat \ {0}, coil_realloc(t, p, n)
  PROVE  /\ heap' \in [Addr -> Image]
         /\ HeldIsLive'
         /\ Answered(t)
         /\ UNCHANGED <<mapped, maps>>
<1> DEFINE rest == IF p = NULL THEN heap ELSE Free(heap, p)
<1>1. PICK m \in Malloc(rest, n) :
        /\ heap' = IF m.data = NULL THEN heap ELSE m.heap
        /\ IF m.data = NULL THEN held' = held /\ Fail(t, "NOMEM", FALSE)
           ELSE held' = (held \ {p}) \cup {m.data} /\ Succeed(t)
        /\ UNCHANGED <<mapped, maps>>
  BY DEF coil_realloc
<1>2. heap \in [Addr -> Image] /\ held = Allocated(heap) /\ held \subseteq Addr
  BY DEF TypeOK, HeldIsLive
<1>3. rest \in [Addr -> Image] /\ Allocated(rest) = held \ {p}
  BY <1>2, FreeHeld, Zenon
<1> HIDE DEF rest
<1>4. CASE m.data = NULL
  BY <1>1, <1>2, <1>4 DEF HeldIsLive, Answered
<1>5. CASE m.data # NULL
  <2>1. m.heap \in [Addr -> Image] /\ Allocated(m.heap) = (held \ {p}) \cup {m.data}
    BY <1>1, <1>3, <1>5, MallocGives
  <2> QED BY <1>1, <1>5, <2>1 DEF HeldIsLive, Answered
<1> QED BY <1>4, <1>5

(* Every call on blocks keeps the accounts equal. *)
LEMMA BlocksStep ==
  ASSUME Careful, TypeOK, HeldIsLive, NEW t \in Thread, Blocks(t)
  PROVE  /\ heap' \in [Addr -> Image]
         /\ HeldIsLive'
         /\ Answered(t)
         /\ UNCHANGED <<mapped, maps>>
<1>1. heap \in [Addr -> Image] /\ held = Allocated(heap) /\ held \subseteq Addr
  BY DEF TypeOK, HeldIsLive
<1>2. ASSUME Refuse(t) PROVE /\ heap' \in [Addr -> Image]
                             /\ HeldIsLive'
                             /\ Answered(t)
                             /\ UNCHANGED <<mapped, maps>>
  BY <1>1, <1>2 DEF Refuse, memory, HeldIsLive, Answered
<1>3. CASE \E n \in 0 .. MaxAlloc + 1 : coil_malloc(t, n)
  BY <1>2, <1>3, AllocateStep DEF coil_malloc
<1>4. CASE \E nmemb, size \in 0 .. MaxAlloc : coil_calloc(t, nmemb, size)
  <2>1. PICK nmemb \in 0 .. MaxAlloc, size \in 0 .. MaxAlloc :
          coil_calloc(t, nmemb, size)
    BY <1>4
  <2>2. nmemb * size \in Nat
    BY <2>1
  <2> QED BY <1>2, <2>1, <2>2, AllocateStep DEF coil_calloc
<1>5. ASSUME NEW p \in held \cup {NULL}, coil_free(t, p)
      PROVE  /\ heap' \in [Addr -> Image]
             /\ HeldIsLive'
             /\ Answered(t)
             /\ UNCHANGED <<mapped, maps>>
  <2>1. /\ heap' = IF p = NULL THEN heap ELSE Free(heap, p)
        /\ held' = held \ {p}
        /\ UNCHANGED <<mapped, maps>>
        /\ Succeed(t)
    BY <1>5 DEF coil_free
  <2>2. heap' \in [Addr -> Image] /\ Allocated(heap') = held \ {p}
    BY <1>1, <2>1, FreeHeld, Zenon
  <2> QED BY <2>1, <2>2 DEF HeldIsLive, Answered
<1>6. ASSUME NEW p \in held \cup {NULL}, NEW n \in 0 .. MaxAlloc + 1,
             n # 0 \/ "realloc to zero" \in Liberties, coil_realloc(t, p, n)
      PROVE  /\ heap' \in [Addr -> Image]
             /\ HeldIsLive'
             /\ Answered(t)
             /\ UNCHANGED <<mapped, maps>>
  <2>1. n # 0
    BY <1>6, Zenon DEF Careful
  <2>2. n \in Nat \ {0}
    BY <2>1
  <2> QED BY <1>6, <2>2, ReallocStep
<1>7. CASE \E null \in BOOLEAN : MemoryFunction(t, null)
  <2>1. CASE Refuse(t)
    BY <1>2, <2>1
  <2>2. CASE Succeed(t) /\ UNCHANGED memory
    BY <1>1, <2>2 DEF memory, HeldIsLive, Answered
  <2> QED BY <1>7, <2>1, <2>2 DEF MemoryFunction
<1> QED BY <1>3, <1>4, <1>5, <1>6, <1>7 DEF Blocks

(***************************************************************************)
(* The mappings                                                            *)
(***************************************************************************)

(* The pages that a granted mmap covers are those of the size asked for.   *)
LEMMA CoveredPages ==
  ASSUME NEW m, m.size \in Size, m.size # 0, m.page \in Nat,
         coil_aligned_size(m.size, PageSize) # 0
  PROVE  /\ PagesOf(m.page, coil_aligned_size(m.size, PageSize)) = Covered(m)
         /\ Covered(m) # {}
<1> DEFINE k == coil_aligned_size(m.size, PageSize) \div PageSize
<1>1. k = (m.size + PageSize - 1) \div PageSize /\ k \in Nat \ {0}
  BY AlignedSize
<1>2. /\ PagesOf(m.page, coil_aligned_size(m.size, PageSize)) = m.page .. m.page + k - 1
      /\ Covered(m) = m.page .. m.page + k - 1
  BY <1>1 DEF PagesOf, Covered
<1> HIDE DEF k
<1>3. m.page \in m.page .. m.page + k - 1
  BY <1>1
<1> QED BY <1>2, <1>3

(* A new mapping takes free pages, and is recorded once. *)
LEMMA MmapStep ==
  ASSUME TypeOK, Recorded, NEW t \in Thread, NEW size \in MapSizes,
         NEW alignment \in Alignments, coil_mmap(t, size, alignment)
  PROVE  /\ mapped' \subseteq 0 .. Pages - 1
         /\ maps' \subseteq [page : 0 .. Pages - 1, size : MapSizes,
                             alignment : Alignments]
         /\ Recorded'
         /\ Answered(t)
         /\ UNCHANGED <<heap, held>>
<1> DEFINE aligned == coil_aligned_size(size, PageSize)
<1>1. /\ mapped \subseteq 0 .. Pages - 1
      /\ maps \subseteq [page : 0 .. Pages - 1, size : MapSizes,
                         alignment : Alignments]
  BY DEF TypeOK
<1>2. CASE UNCHANGED memory /\ Answered(t)
  BY <1>1, <1>2 DEF memory, Recorded, MappingsExact
<1>3. ASSUME size # 0, NEW page \in Room(aligned),
             mapped' = mapped \cup PagesOf(page, aligned),
             maps' = maps \cup
               {[page |-> page, size |-> size, alignment |-> alignment]},
             Succeed(t), UNCHANGED <<heap, held>>
      PROVE  /\ mapped' \subseteq 0 .. Pages - 1
             /\ maps' \subseteq [page : 0 .. Pages - 1, size : MapSizes,
                                 alignment : Alignments]
             /\ Recorded'
             /\ Answered(t)
             /\ UNCHANGED <<heap, held>>
  <2> DEFINE new == [page |-> page, size |-> size, alignment |-> alignment]
  <2>1. /\ page \in 0 .. Pages - 1
        /\ aligned # 0
        /\ PagesOf(page, aligned) \subseteq (0 .. Pages - 1) \ mapped
    BY <1>3 DEF Room
  <2>2. /\ new.page = page /\ new.size = size
        /\ new \in [page : 0 .. Pages - 1, size : MapSizes, alignment : Alignments]
    BY <2>1
  <2>3. page \in Nat /\ size \in Size
    BY <2>1
  <2> HIDE DEF new
  <2>4. PagesOf(page, aligned) = Covered(new) /\ Covered(new) # {}
    BY <1>3, <2>1, <2>2, <2>3, CoveredPages
  <2>5. /\ maps' = maps \cup {new}
        /\ mapped' = mapped \cup Covered(new)
        /\ Covered(new) \cap mapped = {}
    BY <1>3, <2>1, <2>4, Zenon DEF new
  <2>6. mapped = UNION {Covered(m) : m \in maps}
    BY DEF Recorded, MappingsExact
  <2>7. mapped' = UNION {Covered(m) : m \in maps'}
    BY <2>5, <2>6
  <2>8. ASSUME NEW m1 \in maps', NEW m2 \in maps', m1 # m2
        PROVE  Covered(m1) \cap Covered(m2) = {}
    <3>1. CASE m1 \in maps /\ m2 \in maps
      BY <2>8, <3>1, Zenon DEF Recorded, MappingsExact
    <3>2. CASE m1 = new /\ m2 \in maps
      <4>1. Covered(m2) \subseteq mapped
        BY <2>6, <3>2
      <4> QED BY <2>5, <3>2, <4>1
    <3>3. CASE m1 \in maps /\ m2 = new
      <4>1. Covered(m1) \subseteq mapped
        BY <2>6, <3>3
      <4> QED BY <2>5, <3>3, <4>1
    <3> QED BY <2>5, <2>8, <3>1, <3>2, <3>3
  <2>9. \A m \in maps' : m.size # 0 /\ coil_aligned_size(m.size, PageSize) # 0
    BY <1>3, <2>1, <2>2, <2>5, Zenon DEF Recorded
  <2>10. MappingsExact'
    BY <2>7, <2>8, Zenon DEF MappingsExact, Covered
  <2>11. Recorded'
    BY <2>9, <2>10 DEF Recorded
  <2>12. mapped' \subseteq 0 .. Pages - 1
    BY <1>1, <2>1, <2>4, <2>5
  <2> QED BY <1>1, <1>3, <2>2, <2>5, <2>11, <2>12, Zenon DEF Answered
<1>4. CASE size = 0
  BY <1>2, <1>4 DEF coil_mmap, Refuse, Answered
<1>5. CASE size # 0
  <2>1. \/ Fail(t, "NOMEM", FALSE) /\ UNCHANGED memory
        \/ \E page \in Room(aligned) :
             /\ mapped' = mapped \cup PagesOf(page, aligned)
             /\ maps' = maps \cup
                  {[page |-> page, size |-> size, alignment |-> alignment]}
             /\ Succeed(t)
             /\ UNCHANGED <<heap, held>>
    BY <1>5, Zenon DEF coil_mmap
  <2> HIDE DEF aligned
  <2> QED BY <1>2, <1>3, <1>5, <2>1, Zenon DEF Answered
<1> QED BY <1>4, <1>5

(* A mapping that is given back takes its own pages with it, and no other; *)
(* if munmap fails, nothing changes.                                       *)
LEMMA MunmapStep ==
  ASSUME TypeOK, Recorded, NEW t \in Thread, NEW m \in maps, coil_munmap(t, m)
  PROVE  /\ mapped' \subseteq 0 .. Pages - 1
         /\ maps' \subseteq [page : 0 .. Pages - 1, size : MapSizes,
                             alignment : Alignments]
         /\ Recorded'
         /\ Answered(t)
         /\ UNCHANGED <<heap, held>>
<1>0. CASE Refuse(t)
  BY <1>0 DEF Refuse, memory, TypeOK, Recorded, MappingsExact, Answered
<1> SUFFICES ASSUME ~Refuse(t)
             PROVE  /\ mapped' \subseteq 0 .. Pages - 1
                    /\ maps' \subseteq [page : 0 .. Pages - 1, size : MapSizes,
                                        alignment : Alignments]
                    /\ Recorded'
                    /\ Answered(t)
                    /\ UNCHANGED <<heap, held>>
  BY <1>0
<1>1. /\ mapped' = mapped \ PagesOf(m.page, coil_aligned_size(m.size, PageSize))
      /\ maps' = maps \ {m}
      /\ Succeed(t)
      /\ UNCHANGED <<heap, held>>
  BY DEF coil_munmap
<1>2. /\ mapped \subseteq 0 .. Pages - 1
      /\ maps \subseteq [page : 0 .. Pages - 1, size : MapSizes,
                         alignment : Alignments]
  BY DEF TypeOK
<1>3. m.page \in Nat /\ m.size \in Size
  BY <1>2
<1>4. m.size # 0 /\ coil_aligned_size(m.size, PageSize) # 0
  BY DEF Recorded
<1>5. mapped' = mapped \ Covered(m)
  BY <1>1, <1>3, <1>4, CoveredPages
<1>6. /\ mapped = UNION {Covered(x) : x \in maps}
      /\ \A x \in maps : x # m => Covered(x) \cap Covered(m) = {}
  BY Zenon DEF Recorded, MappingsExact
<1>7. mapped' = UNION {Covered(x) : x \in maps'}
  BY <1>1, <1>5, <1>6
<1>8. MappingsExact'
  BY <1>1, <1>7, Zenon DEF Recorded, MappingsExact, Covered
<1>9. Recorded'
  BY <1>1, <1>8 DEF Recorded
<1> QED BY <1>1, <1>2, <1>9 DEF Answered

-----------------------------------------------------------------------------
(***************************************************************************)
(* The steps together                                                      *)
(***************************************************************************)

(* Every call on mappings keeps the record of them exact. *)
LEMMA MappingsStep ==
  ASSUME TypeOK, Recorded, NEW t \in Thread, Mappings(t)
  PROVE  /\ mapped' \subseteq 0 .. Pages - 1
         /\ maps' \subseteq [page : 0 .. Pages - 1, size : MapSizes,
                             alignment : Alignments]
         /\ Recorded'
         /\ Answered(t)
         /\ UNCHANGED <<heap, held>>
<1>1. CASE \E size \in MapSizes, alignment \in Alignments :
             coil_mmap(t, size, alignment)
  BY <1>1, MmapStep
<1>2. CASE \E m \in maps : coil_munmap(t, m)
  BY <1>2, MunmapStep
<1>3. CASE Refuse(t)
  BY <1>3 DEF Refuse, memory, TypeOK, Recorded, MappingsExact, Answered
<1> QED BY <1>1, <1>2, <1>3 DEF Mappings

(* Logging and the client's own errors touch no memory, and only a fatal   *)
(* error ends the program.                                                 *)
LEMMA ReportingStep ==
  ASSUME MemInv, running, NEW t \in Thread, Reporting(t)
  PROVE  MemInv'
<1>1. TypeOK /\ HeldIsLive /\ FailureExplained /\ FatalEnds /\ Recorded /\ ~fatal
  BY Zenon DEF MemInv, FatalEnds
<1>2. ASSUME UNCHANGED memory PROVE HeldIsLive' /\ Recorded'
  BY <1>1, <1>2 DEF memory, HeldIsLive, Recorded, MappingsExact
<1>3. CASE \E code \in {"GOOD", "IO"} : ErrorSet(t, code)
  <2>1. PICK code \in {"GOOD", "IO"} :
          /\ coil_last_error' = [coil_last_error EXCEPT ![t] = code]
          /\ told' = [told EXCEPT ![t] = [null |-> FALSE, zero |-> FALSE]]
          /\ UNCHANGED <<memory, logging>>
    BY <1>3 DEF ErrorSet, coil_error_set
  <2>2. code \in Err
    BY DEF Err
  <2>3. TypeOK'
    BY <1>1, <2>1, <2>2 DEF TypeOK, memory, logging
  <2>4. FailureExplained'
    BY <1>1, <2>1 DEF TypeOK, FailureExplained
  <2>5. FatalEnds'
    BY <1>1, <2>1, Zenon DEF FatalEnds, logging
  <2> QED BY <1>2, <2>1, <2>3, <2>4, <2>5 DEF MemInv
<1>4. CASE \E level \in 0 .. FATAL + 1 : coil_log_set_level(t, level)
  <2>1. PICK level \in 0 .. FATAL + 1 :
          /\ coil_current_log_level' =
               IF level <= FATAL THEN level ELSE coil_current_log_level
          /\ UNCHANGED <<memory, coil_last_error, told, fatal, running>>
    BY <1>4 DEF coil_log_set_level
  <2>2. TypeOK'
    BY <1>1, <2>1 DEF TypeOK, memory, FATAL
  <2>3. FailureExplained' /\ FatalEnds'
    BY <1>1, <2>1, Zenon DEF FailureExplained, FatalEnds
  <2> QED BY <1>2, <2>1, <2>2, <2>3 DEF MemInv
<1>5. CASE \E level \in 0 .. FATAL + 1 : coil_log(t, level)
  <2>1. PICK level \in 0 .. FATAL + 1 :
          /\ running' = ~(level >= coil_current_log_level /\ level = FATAL)
          /\ fatal' = (level = FATAL)
          /\ UNCHANGED <<memory, coil_last_error, told, coil_current_log_level>>
    BY <1>5 DEF coil_log
  <2>2. coil_current_log_level \in 0 .. FATAL
    BY <1>1 DEF TypeOK
  <2>3. level = FATAL => level >= coil_current_log_level
    BY <2>2 DEF FATAL
  <2>4. FatalEnds'
    BY <2>1, <2>3, Zenon DEF FatalEnds
  <2>5. running' \in BOOLEAN /\ fatal' \in BOOLEAN
    BY <2>1, Zenon
  <2>6. TypeOK' /\ FailureExplained'
    BY <1>1, <2>1, <2>5, Zenon DEF TypeOK, FailureExplained, memory
  <2> QED BY <1>2, <2>1, <2>4, <2>6 DEF MemInv
<1> QED BY <1>3, <1>4, <1>5 DEF Reporting

(* The program starts in the invariant. *)
LEMMA InitMemInv == Init => MemInv
<1> SUFFICES ASSUME Init PROVE MemInv
  OBVIOUS
<1>1. Allocated(heap) = {} /\ heap \in [Addr -> Image]
  BY NoImageFacts DEF Init, Allocated
<1>2. TypeOK
  <2>1. coil_current_log_level \in 0 .. FATAL
    BY DEF Init, FATAL
  <2>2. /\ coil_last_error \in [Thread -> Err]
        /\ told \in [Thread -> [null : BOOLEAN, zero : BOOLEAN]]
    BY DEF Init, Err
  <2> QED BY <1>1, <2>1, <2>2, Zenon DEF Init, TypeOK
<1>3. HeldIsLive /\ FailureExplained /\ FatalEnds
  BY <1>1 DEF Init, HeldIsLive, FailureExplained, FatalEnds
<1>4. Recorded
  BY DEF Init, Recorded, MappingsExact
<1> QED BY <1>2, <1>3, <1>4 DEF MemInv

(* And stays in it. *)
LEMMA StepMemInv == Careful /\ MemInv /\ [Next]_vars => MemInv'
<1> SUFFICES ASSUME Careful, MemInv, [Next]_vars PROVE MemInv'
  OBVIOUS
<1>1. TypeOK /\ HeldIsLive /\ FailureExplained /\ FatalEnds /\ Recorded
  BY Zenon DEF MemInv
<1>2. CASE UNCHANGED vars
  <2>1. TypeOK' /\ HeldIsLive' /\ FailureExplained' /\ FatalEnds'
    BY <1>1, <1>2, Zenon
       DEF vars, TypeOK, HeldIsLive, FailureExplained, FatalEnds
  <2>2. Recorded'
    BY <1>1, <1>2 DEF vars, Recorded, MappingsExact
  <2> QED BY <2>1, <2>2 DEF MemInv
<1>3. ASSUME NEW t \in Thread, running, Blocks(t) PROVE MemInv'
  <2>1. /\ heap' \in [Addr -> Image] /\ HeldIsLive' /\ Answered(t)
        /\ UNCHANGED <<mapped, maps>>
    BY <1>1, <1>3, BlocksStep
  <2>2. /\ coil_last_error' \in [Thread -> Err]
        /\ told' \in [Thread -> [null : BOOLEAN, zero : BOOLEAN]]
        /\ FailureExplained'
        /\ UNCHANGED logging
    BY <1>1, <2>1, AnsweredStep
  <2>3. held' \subseteq Addr
    BY <2>1 DEF HeldIsLive, Allocated
  <2>4. TypeOK' /\ FatalEnds'
    BY <1>1, <2>1, <2>2, <2>3, Zenon DEF TypeOK, FatalEnds, logging
  <2>5. Recorded'
    BY <1>1, <2>1 DEF Recorded, MappingsExact
  <2> QED BY <2>1, <2>2, <2>4, <2>5 DEF MemInv
<1>4. ASSUME NEW t \in Thread, running, Mappings(t) PROVE MemInv'
  <2>1. /\ mapped' \subseteq 0 .. Pages - 1
        /\ maps' \subseteq [page : 0 .. Pages - 1, size : MapSizes,
                            alignment : Alignments]
        /\ Recorded' /\ Answered(t)
        /\ UNCHANGED <<heap, held>>
    BY <1>1, <1>4, MappingsStep
  <2>2. /\ coil_last_error' \in [Thread -> Err]
        /\ told' \in [Thread -> [null : BOOLEAN, zero : BOOLEAN]]
        /\ FailureExplained'
        /\ UNCHANGED logging
    BY <1>1, <2>1, AnsweredStep
  <2>3. TypeOK' /\ FatalEnds' /\ HeldIsLive'
    BY <1>1, <2>1, <2>2, Zenon DEF TypeOK, FatalEnds, HeldIsLive, logging
  <2> QED BY <2>1, <2>2, <2>3 DEF MemInv
<1>5. ASSUME NEW t \in Thread, running, Reporting(t) PROVE MemInv'
  BY <1>5, ReportingStep
<1>6. CASE \E t \in Thread : Calls(t)
  BY <1>3, <1>4, <1>5, <1>6, Zenon DEF Calls
<1> QED BY <1>2, <1>6, Zenon DEF Next, Exited

(* The invariant holds in every state of every careful program. *)
THEOREM Invariance == Careful => (Spec => []MemInv)
<1>1. Careful \in BOOLEAN
  BY DEF Careful
<1>2. CASE Careful
  <2>1. MemInv /\ [Next]_vars => MemInv'
    BY <1>2, StepMemInv
  <2> QED BY <2>1, InitMemInv, PTL DEF Spec
<1> QED BY <1>2

(***************************************************************************)
(* The theorems                                                            *)
(***************************************************************************)

(* Every variable keeps its type. *)
THEOREM TypeCorrect == Careful => (Spec => []TypeOK)
<1>1. MemInv => TypeOK
  BY DEF MemInv
<1> QED BY <1>1, Invariance, PTL

(* A program that never reallocates to size 0 has exactly the blocks of    *)
(* the heap: none is leaked, none is used after it is gone.                *)
THEOREM NoBlockLost == Careful => (Spec => []HeldIsLive)
<1>1. MemInv => HeldIsLive
  BY DEF MemInv
<1> QED BY <1>1, Invariance, PTL

(* For every size and page size, a mapping is as long as was asked for,    *)
(* overlaps no other and is given back whole.                              *)
THEOREM MappingsAreExact == Careful => (Spec => []MappingsExact)
<1>1. MemInv => MappingsExact
  BY DEF MemInv, Recorded
<1> QED BY <1>1, Invariance, PTL

(* A thread that is told NULL has the reason in its last error, whatever   *)
(* the other threads do.                                                   *)
THEOREM FailuresExplained == Careful => (Spec => []FailureExplained)
<1>1. MemInv => FailureExplained
  BY DEF MemInv
<1> QED BY <1>1, Invariance, PTL

(* The program ends by a fatal error and by nothing else. *)
THEOREM FatalAlwaysEnds == Careful => (Spec => []FatalEnds)
<1>1. MemInv => FatalEnds
  BY DEF MemInv
<1> QED BY <1>1, Invariance, PTL
=============================================================================
