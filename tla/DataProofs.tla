------------------------------ MODULE DataProofs ------------------------------
(***************************************************************************)
(* Facts about numbers and sequences that the proofs of the components     *)
(* need.  Induction goes by the least element of a set of numbers: the set *)
(* of the counterexamples.                                                 *)
(***************************************************************************)
EXTENDS Integers, SequencesExt, FiniteSetsExt, WellFoundedInduction, TLAPS

Before == {p \in Nat \X Nat : p[1] < p[2]}

(* Every set of natural numbers has a least element. *)
LEMMA LeastNatural ==
  ASSUME NEW T \in SUBSET Nat, T # {}
  PROVE  \E x \in T : \A y \in T : x <= y
<1>1. OpToRel(<, Nat) = Before
  BY DEF OpToRel, Before
<1>2. IsWellFoundedOn(Before, Nat)
  BY <1>1, NatLessThanWellFounded
<1>3. PICK x \in T : \A y \in T : ~ (<<y, x>> \in Before)
  BY <1>2, WFMin
<1>4. ASSUME NEW y \in T PROVE x <= y
  <2>1. x \in Nat /\ y \in Nat /\ <<y, x>> \notin Before
    BY <1>3
  <2>2. ~ (y < x)
    BY <2>1 DEF Before
  <2> QED BY <2>1, <2>2
<1> QED BY <1>4

(* Min of FiniteSetsExt is the least element of a set of numbers. *)
LEMMA MinFacts ==
  ASSUME NEW T \in SUBSET Nat, T # {}
  PROVE  Min(T) \in T /\ \A y \in T : Min(T) <= y
BY LeastNatural DEF Min

(* Max of FiniteSetsExt is the greatest, if there is a bound. *)
LEMMA MaxFacts ==
  ASSUME NEW T \in SUBSET Nat, T # {}, NEW b \in Nat, \A y \in T : y <= b
  PROVE  Max(T) \in T /\ \A y \in T : y <= Max(T)
<1> DEFINE U == {b - y : y \in T}
<1>1. U \in SUBSET Nat /\ U # {}
  OBVIOUS
<1> HIDE DEF U
<1>2. PICK u \in U : \A v \in U : u <= v
  BY <1>1, LeastNatural
<1>3. PICK x \in T : u = b - x
  BY <1>2 DEF U
<1>4. ASSUME NEW y \in T PROVE y <= x
  <2>1. b - y \in U
    BY DEF U
  <2>2. b - x <= b - y
    BY <1>2, <1>3, <2>1
  <2> QED BY <2>2
<1>5. \A y \in T : x >= y
  BY <1>4
<1>6. Max(T) \in T /\ \A y \in T : Max(T) >= y
  BY <1>5 DEF Max
<1> QED BY <1>6

(* Induction: a set that has m, and with each number below n the next,     *)
(* holds them all.                                                         *)
LEMMA UpTo ==
  ASSUME NEW m \in Nat, NEW n \in Nat, NEW T,
         m \in T, \A k \in m .. n - 1 : k \in T => k + 1 \in T
  PROVE  \A k \in m .. n : k \in T
<1> DEFINE U == {k \in m .. n : k \notin T}
<1> SUFFICES ASSUME U # {} PROVE FALSE
  OBVIOUS
<1>1. PICK x \in U : \A y \in U : x <= y
  <2>1. U \in SUBSET Nat
    OBVIOUS
  <2> HIDE DEF U
  <2> QED BY <2>1, LeastNatural
<1>2. x # m /\ x \in m .. n /\ x \notin T
  BY <1>1
<1>3. x - 1 \in m .. n - 1
  BY <1>2
<1>4. x - 1 \in T
  <2>1. x - 1 \in U => x <= x - 1
    BY <1>1
  <2> QED BY <2>1, <1>2, <1>3
<1>5. (x - 1) + 1 \in T
  BY <1>3, <1>4
<1> QED BY <1>2, <1>5

Steps(S, n) == [1 .. n -> [S -> S]]

(* What is defined by recursion from 1 to n exists. *)
LEMMA Recursion ==
  ASSUME NEW S, NEW n \in Nat \ {0}, NEW first \in S, NEW step \in Steps(S, n)
  PROVE  \E f \in [1 .. n -> S] :
           f[1] = first /\ \A i \in 2 .. n : f[i] = step[i][f[i - 1]]
<1> USE DEF Steps
<1> DEFINE Solves(f, k) ==
             /\ f \in [1 .. k -> S]
             /\ f[1] = first
             /\ \A i \in 2 .. k : f[i] = step[i][f[i - 1]]
           T == {k \in Nat : \E f : Solves(f, k)}
<1>1. 1 \in T
  <2>1. Solves([i \in 1 .. 1 |-> first], 1)
    OBVIOUS
  <2> QED BY <2>1
<1>2. ASSUME NEW k \in 1 .. n - 1, k \in T PROVE k + 1 \in T
  <2>1. PICK f : Solves(f, k)
    BY <1>2
  <2> DEFINE v == step[k + 1][f[k]]
             g == [i \in 1 .. k + 1 |-> IF i = k + 1 THEN v ELSE f[i]]
  <2>2. v \in S
    BY <2>1
  <2>3. g \in [1 .. k + 1 -> S] /\ g[1] = first
    <3> HIDE DEF v
    <3> QED BY <2>1, <2>2
  <2>4. ASSUME NEW i \in 2 .. k + 1 PROVE g[i] = step[i][g[i - 1]]
    <3>1. g[i - 1] = f[i - 1]
      OBVIOUS
    <3>2. CASE i = k + 1
      <4>1. g[i] = v /\ i - 1 = k
        BY <3>2
      <4> HIDE DEF g
      <4> QED BY <3>1, <3>2, <4>1
    <3>3. CASE i \in 2 .. k
      <4>1. g[i] = f[i]
        BY <3>3
      <4> QED BY <2>1, <3>1, <3>3, <4>1
    <3> QED BY <3>2, <3>3
  <2>5. Solves(g, k + 1)
    BY <2>3, <2>4
  <2>6. k + 1 \in Nat
    OBVIOUS
  <2> HIDE DEF Solves, g
  <2> QED BY <2>5, <2>6
<1>3. n \in T
  <2> HIDE DEF T
  <2>1. \A k \in 1 .. n : k \in T
    BY <1>1, <1>2, UpTo
  <2> QED BY <2>1
<1> QED BY <1>3

(* The concatenations of the first of some sequences, of the first two, ... *)
Concatenations(flat, seqs, n, S) ==
  /\ flat[1] = seqs[1]
  /\ \A k \in 1 .. n - 1 : flat[k + 1] = flat[k] \o seqs[k + 1]
  /\ \A k \in 1 .. n : flat[k] \in Seq(S)

Pieces(S, n) == [1 .. n -> Seq(S)]

(* FlattenSeq is defined by recursion along the sequence of sequences.     *)
LEMMA FlattenedSteps ==
  ASSUME NEW S, NEW n \in Nat \ {0}, NEW seqs \in Pieces(S, n)
  PROVE  \E flat : Concatenations(flat, seqs, n, S) /\ FlattenSeq(seqs) = flat[n]
<1> USE DEF Pieces
<1>0. Len(seqs) = n /\ n # 0
  OBVIOUS
<1> DEFINE SS == Seq(S)
           step == [i \in 1 .. n |-> [x \in SS |-> x \o seqs[i]]]
           Flat(f) == [i \in 1 .. n |-> IF i = 1 THEN seqs[i] ELSE f[i - 1] \o seqs[i]]
           flat == CHOOSE f : f = Flat(f)
<1>1. \A x \in SS, y \in SS : x \o y \in SS
  OBVIOUS
<1>2. step \in [1 .. n -> [SS -> SS]] /\ seqs[1] \in SS
  <2>1. seqs \in [1 .. n -> SS]
    OBVIOUS
  <2> HIDE DEF SS
  <2> QED BY <1>1, <2>1
<1>3. PICK g \in [1 .. n -> SS] :
        g[1] = seqs[1] /\ \A i \in 2 .. n : g[i] = step[i][g[i - 1]]
  <2> DEFINE first == seqs[1]
  <2>1. n \in Nat \ {0}
    OBVIOUS
  <2>2. first \in SS /\ step \in Steps(SS, n)
    BY <1>2 DEF Steps
  <2> HIDE DEF step, SS, first
  <2>3. \E g \in [1 .. n -> SS] :
          g[1] = first /\ \A i \in 2 .. n : g[i] = step[i][g[i - 1]]
    BY ONLY <2>1, <2>2, Recursion
  <2> QED BY <2>3 DEF first
<1>4. g = Flat(g)
  <2>1. ASSUME NEW i \in 1 .. n PROVE g[i] = Flat(g)[i]
    <3>1. CASE i = 1
      BY <1>3, <3>1
    <3>2. CASE i # 1
      <4> HIDE DEF SS
      <4>0. i \in 2 .. n /\ i - 1 \in 1 .. n
        BY <3>2
      <4>1. g[i] = step[i][g[i - 1]]
        <5> HIDE DEF step
        <5> QED BY <1>3, <4>0
      <4>2. g[i - 1] \in SS
        BY <4>0
      <4> QED BY <4>1, <4>2, <3>2
    <3> QED BY <3>1, <3>2
  <2> QED BY <2>1
<1>5. flat = Flat(flat)
  <2> HIDE DEF Flat
  <2> QED BY <1>4
<1>6. FlattenSeq(seqs) = flat[n]
  BY <1>0 DEF FlattenSeq, flat
<1> HIDE DEF flat
<1>7. flat[1] = seqs[1]
  BY <1>5
<1>8. ASSUME NEW k \in 1 .. n - 1 PROVE flat[k + 1] = flat[k] \o seqs[k + 1]
  <2>1. k + 1 \in 1 .. n /\ k + 1 # 1 /\ (k + 1) - 1 = k
    OBVIOUS
  <2>2. flat[k + 1] = Flat(flat)[k + 1]
    BY <1>5
  <2>3. Flat(flat)[k + 1] = flat[(k + 1) - 1] \o seqs[k + 1]
    BY <2>1
  <2> QED BY <2>1, <2>2, <2>3
<1> DEFINE V == {k \in Nat : flat[k] \in SS}
<1>9. 1 \in V
  BY <1>2, <1>7
<1>10. ASSUME NEW k \in 1 .. n - 1, k \in V PROVE k + 1 \in V
  <2>1. flat[k] \in SS /\ seqs[k + 1] \in SS /\ k + 1 \in Nat
    BY <1>10
  <2>2. flat[k + 1] \in SS
    <3> HIDE DEF SS
    <3> QED BY <1>1, <1>8, <2>1
  <2> QED BY <2>1, <2>2
<1>11. \A k \in 1 .. n : k \in V
  <2> HIDE DEF V
  <2> QED BY <1>9, <1>10, UpTo
<1> QED BY <1>6, <1>7, <1>8, <1>11 DEF Concatenations

(* A concatenation of sequences over S is one. *)
LEMMA FlattenedIsSeq ==
  ASSUME NEW S, NEW n \in Nat, NEW seqs \in [1 .. n -> Seq(S)]
  PROVE  FlattenSeq(seqs) \in Seq(S)
<1>1. CASE n = 0
  <2>1. Len(seqs) = 0
    BY <1>1
  <2> QED BY <2>1 DEF FlattenSeq
<1>2. CASE n # 0
  <2>1. n \in Nat \ {0} /\ n \in 1 .. n /\ seqs \in Pieces(S, n)
    BY <1>2 DEF Pieces
  <2>2. PICK flat : Concatenations(flat, seqs, n, S) /\ FlattenSeq(seqs) = flat[n]
    BY ONLY <2>1, FlattenedSteps
  <2> QED BY <2>1, <2>2 DEF Concatenations
<1> QED BY <1>1, <1>2

(* What is in one of the sequences is in the concatenation. *)
LEMMA FlattenedHas ==
  ASSUME NEW S, NEW n \in Nat, NEW seqs \in [1 .. n -> Seq(S)],
         NEW j \in 1 .. n, NEW k \in 1 .. Len(seqs[j])
  PROVE  \E w \in 1 .. Len(FlattenSeq(seqs)) : FlattenSeq(seqs)[w] = seqs[j][k]
<1>0. n \in Nat \ {0} /\ n \in 1 .. n /\ j \in Nat /\ seqs \in Pieces(S, n)
  BY DEF Pieces
<1>1. PICK flat : Concatenations(flat, seqs, n, S) /\ FlattenSeq(seqs) = flat[n]
  BY ONLY <1>0, FlattenedSteps
<1>2. /\ flat[1] = seqs[1]
      /\ \A i \in 1 .. n - 1 : flat[i + 1] = flat[i] \o seqs[i + 1]
      /\ \A i \in 1 .. n : flat[i] \in Seq(S)
      /\ FlattenSeq(seqs) = flat[n]
  BY <1>1 DEF Concatenations
<1> DEFINE e == seqs[j][k]
           V == {i \in Nat : \E w \in 1 .. Len(flat[i]) : flat[i][w] = e}
<1>3. j \in V
  <2>1. CASE j = 1
    BY <1>2, <2>1
  <2>2. CASE j # 1
    <3>1. j - 1 \in 1 .. n - 1 /\ j - 1 \in 1 .. n /\ (j - 1) + 1 = j
      BY <2>2
    <3>2. flat[j] = flat[j - 1] \o seqs[j] /\ flat[j - 1] \in Seq(S) /\ seqs[j] \in Seq(S)
      BY <1>2, <3>1
    <3> DEFINE w == Len(flat[j - 1]) + k
    <3>3. w \in 1 .. Len(flat[j]) /\ flat[j][w] = seqs[j][k]
      <4> DEFINE a == flat[j - 1]
                 b == seqs[j]
      <4>1. a \in Seq(S) /\ b \in Seq(S) /\ flat[j] = a \o b /\ k \in 1 .. Len(b)
        BY <3>2
      <4> HIDE DEF a, b
      <4>2. Len(a) + k \in 1 .. Len(a \o b) /\ (a \o b)[Len(a) + k] = b[k]
        BY ONLY <4>1
      <4> QED BY <4>1, <4>2 DEF a, b
    <3> HIDE DEF w
    <3> QED BY <3>3
  <2> QED BY <2>1, <2>2
<1>4. ASSUME NEW i \in j .. n - 1, i \in V PROVE i + 1 \in V
  <2>1. PICK w \in 1 .. Len(flat[i]) : flat[i][w] = e
    BY <1>4
  <2>2. i \in 1 .. n - 1 /\ i \in 1 .. n /\ i + 1 \in 1 .. n
    OBVIOUS
  <2>3. /\ flat[i + 1] = flat[i] \o seqs[i + 1]
        /\ flat[i] \in Seq(S) /\ seqs[i + 1] \in Seq(S)
    BY <1>2, <2>2
  <2>4. w \in 1 .. Len(flat[i + 1]) /\ flat[i + 1][w] = e
    <3> HIDE DEF e, V
    <3> DEFINE a == flat[i]
               b == seqs[i + 1]
    <3>1. a \in Seq(S) /\ b \in Seq(S) /\ w \in 1 .. Len(a) /\ a[w] = e
      BY <2>1, <2>3
    <3> HIDE DEF a, b
    <3>2. w \in 1 .. Len(a \o b) /\ (a \o b)[w] = a[w]
      BY ONLY <3>1
    <3> QED BY <2>3, <3>1, <3>2 DEF a, b
  <2> HIDE DEF e
  <2> QED BY <2>4
<1>5. n \in V
  <2> HIDE DEF V
  <2>1. \A i \in j .. n : i \in V
    BY <1>0, <1>3, <1>4, UpTo
  <2> QED BY <2>1
<1> QED BY <1>2, <1>5

(* A function from 1 .. n is a sequence of length n. *)
LEMMA FunctionIsSeq ==
  ASSUME NEW S, NEW n \in Nat, NEW f \in [1 .. n -> S]
  PROVE  f \in Seq(S) /\ Len(f) = n
OBVIOUS

LEMMA SeqIsFunction ==
  ASSUME NEW S, NEW s \in Seq(S)
  PROVE  Len(s) \in Nat /\ s \in [1 .. Len(s) -> S] /\ DOMAIN s = 1 .. Len(s)
OBVIOUS

(* What SequencesExt!RemoveAt returns: the elements behind i move down. *)
LEMMA RemoveAtFacts ==
  ASSUME NEW S, NEW s \in Seq(S), NEW i \in 1 .. Len(s)
  PROVE  /\ RemoveAt(s, i) \in Seq(S)
         /\ Len(RemoveAt(s, i)) = Len(s) - 1
         /\ \A j \in 1 .. Len(s) - 1 :
              RemoveAt(s, i)[j] = IF j < i THEN s[j] ELSE s[j + 1]
<1> DEFINE a == SubSeq(s, 1, i - 1)
           b == SubSeq(s, i + 1, Len(s))
<1>1. a \in Seq(S) /\ Len(a) = i - 1 /\ \A j \in 1 .. i - 1 : a[j] = s[j]
  OBVIOUS
<1>2. b \in Seq(S) /\ Len(b) = Len(s) - i /\ \A j \in 1 .. Len(s) - i : b[j] = s[i + j]
  OBVIOUS
<1>3. RemoveAt(s, i) = a \o b
  BY DEF RemoveAt
<1>0. Len(s) \in Nat /\ i \in Nat
  OBVIOUS
<1> HIDE DEF a, b
<1>4. a \o b \in Seq(S) /\ Len(a \o b) = Len(a) + Len(b)
  <2>1. a \in Seq(S) /\ b \in Seq(S)
    BY <1>1, <1>2
  <2> QED BY ONLY <2>1
<1>5. \A j \in 1 .. Len(a) + Len(b) :
        (a \o b)[j] = IF j <= Len(a) THEN a[j] ELSE b[j - Len(a)]
  BY <1>1, <1>2
<1>6. ASSUME NEW j \in 1 .. Len(s) - 1
      PROVE  (a \o b)[j] = IF j < i THEN s[j] ELSE s[j + 1]
  <2>1. CASE j < i
    BY <1>1, <1>2, <1>5, <2>1
  <2>2. CASE ~(j < i)
    <3>1. (a \o b)[j] = b[j - (i - 1)]
      BY <1>1, <1>2, <1>5, <2>2
    <3>2. j - (i - 1) \in 1 .. Len(s) - i /\ i + (j - (i - 1)) = j + 1
      BY <2>2, <1>0
    <3>3. b[j - (i - 1)] = s[i + (j - (i - 1))]
      BY <1>2, <3>2
    <3>4. (a \o b)[j] = s[j + 1]
      BY <3>1, <3>2, <3>3
    <3> QED BY <2>2, <3>4
  <2> QED BY <2>1, <2>2
<1> QED BY <1>1, <1>2, <1>3, <1>4, <1>6

(* A sequence with one element replaced. *)
LEMMA ReplacedFacts ==
  ASSUME NEW S, NEW s \in Seq(S), NEW i \in 1 .. Len(s), NEW e \in S
  PROVE  /\ [s EXCEPT ![i] = e] \in Seq(S)
         /\ Len([s EXCEPT ![i] = e]) = Len(s)
         /\ \A j \in 1 .. Len(s) : [s EXCEPT ![i] = e][j] = IF j = i THEN e ELSE s[j]
OBVIOUS
=============================================================================
