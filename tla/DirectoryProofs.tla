--------------------------- MODULE DirectoryProofs ---------------------------
(***************************************************************************)
(* Proof of SaveIsComplete of CoilObject: after a save that succeeds, the  *)
(* file holds every section of the object, under its name and with its     *)
(* bytes.  The layout gives each section a place of its own behind the     *)
(* headers, so that no write of a save hits another; a conversion that the *)
(* save begins with moves the bytes but does not change them; and a header *)
(* and its section agree on the size before every save.                    *)
(***************************************************************************)
EXTENDS CoilObjectProofs

-----------------------------------------------------------------------------
(***************************************************************************)
(* What a save writes                                                      *)
(***************************************************************************)

(* The bytes of section j of an object, if it is in memory. *)
Data(o, m, j) == IF Resident(o, j - 1) THEN Bytes(o.slots[j], m) ELSE <<>>

(* The sections follow the headers, and one another. *)
Spread(o, m) ==
  \A j \in 1 .. o.count :
    /\ o.headers[j].off >= 1 + o.count
    /\ \A k \in 1 .. j - 1 : o.headers[k].off + Len(Data(o, m, k)) <= o.headers[j].off

(* The writes that put nothing but a section's byte in the byte's place. *)
Fitting(o, m) ==
  {w \in WriteType :
     \A j \in 1 .. o.count : \A k \in 1 .. Len(Data(o, m, j)) :
       w.at = o.headers[j].off + k => w.cell = Data(o, m, j)[k]}

LEMMA DataFacts ==
  ASSUME ObjectAssumption, NEW o \in ObjectType, Fits(o), o.count <= Len(o.headers),
         NEW m \in Memory, NEW j \in 1 .. o.count
  PROVE  /\ Data(o, m, j) \in Seq(Cells) /\ Len(Data(o, m, j)) \in Nat
         /\ o.headers[j] \in HeaderType /\ o.headers[j].off \in Nat
         /\ Resident(o, j - 1) => Len(Data(o, m, j)) = o.slots[j].size
         /\ ~Resident(o, j - 1) => Len(Data(o, m, j)) = 0
<1>1. o.headers[j] \in HeaderType /\ o.headers[j].off \in Nat
  <2>1. o.headers[j] \in HeaderType
    BY DEF ObjectType
  <2> QED BY <2>1 DEF HeaderType
<1>2. CASE Resident(o, j - 1)
  <2>1. j \in 1 .. o.loaded /\ o.slots[j].data # 0
    BY <1>2 DEF Resident, ObjectType
  <2>2. o.slots[j] \in SlotType
    BY <2>1, LoadedSlots
  <2>3. Bytes(o.slots[j], m) \in Seq(Cells) /\ Len(Bytes(o.slots[j], m)) = o.slots[j].size
    BY <2>1, <2>2, BytesFacts
  <2> QED BY <1>1, <1>2, <2>3 DEF Data
<1>3. CASE ~Resident(o, j - 1)
  BY <1>1, <1>3 DEF Data
<1> QED BY <1>2, <1>3

(* Two sections have no place in common. *)
LEMMA PlacesApart ==
  ASSUME ObjectAssumption, NEW o \in ObjectType, Fits(o), o.count <= Len(o.headers),
         NEW m \in Memory, Spread(o, m),
         NEW j \in 1 .. o.count, NEW k \in 1 .. Len(Data(o, m, j)),
         NEW i \in 1 .. o.count, NEW l \in 1 .. Len(Data(o, m, i)),
         o.headers[j].off + k = o.headers[i].off + l
  PROVE  i = j /\ k = l
<1> DEFINE a == o.headers[j].off
           b == o.headers[i].off
           n == Len(Data(o, m, j))
           p == Len(Data(o, m, i))
<1>1. a \in Nat /\ b \in Nat /\ n \in Nat /\ p \in Nat
  BY DataFacts
<1>2. i < j => b + p <= a
  BY DEF Spread
<1>3. j < i => a + n <= b
  BY DEF Spread
<1>4. k \in 1 .. n /\ l \in 1 .. p /\ a + k = b + l
  OBVIOUS
<1> HIDE DEF a, b, n, p
<1>5. i \in Int /\ j \in Int
  OBVIOUS
<1>6. ~(i < j) /\ ~(j < i)
  BY <1>1, <1>2, <1>3, <1>4
<1>7. i = j
  BY <1>5, <1>6
<1>8. a = b
  BY <1>7 DEF a, b
<1> QED BY <1>1, <1>4, <1>7, <1>8

(* No write of a save is in the way of another section, and every byte of  *)
(* a section is written.                                                   *)
LEMMA DataInPlace ==
  ASSUME ObjectAssumption, NEW o \in ObjectType, Fits(o), o.count <= Len(o.headers),
         NEW m \in Memory, Spread(o, m)
  PROVE  /\ WritesOf(o, m, 0) \in Seq(Fitting(o, m))
         /\ \A j \in 1 .. o.count : \A k \in 1 .. Len(Data(o, m, j)) :
              \E w \in 1 .. Len(WritesOf(o, m, 0)) :
                WritesOf(o, m, 0)[w].at = o.headers[j].off + k
<1> DEFINE put(at, cells) == [k \in 1 .. Len(cells) |-> [at |-> at + k, cell |-> cells[k]]]
           cells == <<ObjectHeader(o.count)>> \o SubSeq(o.headers, 1, o.count)
           head  == put(0, cells)
           body  == [j \in 1 .. o.count |-> put(o.headers[j].off, Data(o, m, j))]
           F     == Fitting(o, m)
<1>1. o.count \in Nat /\ cells \in Seq(Cells) /\ Len(cells) = 1 + o.count
  BY HeaderCells DEF ObjectType
<1>2. ASSUME NEW j \in 1 .. o.count
      PROVE  /\ Data(o, m, j) \in Seq(Cells) /\ Len(Data(o, m, j)) \in Nat
             /\ o.headers[j].off \in Nat /\ o.headers[j].off >= 1 + o.count
  BY DataFacts DEF Spread
<1> HIDE DEF cells
<1>3. head \in Seq(F) /\ Len(head) = 1 + o.count
  <2>1. ASSUME NEW k \in 1 .. 1 + o.count
        PROVE  [at |-> 0 + k, cell |-> cells[k]] \in F
    <3> DEFINE w == [at |-> 0 + k, cell |-> cells[k]]
    <3>1. w \in WriteType /\ w.at = k
      BY <1>1 DEF WriteType
    <3>2. ASSUME NEW j \in 1 .. o.count, NEW i \in 1 .. Len(Data(o, m, j))
          PROVE  k # o.headers[j].off + i
      BY <1>1, <1>2
    <3> HIDE DEF w
    <3> QED BY <3>1, <3>2 DEF Fitting, w
  <2>2. head = [k \in 1 .. 1 + o.count |-> [at |-> 0 + k, cell |-> cells[k]]]
    BY <1>1
  <2>3. head \in [1 .. 1 + o.count -> F]
    <3> HIDE DEF F, head
    <3> QED BY <2>1, <2>2
  <2>4. 1 + o.count \in Nat
    BY <1>1
  <2> HIDE DEF F, head
  <2> QED BY <2>3, <2>4, FunctionIsSeq
<1>4. ASSUME NEW j \in 1 .. o.count PROVE put(o.headers[j].off, Data(o, m, j)) \in Seq(F)
  <2> DEFINE at == o.headers[j].off
             d  == Data(o, m, j)
             n  == Len(d)
  <2>1. at \in Nat /\ d \in Seq(Cells) /\ n \in Nat
    BY <1>2
  <2>2. ASSUME NEW k \in 1 .. n PROVE [at |-> at + k, cell |-> d[k]] \in F
    <3> DEFINE w == [at |-> at + k, cell |-> d[k]]
    <3>1. w \in WriteType /\ w.at = at + k /\ w.cell = d[k]
      <4> HIDE DEF at, d
      <4> QED BY <2>1 DEF WriteType, n
    <3>2. ASSUME NEW i \in 1 .. o.count, NEW l \in 1 .. Len(Data(o, m, i)),
                 at + k = o.headers[i].off + l
          PROVE  d[k] = Data(o, m, i)[l]
      <4>1. i = j /\ k = l
        BY <3>2, PlacesApart
      <4> QED BY <4>1
    <3> HIDE DEF w, at, d
    <3>3. w \in F
      BY <3>1, <3>2 DEF Fitting, at
    <3> QED BY <3>3 DEF w
  <2>3. put(at, d) \in [1 .. n -> F]
    <3> HIDE DEF F, at, d
    <3> QED BY <2>2
  <2> HIDE DEF F, put, n
  <2> QED BY <2>1, <2>3, FunctionIsSeq
<1>5. body \in [1 .. o.count -> Seq(F)]
  <2> HIDE DEF put, F
  <2> QED BY <1>4
<1> DEFINE tail == FlattenSeq(body)
<1>6. tail \in Seq(F)
  <2> HIDE DEF body, F
  <2> QED BY <1>1, <1>5, FlattenedIsSeq
<1>7. WritesOf(o, m, 0) = head \o tail
  BY DEF WritesOf, cells, Data
<1>8. ASSUME NEW j \in 1 .. o.count, NEW k \in 1 .. Len(Data(o, m, j))
      PROVE  \E w \in 1 .. Len(tail) : tail[w].at = o.headers[j].off + k
  <2>1. body[j] = put(o.headers[j].off, Data(o, m, j))
    OBVIOUS
  <2>2. Len(body[j]) = Len(Data(o, m, j)) /\ body[j][k].at = o.headers[j].off + k
    BY <1>2, <2>1
  <2>3. k \in 1 .. Len(body[j])
    BY <2>2
  <2> HIDE DEF body, F, tail
  <2>4. \E w \in 1 .. Len(FlattenSeq(body)) : FlattenSeq(body)[w] = body[j][k]
    BY <1>1, <1>5, <2>3, FlattenedHas
  <2> QED BY <2>2, <2>4 DEF tail
<1> HIDE DEF head, tail, F, body
<1>9. /\ head \o tail \in Seq(F)
      /\ \A w \in 1 .. Len(tail) : /\ Len(head) + w \in 1 .. Len(head \o tail)
                                   /\ (head \o tail)[Len(head) + w] = tail[w]
  BY <1>3, <1>6
<1>10. ASSUME NEW j \in 1 .. o.count, NEW k \in 1 .. Len(Data(o, m, j))
       PROVE  \E w \in 1 .. Len(head \o tail) : (head \o tail)[w].at = o.headers[j].off + k
  <2>1. PICK w \in 1 .. Len(tail) : tail[w].at = o.headers[j].off + k
    BY <1>8
  <2>2. /\ Len(head) + w \in 1 .. Len(head \o tail)
        /\ (head \o tail)[Len(head) + w] = tail[w]
    BY <1>9
  <2> QED BY <2>1, <2>2
<1> DEFINE writes == WritesOf(o, m, 0)
<1>11. writes = head \o tail
  BY <1>7
<1> HIDE DEF writes
<1>12. writes \in Seq(F)
  BY <1>9, <1>11
<1>13. \A j \in 1 .. o.count : \A k \in 1 .. Len(Data(o, m, j)) :
         \E w \in 1 .. Len(writes) : writes[w].at = o.headers[j].off + k
  BY <1>10, <1>11
<1> QED BY <1>12, <1>13 DEF F, writes

(* Once all is written, the file has every section in its place. *)
LEMMA DataWritten ==
  ASSUME ObjectAssumption, TypeOK, NEW o \in ObjectType, Fits(o), o.count <= Len(o.headers),
         NEW m \in Memory, Spread(o, m), NEW j \in 1 .. o.count
  PROVE  LET writes == WritesOf(o, m, 0)
             after  == FileAfter(writes, Len(writes))
             d      == Data(o, m, j)
         IN  /\ CellsOf(after, o.headers[j].off, Len(d)) = d
             /\ Len(d) > 0 => o.headers[j].off + Len(d) <= Len(after)
<1> DEFINE writes == WritesOf(o, m, 0)
           n      == Len(writes)
           after  == FileAfter(writes, n)
           d      == Data(o, m, j)
           off    == o.headers[j].off
<1>1. d \in Seq(Cells) /\ Len(d) \in Nat /\ off \in Nat
  BY DataFacts
<1>2. /\ writes \in Seq(Fitting(o, m)) /\ n \in Nat
      /\ \A k \in 1 .. Len(d) : \E w \in 1 .. n : writes[w].at = off + k
  <2>1. writes \in Seq(Fitting(o, m))
    BY DataInPlace
  <2>2. \A k \in 1 .. Len(d) : \E w \in 1 .. n : writes[w].at = off + k
    BY DataInPlace
  <2> HIDE DEF writes
  <2> QED BY <2>1, <2>2
<1>3. writes \in Seq(WriteType)
  <2>1. 0 \in Nat
    OBVIOUS
  <2> QED BY <2>1, WritesFacts
<1> HIDE DEF writes
<1>4. n \in 0 .. Len(writes)
  BY <1>2
<1>5. /\ after \in Seq(Cells)
      /\ \A k \in 1 .. n : writes[k].at <= Len(after)
      /\ \A c \in 1 .. Len(after) :
           \/ \E k \in 1 .. n : writes[k].at = c /\ after[c] = writes[k].cell
           \/ \A k \in 1 .. n : writes[k].at # c
  <2> HIDE DEF n
  <2>1. after \in Seq(Cells)
    BY <1>3, <1>4, FileAfterFacts
  <2>2. \A k \in 1 .. n : writes[k].at <= Len(after)
    BY <1>3, <1>4, FileAfterFacts
  <2>3. \A c \in 1 .. Len(after) :
           \/ \E k \in 1 .. n : writes[k].at = c /\ after[c] = writes[k].cell
           \/ \A k \in 1 .. n : writes[k].at # c
    BY <1>3, <1>4, FileAfterFacts
  <2> QED BY <2>1, <2>2, <2>3
<1> HIDE DEF after
<1>6. ASSUME NEW k \in 1 .. Len(d)
      PROVE  off + k <= Len(after) /\ after[off + k] = d[k]
  <2>1. PICK w \in 1 .. n : writes[w].at = off + k
    BY <1>2
  <2>2. off + k \in 1 .. Len(after)
    <3>1. off + k <= Len(after) /\ Len(after) \in Nat
      BY <1>5, <2>1
    <3> HIDE DEF off, d
    <3> QED BY <1>1, <3>1
  <2>3. PICK i \in 1 .. n : writes[i].at = off + k /\ after[off + k] = writes[i].cell
    BY <1>5, <2>1, <2>2
  <2>4. writes[i] \in Fitting(o, m)
    BY <1>2
  <2>5. writes[i].cell = d[k]
    BY <2>3, <2>4 DEF Fitting
  <2> QED BY <2>2, <2>3, <2>5
<1> HIDE DEF off, d
<1>7. CellsOf(after, off, Len(d)) = d
  <2>1. \A k \in 1 .. Len(d) : CellIn(after, off + k) = d[k]
    BY <1>6 DEF CellIn
  <2>2. CellsOf(after, off, Len(d)) = [k \in 1 .. Len(d) |-> d[k]]
    BY <2>1 DEF CellsOf
  <2> QED BY <1>1, <2>2
<1>8. Len(d) > 0 => off + Len(d) <= Len(after)
  BY <1>1, <1>6
<1> QED BY <1>7, <1>8 DEF writes, after, d, off

(* And the headers, which no data have overwritten. *)
LEMMA HeadersWritten ==
  ASSUME TypeOK, NEW count \in Nat, NEW headers,
         NEW writes \in Seq(WriteType), HeadersFirst(writes, headers, count)
  PROVE  LET after == FileAfter(writes, Len(writes))
         IN  /\ after \in Seq(Cells) /\ Len(after) > count
             /\ after[1] = ObjectHeader(count)
             /\ \A k \in 1 .. count : after[1 + k] = headers[k]
<1> DEFINE n     == Len(writes)
           after == FileAfter(writes, n)
<1>1. n \in Nat /\ n \in 0 .. Len(writes) /\ n >= 1 + count
  BY DEF HeadersFirst
<1>2. /\ after \in Seq(Cells)
      /\ \A k \in 1 .. n : writes[k].at <= Len(after)
      /\ \A c \in 1 .. Len(after) :
           \/ \E k \in 1 .. n : writes[k].at = c /\ after[c] = writes[k].cell
           \/ \A k \in 1 .. n : writes[k].at # c
  <2> HIDE DEF n
  <2>1. after \in Seq(Cells)
    BY <1>1, FileAfterFacts
  <2>2. \A k \in 1 .. n : writes[k].at <= Len(after)
    BY <1>1, FileAfterFacts
  <2>3. \A c \in 1 .. Len(after) :
           \/ \E k \in 1 .. n : writes[k].at = c /\ after[c] = writes[k].cell
           \/ \A k \in 1 .. n : writes[k].at # c
    BY <1>1, FileAfterFacts
  <2> QED BY <2>1, <2>2, <2>3
<1> HIDE DEF after
<1> DEFINE cell(k) == IF k = 1 THEN ObjectHeader(count) ELSE headers[k - 1]
<1>3. ASSUME NEW k \in 1 .. 1 + count PROVE writes[k].at = k /\ writes[k].cell = cell(k)
  <2>1. CASE k = 1
    BY <2>1 DEF HeadersFirst
  <2>2. CASE k # 1
    <3>1. k - 1 \in 1 .. count /\ 1 + (k - 1) = k
      BY <2>2
    <3>2. writes[1 + (k - 1)] = [at |-> 1 + (k - 1), cell |-> headers[k - 1]]
      BY <3>1 DEF HeadersFirst
    <3> QED BY <2>2, <3>1, <3>2
  <2> QED BY <2>1, <2>2
<1>4. \A k \in 1 .. n : k > 1 + count => writes[k].at > 1 + count
  BY DEF HeadersFirst
<1> HIDE DEF cell, n
<1>5. ASSUME NEW c \in 1 .. 1 + count PROVE c <= Len(after) /\ after[c] = cell(c)
  <2>1. c \in 1 .. n /\ writes[c].at = c
    BY <1>1, <1>3
  <2>2. c \in 1 .. Len(after)
    BY <1>2, <2>1
  <2>3. PICK k \in 1 .. n : writes[k].at = c /\ after[c] = writes[k].cell
    BY <1>2, <2>1, <2>2
  <2>4. k = c
    <3>1. CASE k > 1 + count
      BY <1>4, <2>3, <3>1
    <3>2. CASE k <= 1 + count
      BY <1>1, <1>3, <2>3, <3>2
    <3> QED BY <1>1, <3>1, <3>2
  <2> QED BY <1>3, <2>2, <2>3, <2>4
<1>6. Len(after) \in Nat /\ Len(after) > count /\ after[1] = ObjectHeader(count)
  <2>1. 1 \in 1 .. 1 + count /\ 1 + count \in 1 .. 1 + count /\ Len(after) \in Nat
    BY <1>2
  <2>2. 1 + count <= Len(after) /\ after[1] = cell(1)
    BY <1>5, <2>1
  <2> QED BY <2>1, <2>2 DEF cell
<1>7. ASSUME NEW k \in 1 .. count PROVE after[1 + k] = headers[k]
  <2>1. 1 + k \in 1 .. 1 + count /\ 1 + k # 1 /\ (1 + k) - 1 = k
    OBVIOUS
  <2> QED BY <1>5, <2>1 DEF cell
<1> QED BY <1>2, <1>6, <1>7 DEF after, n

-----------------------------------------------------------------------------
(***************************************************************************)
(* Sizes, and what a conversion keeps of them                              *)
(***************************************************************************)

(* A section that is in memory has bytes if its header says so, though it  *)
(* may have come short when it was read; one that is not has them all in   *)
(* the file, of n cells.                                                   *)
Sized(o, n) ==
  \A j \in 1 .. o.count :
    IF Resident(o, j - 1) THEN (o.slots[j].size = 0 => o.headers[j].size = 0)
    ELSE o.headers[j].size > 0 => /\ o.fd # NoFd
                                  /\ o.headers[j].off + o.headers[j].size <= n

(* Every section is created, or loaded, under a name. *)
NamedIn(o) == \A j \in 1 .. o.count : o.headers[j].name \in Names

DirectoryInv == phase = "ready" => NamedIn(obj) /\ Sized(obj, Len(file))

(* A conversion copies the data there are. *)
LEMMA UnmapBytes ==
  ASSUME ObjectAssumption, OwnInv, NEW u \in UnmapOutcomes, NEW j \in 1 .. obj.loaded
  PROVE  IF obj.slots[j].data # 0 /\ obj.slots[j].size > 0
           THEN /\ u.obj.slots[j].data # 0 /\ u.obj.slots[j].size = obj.slots[j].size
                /\ Bytes(u.obj.slots[j], u.mem) = Bytes(obj.slots[j], mem)
           ELSE u.obj.slots[j].data = 0 \/ u.obj.slots[j] = obj.slots[j]
<1> DEFINE full  == {i \in 1 .. obj.loaded : obj.slots[i].data # 0 /\ obj.slots[i].size > 0}
           moves == Injection(full, FreeRegions(mem))
           slots(new) == [i \in 1 .. obj.loaded |->
                            IF i \in full
                              THEN Slot(new[i], 0, obj.slots[i].size, FALSE, FALSE)
                              ELSE NoSlot]
           moved(new) == [r \in Region |->
                            IF r = obj.map THEN Gone
                            ELSE IF r \in Range(new)
                              THEN LET i == CHOOSE i \in full : new[i] = r
                                   IN  [live |-> TRUE, cells |-> Bytes(obj.slots[i], mem)]
                            ELSE mem[r]]
           same  == [err |-> "GOOD", obj |-> obj, mem |-> mem]
           Moved(new) == [err |-> "GOOD",
                          obj |-> [obj EXCEPT !.map = 0, !.slots = slots(new)],
                          mem |-> moved(new)]
<1>0. /\ obj \in ObjectType /\ mem \in Memory /\ Fits(obj) /\ obj.slots[j] \in SlotType
      /\ obj.map # 0 => mem[obj.map].live
  <2>1. obj \in ObjectType /\ mem \in Memory /\ Fits(obj)
    BY DEF OwnInv, TypeOK, Memory, Shape
  <2>2. obj.map # 0 => mem[obj.map].live
    BY DEF OwnInv, Own, Alive
  <2> QED BY <2>1, <2>2, LoadedSlots
<1>1. CASE u.obj = obj /\ u.mem = mem
  BY <1>1
<1>2. CASE \E new \in OneOf(moves) : u = Moved(new)
  <2>1. PICK new \in moves : u = Moved(new)
    <3> HIDE DEF moves, Moved
    <3> QED BY <1>2 DEF OneOf
  <2>2. /\ new \in [full -> FreeRegions(mem)]
        /\ \A i, k \in full : new[i] = new[k] => i = k
    BY DEF moves, Injection, IsInjective
  <2> DEFINE array == slots(new)
             after == moved(new)
  <2>3. u.obj.slots = array /\ u.mem = after
    <3>1. u.obj = [obj EXCEPT !.map = 0, !.slots = slots(new)] /\ u.mem = after
      BY <2>1
    <3> HIDE DEF slots, after, Moved
    <3> QED BY <1>0, <3>1 DEF ObjectType
  <2>4. CASE j \notin full
    <3>1. u.obj.slots[j] = NoSlot
      BY <2>3, <2>4
    <3> QED BY <2>4, <3>1 DEF NoSlot, Slot
  <2>5. CASE j \in full
    <3> DEFINE r == new[j]
               b == Bytes(obj.slots[j], mem)
    <3>1. r \in Region /\ r # 0 /\ ~mem[r].live
      BY <2>2, <2>5 DEF FreeRegions, Region, ObjectAssumption
    <3>2. r # obj.map
      BY <1>0, <3>1
    <3>3. array[j] = Slot(r, 0, obj.slots[j].size, FALSE, FALSE)
      BY <2>5
    <3>4. after[r] = [live |-> TRUE, cells |-> b]
      <4>1. r \in Range(new)
        BY <2>2, <2>5 DEF Range
      <4>2. (CHOOSE i \in full : new[i] = r) = j
        BY <2>2, <2>5
      <4>3. after[r] = LET i == CHOOSE i \in full : new[i] = r
                       IN  [live |-> TRUE, cells |-> Bytes(obj.slots[i], mem)]
        BY <3>1, <3>2, <4>1
      <4> QED BY <4>2, <4>3
    <3> DEFINE t    == array[j]
               size == obj.slots[j].size
    <3> HIDE DEF array, after, r, full
    <3>5. /\ t.data = r /\ t.size = size /\ t.off = 0
          /\ after[r].cells = b
      BY <3>3, <3>4 DEF Slot
    <3>6. size \in Nat /\ size > 0 /\ obj.slots[j].data # 0
      BY <1>0, <2>5 DEF full, SlotType
    <3>7. b \in Seq(Cells) /\ Len(b) = size
      BY <1>0, <3>6, BytesFacts
    <3>8. Bytes(t, after) = CellsOf(b, 0, size)
      BY <3>5, <3>6 DEF Bytes
    <3> HIDE DEF b, size, t
    <3>9. CellsOf(b, 0, size) = b
      <4>1. \A k \in 1 .. size : CellIn(b, 0 + k) = b[k]
        BY <3>7 DEF CellIn
      <4>2. CellsOf(b, 0, size) = [k \in 1 .. size |-> b[k]]
        BY <4>1 DEF CellsOf
      <4> QED BY <3>7, <4>2
    <3>10. u.obj.slots[j] = t /\ u.mem = after
      BY <2>3 DEF t
    <3> QED BY <3>1, <3>5, <3>6, <3>8, <3>9, <3>10 DEF b, size
  <2> QED BY <2>4, <2>5
<1>3. \/ u = same \/ u = [same EXCEPT !.err = "NOMEM"]
      \/ \E new \in OneOf(moves) : u = Moved(new)
  <2>1. u \in (IF obj.map = 0 THEN {same}
               ELSE {Moved(new) : new \in OneOf(moves)}
                    \cup (IF moves = {} \/ (MallocMayFail /\ obj.count > 0)
                         THEN {[same EXCEPT !.err = "NOMEM"]} ELSE {}))
    BY DEF UnmapOutcomes
  <2> HIDE DEF moves, same, Moved
  <2> QED BY <2>1
<1>4. u = same \/ u = [same EXCEPT !.err = "NOMEM"] => u.obj = obj /\ u.mem = mem
  OBVIOUS
<1> HIDE DEF moves, same, Moved
<1> QED BY <1>1, <1>2, <1>3, <1>4

(* What a section holds is the same before and after, and so is its size.  *)
LEMMA UnmapData ==
  ASSUME ObjectAssumption, OwnInv, NEW u \in UnmapOutcomes, NEW j \in 1 .. obj.count
  PROVE  /\ Data(u.obj, u.mem, j) = Data(obj, mem, j)
         /\ IF Resident(u.obj, j - 1)
              THEN Resident(obj, j - 1) /\ u.obj.slots[j].size = obj.slots[j].size
              ELSE Resident(obj, j - 1) => obj.slots[j].size = 0
<1>1. /\ obj.loaded \in Nat /\ obj.count \in Nat /\ j \in Nat /\ (j - 1) + 1 = j
      /\ Fits(obj) /\ obj \in ObjectType
  BY DEF OwnInv, TypeOK, ObjectType, Shape
<1>2. u.obj.loaded = obj.loaded
  BY UnmapFacts DEF OwnInv
<1>3. CASE u.obj = obj /\ u.mem = mem
  BY <1>3 DEF Data
<1>4. CASE ~(j <= obj.loaded)
  <2>1. ~Resident(obj, j - 1) /\ ~Resident(u.obj, j - 1)
    BY <1>1, <1>2, <1>4 DEF Resident
  <2> QED BY <2>1 DEF Data
<1>5. CASE j <= obj.loaded /\ obj.map # 0 /\ Detached(u)
  <2>1. j \in 1 .. obj.loaded
    BY <1>1, <1>5
  <2>2. obj.slots # <<>> /\ obj.slots[j] \in SlotType
    <3>1. j \in 1 .. Len(obj.slots) /\ obj.slots[j] \in SlotType
      BY <1>1, <2>1, LoadedSlots
    <3> QED BY <3>1
  <2>3. Len(u.obj.slots) = obj.loaded /\ u.obj.slots # <<>>
    <3>1. Len(u.obj.slots) = obj.loaded
      BY <1>5 DEF Detached
    <3> QED BY <1>1, <1>5, <3>1
  <2>4. /\ Resident(obj, j - 1) <=> obj.slots[j].data # 0
        /\ Resident(u.obj, j - 1) <=> u.obj.slots[j].data # 0
    BY <1>1, <1>2, <1>5, <2>2, <2>3 DEF Resident
  <2>5. CASE obj.slots[j].data # 0 /\ obj.slots[j].size > 0
    <3>1. /\ u.obj.slots[j].data # 0 /\ u.obj.slots[j].size = obj.slots[j].size
          /\ Bytes(u.obj.slots[j], u.mem) = Bytes(obj.slots[j], mem)
      BY <2>1, <2>5, UnmapBytes
    <3> QED BY <2>4, <2>5, <3>1 DEF Data
  <2>6. CASE ~(obj.slots[j].data # 0 /\ obj.slots[j].size > 0)
    <3>1. u.obj.slots[j].data = 0 \/ u.obj.slots[j] = obj.slots[j]
      BY <2>1, <2>6, UnmapBytes
    <3>2. obj.slots[j].data # 0 => obj.slots[j].size = 0
      BY <2>2, <2>6 DEF SlotType
    <3>3. Data(obj, mem, j) = <<>>
      BY <2>4, <3>2 DEF Data, Bytes
    <3>4. Data(u.obj, u.mem, j) = <<>>
      BY <2>4, <3>1, <3>2 DEF Data, Bytes
    <3> QED BY <2>4, <3>1, <3>2, <3>3, <3>4
  <2> QED BY <2>5, <2>6
<1>6. \/ u.obj = obj /\ u.mem = mem
      \/ obj.map # 0 /\ Detached(u)
  BY UnmapFacts DEF OwnInv
<1> QED BY <1>3, <1>4, <1>5, <1>6

LEMMA UnmapSized ==
  ASSUME ObjectAssumption, OwnInv, NEW u \in UnmapOutcomes, NEW n, Sized(obj, n)
  PROVE  /\ Sized(u.obj, n)
         /\ AllResident(obj) =>
              \A j \in 1 .. obj.count : Resident(u.obj, j - 1) \/ obj.headers[j].size = 0
<1>1. /\ u.obj.headers = obj.headers /\ u.obj.count = obj.count /\ u.obj.fd = obj.fd
      /\ obj.count \in Nat
  BY UnmapFacts DEF OwnInv, TypeOK, ObjectType
<1>2. ASSUME NEW j \in 1 .. obj.count
      PROVE  /\ IF Resident(u.obj, j - 1) THEN (u.obj.slots[j].size = 0 => obj.headers[j].size = 0)
                ELSE obj.headers[j].size > 0 =>
                       obj.fd # NoFd /\ obj.headers[j].off + obj.headers[j].size <= n
             /\ AllResident(obj) => Resident(u.obj, j - 1) \/ obj.headers[j].size = 0
  <2>1. IF Resident(u.obj, j - 1)
          THEN Resident(obj, j - 1) /\ u.obj.slots[j].size = obj.slots[j].size
          ELSE Resident(obj, j - 1) => obj.slots[j].size = 0
    BY UnmapData
  <2>2. IF Resident(obj, j - 1) THEN (obj.slots[j].size = 0 => obj.headers[j].size = 0)
        ELSE obj.headers[j].size > 0 =>
               obj.fd # NoFd /\ obj.headers[j].off + obj.headers[j].size <= n
    BY DEF Sized
  <2>3. AllResident(obj) => Resident(obj, j - 1) \/ obj.headers[j].size = 0
    <3>1. j - 1 \in 0 .. obj.count - 1 /\ (j - 1) + 1 = j
      BY <1>1
    <3> QED BY <3>1 DEF AllResident
  <2>4. CASE Resident(u.obj, j - 1)
    BY <2>1, <2>2, <2>4
  <2>5. CASE ~Resident(u.obj, j - 1) /\ Resident(obj, j - 1)
    BY <2>1, <2>2, <2>5
  <2>6. CASE ~Resident(u.obj, j - 1) /\ ~Resident(obj, j - 1)
    BY <2>2, <2>3, <2>6
  <2> QED BY <2>4, <2>5, <2>6
<1> QED BY <1>1, <1>2 DEF Sized

-----------------------------------------------------------------------------
(***************************************************************************)
(* A save                                                                  *)
(***************************************************************************)

(* An object with the headers of the layout. *)
LayOut(o) == [o EXCEPT !.headers = LaidOut(o)]

LEMMA LayOutFacts ==
  ASSUME ObjectAssumption, NEW o \in ObjectType, Fits(o), o.count <= Len(o.headers)
  PROVE  /\ LayOut(o) \in ObjectType /\ Fits(LayOut(o))
         /\ LayOut(o).count = o.count /\ LayOut(o).count <= Len(LayOut(o).headers)
         /\ LayOut(o).headers = LaidOut(o)
         /\ LayOut(o).slots = o.slots /\ LayOut(o).loaded = o.loaded
<1> DEFINE headers == LaidOut(o)
           saved   == LayOut(o)
<1>1. headers \in Seq(HeaderType) /\ Len(headers) = Len(o.headers)
  BY LaidOutFacts
<1> HIDE DEF headers
<1>2. saved = [o EXCEPT !.headers = headers]
  BY DEF LayOut, headers
<1> HIDE DEF saved
<1>3. saved \in ObjectType
  BY <1>1, <1>2 DEF ObjectType
<1>4. /\ saved.headers = headers /\ saved.count = o.count
      /\ saved.slots = o.slots /\ saved.loaded = o.loaded
  BY <1>2 DEF ObjectType
<1>5. Fits(saved) /\ saved.count <= Len(saved.headers)
  BY <1>1, <1>4 DEF Fits
<1> QED BY <1>3, <1>4, <1>5 DEF headers, saved

(* Each section of an object that has them all gets its own place, and as  *)
(* much of it as there are bytes.                                          *)
LEMMA LayOutSpreads ==
  ASSUME ObjectAssumption, NEW o \in ObjectType, Fits(o), o.count <= Len(o.headers),
         NEW m \in Memory,
         \A j \in 1 .. o.count : Resident(o, j - 1) \/ o.headers[j].size = 0
  PROVE  /\ Spread(LayOut(o), m)
         /\ \A n : Sized(LayOut(o), n)
         /\ \A j \in 1 .. o.count :
              /\ Data(LayOut(o), m, j) = Data(o, m, j)
              /\ LayOut(o).headers[j].size = Len(Data(o, m, j))
              /\ LayOut(o).headers[j].name = o.headers[j].name
<1> DEFINE q == LayOut(o)
           off == Offsets(o, 1 + o.count)
<1>1. /\ q.count = o.count /\ q.headers = LaidOut(o)
      /\ q.slots = o.slots /\ q.loaded = o.loaded
      /\ o.count \in Nat /\ 1 + o.count \in Nat
  BY LayOutFacts DEF ObjectType
<1>2. ASSUME NEW j \in 1 .. o.count
      PROVE  /\ q.headers[j].name = o.headers[j].name
             /\ q.headers[j].size = SavedSize(o, j)
             /\ q.headers[j].off = off[j]
             /\ q.headers[j].off >= 1 + o.count
  BY <1>1, LaidOutFacts
<1> HIDE DEF q
<1>3. ASSUME NEW j \in 1 .. o.count
      PROVE  /\ Resident(q, j - 1) <=> Resident(o, j - 1)
             /\ Data(q, m, j) = Data(o, m, j)
             /\ Len(Data(o, m, j)) = SavedSize(o, j)
  <2>1. Resident(q, j - 1) <=> Resident(o, j - 1)
    BY <1>1 DEF Resident
  <2>2. Data(q, m, j) = Data(o, m, j)
    BY <1>1, <2>1 DEF Data
  <2>3. (j - 1) + 1 = j
    OBVIOUS
  <2>4. CASE Resident(o, j - 1)
    BY <2>1, <2>2, <2>4, DataFacts DEF SavedSize
  <2>5. CASE ~Resident(o, j - 1)
    BY <2>1, <2>2, <2>5, DataFacts DEF SavedSize
  <2> QED BY <2>4, <2>5
<1>4. ASSUME NEW j \in 1 .. o.count, NEW k \in 1 .. j - 1
      PROVE  q.headers[k].off + Len(Data(q, m, k)) <= q.headers[j].off
  <2>1. off[k] + SavedSize(o, k) <= off[j]
    BY <1>1, OffsetsFacts
  <2>2. k \in 1 .. o.count
    BY <1>1
  <2>3. /\ q.headers[k].off = off[k] /\ Len(Data(q, m, k)) = SavedSize(o, k)
        /\ q.headers[j].off = off[j]
    BY <1>2, <1>3, <2>2
  <2> HIDE DEF off
  <2> QED BY <2>1, <2>3
<1>5. Spread(q, m)
  BY <1>1, <1>2, <1>4 DEF Spread
<1>6. ASSUME NEW n PROVE Sized(q, n)
  <2>1. ASSUME NEW j \in 1 .. o.count
        PROVE  IF Resident(q, j - 1) THEN (q.slots[j].size = 0 => q.headers[j].size = 0)
               ELSE q.headers[j].size = 0
    BY <1>1, <1>2, <1>3 DEF SavedSize
  <2> QED BY <1>1, <2>1 DEF Sized
<1> QED BY <1>2, <1>3, <1>5, <1>6 DEF q

(* The client saves only what is in memory, at the start of the file, and  *)
(* does not change a section that is not loaded; a file that it loads has  *)
(* all that its headers promise.                                           *)
Whole ==
  /\ Sound
  /\ Calls \cap {"no rewind", "save unloaded", "update unloaded", "load torn file"} = {}

(* The steps of a save. *)
LEMMA SaveSteps ==
  ASSUME Whole, NEW f \in Fd, SaveFile(f)
  PROVE  /\ phase = "ready" /\ phase' = phase /\ UnmapReady /\ AllResident(obj)
         /\ ret'.op = "save_file"
         /\ \E u \in UnmapOutcomes :
              \/ ret'.err # "GOOD" /\ UNCHANGED <<obj, mem, file>>
              \/ /\ obj' = LayOut(u.obj) /\ mem' = u.mem
                 /\ ret'.err = "GOOD" =>
                      LET writes == WritesOf(LayOut(u.obj), u.mem, 0)
                      IN  file' = FileAfter(writes, Len(writes))
<1>1. /\ phase = "ready" /\ phase' = phase /\ UnmapReady /\ AllResident(obj)
      /\ fds[f].pos = 0
  BY DEF SaveFile, Whole, Careful, Called
<1>2. PICK u \in UnmapOutcomes :
        IF u.err # "GOOD" THEN Done("save_file", u.err) /\ UNCHANGED <<obj, mem, file, fds>>
        ELSE LET saved  == [u.obj EXCEPT !.headers = LaidOut(u.obj)]
                 writes == WritesOf(saved, u.mem, fds[f].pos)
                 total  == IF fds[f].open THEN Len(writes) ELSE 0
             IN  /\ obj' = saved
                 /\ mem' = u.mem
                 /\ \E n \in 0 .. total :
                      /\ file' = FileAfter(writes, n)
                      /\ fds' = IF n = 0 THEN fds
                                ELSE [fds EXCEPT ![f].pos = writes[n].at]
                      /\ Done("save_file", IF n = Len(writes) THEN "GOOD" ELSE "IO")
  BY DEF SaveFile
<1>3. CASE u.err # "GOOD"
  BY <1>1, <1>2, <1>3 DEF Done, Result
<1>4. CASE u.err = "GOOD"
  <2> DEFINE saved  == LayOut(u.obj)
             writes == WritesOf(saved, u.mem, fds[f].pos)
             total  == IF fds[f].open THEN Len(writes) ELSE 0
  <2>1. /\ obj' = saved /\ mem' = u.mem
        /\ \E n \in 0 .. total :
             /\ file' = FileAfter(writes, n)
             /\ Done("save_file", IF n = Len(writes) THEN "GOOD" ELSE "IO")
    BY <1>2, <1>4 DEF LayOut
  <2>2. PICK n : /\ file' = FileAfter(writes, n)
                 /\ Done("save_file", IF n = Len(writes) THEN "GOOD" ELSE "IO")
    BY <2>1
  <2> HIDE DEF saved
  <2>3. ret'.op = "save_file" /\ (ret'.err = "GOOD" => n = Len(writes))
    <3> HIDE DEF writes
    <3> QED BY <2>2 DEF Done, Result
  <2>4. writes = WritesOf(saved, u.mem, 0)
    BY <1>1
  <2>5. ret'.err = "GOOD" =>
          file' = FileAfter(WritesOf(saved, u.mem, 0), Len(WritesOf(saved, u.mem, 0)))
    <3> HIDE DEF writes
    <3> QED BY <2>2, <2>3, <2>4
  <2> QED BY <1>1, <2>1, <2>3, <2>5 DEF saved
<1> QED BY <1>3, <1>4

(* The object that a save lays out: converted, with all that it had. *)
LEMMA ToSave ==
  ASSUME ObjectAssumption, Whole, OwnInv, phase = "ready", UnmapReady, AllResident(obj),
         NEW n, Sized(obj, n), NEW u \in UnmapOutcomes
  PROVE  /\ u.obj \in ObjectType /\ Fits(u.obj) /\ u.obj.count <= Len(u.obj.headers)
         /\ u.mem \in Memory /\ u.obj.headers = obj.headers /\ u.obj.count = obj.count
         /\ \A j \in 1 .. u.obj.count : Resident(u.obj, j - 1) \/ u.obj.headers[j].size = 0
<1>1. TypeOK /\ Shape /\ Tidy
  BY SoundIsTidy DEF OwnInv, Whole
<1>2. u.obj \in ObjectType /\ Fits(u.obj) /\ u.obj.count <= Len(u.obj.headers)
  BY <1>1, UnmapShape
<1>3. u.mem \in Memory /\ u.obj.headers = obj.headers /\ u.obj.count = obj.count
  BY <1>1, UnmapFacts
<1>4. \A j \in 1 .. obj.count : Resident(u.obj, j - 1) \/ obj.headers[j].size = 0
  BY UnmapSized
<1> QED BY <1>2, <1>3, <1>4

LEMMA SaveStored ==
  ASSUME ObjectAssumption, Whole, OwnInv, DirectoryInv, NEW f \in Fd, SaveFile(f)
  PROVE  DirectoryInv'
<1>1. phase = "ready" /\ phase' = phase /\ UnmapReady /\ AllResident(obj)
  BY SaveSteps
<1>2. NamedIn(obj) /\ Sized(obj, Len(file))
  BY <1>1 DEF DirectoryInv
<1>3. PICK u \in UnmapOutcomes : \/ UNCHANGED <<obj, file>>
                                 \/ obj' = LayOut(u.obj)
  BY SaveSteps
<1>4. CASE UNCHANGED <<obj, file>>
  BY <1>2, <1>4 DEF DirectoryInv
<1>5. CASE obj' = LayOut(u.obj)
  <2> DEFINE q == LayOut(u.obj)
  <2>1. /\ u.obj \in ObjectType /\ Fits(u.obj) /\ u.obj.count <= Len(u.obj.headers)
        /\ u.mem \in Memory /\ u.obj.headers = obj.headers /\ u.obj.count = obj.count
        /\ \A j \in 1 .. u.obj.count : Resident(u.obj, j - 1) \/ u.obj.headers[j].size = 0
    BY <1>1, <1>2, ToSave
  <2>2. \A n : Sized(q, n)
    BY <2>1, LayOutSpreads
  <2>3. q.count = obj.count /\ \A j \in 1 .. obj.count : q.headers[j].name = obj.headers[j].name
    BY <2>1, LayOutFacts, LayOutSpreads
  <2> HIDE DEF q
  <2>4. NamedIn(q)
    BY <1>2, <2>3 DEF NamedIn
  <2>5. obj' = q
    BY <1>5 DEF q
  <2> QED BY <2>2, <2>4, <2>5 DEF DirectoryInv
<1> QED BY <1>3, <1>4, <1>5

(* A section that is in memory, or empty, holds its data. *)
LEMMA SectionIsData ==
  ASSUME NEW i \in 0 .. obj.count - 1,
         Resident(obj, i) \/ obj.headers[i + 1].size = 0
  PROVE  SectionBytes(i) = Data(obj, mem, i + 1)
<1>1. (i + 1) - 1 = i
  OBVIOUS
<1>2. CASE Resident(obj, i)
  BY <1>1, <1>2 DEF SectionBytes, Data
<1>3. CASE ~Resident(obj, i)
  <2>1. \A off : CellsOf(file, off, 0) = <<>>
    BY DEF CellsOf
  <2> QED BY <1>1, <1>3, <2>1 DEF SectionBytes, Data
<1> QED BY <1>2, <1>3

(* What the file holds after a save that succeeds. *)
LEMMA SavedWhole ==
  ASSUME ObjectAssumption, Whole, OwnInv, DirectoryInv,
         NEW f \in Fd, SaveFile(f), ret'.err = "GOOD"
  PROVE  /\ WellFormed'
         /\ file'[1].section_count = obj.count
         /\ \A i \in 0 .. obj.count - 1 :
              LET hdr == HeaderAt(2 + i)'
              IN  /\ hdr.name = obj.headers[i + 1].name
                  /\ CellsOf(file', hdr.off, hdr.size) = SectionBytes(i)
<1>1. phase = "ready" /\ UnmapReady /\ AllResident(obj)
  BY SaveSteps
<1>2. NamedIn(obj) /\ Sized(obj, Len(file))
  BY <1>1 DEF DirectoryInv
<1>3. PICK u \in UnmapOutcomes :
        file' = FileAfter(WritesOf(LayOut(u.obj), u.mem, 0), Len(WritesOf(LayOut(u.obj), u.mem, 0)))
  BY SaveSteps
<1> DEFINE o      == u.obj
           m      == u.mem
           q      == LayOut(o)
           count  == obj.count
           writes == WritesOf(q, m, 0)
           after  == FileAfter(writes, Len(writes))
<1>4. /\ o \in ObjectType /\ Fits(o) /\ o.count <= Len(o.headers)
      /\ m \in Memory /\ o.headers = obj.headers /\ o.count = count
      /\ \A j \in 1 .. o.count : Resident(o, j - 1) \/ o.headers[j].size = 0
  BY <1>1, <1>2, ToSave
<1>5. TypeOK /\ Shape /\ obj \in ObjectType /\ count \in Count /\ count \in Nat
  BY DEF OwnInv, TypeOK, ObjectType, Count
<1>6. \A j \in 1 .. count : Data(o, m, j) = Data(obj, mem, j)
  BY UnmapData
<1> HIDE DEF o, m
<1>7. /\ q \in ObjectType /\ Fits(q) /\ q.count = count /\ q.count <= Len(q.headers)
  BY <1>4, LayOutFacts
<1>8. /\ Spread(q, m)
      /\ \A j \in 1 .. count : /\ Data(q, m, j) = Data(obj, mem, j)
                               /\ q.headers[j].size = Len(Data(q, m, j))
                               /\ q.headers[j].name = obj.headers[j].name
  BY <1>4, <1>6, LayOutSpreads
<1> HIDE DEF q, count
<1>9. writes \in Seq(WriteType) /\ HeadersFirst(writes, q.headers, count)
  <2>1. 0 \in Nat
    OBVIOUS
  <2>2. writes \in Seq(WriteType)
    BY <1>4, <1>7, <2>1, WritesFacts
  <2>3. \A j \in 1 .. q.count : q.headers[j].off >= 1 + q.count
    BY <1>8 DEF Spread
  <2>4. HeadersFirst(writes, q.headers, q.count)
    BY <1>4, <1>7, <2>3, HeadersAreFirst
  <2> QED BY <1>7, <2>2, <2>4
<1>10. ASSUME NEW j \in 1 .. count
       PROVE  LET d == Data(q, m, j)
              IN  /\ CellsOf(after, q.headers[j].off, Len(d)) = d
                  /\ Len(d) > 0 => q.headers[j].off + Len(d) <= Len(after)
  BY <1>4, <1>5, <1>7, <1>8, DataWritten
<1> HIDE DEF writes
<1>11. /\ after \in Seq(Cells) /\ Len(after) > count
       /\ after[1] = ObjectHeader(count)
       /\ \A k \in 1 .. count : after[1 + k] = q.headers[k]
  <2> DEFINE headers == q.headers
  <2>1. writes \in Seq(WriteType) /\ HeadersFirst(writes, headers, count) /\ count \in Nat
    BY <1>5, <1>9
  <2> HIDE DEF headers
  <2>2. LET saved == FileAfter(writes, Len(writes))
        IN  /\ saved \in Seq(Cells) /\ Len(saved) > count
            /\ saved[1] = ObjectHeader(count)
            /\ \A k \in 1 .. count : saved[1 + k] = headers[k]
    <3>1. TypeOK
      BY <1>5
    <3> QED BY ONLY <2>1, <3>1, HeadersWritten
  <2> QED BY <2>2 DEF headers
<1>12. file' = after
  BY <1>3 DEF after, writes, q, m, o
<1> HIDE DEF after
<1>13. Len(after) \in Nat /\ after[1].section_count = count /\ IsHeader(CellIn(after, 1))
  <2>1. Len(after) \in Nat
    BY <1>11
  <2>2. CellIn(after, 1) = ObjectHeader(count)
    BY <1>5, <1>11, <2>1 DEF CellIn
  <2>3. ObjectHeader(count) \in ObjectHeaders
    BY <1>5 DEF Count, ObjectHeaders
  <2> QED BY <1>11, <2>1, <2>2, <2>3 DEF IsHeader, ObjectHeader
<1>14. ASSUME NEW j \in 1 .. count
       PROVE  HeaderAt(1 + j)' = q.headers[j] /\ q.headers[j].name \in Names
  <2>1. q.headers[j].name \in Names
    BY <1>2, <1>8 DEF NamedIn, count
  <2>2. q.headers[j] \in HeaderType
    BY <1>4, <1>7, DataFacts
  <2>3. q.headers[j] \in [name : Names, target : Targets \cup {0}, size : Nat, off : Nat]
    BY <2>1, <2>2 DEF HeaderType
  <2>4. CellIn(after, 1 + j) = q.headers[j]
    BY <1>5, <1>11, <1>13 DEF CellIn
  <2>5. CellIn(file', 1 + j) = q.headers[j]
    BY <1>12, <2>4
  <2> QED BY <2>1, <2>3, <2>5 DEF HeaderAt, CellIn
<1>15. WellFormed'
  <2>1. ASSUME NEW j \in 1 .. count
        PROVE  /\ HeaderAt(1 + j)'.name \in Names
               /\ HeaderAt(1 + j)'.size > 0 =>
                    /\ HeaderAt(1 + j)'.off > count
                    /\ HeaderAt(1 + j)'.off + HeaderAt(1 + j)'.size <= Len(file')
    <3> DEFINE hdr == q.headers[j]
               d   == Data(q, m, j)
    <3>1. HeaderAt(1 + j)' = hdr /\ hdr.name \in Names
      BY <1>14
    <3>2. hdr.size = Len(d) /\ Len(d) \in Nat /\ hdr.off \in Nat
      BY <1>4, <1>7, <1>8, DataFacts
    <3>3. hdr.off >= 1 + count
      BY <1>7, <1>8 DEF Spread
    <3>4. Len(d) > 0 => hdr.off + Len(d) <= Len(file')
      BY <1>10, <1>12
    <3> HIDE DEF hdr, d
    <3> QED BY <1>5, <3>1, <3>2, <3>3, <3>4
  <2>2. IsHeader(CellIn(file', 1)) /\ file'[1].section_count = count /\ Len(file') > count
    BY <1>11, <1>12, <1>13
  <2> QED BY <2>1, <2>2 DEF WellFormed, IsHeader, CellIn
<1>16. ASSUME NEW i \in 0 .. count - 1
       PROVE  LET hdr == HeaderAt(2 + i)'
              IN  /\ hdr.name = obj.headers[i + 1].name
                  /\ CellsOf(file', hdr.off, hdr.size) = SectionBytes(i)
  <2>1. i + 1 \in 1 .. count /\ 1 + (i + 1) = 2 + i /\ i \in 0 .. obj.count - 1
    BY <1>5 DEF count
  <2> DEFINE hdr == q.headers[i + 1]
             d   == Data(q, m, i + 1)
  <2>2. HeaderAt(2 + i)' = hdr
    BY <1>14, <2>1
  <2>3. hdr.name = obj.headers[i + 1].name /\ hdr.size = Len(d) /\ d = Data(obj, mem, i + 1)
    BY <1>8, <2>1
  <2>4. CellsOf(file', hdr.off, Len(d)) = d
    BY <1>10, <1>12, <2>1
  <2>5. SectionBytes(i) = Data(obj, mem, i + 1)
    BY <1>1, <2>1, SectionIsData DEF AllResident
  <2> HIDE DEF hdr, d
  <2> QED BY <2>2, <2>3, <2>4, <2>5
<1> QED BY <1>12, <1>13, <1>15, <1>16 DEF count

-----------------------------------------------------------------------------
(***************************************************************************)
(* Headers and sections agree: one lemma for each other operation          *)
(***************************************************************************)

(* An operation that lets the object and the length of the file alone. *)
LEMMA SameDirectory ==
  ASSUME DirectoryInv,
         \/ phase' # "ready"
         \/ /\ phase = "ready" /\ Len(file') = Len(file)
            /\ obj'.count = obj.count /\ obj'.headers = obj.headers /\ obj'.fd = obj.fd
            /\ obj'.slots = obj.slots /\ obj'.loaded = obj.loaded
  PROVE  DirectoryInv'
BY DEF DirectoryInv, NamedIn, Sized, Resident

(* Those that do, and those after which there are no sections. *)
LEMMA OthersDirectory ==
  ASSUME TypeOK, DirectoryInv,
         \/ ObjInit \/ ObjCleanup
         \/ \E t \in Targets : SetTargetDefaults(t)
         \/ \E n \in Names : FindSection(n)
         \/ \E h \in Handle : DropHandle(h) \/ \E cells \in Contents : FillHandle(h, cells)
         \/ \E f \in Fd : OpenFd(f) \/ Rewind(f) \/ CloseFd(f)
  PROVE  DirectoryInv'
<1>0. obj \in ObjectType
  BY DEF TypeOK
<1>1. CASE ObjInit
  <2>1. obj'.count = 0
    BY <1>1 DEF ObjInit, EmptyObject
  <2> QED BY <2>1 DEF DirectoryInv, NamedIn, Sized
<1>2. CASE ObjCleanup
  BY <1>2, SameDirectory DEF ObjCleanup
<1>3. CASE \E t \in Targets : SetTargetDefaults(t)
  <2>1. PICK t \in Targets : SetTargetDefaults(t)
    BY <1>3
  <2>2. phase = "ready" /\ file' = file /\ obj' = [obj EXCEPT !.target = t]
    BY <2>1 DEF SetTargetDefaults
  <2>3. /\ obj'.count = obj.count /\ obj'.headers = obj.headers /\ obj'.fd = obj.fd
        /\ obj'.slots = obj.slots /\ obj'.loaded = obj.loaded
    BY <1>0, <2>2 DEF ObjectType
  <2> QED BY <2>2, <2>3, SameDirectory
<1>4. CASE UNCHANGED <<obj, file, phase>>
  <2>1. CASE phase = "ready"
    BY <1>4, <2>1, SameDirectory
  <2>2. CASE phase # "ready"
    BY <1>4, <2>2, SameDirectory
  <2> QED BY <2>1, <2>2
<1> QED BY <1>1, <1>2, <1>3, <1>4 DEF FindSection, DropHandle, FillHandle, OpenFd, Rewind, CloseFd

LEMMA UnmapDirectory ==
  ASSUME ObjectAssumption, OwnInv, DirectoryInv, Unmap
  PROVE  DirectoryInv'
<1>1. PICK u \in UnmapOutcomes : obj' = u.obj
  BY DEF Unmap
<1>2. phase = "ready" /\ phase' = phase /\ file' = file
  BY DEF Unmap
<1>3. NamedIn(obj) /\ Sized(obj, Len(file))
  BY <1>2 DEF DirectoryInv
<1>4. Sized(u.obj, Len(file))
  BY <1>3, UnmapSized
<1>5. u.obj.headers = obj.headers /\ u.obj.count = obj.count
  BY UnmapFacts DEF OwnInv
<1>6. NamedIn(u.obj)
  BY <1>3, <1>5 DEF NamedIn
<1> QED BY <1>1, <1>2, <1>4, <1>6 DEF DirectoryInv

(* A client does not cut off what it still has to read. *)
LEMMA TruncateDirectory ==
  ASSUME ObjectAssumption, TypeOK, Shape, DirectoryInv, NEW f \in Fd, Truncate(f)
  PROVE  DirectoryInv'
<1>1. UNCHANGED <<obj, phase>> /\ (phase = "ready" => AllResident(obj))
  BY DEF Truncate
<1>2. CASE phase # "ready"
  BY <1>1, <1>2, SameDirectory
<1>3. CASE phase = "ready"
  <2>1. NamedIn(obj) /\ Sized(obj, Len(file)) /\ AllResident(obj) /\ obj.count \in Nat
    BY <1>1, <1>3 DEF DirectoryInv, TypeOK, ObjectType
  <2>2. ASSUME NEW j \in 1 .. obj.count
        PROVE  Resident(obj, j - 1) \/ obj.headers[j].size = 0
    <3>1. j - 1 \in 0 .. obj.count - 1 /\ (j - 1) + 1 = j
      BY <2>1
    <3> QED BY <2>1, <3>1 DEF AllResident
  <2>3. Sized(obj, Len(file'))
    BY <2>1, <2>2 DEF Sized
  <2> QED BY <1>1, <2>1, <2>3 DEF DirectoryInv
<1> QED BY <1>2, <1>3

(* The sections of an object come from those of another, were(j) being the *)
(* index that section j had.                                               *)
LEMMA MovedDirectory ==
  ASSUME NEW o, NEW q, NEW n, NEW was \in [1 .. q.count -> 1 .. o.count],
         q.fd = o.fd, NamedIn(o), Sized(o, n),
         \A j \in 1 .. q.count :
           /\ q.headers[j] = o.headers[was[j]]
           /\ Resident(q, j - 1) <=> Resident(o, was[j] - 1)
           /\ Resident(q, j - 1) => q.slots[j] = o.slots[was[j]]
  PROVE  NamedIn(q) /\ Sized(q, n)
<1>1. NamedIn(q)
  BY DEF NamedIn
<1>2. ASSUME NEW j \in 1 .. q.count
      PROVE  IF Resident(q, j - 1) THEN (q.slots[j].size = 0 => q.headers[j].size = 0)
             ELSE q.headers[j].size > 0 => q.fd # NoFd /\ q.headers[j].off + q.headers[j].size <= n
  <2>1. was[j] \in 1 .. o.count
    OBVIOUS
  <2>2. IF Resident(o, was[j] - 1) THEN (o.slots[was[j]].size = 0 => o.headers[was[j]].size = 0)
        ELSE o.headers[was[j]].size > 0 =>
               o.fd # NoFd /\ o.headers[was[j]].off + o.headers[was[j]].size <= n
    BY <2>1 DEF Sized
  <2> QED BY <2>2
<1> QED BY <1>1, <1>2 DEF Sized

LEMMA DeleteDirectory ==
  ASSUME ObjectAssumption, Whole, TypeOK, Shape, DirectoryInv, NEW i \in Nat,
         DeleteSection(i)
  PROVE  DirectoryInv'
<1>0. /\ obj \in ObjectType /\ phase = "ready" /\ phase' = phase /\ file' = file
      /\ Fits(obj) /\ obj.count \in Nat /\ obj.loaded \in Nat /\ obj.loaded \in {0, obj.count}
  <2>1. /\ obj \in ObjectType /\ phase = "ready" /\ phase' = phase /\ file' = file
        /\ Fits(obj)
    BY DEF DeleteSection, TypeOK, Shape
  <2>2. obj.count \in Nat /\ obj.loaded \in Nat
    BY <2>1 DEF ObjectType
  <2>3. "delete partly loaded" \notin Calls
    BY DEF Whole, Sound
  <2>4. obj.loaded \in {0, obj.count}
    BY <2>3 DEF DeleteSection, Careful, Called
  <2> QED BY <2>1, <2>2, <2>4
<1>1. CASE i >= obj.count
  BY <1>0, <1>1, SameDirectory DEF DeleteSection
<1>2. CASE ~(i >= obj.count)
  <2> DEFINE headers == RemoveAt(obj.headers, i + 1)
             count   == obj.count - 1
             loaded  == Fewer(obj.loaded)
             slots   == Shifted(obj, i)
             q       == obj'
  <2>1. obj' = [obj EXCEPT !.headers = headers, !.slots = slots,
                           !.count = count, !.loaded = loaded]
    BY <1>2 DEF DeleteSection
  <2>2. /\ obj.headers \in Seq(HeaderType) /\ obj.count <= Len(obj.headers)
        /\ Len(obj.headers) \in Nat /\ i + 1 \in 1 .. Len(obj.headers)
    BY <1>0, <1>2 DEF ObjectType, Shape
  <2>3. \A j \in 1 .. Len(obj.headers) - 1 :
          headers[j] = IF j < i + 1 THEN obj.headers[j] ELSE obj.headers[j + 1]
    BY ONLY <2>2, RemoveAtFacts
  <2> HIDE DEF headers, slots, count, loaded
  <2>4. /\ q.headers = headers /\ q.count = count /\ q.slots = slots
        /\ q.loaded = loaded /\ q.fd = obj.fd
    BY <1>0, <2>1 DEF ObjectType
  <2> HIDE DEF q
  <2> DEFINE was == [j \in 1 .. q.count |-> IF j < i + 1 THEN j ELSE j + 1]
  <2>5. ASSUME NEW j \in 1 .. q.count
        PROVE  /\ was[j] \in 1 .. obj.count
               /\ q.headers[j] = obj.headers[was[j]]
               /\ Resident(q, j - 1) <=> Resident(obj, was[j] - 1)
               /\ Resident(q, j - 1) => q.slots[j] = obj.slots[was[j]]
    <3>1. j \in 1 .. obj.count - 1 /\ j \in 1 .. Len(obj.headers) - 1
      BY <1>0, <2>2, <2>4 DEF count
    <3> DEFINE w == was[j]
    <3>2. w = (IF j < i + 1 THEN j ELSE j + 1) /\ w \in 1 .. obj.count
      BY <1>0, <3>1
    <3>3. q.headers[j] = obj.headers[w]
      BY <2>3, <2>4, <3>1, <3>2
    <3> HIDE DEF w, was
    <3>4. CASE obj.loaded = 0
      <4>1. q.loaded = 0
        BY <2>4, <3>4 DEF loaded, Fewer
      <4>2. ~Resident(q, j - 1) /\ ~Resident(obj, w - 1)
        BY <3>1, <3>2, <3>4, <4>1 DEF Resident
      <4> QED BY <3>2, <3>3, <4>2 DEF w
    <3>5. CASE obj.loaded # 0
      <4>1. obj.loaded = obj.count /\ i < obj.count /\ j \in 1 .. obj.loaded - 1
        BY <1>0, <1>2, <3>1, <3>5
      <4>2. slots[j] = obj.slots[w]
        BY <1>0, <3>2, <4>1, ShiftedSlots DEF slots
      <4>3. q.loaded = obj.count - 1 /\ j - 1 < q.loaded /\ w - 1 < obj.loaded
        BY <1>0, <2>4, <3>1, <3>2, <4>1 DEF loaded, Fewer
      <4>4. obj.slots # <<>> /\ q.slots # <<>>
        <5>1. Len(slots) = Len(obj.slots) /\ slots \in Seq(SlotType) /\ obj.slots \in Seq(SlotType)
          BY <1>0, <4>1, ShiftedFacts DEF slots, ObjectType
        <5>2. obj.slots # <<>>
          BY <1>0, <3>5 DEF Fits
        <5>3. slots # <<>>
          BY <5>1, <5>2
        <5> QED BY <2>4, <5>2, <5>3
      <4>5. (j - 1) + 1 = j /\ (w - 1) + 1 = w
        BY <3>1, <3>2
      <4>6. /\ Resident(q, j - 1) <=> Resident(obj, w - 1)
            /\ q.slots[j] = obj.slots[w]
        BY <2>4, <4>2, <4>3, <4>4, <4>5 DEF Resident
      <4> QED BY <3>2, <3>3, <4>6 DEF w
    <3> QED BY <3>4, <3>5
  <2>6. was \in [1 .. q.count -> 1 .. obj.count]
    <3>1. was = [j \in 1 .. q.count |-> was[j]]
      OBVIOUS
    <3> HIDE DEF was
    <3> QED BY <2>5, <3>1
  <2> HIDE DEF was
  <2>7. NamedIn(obj) /\ Sized(obj, Len(file))
    BY <1>0 DEF DirectoryInv
  <2>8. NamedIn(q) /\ Sized(q, Len(file))
    <3> DEFINE o == obj
               n == Len(file)
    <3>1. /\ was \in [1 .. q.count -> 1 .. o.count] /\ q.fd = o.fd
          /\ NamedIn(o) /\ Sized(o, n)
      BY <2>4, <2>6, <2>7
    <3>2. \A j \in 1 .. q.count :
            /\ q.headers[j] = o.headers[was[j]]
            /\ Resident(q, j - 1) <=> Resident(o, was[j] - 1)
            /\ Resident(q, j - 1) => q.slots[j] = o.slots[was[j]]
      BY <2>5
    <3> HIDE DEF o, n
    <3>3. NamedIn(q) /\ Sized(q, n)
      BY ONLY <3>1, <3>2, MovedDirectory
    <3> QED BY <3>3 DEF n
  <2> QED BY <1>0, <2>8 DEF DirectoryInv, q
<1> QED BY <1>1, <1>2

(* One section is added behind the others, which stay as they are.         *)
LEMMA SectionAdded ==
  ASSUME DirectoryInv, phase = "ready", phase' = phase, file' = file,
         NEW k \in Nat, k = obj.count, obj'.count = k + 1, obj'.fd = obj.fd,
         \A j \in 1 .. k : /\ obj'.headers[j] = obj.headers[j]
                           /\ Resident(obj', j - 1) <=> Resident(obj, j - 1)
                           /\ Resident(obj, j - 1) => obj'.slots[j] = obj.slots[j],
         obj'.headers[k + 1].name \in Names,
         \/ Resident(obj', k) /\ (obj'.slots[k + 1].size = 0 => obj'.headers[k + 1].size = 0)
         \/ ~Resident(obj', k) /\ obj'.headers[k + 1].size = 0
  PROVE  DirectoryInv'
<1> DEFINE q == obj'
<1>1. NamedIn(obj) /\ Sized(obj, Len(file))
  BY DEF DirectoryInv
<1> HIDE DEF q
<1>2. ASSUME NEW j \in 1 .. k + 1
      PROVE  /\ q.headers[j].name \in Names
             /\ IF Resident(q, j - 1) THEN (q.slots[j].size = 0 => q.headers[j].size = 0)
                ELSE q.headers[j].size > 0 =>
                       q.fd # NoFd /\ q.headers[j].off + q.headers[j].size <= Len(file)
  <2>1. CASE j \in 1 .. k
    BY <1>1, <2>1 DEF NamedIn, Sized, q
  <2>2. CASE j = k + 1
    <3>1. (k + 1) - 1 = k
      OBVIOUS
    <3> QED BY <2>2, <3>1 DEF q
  <2> QED BY <2>1, <2>2
<1>3. NamedIn(q) /\ Sized(q, Len(file))
  BY <1>2 DEF NamedIn, Sized, q
<1> QED BY <1>3 DEF DirectoryInv, q

(* A new section comes with its size, behind those there are. *)
LEMMA CreateDirectory ==
  ASSUME ObjectAssumption, Whole, TypeOK, Shape, DirectoryInv, NEW n \in Names,
         NEW h \in Handle \cup {NoHandle}, CreateSection(n, h)
  PROVE  DirectoryInv'
<1>0. /\ obj \in ObjectType /\ phase = "ready" /\ phase' = phase /\ file' = file
      /\ Fits(obj) /\ Tidy
  BY SoundIsTidy DEF CreateSection, TypeOK, Shape, Whole
<1>1. CASE UNCHANGED obj
  BY <1>0, <1>1, SameDirectory
<1>2. CASE ~ UNCHANGED obj
  <2> DEFINE k == obj.count
             size == IF h \in Handle THEN hs[h].size ELSE 0
             hdr == SectionHeader(n, obj.target, size, 0)
             headers == Append(SubSeq(obj.headers, 1, k), hdr)
             count == (k + 1) % CountMod
             named == [obj EXCEPT !.headers = headers, !.count = count]
  <2>1. IF h \in Handle
          THEN obj' = [named EXCEPT !.slots = Grown(obj, hs[h]),
                                    !.loaded = IF k >= @ THEN count ELSE @]
          ELSE obj' = named
    BY <1>2 DEF CreateSection
  <2>2. /\ k \in 0 .. CountMod - 1 /\ k \in Nat /\ k <= Len(obj.headers)
        /\ obj.headers \in Seq(HeaderType) /\ obj.loaded \in Nat /\ obj.loaded <= k
    BY <1>0 DEF ObjectType, Shape, Fits, ObjectAssumption
  <2>3. hdr.name = n /\ hdr.size = size
    BY DEF SectionHeader
  <2>4. (\A j \in 1 .. k : headers[j] = obj.headers[j]) /\ headers[k + 1] = hdr
    <3> HIDE DEF hdr
    <3> QED BY <2>2
  <2>5. count = 0 \/ count = k + 1
    BY <2>2, Wrapped DEF ObjectAssumption
  <2> HIDE DEF headers, count, hdr
  <2> DEFINE q == obj'
  <2>6. q.headers = headers /\ q.count = count /\ q.fd = obj.fd
    BY <1>0, <2>1 DEF ObjectType
  <2>7. CASE count = k + 1
    <3>1. CASE h \in Handle
      <4>1. q.slots = Grown(obj, hs[h]) /\ q.loaded = k + 1
        BY <1>0, <2>1, <2>2, <2>7, <3>1 DEF ObjectType
      <4>2. hs[h] \in SlotType /\ hs[h].data # 0
        BY <3>1 DEF CreateSection, TypeOK
      <4>3. /\ q.slots \in Seq(SlotType) /\ Len(q.slots) = k + 1 /\ q.slots[k + 1] = hs[h]
            /\ \A j \in 1 .. obj.loaded : q.slots[j] = obj.slots[j]
            /\ \A j \in obj.loaded + 1 .. k : q.slots[j] = NoSlot
        BY <1>0, <4>1, <4>2, GrownFacts
      <4>4. q.slots # <<>>
        BY <2>2, <4>3
      <4> HIDE DEF q
      <4>5. Resident(q, k) /\ (q.slots[k + 1].size = 0 => q.headers[k + 1].size = 0)
        BY <2>2, <2>3, <2>4, <2>6, <3>1, <4>1, <4>2, <4>3, <4>4 DEF Resident
      <4>6. ASSUME NEW j \in 1 .. k
            PROVE  /\ Resident(q, j - 1) <=> Resident(obj, j - 1)
                   /\ Resident(obj, j - 1) => q.slots[j] = obj.slots[j]
        <5>1. (j - 1) + 1 = j /\ j - 1 < q.loaded
          BY <2>2, <4>1
        <5>2. CASE j \in 1 .. obj.loaded
          <6>1. obj.slots # <<>> /\ j - 1 < obj.loaded
            BY <1>0, <2>2, <5>2 DEF Fits
          <6> QED BY <4>3, <4>4, <5>1, <5>2, <6>1 DEF Resident
        <5>3. CASE j \in obj.loaded + 1 .. k
          <6>1. q.slots[j].data = 0 /\ ~(j - 1 < obj.loaded)
            BY <2>2, <4>3, <5>3 DEF NoSlot, Slot
          <6> QED BY <5>1, <6>1 DEF Resident
        <5> QED BY <2>2, <5>2, <5>3
      <4> QED BY <1>0, <2>2, <2>3, <2>4, <2>6, <2>7, <4>5, <4>6, SectionAdded DEF q
    <3>2. CASE h \notin Handle
      <4>1. q.slots = <<>> /\ obj.slots = <<>>
        BY <1>0, <2>1, <3>2 DEF ObjectType, CreateSection, Careful, Called, Tidy
      <4>2. \A j : ~Resident(q, j) /\ ~Resident(obj, j)
        BY <4>1 DEF Resident
      <4> HIDE DEF q
      <4>3. q.headers[k + 1].size = 0
        BY <2>3, <2>4, <2>6, <3>2
      <4> QED BY <1>0, <2>2, <2>3, <2>4, <2>6, <2>7, <4>2, <4>3, SectionAdded DEF q
    <3> QED BY <3>1, <3>2
  <2>8. CASE count = 0
    BY <1>0, <2>6, <2>8 DEF DirectoryInv, NamedIn, Sized
  <2> QED BY <2>5, <2>7, <2>8
<1> QED BY <1>1, <1>2

(* An update gives the section and its header the new size. *)
LEMMA UpdateDirectory ==
  ASSUME ObjectAssumption, Whole, TypeOK, Shape, DirectoryInv, NEW i \in Nat,
         NEW h \in Handle, UpdateSection(i, h)
  PROVE  DirectoryInv'
<1>0. /\ obj \in ObjectType /\ phase = "ready" /\ phase' = phase /\ file' = file
      /\ Fits(obj) /\ hs[h] \in SlotType /\ hs[h].data # 0
  BY DEF UpdateSection, TypeOK, Shape
<1>1. obj.count \in Nat /\ obj.loaded \in Nat /\ obj.loaded <= obj.count
  BY <1>0 DEF ObjectType, Fits
<1>2. CASE i >= obj.count
  BY <1>0, <1>2, SameDirectory DEF UpdateSection
<1>3. CASE i < obj.count
  <2> DEFINE headers == [obj.headers EXCEPT ![i + 1].size = hs[h].size]
             slots   == [obj.slots EXCEPT ![i + 1] = hs[h]]
             q       == obj'
  <2>1. ~(i >= obj.count) /\ i < obj.loaded
    <3>1. "update unloaded" \notin Calls
      BY DEF Whole
    <3>2. i < obj.loaded \/ i >= obj.count
      BY <3>1 DEF UpdateSection, Careful, Called
    <3>3. ~(i >= obj.count)
      BY <1>1, <1>3
    <3> QED BY <3>2, <3>3
  <2>2. obj.slots # <<>> /\ i + 1 \in 1 .. Len(obj.slots)
    <3>1. i + 1 \in 1 .. Len(obj.slots)
      BY <1>0, <1>1, <2>1, LoadedSlots
    <3> QED BY <1>1, <2>1, <1>0, <3>1 DEF Fits
  <2>3. q = [obj EXCEPT !.headers = headers, !.slots = slots]
    <3>1. q = [[obj EXCEPT !.headers[i + 1].size = hs[h].size] EXCEPT !.slots[i + 1] = hs[h]]
      BY <2>1, <2>2 DEF UpdateSection
    <3> QED BY <1>0, <3>1 DEF ObjectType
  <2>4. /\ q.headers = headers /\ q.slots = slots /\ q.count = obj.count
        /\ q.loaded = obj.loaded /\ q.fd = obj.fd
    <3> HIDE DEF headers, slots, q
    <3> QED BY <1>0, <2>3 DEF ObjectType
  <2>5. /\ obj.headers \in Seq(HeaderType) /\ i + 1 \in 1 .. Len(obj.headers)
        /\ obj.slots \in Seq(SlotType) /\ obj.count <= Len(obj.headers)
    BY <1>0, <1>1, <1>3 DEF ObjectType, Shape
  <2>6. ASSUME NEW j \in 1 .. Len(obj.headers)
        PROVE  /\ headers[j].name = obj.headers[j].name /\ headers[j].off = obj.headers[j].off
               /\ headers[j].size = IF j = i + 1 THEN hs[h].size ELSE obj.headers[j].size
    <3>1. obj.headers[j] \in HeaderType
      BY <2>5
    <3> DEFINE hdr == [obj.headers[i + 1] EXCEPT !.size = hs[h].size]
    <3>2. headers[j] = IF j = i + 1 THEN hdr ELSE obj.headers[j]
      BY <2>5
    <3>3. CASE j = i + 1
      <4>1. hdr.name = obj.headers[j].name /\ hdr.off = obj.headers[j].off
            /\ hdr.size = hs[h].size
        BY <3>1, <3>3 DEF HeaderType
      <4> HIDE DEF hdr, headers
      <4> QED BY <3>2, <3>3, <4>1
    <3>4. CASE j # i + 1
      BY <3>2, <3>4
    <3> QED BY <3>3, <3>4
  <2>7. \A j \in 1 .. Len(obj.slots) : slots[j] = IF j = i + 1 THEN hs[h] ELSE obj.slots[j]
    BY <2>5
  <2>8. slots # <<>>
    <3>1. slots \in Seq(SlotType) /\ Len(slots) = Len(obj.slots)
      BY ONLY <1>0, <2>2, <2>5, ReplacedFacts
    <3> HIDE DEF slots
    <3> QED BY <2>2, <3>1
  <2> HIDE DEF headers, slots, q
  <2>9. NamedIn(obj) /\ Sized(obj, Len(file))
    BY <1>0 DEF DirectoryInv
  <2>10. ASSUME NEW j \in 1 .. q.count
         PROVE  /\ q.headers[j].name \in Names
                /\ IF Resident(q, j - 1) THEN (q.slots[j].size = 0 => q.headers[j].size = 0)
                   ELSE q.headers[j].size > 0 =>
                          q.fd # NoFd /\ q.headers[j].off + q.headers[j].size <= Len(file)
    <3>1. j \in 1 .. Len(obj.headers) /\ j \in 1 .. obj.count /\ (j - 1) + 1 = j
      BY <1>1, <2>4, <2>5
    <3>2. q.headers[j].name \in Names
      BY <2>4, <2>6, <2>9, <3>1 DEF NamedIn
    <3>3. CASE j = i + 1
      <4>1. slots[j] = hs[h]
        BY <2>2, <2>7, <3>3
      <4>2. Resident(q, j - 1)
        BY <1>0, <2>1, <2>4, <2>8, <3>1, <3>3, <4>1 DEF Resident
      <4> QED BY <2>4, <2>6, <3>1, <3>2, <3>3, <4>1, <4>2
    <3>4. CASE j # i + 1
      <4>1. CASE j \in 1 .. obj.loaded
        <5>1. j \in 1 .. Len(obj.slots)
          BY <1>0, <4>1, LoadedSlots
        <5>2. slots[j] = obj.slots[j]
          BY <2>7, <3>4, <5>1
        <5>3. Resident(q, j - 1) <=> Resident(obj, j - 1)
          BY <2>2, <2>4, <2>8, <3>1, <5>2 DEF Resident
        <5> QED BY <2>4, <2>6, <2>9, <3>1, <3>2, <3>4, <5>2, <5>3 DEF Sized
      <4>2. CASE ~(j \in 1 .. obj.loaded)
        <5>1. ~(j - 1 < obj.loaded)
          BY <1>1, <3>1, <4>2
        <5>2. ~Resident(q, j - 1) /\ ~Resident(obj, j - 1)
          BY <2>4, <5>1 DEF Resident
        <5> QED BY <2>4, <2>6, <2>9, <3>1, <3>2, <3>4, <5>2 DEF Sized
      <4> QED BY <4>1, <4>2
    <3> QED BY <3>3, <3>4
  <2>11. NamedIn(q) /\ Sized(q, Len(file))
    BY <2>10 DEF NamedIn, Sized
  <2> QED BY <1>0, <2>11 DEF DirectoryInv, q
<1> QED BY <1>1, <1>2, <1>3

(* What is loaded is not empty, unless its header says that it is. *)
LEMMA FilledSize ==
  ASSUME NEW m, NEW cells, NEW view, NEW p, NEW q,
         NEW o \in Filled(m, cells, view, p, q), o.err = "GOOD"
  PROVE  o.s.size = Len(cells)
<1>1. PICK a \in Alloc(m, cells) :
        o = IF a.r = 0 THEN Lost("NOMEM", m, p)
            ELSE Got(Slot(a.r, 0, Len(cells), view, FALSE), a.mem, q)
  BY DEF Filled
<1>2. o = Got(Slot(a.r, 0, Len(cells), view, FALSE), a.mem, q)
  BY <1>1 DEF Lost
<1> QED BY <1>2 DEF Got, Slot

LEMMA FetchedSize ==
  ASSUME ObjectAssumption, TypeOK, NEW hdr \in HeaderType, NEW flags, "MMAP" \notin flags,
         hdr.size > 0 => obj.fd # NoFd /\ hdr.off + hdr.size <= Len(file),
         NEW o \in Fetched(hdr, flags), o.err = "GOOD"
  PROVE  o.s.size = 0 => hdr.size = 0
<1> DEFINE view == "VIEW" \in flags
           off  == hdr.off
           size == hdr.size
<1>1. off \in Nat /\ size \in Nat /\ file \in Seq(Cells) /\ Len(file) \in Nat
  BY DEF HeaderType, TypeOK
<1>2. \/ o \in Viewed(hdr)
      \/ size = 0 /\ o \in Filled(mem, <<>>, view, Position, Position)
      \/ o = Lost("IO", mem, Position)
      \/ size # 0 /\ o \in ReadFile(off, size, view)
  <2>1. size > 0 \/ size = 0
    BY <1>1
  <2> QED BY <2>1 DEF Fetched
<1> HIDE DEF off, size, view
<1>3. CASE o \in Viewed(hdr)
  BY <1>3 DEF Viewed, Got, Slot
<1>4. CASE size = 0
  BY <1>4 DEF size
<1>5. CASE o = Lost("IO", mem, Position)
  BY <1>5 DEF Lost
<1>6. CASE size # 0 /\ o \in ReadFile(off, size, view)
  <2>1. Available(off, size) = size
    BY <1>1, <1>6 DEF Available, off, size
  <2>2. ReadCounts(off, size) = 1 .. size
    BY <1>6, <2>1 DEF ReadCounts
  <2>3. PICK n \in 1 .. size :
          o \in Filled(mem, CellsOf(file, off, n), view, off, off + n)
    BY <1>6, <2>2 DEF ReadFile, FilledFromFile, Lost
  <2>4. Len(CellsOf(file, off, n)) = n /\ n # 0
    BY <1>1, CellsOfFacts
  <2>5. o.s.size = Len(CellsOf(file, off, n))
    BY <2>3, FilledSize
  <2> QED BY <2>4, <2>5
<1> QED BY <1>2, <1>3, <1>4, <1>5, <1>6

LEMMA KeptSize ==
  ASSUME ObjectAssumption, NEW array \in Seq(SlotType), NEW i \in Nat, i < Len(array),
         array[i + 1].data = 0, NEW o, NEW k \in Kept(array, i, o)
  PROVE  k.slots[i + 1].data = 0 \/ k.slots[i + 1].size = o.s.size
<1>1. i + 1 \in 1 .. Len(array)
  OBVIOUS
<1>2. CASE k = [slots |-> ReplaceAt(array, i + 1, o.s), mem |-> o.mem]
  BY <1>1, <1>2 DEF ReplaceAt
<1>3. CASE \E a \in Alloc(o.mem, Bytes(o.s, o.mem)) :
             k = [slots |-> IF a.r = 0 THEN array
                            ELSE ReplaceAt(array, i + 1, Slot(a.r, 0, o.s.size, FALSE, FALSE)),
                  mem |-> a.mem]
  <2>0. PICK a \in Alloc(o.mem, Bytes(o.s, o.mem)) :
             k = [slots |-> IF a.r = 0 THEN array
                            ELSE ReplaceAt(array, i + 1, Slot(a.r, 0, o.s.size, FALSE, FALSE)),
                  mem |-> a.mem]
    BY <1>3
  <2>1. k.slots = IF a.r = 0 THEN array
                  ELSE ReplaceAt(array, i + 1, Slot(a.r, 0, o.s.size, FALSE, FALSE))
    BY <2>0
  <2>2. CASE a.r = 0
    BY <2>1, <2>2
  <2>3. CASE a.r # 0
    BY <1>1, <2>1, <2>3 DEF ReplaceAt, Slot
  <2> QED BY <2>2, <2>3
<1> QED BY <1>2, <1>3 DEF Kept

(* The object has what it had, and maybe section i besides. *)
LEMMA SectionLoaded ==
  ASSUME ObjectAssumption, OwnInv, DirectoryInv, phase = "ready", phase' = phase,
         file' = file, NEW i \in Nat, i < obj.count, ~Resident(obj, i),
         NEW q, obj' = q, q.headers = obj.headers, q.count = obj.count, q.fd = obj.fd,
         q.slots # <<>>, q.loaded \in Nat, q.loaded >= obj.loaded,
         \A j \in 1 .. obj.count : j # i + 1 => q.slots[j] = SectionsArray[j],
         q.slots[i + 1].data = 0 \/ (q.slots[i + 1].size = 0 => obj.headers[i + 1].size = 0)
  PROVE  DirectoryInv'
<1>1. NamedIn(obj) /\ Sized(obj, Len(file))
  BY DEF DirectoryInv
<1>2. /\ obj.count \in Nat /\ obj.loaded \in Nat /\ obj.loaded <= obj.count
      /\ obj.loaded # 0 => obj.slots # <<>>
  BY DEF OwnInv, TypeOK, Shape, ObjectType, Fits
<1>3. /\ \A j \in 1 .. obj.count : Resident(obj, j - 1) \/ SectionsArray[j].data = 0
      /\ \A j \in 1 .. obj.loaded : SectionsArray[j] = obj.slots[j]
  BY HeldFacts, SectionsArrayFacts DEF OwnInv
<1>4. ASSUME NEW j \in 1 .. obj.count
      PROVE  IF Resident(q, j - 1) THEN (q.slots[j].size = 0 => q.headers[j].size = 0)
             ELSE q.headers[j].size > 0 =>
                    q.fd # NoFd /\ q.headers[j].off + q.headers[j].size <= Len(file)
  <2>1. (j - 1) + 1 = j
    BY <1>2
  <2>2. CASE j = i + 1
    <3>1. j - 1 = i /\ ~Resident(obj, j - 1)
      BY <1>2, <2>2
    <3>2. Resident(q, j - 1) => q.slots[j].data # 0
      BY <2>1 DEF Resident
    <3> QED BY <1>1, <2>2, <3>1, <3>2 DEF Sized
  <2>3. CASE j # i + 1 /\ j \in 1 .. obj.loaded
    <3>1. obj.slots # <<>> /\ j - 1 < obj.loaded /\ j - 1 < q.loaded
      BY <1>2, <2>3
    <3>2. q.slots[j] = obj.slots[j]
      BY <1>3, <2>3
    <3>3. Resident(q, j - 1) <=> Resident(obj, j - 1)
      BY <2>1, <3>1, <3>2 DEF Resident
    <3> QED BY <1>1, <3>2, <3>3 DEF Sized
  <2>4. CASE j # i + 1 /\ ~(j \in 1 .. obj.loaded)
    <3>1. ~(j - 1 < obj.loaded)
      BY <1>2, <2>4
    <3>2. ~Resident(obj, j - 1)
      BY <3>1 DEF Resident
    <3>3. q.slots[j].data = 0
      BY <1>3, <2>4, <3>2
    <3>4. ~Resident(q, j - 1)
      BY <2>1, <3>3 DEF Resident
    <3> QED BY <1>1, <3>2, <3>4 DEF Sized
  <2> QED BY <2>2, <2>3, <2>4
<1>5. NamedIn(q) /\ Sized(q, Len(file))
  BY <1>1, <1>4 DEF NamedIn, Sized
<1> QED BY <1>5 DEF DirectoryInv

LEMMA LoadFetchedDirectory ==
  ASSUME ObjectAssumption, Whole, OwnInv, DirectoryInv, phase = "ready", file' = file,
         NEW i \in Nat, i < obj.count, ~Resident(obj, i), NEW h \in Handle, NEW flags,
         LoadFetched(i, h, flags)
  PROVE  DirectoryInv'
<1> DEFINE array == SectionsArray
           hdr   == obj.headers[i + 1]
<1>1. /\ TypeOK /\ obj \in ObjectType /\ obj.count \in Nat /\ obj.loaded \in Nat
      /\ obj.count <= Len(obj.headers) /\ hdr \in HeaderType
  BY DEF OwnInv, TypeOK, Shape, ObjectType, ObjectAssumption
<1>2. /\ Held \in ObjectType /\ Held.slots = array
      /\ Held.count = obj.count /\ Held.loaded = obj.loaded
  BY HeldFacts
<1>3. Held.headers = obj.headers /\ Held.fd = obj.fd
  BY <1>1 DEF Held, ObjectType
<1>4. array \in Seq(SlotType) /\ i < Len(array) /\ Len(array) \in Nat /\ array # <<>>
  <2>1. array \in Seq(SlotType) /\ obj.count <= Len(array)
    BY SectionsArrayFacts DEF OwnInv
  <2> HIDE DEF array
  <2> QED BY <1>1, <2>1
<1>5. array[i + 1].data = 0
  <2>1. i + 1 \in 1 .. obj.count /\ (i + 1) - 1 = i
    BY <1>1
  <2>2. \A j \in 1 .. obj.count : Resident(obj, j - 1) \/ array[j].data = 0
    BY HeldFacts
  <2> HIDE DEF array
  <2> QED BY <2>1, <2>2
<1>6. ~(i >= Len(array))
  BY <1>4
<1>7. PICK o \in Fetched(hdr, flags) :
        IF o.err # "GOOD" THEN obj' = Held
        ELSE \E k \in Kept(array, i, o) :
               obj' = [Held EXCEPT !.slots = k.slots,
                                   !.loaded = IF i >= @ THEN i + 1 ELSE @]
  BY <1>6 DEF LoadFetched, Held
<1>8. phase' = phase /\ "MMAP" \notin flags
  BY <1>6 DEF LoadFetched, Careful, Called, Whole, Sound
<1> HIDE DEF array, hdr
<1>9. \A j \in 1 .. obj.count : j # i + 1 => Held.slots[j] = SectionsArray[j]
  BY <1>2 DEF array
<1>10. CASE o.err # "GOOD"
  <2> DEFINE q == Held
  <2>1. /\ obj' = q /\ q.headers = obj.headers /\ q.count = obj.count /\ q.fd = obj.fd
        /\ q.slots # <<>> /\ q.loaded \in Nat /\ q.loaded >= obj.loaded
        /\ q.slots[i + 1].data = 0
        /\ \A j \in 1 .. obj.count : j # i + 1 => q.slots[j] = SectionsArray[j]
    BY <1>1, <1>2, <1>3, <1>4, <1>5, <1>7, <1>9, <1>10
  <2> HIDE DEF q
  <2> QED BY <1>8, <2>1, SectionLoaded
<1>11. CASE o.err = "GOOD"
  <2>1. PICK k \in Kept(array, i, o) :
          obj' = [Held EXCEPT !.slots = k.slots, !.loaded = IF i >= @ THEN i + 1 ELSE @]
    BY <1>7, <1>11
  <2>2. k.slots[i + 1].data = 0 \/ k.slots[i + 1].size = o.s.size
    BY <1>4, <1>5, <2>1, KeptSize
  <2>3. o.s.size = 0 => hdr.size = 0
    <3>1. i + 1 \in 1 .. obj.count /\ (i + 1) - 1 = i
      BY <1>1
    <3>2. hdr.size > 0 => obj.fd # NoFd /\ hdr.off + hdr.size <= Len(file)
      BY <3>1 DEF DirectoryInv, Sized, hdr
    <3> QED BY <1>1, <1>7, <1>8, <1>11, <3>2, FetchedSize
  <2>4. /\ k.slots \in Seq(SlotType) /\ Len(k.slots) = Len(array)
        /\ \A j \in 1 .. Len(array) : j # i + 1 => k.slots[j] = array[j]
    <3>1. IsResult(o)
      BY <1>1, <1>7, FetchedIsResult
    <3> QED BY <1>4, <1>11, <2>1, <3>1, KeptFacts
  <2>5. k.slots # <<>>
    BY <1>4, <2>4
  <2> DEFINE q == obj'
  <2>6. /\ q.slots = k.slots /\ q.count = obj.count /\ q.headers = obj.headers
        /\ q.fd = obj.fd /\ q.loaded = IF i >= obj.loaded THEN i + 1 ELSE obj.loaded
    BY <1>2, <1>3, <2>1 DEF ObjectType
  <2> HIDE DEF q
  <2>7. q.loaded \in Nat /\ q.loaded >= obj.loaded
    BY <1>1, <2>6
  <2>8. \A j \in 1 .. obj.count : j # i + 1 => q.slots[j] = SectionsArray[j]
    <3>1. obj.count <= Len(array)
      BY SectionsArrayFacts DEF OwnInv, array
    <3> QED BY <1>1, <1>4, <2>4, <2>6, <3>1 DEF array
  <2>9. q.slots[i + 1].data = 0 \/ (q.slots[i + 1].size = 0 => obj.headers[i + 1].size = 0)
    BY <2>2, <2>3, <2>6 DEF hdr
  <2>10. q.slots # <<>> /\ obj' = q
    BY <2>5, <2>6 DEF q
  <2> QED BY <1>8, <2>6, <2>7, <2>8, <2>9, <2>10, SectionLoaded
<1> QED BY <1>10, <1>11

LEMMA LoadSectionDirectory ==
  ASSUME ObjectAssumption, Whole, OwnInv, DirectoryInv, NEW i \in Nat, NEW h \in Handle,
         NEW flags, LoadSection(i, h, flags)
  PROVE  DirectoryInv'
<1>1. phase = "ready" /\ file' = file /\ obj.count \in Nat
  BY DEF LoadSection, OwnInv, TypeOK, ObjectType
<1>2. CASE UNCHANGED <<obj, phase>>
  BY <1>1, <1>2, SameDirectory
<1>3. CASE i < obj.count /\ ~Resident(obj, i) /\ LoadFetched(i, h, flags)
  BY <1>1, <1>3, LoadFetchedDirectory
<1>4. CASE i >= obj.count
  BY <1>2, <1>4 DEF LoadSection
<1>5. CASE i < obj.count
  <2>1. ~(i >= obj.count)
    BY <1>1, <1>5
  <2> QED BY <1>2, <1>3, <1>5, <2>1 DEF LoadSection, LoadResident
<1> QED BY <1>1, <1>4, <1>5

(* What a load makes of a file that holds what its headers promise. *)
LEMMA LoadedDirectory ==
  ASSUME ObjectAssumption, TypeOK, WellFormed, file # <<>>, file' = file, NEW f \in Fd,
         NEW k, k = CellIn(file, 1).section_count,
         obj'.fd = f, obj'.count = k, obj'.headers = Headers(1, k), obj'.slots = <<>>
  PROVE  DirectoryInv'
<1> DEFINE q == obj'
<1>1. q.fd = f /\ q.count = k /\ q.headers = Headers(1, k) /\ q.slots = <<>>
  OBVIOUS
<1> HIDE DEF q
<1>2. file[1] = CellIn(file, 1)
  BY DEF TypeOK, CellIn
<1>3. ASSUME NEW j \in 1 .. k
      PROVE  /\ q.headers[j].name \in Names
             /\ q.headers[j].size > 0 => q.headers[j].off + q.headers[j].size <= Len(file)
  <2>1. q.headers[j] = HeaderAt(1 + j)
    BY <1>1 DEF Headers
  <2> QED BY <1>2, <2>1 DEF WellFormed
<1>4. \A j : ~Resident(q, j)
  BY <1>1 DEF Resident
<1>5. q.fd # NoFd
  BY <1>1 DEF ObjectAssumption
<1>6. NamedIn(q) /\ Sized(q, Len(file))
  BY <1>1, <1>3, <1>4, <1>5 DEF NamedIn, Sized
<1> QED BY <1>6 DEF DirectoryInv, q

LEMMA LoadFailsDirectory ==
  ASSUME NEW op, NEW err, NEW f, NEW k, NEW p, LoadFails(op, err, f, k, p)
  PROVE  DirectoryInv'
BY DEF LoadFails, DirectoryInv

LEMMA LoadFileDirectory ==
  ASSUME ObjectAssumption, Whole, TypeOK, NEW f \in Fd, LoadFile(f)
  PROVE  DirectoryInv'
<1> DEFINE p    == fds[f].pos
           cell == CellIn(file, p + 1)
           k    == IF IsHeader(cell) THEN cell.section_count ELSE 0
<1>1. p = 0
  BY DEF LoadFile, Careful, Called, Whole
<1>2. \/ \E op, err, j, at : LoadFails(op, err, f, j, at)
      \/ /\ IsHeader(cell) /\ p + k < Len(file) /\ file' = file
         /\ obj' = [EmptyObject EXCEPT !.fd = f, !.count = k, !.headers = Headers(p + 1, k)]
  <2> HIDE DEF cell, k, p
  <2> QED BY DEF LoadFile, p, cell, k
<1>3. CASE \E op, err, j, at : LoadFails(op, err, f, j, at)
  BY <1>3, LoadFailsDirectory
<1>4. CASE /\ IsHeader(cell) /\ p + k < Len(file) /\ file' = file
           /\ obj' = [EmptyObject EXCEPT !.fd = f, !.count = k, !.headers = Headers(p + 1, k)]
  <2>1. p + 1 = 1 /\ cell = CellIn(file, 1) /\ k = CellIn(file, 1).section_count
    BY <1>1, <1>4
  <2> HIDE DEF cell, k, p
  <2>2. WellFormed
    BY <1>4, <2>1 DEF LoadFile, LoadReady, Careful, Called, Whole
  <2>3. /\ obj'.fd = f /\ obj'.count = k /\ obj'.headers = Headers(1, k)
        /\ obj'.slots = <<>>
    BY <1>4, <2>1 DEF EmptyObject
  <2>4. file # <<>>
    <3>1. k \in Nat
      BY <1>4, <2>1, CountIsShort DEF Count
    <3>2. Len(file) > 0
      <4>1. Len(file) \in Nat
        BY DEF TypeOK
      <4> QED BY <1>1, <1>4, <3>1, <4>1
    <3> QED BY <3>2
  <2> QED BY <1>4, <2>1, <2>2, <2>3, <2>4, LoadedDirectory
<1> QED BY <1>2, <1>3, <1>4

LEMMA MmapDirectory ==
  ASSUME ObjectAssumption, Whole, TypeOK, NEW f \in Fd, Mmap(f)
  PROVE  DirectoryInv'
<1> DEFINE k == file[1].section_count
<1>1. \/ \E op, err, j, at : LoadFails(op, err, f, j, at)
      \/ /\ file # <<>> /\ IsHeader(file[1]) /\ file' = file
         /\ \E a : obj' = [EmptyObject EXCEPT !.fd = f, !.map = a, !.count = k,
                                              !.headers = Headers(1, k)]
  BY DEF Mmap
<1>2. CASE \E op, err, j, at : LoadFails(op, err, f, j, at)
  BY <1>2, LoadFailsDirectory
<1>3. CASE /\ file # <<>> /\ IsHeader(file[1]) /\ file' = file
           /\ \E a : obj' = [EmptyObject EXCEPT !.fd = f, !.map = a, !.count = k,
                                                !.headers = Headers(1, k)]
  <2>1. CellIn(file, 1) = file[1]
    <3>1. file \in Seq(Cells)
      BY DEF TypeOK
    <3> QED BY <1>3, <3>1 DEF CellIn
  <2>2. WellFormed
    BY <1>3, <2>1 DEF Mmap, LoadReady, Careful, Called, Whole
  <2>3. k = CellIn(file, 1).section_count
    BY <2>1
  <2> HIDE DEF k
  <2>4. /\ obj'.fd = f /\ obj'.count = k /\ obj'.headers = Headers(1, k)
        /\ obj'.slots = <<>>
    BY <1>3 DEF EmptyObject
  <2> QED BY <1>3, <2>2, <2>3, <2>4, LoadedDirectory
<1> QED BY <1>1, <1>2, <1>3

-----------------------------------------------------------------------------
(***************************************************************************)
(* The invariant, and the property of saving                               *)
(***************************************************************************)
LEMMA NextDirectory ==
  ASSUME ObjectAssumption, Whole, OwnInv, DirectoryInv, [Next]_vars
  PROVE  DirectoryInv'
<1>0. 0 .. MaxSections \subseteq Nat /\ TypeOK /\ Shape
  BY DEF ObjectAssumption, OwnInv
<1>1. CASE UNCHANGED vars
  BY <1>1 DEF vars, DirectoryInv
<1>2. CASE Managing
  <2>1. CASE ObjInit \/ ObjCleanup
    BY <1>0, <2>1, OthersDirectory
  <2>2. CASE Unmap
    BY <2>2, UnmapDirectory
  <2>3. CASE (\E t \in Targets : SetTargetDefaults(t)) \/ \E n \in Names : FindSection(n)
    BY <1>0, <2>3, OthersDirectory
  <2>4. CASE \E n \in Names : \E h \in Handle \cup {NoHandle} : CreateSection(n, h)
    BY <1>0, <2>4, CreateDirectory
  <2>5. CASE \E i \in 0 .. MaxSections : DeleteSection(i)
    BY <1>0, <2>5, DeleteDirectory
  <2> QED BY <1>2, <2>1, <2>2, <2>3, <2>4, <2>5 DEF Managing
<1>3. CASE Exchanging
  <2>1. PICK h \in Handle :
          \/ \E cells \in Contents : FillHandle(h, cells)
          \/ DropHandle(h)
          \/ \E i \in 0 .. MaxSections : UpdateSection(i, h)
          \/ \E i \in 0 .. MaxSections, flags \in SUBSET {"VIEW", "MMAP"} :
               LoadSection(i, h, flags)
    BY <1>3 DEF Exchanging
  <2>2. CASE DropHandle(h) \/ \E cells \in Contents : FillHandle(h, cells)
    BY <1>0, <2>2, OthersDirectory
  <2>3. CASE \E i \in 0 .. MaxSections : UpdateSection(i, h)
    BY <1>0, <2>3, UpdateDirectory
  <2>4. CASE \E i \in 0 .. MaxSections, flags \in SUBSET {"VIEW", "MMAP"} :
               LoadSection(i, h, flags)
    BY <1>0, <2>4, LoadSectionDirectory
  <2> QED BY <2>1, <2>2, <2>3, <2>4
<1>4. CASE Filing
  <2>1. PICK f \in Fd : \/ LoadFile(f) \/ Mmap(f) \/ SaveFile(f)
                        \/ OpenFd(f) \/ Rewind(f) \/ Truncate(f) \/ CloseFd(f)
    BY <1>4 DEF Filing
  <2>2. CASE LoadFile(f) \/ Mmap(f)
    BY <1>0, <2>2, LoadFileDirectory, MmapDirectory
  <2>3. CASE SaveFile(f)
    BY <2>3, SaveStored
  <2>4. CASE Truncate(f)
    BY <1>0, <2>4, TruncateDirectory
  <2>5. CASE OpenFd(f) \/ Rewind(f) \/ CloseFd(f)
    BY <1>0, <2>5, OthersDirectory
  <2> QED BY <2>1, <2>2, <2>3, <2>4, <2>5
<1> QED BY <1>1, <1>2, <1>3, <1>4 DEF Next

(* The call that a step says it was. *)
Tells(op) == \E err, index : ret' = Result(op, err, index)

LEMMA DoneTells ==
  ASSUME NEW op, NEW err, Done(op, err)
  PROVE  Tells(op)
BY DEF Done, Tells

LEMMA ToldOp ==
  ASSUME NEW op, Tells(op)
  PROVE  ret'.op = op
BY DEF Tells, Result

(* No other step says that it was a save. *)
LEMMA OnlySavesSave ==
  ASSUME ObjectAssumption, Shape', Next, ret'.op = "save_file"
  PROVE  \E f \in Fd : SaveFile(f)
<1> DEFINE Others == {"init", "cleanup", "unmap", "set_target_defaults", "find_section",
                      "create_section", "delete_section", "client", "update_section",
                      "load_section", "load_file", "mmap"}
<1>1. ASSUME NEW op \in Others PROVE ~Tells(op)
  BY <1>1, ToldOp
<1> HIDE DEF Others
<1>2. /\ ~Tells("init") /\ ~Tells("cleanup") /\ ~Tells("unmap")
      /\ ~Tells("set_target_defaults") /\ ~Tells("find_section")
      /\ ~Tells("create_section") /\ ~Tells("delete_section")
  BY <1>1 DEF Others
<1>3. /\ ~Tells("client") /\ ~Tells("update_section") /\ ~Tells("load_section")
      /\ ~Tells("load_file") /\ ~Tells("mmap")
  BY <1>1 DEF Others
<1>4. ~Managing
  <2>1. ~ObjInit /\ ~ObjCleanup
    BY <1>2, DoneTells DEF ObjInit, ObjCleanup
  <2>2. ~Unmap
    BY <1>2, DoneTells DEF Unmap
  <2>3. ASSUME NEW t PROVE ~SetTargetDefaults(t)
    BY <1>2, DoneTells DEF SetTargetDefaults
  <2>4. ASSUME NEW n PROVE ~FindSection(n)
    BY <1>2 DEF FindSection, Tells
  <2>5. ASSUME NEW n, NEW h, CreateSection(n, h) PROVE FALSE
    <3>1. \/ \E err : Done("create_section", err)
          \/ \E k : ret' = Result("create_section", "GOOD", k)
      BY <2>5 DEF CreateSection
    <3> QED BY <1>2, <3>1, DoneTells DEF Tells
  <2>6. ASSUME NEW i PROVE ~DeleteSection(i)
    BY <1>2, DoneTells DEF DeleteSection
  <2> QED BY <2>1, <2>2, <2>3, <2>4, <2>5, <2>6 DEF Managing
<1>5. ~Exchanging
  <2>1. ASSUME NEW h, NEW cells PROVE ~FillHandle(h, cells)
    BY <1>3, DoneTells DEF FillHandle
  <2>2. ASSUME NEW h PROVE ~DropHandle(h)
    BY <1>3, DoneTells DEF DropHandle
  <2>3. ASSUME NEW i, NEW h PROVE ~UpdateSection(i, h)
    BY <1>3, DoneTells DEF UpdateSection
  <2>4. ASSUME NEW i, NEW h, NEW flags, LoadSection(i, h, flags) PROVE FALSE
    <3>1. ASSUME NEW o PROVE ~Handed(h, o)
      BY <1>3, DoneTells DEF Handed
    <3>2. ~LoadResident(i, h, flags)
      BY <3>1 DEF LoadResident
    <3>3. ~LoadFetched(i, h, flags)
      BY <3>1 DEF LoadFetched, Shape
    <3>4. \E err : Done("load_section", err)
      BY <2>4, <3>2, <3>3 DEF LoadSection
    <3> QED BY <1>3, <3>4, DoneTells
  <2> QED BY <2>1, <2>2, <2>3, <2>4 DEF Exchanging
<1>6. PICK f \in Fd : \/ LoadFile(f) \/ Mmap(f) \/ SaveFile(f)
                      \/ OpenFd(f) \/ Rewind(f) \/ Truncate(f) \/ CloseFd(f)
  BY <1>4, <1>5 DEF Next, Filing
<1>7. ~LoadFile(f)
  <2>1. LoadFile(f) => \E err : Done("load_file", err)
    BY DEF LoadFile, LoadFails
  <2> QED BY <1>3, <2>1, DoneTells
<1>8. ~Mmap(f)
  <2>1. Mmap(f) => \E err : Done("mmap", err)
    BY DEF Mmap, LoadFails
  <2> QED BY <1>3, <2>1, DoneTells
<1>9. ~OpenFd(f) /\ ~Rewind(f) /\ ~Truncate(f) /\ ~CloseFd(f)
  BY <1>3, DoneTells DEF OpenFd, Rewind, Truncate, CloseFd
<1> QED BY <1>6, <1>7, <1>8, <1>9

(* For any such client, every save that reports success has put the whole  *)
(* object into the file: its count, and each section under its name with   *)
(* the bytes it had in memory, whatever was mapped, loaded, updated,       *)
(* deleted and saved before.                                               *)
THEOREM SavesAreComplete == Whole => (Spec => SaveIsComplete)
<1>1. Whole \in BOOLEAN
  BY DEF Whole, Sound
<1>2. CASE Whole
  <2>1. Init => OwnInv /\ DirectoryInv
    BY InitOwn, ObjectAssumption DEF Init, DirectoryInv
  <2>2. (OwnInv /\ DirectoryInv) /\ [Next]_vars => (OwnInv /\ DirectoryInv)'
    BY <1>2, ObjectAssumption, NextOwn, NextDirectory DEF Whole
  <2>3. (OwnInv /\ DirectoryInv) /\ (OwnInv /\ DirectoryInv)' /\ [Next]_vars
          => [ret'.op = "save_file" /\ ret'.err = "GOOD" =>
                /\ WellFormed'
                /\ file'[1].section_count = obj.count
                /\ \A i \in 0 .. obj.count - 1 :
                     LET hdr == HeaderAt(2 + i)'
                     IN  /\ hdr.name = obj.headers[i + 1].name
                         /\ CellsOf(file', hdr.off, hdr.size) = SectionBytes(i)]_vars
    <3> SUFFICES ASSUME OwnInv, DirectoryInv, OwnInv', Next,
                        ret'.op = "save_file", ret'.err = "GOOD"
                 PROVE  /\ WellFormed'
                        /\ file'[1].section_count = obj.count
                        /\ \A i \in 0 .. obj.count - 1 :
                             LET hdr == HeaderAt(2 + i)'
                             IN  /\ hdr.name = obj.headers[i + 1].name
                                 /\ CellsOf(file', hdr.off, hdr.size) = SectionBytes(i)
      OBVIOUS
    <3>1. PICK f \in Fd : SaveFile(f)
      BY ObjectAssumption, OnlySavesSave DEF OwnInv
    <3> QED BY <1>2, <3>1, ObjectAssumption, SavedWhole
  <2> QED BY <2>1, <2>2, <2>3, PTL DEF Spec, SaveIsComplete
<1> QED BY <1>1, <1>2
=============================================================================
