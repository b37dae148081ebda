--------------------------- MODULE ByteStreamProofs ---------------------------
(***************************************************************************)
(* A section implements ByteStream, for every heap, byte set and size: the *)
(* client sees a sequence of bytes with two cursors and a file.            *)
(***************************************************************************)
EXTENDS MCSection, CoilSectionProofs, SequenceTheorems

(***************************************************************************)
(* The operators of the abstract specification                             *)
(***************************************************************************)

(* The sequence that a function on 0 .. n-1 stands for. *)
LEMMA AsSeqFacts ==
  ASSUME NEW S, NEW n \in Nat, NEW f, \A i \in 0 .. n - 1 : f[i] \in S
  PROVE  /\ AsSeq(n, f) \in Seq(S) /\ Len(AsSeq(n, f)) = n
         /\ AsSeq(n, f) \in [1 .. n -> S]
         /\ \A i \in 1 .. n : AsSeq(n, f)[i] = f[i - 1]
<1>1. \A i \in 1 .. n : i - 1 \in 0 .. n - 1
  OBVIOUS
<1>2. AsSeq(n, f) \in [1 .. n -> S]
  BY <1>1 DEF AsSeq
<1>3. AsSeq(n, f) \in Seq(S) /\ Len(AsSeq(n, f)) = n
  BY <1>2
<1> QED BY <1>2, <1>3 DEF AsSeq

LEMMA AsSeqNone ==
  ASSUME NEW f
  PROVE  AsSeq(0, f) = <<>>
BY DEF AsSeq

(* Bytes in place of others, from offset o on. *)
LEMMA SpliceFacts ==
  ASSUME NEW S, NEW s \in Seq(S), NEW o \in 0 .. Len(s), NEW t \in Seq(S)
  PROVE  /\ Stream!Splice(s, o, t) \in Seq(S)
         /\ Len(Stream!Splice(s, o, t)) =
              IF o + Len(t) > Len(s) THEN o + Len(t) ELSE Len(s)
         /\ \A i \in 1 .. Len(Stream!Splice(s, o, t)) :
              Stream!Splice(s, o, t)[i] =
                IF i \in o + 1 .. o + Len(t) THEN t[i - o] ELSE s[i]
<1> DEFINE n == Len(s)
           m == Len(t)
           x == SubSeq(s, 1, o)
           y == SubSeq(s, o + m + 1, n)
<1>0. /\ n \in Nat /\ m \in Nat /\ o \in Nat /\ o <= n
      /\ \A i \in 1 .. n : s[i] \in S
      /\ \A i \in 1 .. m : t[i] \in S
  OBVIOUS
<1> HIDE DEF n, m
<1>1. x \in Seq(S) /\ Len(x) = o /\ \A i \in 1 .. o : x[i] = s[i]
  <2>1. \A i \in 1 .. o : s[i] \in S
    BY <1>0
  <2>2. /\ x \in Seq(S) /\ Len(x) = IF 1 <= o THEN o - 1 + 1 ELSE 0
        /\ \A i \in 1 .. o - 1 + 1 : x[i] = s[1 + i - 1]
    BY <1>0, <2>1, 1 \in Int, o \in Int, SubSeqProperties
  <2>3. \A i \in 1 .. o : i \in 1 .. o - 1 + 1 /\ 1 + i - 1 = i
    BY <1>0
  <2> QED BY <1>0, <2>2, <2>3
<1>2. /\ y \in Seq(S) /\ Len(y) = IF o + m < n THEN n - (o + m) ELSE 0
      /\ \A i \in 1 .. n - (o + m) : y[i] = s[(o + m) + i]
  <2>1. \A i \in o + m + 1 .. n : s[i] \in S
    BY <1>0
  <2> DEFINE from == o + m + 1
  <2>2. \A i \in from .. n : s[i] \in S
    BY <2>1
  <2>3. from \in Int /\ n \in Int /\ y = SubSeq(s, from, n)
    BY <1>0
  <2> HIDE DEF from, y
  <2>4. /\ y \in Seq(S)
        /\ Len(y) = IF from <= n THEN n - from + 1 ELSE 0
        /\ \A i \in 1 .. n - from + 1 : y[i] = s[from + i - 1]
    BY ONLY <2>2, <2>3, SubSeqProperties
  <2>5. \A i \in 1 .. n - (o + m) :
          i \in 1 .. n - from + 1 /\ from + i - 1 = (o + m) + i
    BY <1>0 DEF from
  <2>6. Len(y) = IF o + m < n THEN n - (o + m) ELSE 0
    BY <1>0, <2>4 DEF from
  <2> QED BY <2>4, <2>5, <2>6
<1> HIDE DEF x, y
<1> DEFINE xt == x \o t
<1>3. /\ xt \in Seq(S) /\ Len(xt) = o + m
      /\ \A i \in 1 .. o + m : xt[i] = IF i <= o THEN x[i] ELSE t[i - o]
  BY <1>0, <1>1, ConcatProperties DEF m
<1> HIDE DEF xt
<1> DEFINE z == xt \o y
<1>4. /\ z \in Seq(S) /\ Len(z) = (o + m) + Len(y)
      /\ \A i \in 1 .. (o + m) + Len(y) :
           z[i] = IF i <= o + m THEN xt[i] ELSE y[i - (o + m)]
  <2>1. /\ z \in Seq(S) /\ Len(z) = Len(xt) + Len(y)
        /\ \A i \in 1 .. Len(xt) + Len(y) :
             z[i] = IF i <= Len(xt) THEN xt[i] ELSE y[i - Len(xt)]
    BY <1>2, <1>3, ConcatProperties
  <2> HIDE DEF z
  <2> QED BY <1>3, <2>1
<1>5. Stream!Splice(s, o, t) = z
  BY DEF Stream!Splice, z, xt, x, y, n, m
<1> HIDE DEF z
<1>6. Len(z) = IF o + m > n THEN o + m ELSE n
  BY <1>0, <1>2, <1>4
<1>7. ASSUME NEW i \in 1 .. Len(z)
      PROVE  z[i] = IF i \in o + 1 .. o + m THEN t[i - o] ELSE s[i]
  <2>1. i \in Nat /\ 1 <= i /\ i <= Len(z) /\ Len(z) \in Nat
    BY <1>0, <1>6
  <2>2. CASE i <= o
    <3>1. z[i] = xt[i] /\ xt[i] = x[i] /\ x[i] = s[i]
      BY <1>0, <1>1, <1>3, <1>4, <2>1, <2>2
    <3> QED BY <1>0, <2>1, <2>2, <3>1
  <2>3. CASE i > o /\ i <= o + m
    <3>1. z[i] = xt[i] /\ xt[i] = t[i - o]
      BY <1>0, <1>3, <1>4, <2>1, <2>3
    <3> QED BY <1>0, <2>1, <2>3, <3>1
  <2>4. CASE i > o + m
    <3>1. Len(y) = n - (o + m) /\ i - (o + m) \in 1 .. n - (o + m)
          /\ (o + m) + (i - (o + m)) = i
      BY <1>0, <1>2, <1>6, <2>1, <2>4
    <3>2. z[i] = y[i - (o + m)]
      BY <1>0, <1>4, <2>1, <2>4, <3>1
    <3>3. y[i - (o + m)] = s[i]
      BY <1>2, <3>1
    <3> QED BY <1>0, <2>1, <2>4, <3>2, <3>3
  <2> QED BY <1>0, <2>1, <2>2, <2>3, <2>4
<1> QED BY <1>4, <1>5, <1>6, <1>7 DEF n, m

(* Zero bytes behind a sequence that is too short. *)
LEMMA PaddedFacts ==
  ASSUME NEW S, Nul \in S, NEW s \in Seq(S), NEW o \in Nat
  PROVE  /\ Stream!Padded(s, o) \in Seq(S)
         /\ Len(Stream!Padded(s, o)) = IF o > Len(s) THEN o ELSE Len(s)
         /\ \A i \in 1 .. Len(Stream!Padded(s, o)) :
              Stream!Padded(s, o)[i] = IF i <= Len(s) THEN s[i] ELSE Nul
<1> DEFINE n == Len(s)
           m == IF o > n THEN o - n ELSE 0
           t == [i \in 1 .. m |-> Nul]
           z == s \o t
<1>1. n \in Nat /\ m \in Nat /\ n + m = IF o > n THEN o ELSE n
  OBVIOUS
<1>2. Stream!Padded(s, o) = z
  BY DEF Stream!Padded
<1> HIDE DEF m
<1>3. t \in Seq(S) /\ Len(t) = m /\ \A i \in 1 .. m : t[i] = Nul
  BY <1>1
<1> HIDE DEF t
<1>4. /\ z \in Seq(S) /\ Len(z) = n + m
      /\ \A i \in 1 .. n + m : z[i] = IF i <= n THEN s[i] ELSE t[i - n]
  <2>1. /\ z \in Seq(S) /\ Len(z) = Len(s) + Len(t)
        /\ \A i \in 1 .. Len(s) + Len(t) :
             z[i] = IF i <= Len(s) THEN s[i] ELSE t[i - Len(s)]
    BY <1>3, ConcatProperties
  <2> HIDE DEF z
  <2> QED BY <1>3, <2>1
<1> HIDE DEF z
<1>5. ASSUME NEW i \in 1 .. Len(z), ~(i <= n) PROVE z[i] = Nul
  <2>1. i - n \in 1 .. m
    BY <1>1, <1>4, <1>5
  <2> QED BY <1>3, <1>4, <1>5, <2>1
<1> QED BY <1>1, <1>2, <1>4, <1>5

(* Results of the two levels that differ in the bytes read only. *)
LEMMA ReplyFacts ==
  ASSUME NEW op, op # "read", NEW err, NEW n
  PROVE  /\ Reply(Result(op, err, n, NoBytes)) = Stream!Result(op, err, n, <<>>)
         /\ Reply(Done(op, err)) = Stream!Done(op, err)
<1> DEFINE r(k) == Result(op, err, k, NoBytes)
           none == AsSeq(0, NoBytes)
<1>1. none = <<>>
  BY AsSeqNone
<1> HIDE DEF none
<1>2. ASSUME NEW k PROVE Reply(r(k)) = Stream!Result(op, err, k, <<>>)
  <2>1. Reply(r(k)) = [r(k) EXCEPT !.out = none]
    BY DEF Reply, Result, none
  <2>2. [r(k) EXCEPT !.out = none] = [op |-> op, err |-> err, n |-> k, out |-> none]
    BY DEF Result
  <2> QED BY <1>1, <2>1, <2>2 DEF Stream!Result
<1> QED BY <1>2 DEF Done, Stream!Done

LEMMA ReplyRead ==
  ASSUME NEW n, NEW out
  PROVE  Reply(Result("read", "GOOD", n, out)) =
           Stream!Result("read", "GOOD", n, AsSeq(n, out))
<1> DEFINE r == Result("read", "GOOD", n, out)
           given == AsSeq(n, out)
<1> HIDE DEF given
<1>1. Reply(r) = [r EXCEPT !.out = given]
  BY DEF Reply, Result, given
<1>2. [r EXCEPT !.out = given] = [op |-> "read", err |-> "GOOD", n |-> n, out |-> given]
  BY DEF Result
<1> QED BY <1>1, <1>2 DEF Stream!Result, given

(***************************************************************************)
(* What the client sees                                                    *)
(***************************************************************************)

BytesOK ==
  /\ Bytes \in Seq(Byte) /\ Len(Bytes) = Shown.size
  /\ \A i \in 0 .. Shown.size - 1 : Bytes[i + 1] = CellAt(Shown, i)

DiskOK ==
  /\ Disk \in Seq(Byte) /\ Len(Disk) = file.len
  /\ \A i \in 0 .. file.len - 1 : Disk[i + 1] = file.bytes[i]

ViewOK ==
  Kind = "view" =>
    \A i \in 0 .. Shown.size - 1 :
      /\ Base + i \in 0 .. file.len - 1
      /\ CellAt(Shown, i) = file.bytes[Base + i]

(* A section that shows nothing. *)
LEMMA ZeroFields ==
  /\ ZeroSection.size = 0 /\ ZeroSection.rindex = 0 /\ ZeroSection.windex = 0
  /\ ZeroSection.map_start = 0 /\ ZeroSection.map_off = 0
  /\ ZeroSection.mode = "CREATE"
BY DEF ZeroSection

LEMMA SeenOK ==
  ASSUME Careful, IInv
  PROVE  BytesOK /\ DiskOK /\ ViewOK
<1>1. Shown.size \in Nat
  BY OpenCursors, ZeroFields DEF Shown
<1>2. ASSUME NEW i \in 0 .. Shown.size - 1
      PROVE  /\ Slice(Shown, 0, Shown.size)[i] = CellAt(Shown, i)
             /\ CellAt(Shown, i) \in Byte
  <2>1. Slice(Shown, 0, Shown.size)[i] = CellAt(Shown, i)
    <3>1. 0 + i = i
      OBVIOUS
    <3> QED BY <3>1 DEF Slice
  <2>2. phase = "open" /\ Shown = sect
    BY <1>1, ZeroFields DEF Shown
  <2>3. sect.data # NULL
    BY <2>2 DEF IInv, OpenOK, BufferOK, OwnsOK, CursorsOK, Section, Size
  <2>4. CellAt(sect, i) \in Byte
    BY <2>2, <2>3, ContentCells
  <2> QED BY <2>1, <2>2, <2>4
<1>3. BytesOK
  <2> DEFINE f == Slice(Shown, 0, Shown.size)
             n == Shown.size
  <2>1. n \in Nat /\ \A i \in 0 .. n - 1 : f[i] = CellAt(Shown, i) /\ f[i] \in Byte
    BY <1>1, <1>2
  <2>2. Bytes = AsSeq(n, f)
    BY DEF Bytes
  <2> HIDE DEF f, n
  <2>3. /\ Bytes \in Seq(Byte) /\ Len(Bytes) = n
        /\ \A i \in 1 .. n : Bytes[i] = f[i - 1]
    BY <2>1, <2>2, AsSeqFacts
  <2>4. ASSUME NEW i \in 0 .. n - 1 PROVE Bytes[i + 1] = CellAt(Shown, i)
    <3>1. i + 1 \in 1 .. n /\ (i + 1) - 1 = i
      BY <2>1
    <3> QED BY <2>1, <2>3, <3>1
  <2> QED BY <2>3, <2>4 DEF BytesOK, n
<1>4. DiskOK
  <2> DEFINE f == file.bytes
             n == file.len
  <2>1. n \in Nat /\ \A i \in 0 .. n - 1 : f[i] \in Byte
    BY DEF IInv, FileOK
  <2>2. Disk = AsSeq(n, f)
    BY DEF Disk
  <2> HIDE DEF f, n
  <2>3. /\ Disk \in Seq(Byte) /\ Len(Disk) = n
        /\ \A i \in 1 .. n : Disk[i] = f[i - 1]
    BY <2>1, <2>2, AsSeqFacts
  <2>4. ASSUME NEW i \in 0 .. n - 1 PROVE Disk[i + 1] = f[i]
    <3>1. i + 1 \in 1 .. n /\ (i + 1) - 1 = i
      BY <2>1
    <3> QED BY <2>3, <3>1
  <2> QED BY <2>3, <2>4 DEF DiskOK, n, f
<1>5. ASSUME Kind = "view", NEW i \in 0 .. Shown.size - 1
      PROVE  /\ Base + i \in 0 .. file.len - 1
             /\ CellAt(Shown, i) = file.bytes[Base + i]
  <2>1. phase = "open" /\ sect.mode = "VIEW" /\ Shown = sect
    BY <1>5 DEF IInv, StateOK, Kind, Shown
  <2>2. /\ FileOK /\ sect \in Section /\ sect.data = MAPPED
        /\ sect.map_start + sect.map_off + sect.size <= file.len
        /\ sect.map_size = sect.map_off + sect.size
    BY <2>1 DEF IInv, OpenOK, BufferOK, OwnsOK, MapsOK
  <2>3. Base = sect.map_start + sect.map_off
    BY <2>1 DEF Base
  <2> QED BY <1>5, <2>1, <2>2, <2>3, ViewCell
<1> QED BY <1>3, <1>4, <1>5 DEF ViewOK

(* Two sequences of bytes are the same if they agree at every offset. *)
LEMMA SameBytes ==
  ASSUME NEW s \in Seq(Byte), NEW t \in Seq(Byte), Len(s) = Len(t),
         \A i \in 0 .. Len(s) - 1 : s[i + 1] = t[i + 1]
  PROVE  s = t
<1>1. ASSUME NEW i \in 1 .. Len(s) PROVE s[i] = t[i]
  <2>1. i - 1 \in 0 .. Len(s) - 1 /\ (i - 1) + 1 = i
    OBVIOUS
  <2> QED BY <2>1
<1> QED BY <1>1, SeqEqual


(***************************************************************************)
(* Calls on an open section                                                *)
(***************************************************************************)

Placed(s, t) == t.map_start = s.map_start /\ t.map_off = s.map_off

(* Sizing the buffer does not touch what says where a view starts, and     *)
(* fails for want of memory only.                                          *)
LEMMA ResizePlace ==
  ASSUME NEW s \in Section, NEW h, NEW c, NEW o \in ResizeOutcomes(s, h, c)
  PROVE  Placed(s, o.sect) /\ o.err \in {"GOOD", "NOMEM"}
<1>1. PICK m \in Malloc(h, c) :
        o = IF m.data = NULL
              THEN Outcome("NOMEM", s, h)
              ELSE Outcome("GOOD", Resized(s, m.data, c), Moved(s, m.heap, m.data))
  BY Zenon DEF ResizeOutcomes, Resized
<1>2. Placed(s, Resized(s, m.data, c))
  BY DEF Placed, Resized, Section
<1>3. Placed(s, s)
  BY DEF Placed
<1> QED BY <1>1, <1>2, <1>3 DEF Outcome

LEMMA EnsurePlace ==
  ASSUME NEW s \in Section, NEW h, NEW min, NEW o \in EnsureOutcomes(s, h, min)
  PROVE  /\ Placed(s, o.sect)
         /\ o.err \in IF s.mode = "VIEW" THEN {"BADSTATE"} ELSE {"GOOD", "NOMEM"}
<1>1. Placed(s, s)
  BY DEF Placed
<1> QED BY <1>1, ResizePlace DEF EnsureOutcomes, Outcome

LEMMA CompactPlace ==
  ASSUME NEW s \in Section, NEW h, NEW o \in CompactOutcomes(s, h)
  PROVE  /\ Placed(s, o.sect)
         /\ o.err \in IF s.mode = "VIEW" \/ s.data = NULL THEN {"BADSTATE"}
                      ELSE {"GOOD", "NOMEM"}
<1>1. Placed(s, s)
  BY DEF Placed
<1> QED BY <1>1, ResizePlace DEF CompactOutcomes, Outcome

LEMMA WritePlace ==
  ASSUME NEW s \in Section, NEW h, s.mode # "VIEW", NEW n, NEW buf,
         NEW o \in WriteOutcomes(s, h, n, buf), BufferOK(s, h), n \in 0 .. MaxBuf
  PROVE  Placed(s, o.sect) /\ o.err \in {"GOOD", "NOMEM"}
<1> DEFINE min == Plus(s.windex, n)
           St(e) == Outcome("GOOD",
                      Stored(e.sect, Plus(e.sect.windex, n)),
                      IF e.sect.data \in Addr
                        THEN [e.heap EXCEPT
                                ![e.sect.data] = Overlay(@, e.sect.windex, n, buf)]
                        ELSE e.heap)
<1>1. PICK e \in EnsureOutcomes(s, h, min) :
        o = IF e.err = "GOOD" THEN St(e) ELSE e
  BY Zenon DEF WriteOutcomes, Stored
<1>2. Placed(s, e.sect) /\ e.err \in {"GOOD", "NOMEM"}
  BY EnsurePlace
<1>3. min \in Nat /\ min < SizeMod
  <2>1. s.windex \in Nat /\ s.windex < SizeMod /\ n \in Nat /\ n < SizeMod
    BY BufferAssumption, SectionAssumption DEF Section, Size
  <2> QED BY <2>1, BufferAssumption DEF Plus
<1> HIDE DEF min
<1>4. e.sect \in Section
  BY <1>3, EnsureFacts DEF BufferOK
<1>5. CASE e.err # "GOOD"
  BY <1>1, <1>2, <1>5
<1>6. CASE e.err = "GOOD"
  <2>1. o.err = "GOOD" /\ o.sect = Stored(e.sect, Plus(e.sect.windex, n))
    BY <1>1, <1>6, Zenon DEF Outcome
  <2>2. Placed(e.sect, o.sect)
    BY <1>4, <2>1 DEF Stored, Section, Placed
  <2> QED BY <1>2, <2>1, <2>2 DEF Placed
<1> QED BY <1>5, <1>6

(* What an open section that stays the same kind keeps. *)
LEMMA StaysOpen ==
  ASSUME phase = "open", phase' = "open", Placed(sect, sect'),
         sect'.mode = "VIEW" <=> sect.mode = "VIEW", file' = file, pos' = pos
  PROVE  /\ Stream!IsOpen /\ Stream!Unchanged
         /\ (Kind = "view") = (sect.mode = "VIEW")
         /\ (Kind = "owned") = (sect.mode # "VIEW")
         /\ Shown = sect /\ Shown' = sect'
<1>1. Kind' = Kind /\ Kind \in {"owned", "view"}
      /\ (Kind = "view") = (sect.mode = "VIEW")
      /\ (Kind = "owned") = (sect.mode # "VIEW")
  BY DEF Kind
<1>2. Shown = sect /\ Shown' = sect'
  BY DEF Shown
<1>3. Base' = Base /\ Disk' = Disk
  BY <1>2 DEF Base, Disk, Placed
<1> QED BY <1>1, <1>2, <1>3 DEF Stream!IsOpen, Stream!Unchanged

(* The content is kept when every byte of it is. *)
LEMMA StaysSame ==
  ASSUME BytesOK, BytesOK', Shown'.size = Shown.size, Shown.size \in Nat,
         \A i \in 0 .. Shown.size - 1 : CellAt(Shown, i)' = CellAt(Shown, i)
  PROVE  Bytes' = Bytes
<1>1. /\ Bytes \in Seq(Byte) /\ Bytes' \in Seq(Byte)
      /\ Len(Bytes) = Shown.size /\ Len(Bytes') = Shown.size
      /\ \A i \in 0 .. Shown.size - 1 : Bytes'[i + 1] = Bytes[i + 1]
  BY DEF BytesOK
<1> QED BY <1>1, SameBytes

(* The bytes of an owned section are in its buffer. *)
LEMMA OwnedCell ==
  ASSUME NEW s, s.data # MAPPED, NEW i
  PROVE  CellAt(s, i) = heap[s.data][i]
BY DEF CellAt


(* A call that ends with an outcome which keeps the content. *)
LEMMA WriteRefines ==
  ASSUME Careful, IInv, IInv', BytesOK, BytesOK',
         NEW n \in 0 .. MaxBuf, NEW buf \in Buffer(n), StoreCall(n, buf)
  PROVE  \E t \in [1 .. n -> Byte] : Stream!Write(t)
<1> DEFINE outs == IF sect.mode = "VIEW" THEN {Outcome("BADSTATE", sect, heap)}
                   ELSE WriteOutcomes(sect, heap, n, buf)
           t == AsSeq(n, buf)
<1>1. /\ phase = "open" /\ phase' = "open" /\ file' = file /\ pos' = pos
      /\ BufferOK(sect, heap) /\ BufferOK(sect', heap')
      /\ sect \in Section
  BY DEF StoreCall, Take, IInv, OpenOK, BufferOK
<1>2. PICK o \in outs :
        /\ sect' = o.sect /\ heap' = o.heap
        /\ ret' = Result("write", o.err, IF o.err = "GOOD" THEN n ELSE 0, NoBytes)
  BY Zenon DEF StoreCall, Take
<1>3. /\ n \in Nat /\ t \in Seq(Byte) /\ Len(t) = n /\ t \in [1 .. n -> Byte]
      /\ \A i \in 1 .. n : t[i] = buf[i - 1]
  <2>1. n \in Nat /\ \A i \in 0 .. n - 1 : buf[i] \in Byte
    BY DEF Buffer
  <2>2. AsSeq(n, buf) \in Seq(Byte) /\ Len(AsSeq(n, buf)) = n
    BY ONLY <2>1, AsSeqFacts
  <2>3. AsSeq(n, buf) \in [1 .. n -> Byte]
    BY ONLY <2>1, AsSeqFacts
  <2>4. \A i \in 1 .. n : AsSeq(n, buf)[i] = buf[i - 1]
    BY DEF AsSeq
  <2> QED BY <2>1, <2>2, <2>3, <2>4
<1> HIDE DEF t
<1>4. CASE sect.mode = "VIEW"
  <2>1. o.err = "BADSTATE" /\ sect' = sect /\ heap' = heap
    BY <1>2, <1>4 DEF Outcome
  <2>2. ret' = Done("write", "BADSTATE")
    BY <1>2, <2>1 DEF Done
  <2>3. Reply(ret') = Stream!Done("write", "BADSTATE")
    BY <2>2, ReplyFacts
  <2>4. /\ Stream!IsOpen /\ Stream!Unchanged /\ Kind = "view"
        /\ Shown = sect /\ Shown' = sect'
    BY <1>1, <1>4, <2>1, StaysOpen DEF Placed
  <2>5. Bytes' = Bytes
    BY <1>1, <2>1, <2>4 DEF Bytes, Slice, CellAt, MappedCell, LastPageEnd
  <2>6. Stream!Write(t)
    BY <2>1, <2>3, <2>4, <2>5 DEF Stream!Write
  <2> QED BY <1>3, <2>6
<1>5. CASE sect.mode # "VIEW"
  <2>1. o \in WriteOutcomes(sect, heap, n, buf)
    BY <1>5
  <2>2. Placed(sect, sect') /\ o.err \in {"GOOD", "NOMEM"} /\ sect'.mode # "VIEW"
    BY <1>1, <1>2, <1>5, <2>1, WritePlace, WriteFacts
  <2>3. /\ Stream!IsOpen /\ Stream!Unchanged /\ Kind = "owned"
        /\ Shown = sect /\ Shown' = sect'
    BY <1>1, <1>5, <2>2, StaysOpen
  <2>4. CASE o.err = "NOMEM"
    <3>1. sect' = sect /\ heap' = heap
      BY <1>1, <1>2, <1>5, <2>1, <2>4, WriteFacts
    <3>2. ret' = Done("write", "NOMEM")
      BY <1>2, <2>4 DEF Done
    <3>3. Reply(ret') = Stream!Done("write", "NOMEM")
      BY <3>2, ReplyFacts
    <3>4. Bytes' = Bytes
      BY <1>1, <2>3, <3>1 DEF Bytes, Slice, CellAt, MappedCell, LastPageEnd
    <3>5. Stream!Write(t)
      BY <2>3, <3>1, <3>3, <3>4 DEF Stream!Write
    <3> QED BY <1>3, <3>5
  <2>5. CASE o.err = "GOOD"
    <3> DEFINE w == sect.windex
               spliced == Stream!Splice(Bytes, w, t)
    <3>1. /\ sect'.windex = w + n /\ sect'.rindex = sect.rindex
          /\ sect'.size = IF w + n > sect.size THEN w + n ELSE sect.size
          /\ \A i \in 0 .. sect'.size - 1 :
               heap'[sect'.data][i] =
                 IF i \in w .. w + n - 1 THEN buf[i - w] ELSE heap[sect.data][i]
      BY <1>1, <1>2, <1>5, <2>1, <2>5, WriteContent
    <3>2. /\ w \in Nat /\ sect.size \in Nat /\ w <= sect.size
          /\ sect.data # MAPPED /\ sect'.data # MAPPED
      BY <1>1, <1>5, <2>2, OpenCursors DEF BufferOK, OwnsOK
    <3>3. Bytes \in Seq(Byte) /\ Len(Bytes) = sect.size
          /\ \A i \in 0 .. sect.size - 1 : Bytes[i + 1] = heap[sect.data][i]
      BY <2>3, <3>2, OwnedCell DEF BytesOK
    <3>4. Bytes' \in Seq(Byte) /\ Len(Bytes') = sect'.size
          /\ \A i \in 0 .. sect'.size - 1 : Bytes'[i + 1] = heap'[sect'.data][i]
      BY <2>3, <3>2 DEF BytesOK, CellAt
    <3>5. /\ spliced \in Seq(Byte) /\ Len(spliced) = sect'.size
          /\ \A i \in 1 .. sect'.size :
               spliced[i] = IF i \in w + 1 .. w + n THEN t[i - w] ELSE Bytes[i]
      <4>1. w \in 0 .. Len(Bytes)
        BY <3>2, <3>3
      <4> HIDE DEF w
      <4>2. /\ spliced \in Seq(Byte)
            /\ Len(spliced) = IF w + Len(t) > Len(Bytes) THEN w + Len(t) ELSE Len(Bytes)
            /\ \A i \in 1 .. Len(spliced) :
                 spliced[i] = IF i \in w + 1 .. w + Len(t) THEN t[i - w] ELSE Bytes[i]
        BY <1>3, <3>3, <4>1, SpliceFacts
      <4> HIDE DEF spliced
      <4>3. Len(spliced) = sect'.size
        BY <1>3, <3>1, <3>3, <4>2
      <4> QED BY <1>3, <4>2, <4>3
    <3> HIDE DEF spliced, w
    <3>6. ASSUME NEW i \in 0 .. sect'.size - 1
          PROVE  Bytes'[i + 1] = spliced[i + 1]
      <4>1. i \in Nat /\ i + 1 \in 1 .. sect'.size
        BY <3>1, <3>2
      <4>2. CASE i \in w .. w + n - 1
        <5>1. /\ i + 1 \in w + 1 .. w + n /\ (i + 1) - w = (i - w) + 1
              /\ (i - w) + 1 \in 1 .. n /\ ((i - w) + 1) - 1 = i - w
          BY <1>3, <3>2, <4>1, <4>2
        <5>2. spliced[i + 1] = t[(i - w) + 1] /\ t[(i - w) + 1] = buf[i - w]
          BY <1>3, <3>5, <4>1, <5>1
        <5> QED BY <3>1, <3>4, <4>2, <5>2
      <4>3. CASE i \notin w .. w + n - 1
        <5>1. i + 1 \notin w + 1 .. w + n /\ i \in 0 .. sect.size - 1
          BY <1>3, <3>1, <3>2, <4>1, <4>3
        <5> QED BY <3>1, <3>3, <3>4, <3>5, <4>1, <4>3, <5>1
      <4> QED BY <4>2, <4>3
    <3>7. Bytes' = spliced
      BY <3>4, <3>5, <3>6, SameBytes
    <3>8. Reply(ret') = Stream!Result("write", "GOOD", Len(t), <<>>)
      BY <1>2, <1>3, <2>5, ReplyFacts
    <3>9. Stream!Write(t)
      BY <1>3, <2>3, <3>1, <3>7, <3>8 DEF Stream!Write, spliced, w
    <3> QED BY <1>3, <3>9
  <2> QED BY <2>2, <2>4, <2>5
<1> QED BY <1>4, <1>5


(* Sizing the buffer is invisible but for its result. *)
LEMMA ReserveRefines ==
  ASSUME IInv, IInv', BytesOK, BytesOK', phase = "open",
         NEW op \in {"ensure_capacity", "compact"}, NEW outs, Take(op, 0, outs),
         \A o \in outs :
           /\ Placed(sect, o.sect)
           /\ o.sect.size = sect.size /\ o.sect.rindex = sect.rindex
           /\ o.sect.windex = sect.windex
           /\ sect.mode = "VIEW" => o.sect = sect /\ o.heap = heap
           /\ sect.mode # "VIEW" => o.sect.mode # "VIEW"
           /\ sect.mode # "VIEW" =>
                \A i \in 0 .. sect.size - 1 :
                  o.heap[o.sect.data][i] = heap[sect.data][i]
           /\ o.err \in IF sect.mode = "VIEW" THEN {"BADSTATE"}
                        ELSE {"GOOD", "NOMEM"}
                             \cup (IF op = "compact" /\ sect.size = 0
                                     THEN {"BADSTATE"} ELSE {})
  PROVE  Stream!Reserve
<1>1. PICK o \in outs :
        /\ sect' = o.sect /\ heap' = o.heap
        /\ ret' = Result(op, o.err, IF o.err = "GOOD" THEN 0 ELSE 0, NoBytes)
  BY Zenon DEF Take
<1>2. /\ phase' = "open" /\ file' = file /\ pos' = pos
      /\ BufferOK(sect, heap) /\ BufferOK(sect', heap')
  BY DEF Take, IInv, OpenOK
<1>3. /\ Placed(sect, sect')
      /\ sect'.size = sect.size /\ sect'.rindex = sect.rindex
      /\ sect'.windex = sect.windex
      /\ sect'.mode = "VIEW" <=> sect.mode = "VIEW"
  BY <1>1
<1>4. /\ Stream!IsOpen /\ Stream!Unchanged
      /\ (Kind = "view") = (sect.mode = "VIEW")
      /\ Shown = sect /\ Shown' = sect'
  BY <1>2, <1>3, StaysOpen
<1>5. Bytes' = Bytes
  <2>1. CASE sect.mode = "VIEW"
    <3>1. sect' = sect /\ heap' = heap
      BY <1>1, <2>1
    <3> QED BY <1>2, <1>4, <3>1 DEF Bytes, Slice, CellAt, MappedCell, LastPageEnd
  <2>2. CASE sect.mode # "VIEW"
    <3>1. sect.data # MAPPED /\ sect'.data # MAPPED
      BY <1>2, <1>3, <2>2 DEF BufferOK, OwnsOK
    <3>2. \A i \in 0 .. sect.size - 1 : heap'[sect'.data][i] = heap[sect.data][i]
      BY <1>1, <2>2
    <3>3. \A i \in 0 .. Shown.size - 1 : CellAt(Shown, i)' = CellAt(Shown, i)
      BY <1>4, <3>1, <3>2 DEF CellAt
    <3>4. Shown'.size = Shown.size /\ Shown.size \in Nat
      BY <1>3, <1>4, OpenCursors
    <3> QED BY <3>3, <3>4, StaysSame
  <2> QED BY <2>1, <2>2
<1>6. Reply(ret') = Stream!Done(op, o.err)
  <2>1. ret' = Done(op, o.err) /\ op # "read"
    BY <1>1 DEF Done
  <2> QED BY <2>1, ReplyFacts
<1>7. sect.size = 0 => Bytes = <<>>
  BY <1>4 DEF BytesOK
<1>8. o.err \in IF Kind = "view" THEN {"BADSTATE"}
                ELSE {"GOOD", "NOMEM"}
                     \cup (IF op = "compact" /\ Bytes = <<>>
                             THEN {"BADSTATE"} ELSE {})
  BY <1>4, <1>7
<1> HIDE DEF Placed
<1> QED BY <1>3, <1>4, <1>5, <1>6, <1>8 DEF Stream!Reserve

LEMMA EnsureRefines ==
  ASSUME IInv, IInv', BytesOK, BytesOK', NEW min \in 0 .. MaxAlloc + 1,
         EnsureCapacity(min)
  PROVE  Stream!Reserve
<1>1. /\ phase = "open" /\ BufferOK(sect, heap) /\ sect \in Section
      /\ Take("ensure_capacity", 0, EnsureOutcomes(sect, heap, min))
  BY DEF EnsureCapacity, IInv, OpenOK, BufferOK
<1>2. min \in Nat /\ min < SizeMod
  BY BufferAssumption
<1>3. ASSUME NEW o \in EnsureOutcomes(sect, heap, min)
      PROVE  /\ Placed(sect, o.sect)
             /\ o.sect.size = sect.size /\ o.sect.rindex = sect.rindex
             /\ o.sect.windex = sect.windex
             /\ sect.mode = "VIEW" => o.sect = sect /\ o.heap = heap
             /\ sect.mode # "VIEW" => o.sect.mode # "VIEW"
             /\ sect.mode # "VIEW" =>
                  \A i \in 0 .. sect.size - 1 :
                    o.heap[o.sect.data][i] = heap[sect.data][i]
             /\ o.err \in IF sect.mode = "VIEW" THEN {"BADSTATE"} ELSE {"GOOD", "NOMEM"}
  <2>1. /\ Placed(sect, o.sect)
        /\ o.err \in IF sect.mode = "VIEW" THEN {"BADSTATE"} ELSE {"GOOD", "NOMEM"}
    BY <1>1, EnsurePlace
  <2>2. /\ sect.mode = "VIEW" => o.sect = sect /\ o.heap = heap
        /\ sect.mode # "VIEW" => o.sect.mode # "VIEW"
    BY <1>1, <1>2, EnsureFacts
  <2>3. sect.mode # "VIEW" =>
          /\ o.sect.size = sect.size /\ o.sect.rindex = sect.rindex
          /\ o.sect.windex = sect.windex
          /\ \A i \in 0 .. sect.size - 1 : o.heap[o.sect.data][i] = heap[sect.data][i]
    BY <1>1, <1>2, EnsureContent
  <2> QED BY <2>1, <2>2, <2>3
<1> QED BY <1>1, <1>3, ReserveRefines

LEMMA CompactRefines ==
  ASSUME IInv, IInv', BytesOK, BytesOK', Compact
  PROVE  Stream!Reserve
<1>1. /\ phase = "open" /\ BufferOK(sect, heap) /\ sect \in Section
      /\ Take("compact", 0, CompactOutcomes(sect, heap))
  BY DEF Compact, IInv, OpenOK, BufferOK
<1>2. sect.data = NULL => sect.size = 0
  BY <1>1 DEF BufferOK, OwnsOK, CursorsOK, Section, Size
<1>3. ASSUME NEW o \in CompactOutcomes(sect, heap)
      PROVE  /\ Placed(sect, o.sect)
             /\ o.sect.size = sect.size /\ o.sect.rindex = sect.rindex
             /\ o.sect.windex = sect.windex
             /\ sect.mode = "VIEW" => o.sect = sect /\ o.heap = heap
             /\ sect.mode # "VIEW" => o.sect.mode # "VIEW"
             /\ sect.mode # "VIEW" =>
                  \A i \in 0 .. sect.size - 1 :
                    o.heap[o.sect.data][i] = heap[sect.data][i]
             /\ o.err \in IF sect.mode = "VIEW" THEN {"BADSTATE"}
                          ELSE {"GOOD", "NOMEM"}
                               \cup (IF sect.size = 0 THEN {"BADSTATE"} ELSE {})
  <2>1. /\ Placed(sect, o.sect)
        /\ o.err \in IF sect.mode = "VIEW" \/ sect.data = NULL THEN {"BADSTATE"}
                     ELSE {"GOOD", "NOMEM"}
    BY <1>1, CompactPlace
  <2>2. /\ sect.mode = "VIEW" => o.sect = sect /\ o.heap = heap
        /\ sect.mode # "VIEW" => o.sect.mode # "VIEW"
    BY <1>1, CompactFacts
  <2>3. sect.mode # "VIEW" =>
          /\ o.sect.size = sect.size /\ o.sect.rindex = sect.rindex
          /\ o.sect.windex = sect.windex
          /\ \A i \in 0 .. sect.size - 1 : o.heap[o.sect.data][i] = heap[sect.data][i]
    BY <1>1, CompactContent
  <2> QED BY <1>2, <2>1, <2>2, <2>3
<1> QED BY <1>1, <1>3, ReserveRefines

(* A call that moves the cursors at most keeps all but them. *)
LEMMA CursorRefines ==
  ASSUME IInv, BytesOK, BytesOK', phase = "open",
         sect'.data = sect.data, sect'.size = sect.size, sect'.mode = sect.mode,
         sect'.map_start = sect.map_start, sect'.map_off = sect.map_off,
         sect'.map_size = sect.map_size,
         UNCHANGED <<heap, file, pos, phase>>
  PROVE  /\ Stream!IsOpen /\ Stream!Unchanged /\ Bytes' = Bytes
         /\ Shown = sect /\ Shown' = sect' /\ Len(Bytes) = sect.size
<1>1. /\ Stream!IsOpen /\ Stream!Unchanged /\ Shown = sect /\ Shown' = sect'
  BY StaysOpen DEF Placed
<1>2. Shown'.size = Shown.size /\ Shown.size \in Nat
  BY <1>1, OpenCursors
<1>3. \A i \in 0 .. Shown.size - 1 : CellAt(Shown, i)' = CellAt(Shown, i)
  BY <1>1 DEF CellAt, MappedCell, LastPageEnd
<1>4. Bytes' = Bytes
  BY <1>2, <1>3, StaysSame
<1> QED BY <1>1, <1>4 DEF BytesOK

LEMMA ReadRefines ==
  ASSUME IInv, BytesOK, BytesOK', NEW p \in Nat, Read(p)
  PROVE  Stream!Read(p)
<1> DEFINE readable == Minus(sect.size, sect.rindex)
           count    == IF readable < p THEN readable ELSE p
           r        == Plus(sect.rindex, count)
           got      == Slice(sect, sect.rindex, count)
           k        == Stream!Least(p, Len(Bytes) - sect.rindex)
           shown    == SubSeq(Bytes, sect.rindex + 1, sect.rindex + k)
<1>1. /\ phase = "open" /\ UNCHANGED <<heap, maps, file, pos, phase>>
      /\ sect' = [sect EXCEPT !.rindex = r]
      /\ ret' = Result("read", "GOOD", count, got)
  BY DEF Read
<1>2. /\ sect \in Section
      /\ sect.size \in Nat /\ sect.rindex \in Nat
      /\ sect.rindex <= sect.size /\ sect.size < SizeMod /\ SizeMod \in Nat
  BY <1>1, OpenCursors, BufferAssumption
<1>3. readable = sect.size - sect.rindex
  BY <1>2 DEF Minus
<1>4. count \in Nat /\ sect.rindex + count <= sect.size /\ r = sect.rindex + count
  BY <1>2, <1>3 DEF Plus
<1> HIDE DEF r
<1>5. /\ sect'.rindex = r /\ sect'.data = sect.data /\ sect'.size = sect.size
      /\ sect'.windex = sect.windex /\ sect'.mode = sect.mode
      /\ sect'.map_start = sect.map_start /\ sect'.map_off = sect.map_off
      /\ sect'.map_size = sect.map_size
  BY <1>1, <1>2 DEF Section
<1>6. /\ Stream!IsOpen /\ Stream!Unchanged /\ Bytes' = Bytes
      /\ Shown = sect /\ Shown' = sect' /\ Len(Bytes) = sect.size
  BY <1>1, <1>5, CursorRefines
<1>7. k = count
  BY <1>2, <1>3, <1>6 DEF Stream!Least
<1> HIDE DEF count, k, readable
<1>8. ASSUME NEW i \in 0 .. count - 1
      PROVE  got[i] = Bytes[sect.rindex + 1 + i] /\ got[i] \in Byte
  <2>1. sect.rindex + i \in 0 .. sect.size - 1
        /\ (sect.rindex + i) + 1 = sect.rindex + 1 + i
        /\ sect.rindex + 1 + i \in 1 .. sect.size
    BY <1>2, <1>4
  <2>2. got[i] = CellAt(sect, sect.rindex + i)
    BY DEF Slice
  <2>3. Bytes[(sect.rindex + i) + 1] = CellAt(sect, sect.rindex + i)
    BY <1>6, <2>1 DEF BytesOK
  <2>4. Bytes[sect.rindex + 1 + i] \in Byte
    BY <1>6, <2>1 DEF BytesOK
  <2> QED BY <2>1, <2>2, <2>3, <2>4
<1> HIDE DEF got
<1>9. AsSeq(count, got) = shown
  <2>1. /\ AsSeq(count, got) \in Seq(Byte) /\ Len(AsSeq(count, got)) = count
        /\ \A i \in 1 .. count : AsSeq(count, got)[i] = got[i - 1]
    BY ONLY <1>4, <1>8, AsSeqFacts
  <2> DEFINE m == sect.rindex + 1
             n == sect.rindex + k
  <2>2. m \in Int /\ n \in Int /\ \A i \in m .. n : Bytes[i] \in Byte
    BY <1>2, <1>4, <1>6, <1>7 DEF BytesOK
  <2>3. /\ shown \in Seq(Byte)
        /\ Len(shown) = IF m <= n THEN n - m + 1 ELSE 0
        /\ \A i \in 1 .. n - m + 1 : shown[i] = Bytes[m + i - 1]
    BY <2>2, SubSeqProperties
  <2>4. Len(shown) = count
    BY <1>2, <1>4, <1>7, <2>3
  <2>5. ASSUME NEW i \in 0 .. count - 1
        PROVE  AsSeq(count, got)[i + 1] = shown[i + 1]
    <3>1. /\ i + 1 \in 1 .. count /\ (i + 1) - 1 = i
          /\ i + 1 \in 1 .. n - m + 1 /\ m + (i + 1) - 1 = sect.rindex + 1 + i
      BY <1>2, <1>4, <1>7
    <3>2. shown[i + 1] = Bytes[m + (i + 1) - 1]
      BY <2>3, <3>1
    <3> QED BY <1>8, <2>1, <3>1, <3>2
  <2> HIDE DEF shown
  <2> QED BY <2>1, <2>3, <2>4, <2>5, SameBytes
<1>10. Reply(ret') = Stream!Result("read", "GOOD", k, shown)
  BY <1>1, <1>7, <1>9, ReplyRead
<1> QED BY <1>4, <1>5, <1>6, <1>7, <1>10 DEF Stream!Read, k


LEMMA GetStrRefines ==
  ASSUME IInv, BytesOK, BytesOK', NEW p \in 0 .. MaxAlloc + 1, GetStr(p)
  PROVE  Stream!GetStr(p)
<1>1. /\ phase = "open" /\ UNCHANGED <<sect, heap, file, pos, phase>>
      /\ ret' = IF p >= sect.size THEN Done("getstr", "INVAL")
                ELSE Result("getstr", "GOOD", p, NoBytes)
  BY DEF GetStr
<1>2. /\ Stream!IsOpen /\ Stream!Unchanged /\ Bytes' = Bytes
      /\ Shown = sect /\ Shown' = sect' /\ Len(Bytes) = sect.size
      /\ sect.size \in Nat /\ p \in Nat
  BY <1>1, CursorRefines, OpenCursors
<1>3. Reply(ret') = IF p < Len(Bytes) THEN Stream!Result("getstr", "GOOD", p, <<>>)
                    ELSE Stream!Done("getstr", "INVAL")
  <2>1. CASE p >= sect.size
    <3>1. ret' = Done("getstr", "INVAL") /\ ~(p < Len(Bytes))
      BY <1>1, <1>2, <2>1
    <3> QED BY <3>1, ReplyFacts
  <2>2. CASE ~(p >= sect.size)
    <3>1. ret' = Result("getstr", "GOOD", p, NoBytes) /\ p < Len(Bytes)
      BY <1>1, <1>2, <2>2
    <3> QED BY <3>1, ReplyFacts
  <2> QED BY <2>1, <2>2
<1> QED BY <1>1, <1>2, <1>3 DEF Stream!GetStr

LEMMA ResetRefines ==
  ASSUME IInv, BytesOK, BytesOK', Reset
  PROVE  Stream!Reset
<1> DEFINE zero == 0
<1>1. /\ phase = "open" /\ UNCHANGED <<heap, file, pos, phase>>
      /\ sect' = [sect EXCEPT !.rindex = zero, !.windex = zero]
      /\ ret' = Done("reset", "GOOD") /\ sect \in Section
  BY OpenCursors DEF Reset
<1> HIDE DEF zero
<1>2. /\ sect'.rindex = zero /\ sect'.windex = zero
      /\ sect'.data = sect.data /\ sect'.size = sect.size
      /\ sect'.mode = sect.mode
      /\ sect'.map_start = sect.map_start /\ sect'.map_off = sect.map_off
      /\ sect'.map_size = sect.map_size
  BY <1>1 DEF Section
<1>3. /\ Stream!IsOpen /\ Stream!Unchanged /\ Bytes' = Bytes
      /\ Shown = sect /\ Shown' = sect'
  BY <1>1, <1>2, CursorRefines
<1>4. Reply(ret') = Stream!Done("reset", "GOOD")
  BY <1>1, ReplyFacts
<1> QED BY <1>2, <1>3, <1>4 DEF Stream!Reset, zero

LEMMA SeekRefines ==
  ASSUME IInv, BytesOK, BytesOK', NEW p \in 0 .. MaxAlloc + 1,
         SeekRead(p) \/ SeekWrite(p)
  PROVE  Stream!Seek(p)
<1>1. phase = "open" /\ UNCHANGED <<heap, file, pos, phase>>
  BY DEF SeekRead, SeekWrite
<1>2. sect \in Section /\ sect.size \in Nat /\ p \in Nat
  BY <1>1, OpenCursors
<1>3. \/ /\ p > sect.size /\ sect' = sect
         /\ ret' = Done("seek_read", "INVAL") \/ ret' = Done("seek_write", "INVAL")
      \/ /\ ~(p > sect.size) /\ sect' = [sect EXCEPT !.rindex = p]
         /\ ret' = Done("seek_read", "GOOD")
      \/ /\ ~(p > sect.size) /\ sect' = [sect EXCEPT !.windex = p]
         /\ ret' = Done("seek_write", "GOOD")
  BY DEF SeekRead, SeekWrite
<1>4. /\ sect'.data = sect.data /\ sect'.size = sect.size
      /\ sect'.mode = sect.mode
      /\ sect'.map_start = sect.map_start /\ sect'.map_off = sect.map_off
      /\ sect'.map_size = sect.map_size
  BY <1>2, <1>3 DEF Section
<1>5. /\ Stream!IsOpen /\ Stream!Unchanged /\ Bytes' = Bytes
      /\ Shown = sect /\ Shown' = sect' /\ Len(Bytes) = sect.size
  BY <1>1, <1>4, CursorRefines
<1>6. CASE /\ p > sect.size /\ sect' = sect
           /\ ret' = Done("seek_read", "INVAL") \/ ret' = Done("seek_write", "INVAL")
  <2>1. PICK op \in {"seek_read", "seek_write"} : ret' = Done(op, "INVAL")
    BY <1>6
  <2>2. Reply(ret') = Stream!Done(op, "INVAL")
    BY <2>1, ReplyFacts
  <2>3. ~(p <= Len(Bytes))
    BY <1>2, <1>5, <1>6
  <2> QED BY <1>5, <1>6, <2>2, <2>3 DEF Stream!Seek
<1>7. CASE /\ ~(p > sect.size) /\ sect' = [sect EXCEPT !.rindex = p]
           /\ ret' = Done("seek_read", "GOOD")
  <2>1. Reply(ret') = Stream!Done("seek_read", "GOOD")
    BY <1>7, ReplyFacts
  <2>2. p <= Len(Bytes) /\ sect'.rindex = p /\ sect'.windex = sect.windex
    BY <1>2, <1>5, <1>7 DEF Section
  <2> QED BY <1>5, <2>1, <2>2 DEF Stream!Seek
<1>8. CASE /\ ~(p > sect.size) /\ sect' = [sect EXCEPT !.windex = p]
           /\ ret' = Done("seek_write", "GOOD")
  <2>1. Reply(ret') = Stream!Done("seek_write", "GOOD")
    BY <1>8, ReplyFacts
  <2>2. p <= Len(Bytes) /\ sect'.windex = p /\ sect'.rindex = sect.rindex
    BY <1>2, <1>5, <1>8 DEF Section
  <2> QED BY <1>5, <2>1, <2>2 DEF Stream!Seek
<1> QED BY <1>3, <1>6, <1>7, <1>8

(***************************************************************************)
(* Building, closing and filing                                            *)
(***************************************************************************)

(* What a section that shows nothing looks like. *)
LEMMA ShowsNothing ==
  ASSUME BytesOK, Shown.size = 0
  PROVE  Bytes = <<>>
BY DEF BytesOK

LEMMA NotOpen ==
  ASSUME IInv, phase # "open"
  PROVE  /\ ~Stream!IsOpen /\ Kind = phase
         /\ Shown = ZeroSection /\ Base = 0
         /\ heap \in [Addr -> Image] /\ Allocated(heap) = {}
<1>1. phase \in {"raw", "closed"}
  BY DEF IInv, StateOK
<1> QED BY <1>1, ZeroFields DEF Stream!IsOpen, Kind, Shown, Base, IInv, ShutOK

(* A fresh section starts nowhere in the file. *)
LEMMA InitPlace ==
  ASSUME NEW h, NEW c, NEW o \in InitOutcomes(h, c)
  PROVE  o.sect.map_start = 0 /\ o.sect.map_off = 0
<1> DEFINE cap == IF c = 0 THEN DefaultCapacity ELSE c
           t(m) == [ZeroSection EXCEPT !.data = m.data, !.capacity = cap]
<1>1. PICK m \in Malloc(h, cap) :
        o = IF m.data = NULL THEN Outcome("NOMEM", ZeroSection, h)
            ELSE Outcome("GOOD", t(m), m.heap)
  BY Zenon DEF InitOutcomes
<1>2. t(m).map_start = 0 /\ t(m).map_off = 0
  BY DEF ZeroSection
<1>3. o.sect = ZeroSection \/ o.sect = t(m)
  BY <1>1, Zenon DEF Outcome
<1> QED BY <1>2, <1>3, ZeroFields

(* The client sees an empty section of a kind. *)
LEMMA Becomes ==
  ASSUME BytesOK', Shown'.size = 0, Shown'.rindex = 0, Shown'.windex = 0,
         Base' = 0, NEW k, Kind' = k
  PROVE  Stream!Become(k, <<>>, 0, 0)
<1>1. Bytes' = <<>>
  BY DEF BytesOK
<1> QED BY <1>1 DEF Stream!Become

LEMMA InitRefines ==
  ASSUME IInv, BytesOK', NEW c \in 0 .. MaxAlloc, InitSection(c)
  PROVE  Stream!Create
<1>1. /\ phase # "open" /\ phase' = "open" /\ file' = file /\ pos' = pos
  BY DEF InitSection
<1>2. PICK o \in InitOutcomes(heap, c) :
        sect' = o.sect /\ ret' = Done("init", o.err)
  BY DEF InitSection
<1>3. ~Stream!IsOpen /\ heap \in [Addr -> Image] /\ Allocated(heap) = {}
  BY <1>1, NotOpen
<1>4. /\ sect'.mode = "CREATE" /\ sect'.size = 0 /\ sect'.rindex = 0
      /\ sect'.windex = 0 /\ sect'.map_start = 0 /\ sect'.map_off = 0
      /\ o.err \in {"GOOD", "NOMEM"}
  BY <1>2, <1>3, InitFacts, InitPlace
<1>5. Kind' = "owned" /\ Shown' = sect'
  BY <1>1, <1>4 DEF Kind, Shown
<1>6. Base' = 0 /\ Disk' = Disk
  BY <1>1, <1>4, <1>5 DEF Base, Disk
<1>7. Stream!Become("owned", <<>>, 0, 0)
  BY <1>4, <1>5, <1>6, Becomes
<1>8. Reply(ret') = Stream!Done("init", o.err)
  BY <1>2, ReplyFacts
<1> QED BY <1>1, <1>3, <1>4, <1>6, <1>7, <1>8 DEF Stream!Create

(* A section that is closed shows nothing. *)
LEMMA Closes ==
  ASSUME BytesOK', phase' = "closed"
  PROVE  Stream!Become("closed", <<>>, 0, 0)
<1>1. Kind' = "closed" /\ Shown' = ZeroSection
  BY DEF Kind, Shown
<1>2. Base' = 0
  BY <1>1, ZeroFields DEF Base
<1> QED BY <1>1, <1>2, ZeroFields, Becomes

LEMMA CleanupRefines ==
  ASSUME IInv, BytesOK', Cleanup
  PROVE  Stream!Close
<1>1. /\ phase # "raw" /\ phase' = "closed" /\ file' = file /\ pos' = pos
      /\ ret' = Done("cleanup", "GOOD")
  BY DEF Cleanup
<1>2. Kind # "raw" /\ Disk' = Disk
  BY <1>1 DEF Kind, Disk
<1>3. Reply(ret') = Stream!Done("cleanup", "GOOD")
  BY <1>1, ReplyFacts
<1> QED BY <1>1, <1>2, <1>3, Closes DEF Stream!Close

LEMMA SeekFileRefines ==
  ASSUME NEW p \in 0 .. MaxPos, ClientSeek(p)
  PROVE  Stream!Move
<1>1. /\ UNCHANGED <<sect, heap, file, phase>> /\ pos' = p /\ ret' = Done("lseek", "GOOD")
  BY DEF ClientSeek
<1>2. Kind' = Kind /\ Shown' = Shown
  BY <1>1 DEF Kind, Shown
<1>3. Base' = Base /\ Disk' = Disk
  BY <1>1, <1>2 DEF Base, Disk
<1>4. Bytes' = Bytes
  BY <1>1, <1>2 DEF Bytes, Slice, CellAt, MappedCell, LastPageEnd
<1>5. Reply(ret') = Stream!Done("lseek", "GOOD")
  BY <1>1, ReplyFacts
<1> QED BY <1>1, <1>2, <1>3, <1>4, <1>5 DEF Stream!Move


(* A sequence that agrees with n elements of another from offset k on is   *)
(* that part of it.                                                        *)
LEMMA PartOf ==
  ASSUME NEW d \in Seq(Byte), NEW k \in Nat, NEW n \in Nat, k + n <= Len(d),
         NEW t \in Seq(Byte), Len(t) = n,
         \A i \in 0 .. n - 1 : t[i + 1] = d[(k + i) + 1]
  PROVE  t = SubSeq(d, k + 1, k + n)
<1> DEFINE part == SubSeq(d, k + 1, k + n)
           lo == k + 1
           hi == k + n
<1>1. \A i \in lo .. hi : d[i] \in Byte
  OBVIOUS
<1>2. /\ part \in Seq(Byte)
      /\ Len(part) = IF lo <= hi THEN hi - lo + 1 ELSE 0
      /\ \A i \in 1 .. hi - lo + 1 : part[i] = d[lo + i - 1]
  BY <1>1, lo \in Int, hi \in Int, SubSeqProperties
<1>3. Len(part) = n
  BY <1>2
<1>4. ASSUME NEW i \in 0 .. n - 1 PROVE t[i + 1] = part[i + 1]
  <2>1. i + 1 \in 1 .. hi - lo + 1 /\ lo + (i + 1) - 1 = (k + i) + 1
    OBVIOUS
  <2>2. part[i + 1] = d[(k + i) + 1]
    BY <1>2, <2>1
  <2> QED BY <2>2
<1> HIDE DEF part
<1>5. t = part
  BY <1>2, <1>3, <1>4, SameBytes
<1> QED BY <1>5 DEF part

(* One that agrees with n bytes of the file from k on is that part.        *)
LEMMA PartOfDisk ==
  ASSUME DiskOK, NEW k \in Nat, NEW n \in Nat, file.len \in Nat, k + n <= file.len,
         NEW t \in Seq(Byte), Len(t) = n,
         \A i \in 0 .. n - 1 : t[i + 1] = file.bytes[k + i]
  PROVE  t = SubSeq(Disk, k + 1, k + n)
<1>1. Disk \in Seq(Byte) /\ k + n <= Len(Disk)
  BY DEF DiskOK
<1>2. ASSUME NEW i \in 0 .. n - 1 PROVE t[i + 1] = Disk[(k + i) + 1]
  <2>1. k + i \in 0 .. file.len - 1
    OBVIOUS
  <2> QED BY <2>1 DEF DiskOK
<1> QED BY <1>1, <1>2, PartOf

(* What the file has left, on both levels. *)
LEMMA AheadIsLeft == DiskOK => Stream!Ahead = Left
BY DEF Stream!Ahead, Left, DiskOK

LEMMA LoadRefines ==
  ASSUME IInv, IInv', BytesOK', DiskOK, NEW c \in 0 .. MaxAlloc, Load(c)
  PROVE  Stream!Load
<1>1. /\ phase # "open" /\ file' = file
      /\ pos \in Nat /\ file.len \in Nat
  <2>1. phase # "open" /\ file' = file
    BY Zenon DEF Load
  <2> QED BY <2>1 DEF IInv, FileOK, Size
<1>2. PICK o \in InitOutcomes(heap, c), readFails \in BOOLEAN :
       IF o.err # "GOOD" THEN
         /\ sect' = o.sect
         /\ heap' = o.heap
         /\ phase' = "closed"
         /\ ret' = Done("load", o.err)
         /\ UNCHANGED pos
       ELSE IF readFails THEN
         /\ sect' = [o.sect EXCEPT !.mode = "MODIFY", !.data = NULL]
         /\ heap' = Free(o.heap, o.sect.data)
         /\ phase' = "closed"
         /\ ret' = Done("load", "IO")
         /\ UNCHANGED pos
       ELSE
         \E n \in ReadCounts(o.sect.capacity) :
         LET buf == [i \in 0 .. n - 1 |-> file.bytes[pos + i]]
         IN  /\ sect' = [o.sect EXCEPT !.mode = "MODIFY", !.size = n,
                                       !.rindex = 0, !.windex = n]
             /\ heap' = [o.heap EXCEPT ![o.sect.data] = Overlay(@, 0, n, buf)]
             /\ phase' = "open"
             /\ ret' = Done("load", "GOOD")
             /\ pos' = pos + n
  BY DEF Load
<1>3. ~Stream!IsOpen /\ heap \in [Addr -> Image] /\ Allocated(heap) = {}
  BY <1>1, NotOpen
<1>4. /\ BufferOK(o.sect, o.heap) /\ o.sect.mode = "CREATE"
      /\ o.err = "NOMEM" \/ (o.err = "GOOD" /\ o.sect.data \in Addr)
      /\ o.sect.map_start = 0 /\ o.sect.map_off = 0
  BY <1>3, InitFacts, InitPlace
<1>5. Disk' = Disk
  BY <1>1 DEF Disk
<1>6. CASE o.err # "GOOD" \/ readFails
  <2>1. PICK e \in {"NOMEM", "IO"} : ret' = Done("load", e)
    BY <1>2, <1>4, <1>6
  <2>2. phase' = "closed" /\ pos' = pos
    BY <1>2, <1>6
  <2>3. Reply(ret') = Stream!Done("load", e)
    BY <2>1, ReplyFacts
  <2> QED BY <1>3, <1>5, <2>2, <2>3, Closes DEF Stream!Load
<1>7. CASE o.err = "GOOD" /\ ~readFails
  <2>0. PICK n \in ReadCounts(o.sect.capacity) :
          LET buf == [i \in 0 .. n - 1 |-> file.bytes[pos + i]]
          IN  /\ sect' = [o.sect EXCEPT !.mode = "MODIFY", !.size = n,
                                        !.rindex = 0, !.windex = n]
              /\ heap' = [o.heap EXCEPT ![o.sect.data] = Overlay(@, 0, n, buf)]
              /\ phase' = "open"
              /\ ret' = Done("load", "GOOD")
              /\ pos' = pos + n
    BY <1>2, <1>7
  <2> DEFINE zero == 0
             buf == [i \in 0 .. n - 1 |-> file.bytes[pos + i]]
             d == o.sect.data
             new == Overlay(o.heap[d], 0, n, buf)
  <2>1. /\ sect' = [o.sect EXCEPT !.mode = "MODIFY", !.size = n,
                                  !.rindex = zero, !.windex = n]
        /\ heap' = [o.heap EXCEPT ![d] = new]
        /\ phase' = "open" /\ ret' = Done("load", "GOOD") /\ pos' = pos + n
    BY <2>0
  <2>2. /\ o.sect \in Section /\ o.heap \in [Addr -> Image]
        /\ d \in Addr /\ d # MAPPED
        /\ o.sect.capacity \in Nat /\ o.sect.capacity > 0
    BY <1>4, <1>7, BufferAssumption DEF BufferOK, OwnsOK
  <2>3. /\ n \in Nat /\ n <= Left /\ Left \in Nat
        /\ (Left > 0 => n > 0) /\ (n > 0 => pos + n <= file.len)
    BY <1>1, <2>0, <2>2 DEF ReadCounts, Left
  <2> HIDE DEF zero
  <2>4. /\ sect'.mode = "MODIFY" /\ sect'.size = n /\ sect'.rindex = zero
        /\ sect'.windex = n /\ sect'.data = d
        /\ sect'.map_start = 0 /\ sect'.map_off = 0
    BY <1>4, <2>1, <2>2 DEF Section
  <2>5. Kind' = "owned" /\ Shown' = sect'
    BY <2>1, <2>4 DEF Kind, Shown
  <2>6. Base' = 0
    BY <2>4, <2>5 DEF Base
  <2>7. ASSUME NEW i \in 0 .. n - 1 PROVE Bytes'[i + 1] = file.bytes[pos + i]
    <3>1. heap'[d] = new
      BY <2>1, <2>2
    <3>2. new[i] = buf[i]
      BY <2>3, OverlayStart
    <3>3. buf[i] = file.bytes[pos + i]
      OBVIOUS
    <3>4. Bytes'[i + 1] = heap'[sect'.data][i]
      BY <2>2, <2>4, <2>5 DEF BytesOK, CellAt
    <3> HIDE DEF new, buf
    <3> QED BY <2>4, <3>1, <3>2, <3>3, <3>4
  <2>8. Bytes' = SubSeq(Disk, pos + 1, pos + n)
    <3>1. Bytes' \in Seq(Byte) /\ Len(Bytes') = n
      BY <2>4, <2>5 DEF BytesOK
    <3>2. CASE n > 0
      <4>1. pos + n <= file.len
        BY <2>3, <3>2
      <4> QED BY <1>1, <2>3, <2>7, <3>1, <4>1, PartOfDisk
    <3>3. CASE n = 0
      <4>1. Bytes' = <<>>
        BY <3>1, <3>3
      <4>2. SubSeq(Disk, pos + 1, pos + n) = <<>>
        <5>1. pos + 1 \in Int /\ pos + n \in Int /\ pos + n < pos + 1
          BY <1>1, <3>3
        <5> QED BY <5>1, SubSeqEmpty
      <4> QED BY <4>1, <4>2
    <3> QED BY <2>3, <3>2, <3>3
  <2>9. Stream!Become("owned", SubSeq(Disk, pos + 1, pos + n), n, 0)
    BY <2>4, <2>5, <2>6, <2>8 DEF Stream!Become, zero
  <2>10. Reply(ret') = Stream!Done("load", "GOOD")
    BY <2>1, ReplyFacts
  <2>11. n \in 0 .. Stream!Ahead /\ (Stream!Ahead > 0 => n > 0)
    BY <2>3, AheadIsLeft
  <2> QED BY <1>3, <1>5, <2>1, <2>9, <2>10, <2>11 DEF Stream!Load
<1> QED BY <1>6, <1>7

LEMMA LoadViewRefines ==
  ASSUME Careful, IInv, IInv', BytesOK', DiskOK, NEW c \in 0 .. MaxAlloc, LoadView(c)
  PROVE  Stream!LoadView
<1>1. phase # "open" /\ UNCHANGED <<heap, file, pos>>
  BY DEF LoadView
<1>2. ~Stream!IsOpen /\ Disk' = Disk
  BY <1>1, NotOpen DEF Disk
<1>3. CASE ret'.err = "GOOD"
  <2>1. /\ sect' \in Section /\ sect'.data = MAPPED /\ sect'.mode = "VIEW"
        /\ sect'.map_start + sect'.map_off = pos
        /\ sect'.rindex = 0 /\ sect'.windex = 0
        /\ phase' = "open" /\ ret' = Done("loadv", "GOOD")
    BY <1>3, ViewPlace
  <2> DEFINE n == sect'.size
  <2>2. /\ sect'.map_start + sect'.map_off + sect'.size <= file.len
        /\ sect'.map_size = sect'.map_off + sect'.size
    BY <1>1, <2>1 DEF IInv, MapsOK
  <2>3. /\ n \in Nat /\ pos \in Nat /\ file.len \in Nat /\ pos + n <= file.len
        /\ FileOK
    BY <2>1, <2>2 DEF IInv, FileOK, Section, Size
  <2>4. Kind' = "view" /\ Shown' = sect'
    BY <2>1 DEF Kind, Shown
  <2>5. Base' = pos
    BY <2>1, <2>4 DEF Base
  <2>6. ASSUME NEW i \in 0 .. n - 1 PROVE Bytes'[i + 1] = file.bytes[pos + i]
    <3>1. CellAt(sect', i) = file.bytes[pos + i]
      BY <2>1, <2>2, <2>3, ViewCell
    <3>2. Bytes'[i + 1] = CellAt(sect, i)'
      BY <2>4 DEF BytesOK
    <3>3. CellAt(sect, i)' = CellAt(sect', i)
      BY <1>1 DEF CellAt, MappedCell, LastPageEnd
    <3> QED BY <3>1, <3>2, <3>3
  <2>7. Bytes' = SubSeq(Disk, pos + 1, pos + n)
    <3>1. Bytes' \in Seq(Byte) /\ Len(Bytes') = n
      BY <2>4 DEF BytesOK
    <3> HIDE DEF n
    <3> QED BY <2>3, <2>6, <3>1, PartOfDisk
  <2>8. Stream!Become("view", SubSeq(Disk, pos + 1, pos + n), 0, pos)
    BY <2>1, <2>4, <2>5, <2>7 DEF Stream!Become
  <2>9. n \in 0 .. Stream!Ahead
    BY <2>3, AheadIsLeft DEF Left
  <2>10. Reply(ret') = Stream!Done("loadv", "GOOD")
    BY <2>1, ReplyFacts
  <2> QED BY <1>1, <1>2, <2>8, <2>9, <2>10 DEF Stream!LoadView
<1>4. CASE ret'.err # "GOOD"
  <2>1. ret' = Done("loadv", "IO") /\ UNCHANGED <<sect, phase>>
    BY <1>4, ResultFields DEF LoadView
  <2>2. Kind' = Kind /\ Shown' = Shown
    BY <2>1 DEF Kind, Shown
  <2>3. Base' = Base
    BY <2>2 DEF Base
  <2>4. Bytes' = Bytes
    BY <1>1, <2>1, <2>2 DEF Bytes, Slice, CellAt, MappedCell, LastPageEnd
  <2>5. Reply(ret') = Stream!Done("loadv", "IO")
    BY <2>1, ReplyFacts
  <2> QED BY <1>1, <1>2, <2>2, <2>3, <2>4, <2>5 DEF Stream!LoadView
<1> QED BY <1>3, <1>4


(* The file after k bytes of the content were written, as the client of    *)
(* the abstract stream describes it.                                       *)
LEMMA WrittenDisk ==
  ASSUME Careful, IInv, BytesOK, DiskOK, DiskOK', phase = "open",
         NEW k \in Nat \ {0}, k <= sect.size, file' = Written(k)
  PROVE  Disk' = Stream!Splice(Stream!Padded(Disk, pos), pos, SubSeq(Bytes, 1, k))
<1> DEFINE end == pos + k
           len == IF end > file.len THEN end ELSE file.len
           f(i) == IF i \in pos .. end - 1 THEN CellAt(sect, i - pos)
                   ELSE IF i < file.len THEN file.bytes[i] ELSE Nul
           piece == SubSeq(Bytes, 1, k)
           padded == Stream!Padded(Disk, pos)
           spliced == Stream!Splice(padded, pos, piece)
<1>1. /\ pos \in Nat /\ file.len \in Nat
      /\ sect.size \in Nat /\ Shown = sect
  BY OpenCursors DEF IInv, FileOK, Size, Shown
<1>2. /\ file'.len = len
      /\ \A i \in 0 .. len - 1 : file'.bytes[i] = f(i)
  BY DEF Written
<1>3. /\ piece \in Seq(Byte) /\ Len(piece) = k
      /\ \A i \in 0 .. k - 1 : piece[i + 1] = CellAt(sect, i)
  <2> DEFINE one == 1
  <2>1. \A i \in one .. k : Bytes[i] \in Byte
    BY <1>1 DEF BytesOK
  <2>2. /\ SubSeq(Bytes, one, k) \in Seq(Byte)
        /\ Len(SubSeq(Bytes, one, k)) = IF one <= k THEN k - one + 1 ELSE 0
        /\ \A i \in 1 .. k - one + 1 : SubSeq(Bytes, one, k)[i] = Bytes[one + i - 1]
    BY <2>1, one \in Int, k \in Int, SubSeqProperties
  <2>3. ASSUME NEW i \in 0 .. k - 1 PROVE piece[i + 1] = CellAt(sect, i)
    <3>1. /\ i + 1 \in 1 .. k - one + 1 /\ one + (i + 1) - 1 = i + 1
          /\ i \in 0 .. sect.size - 1
      BY <1>1
    <3>2. piece[i + 1] = Bytes[i + 1]
      BY <2>2, <3>1
    <3> QED BY <1>1, <3>1, <3>2 DEF BytesOK
  <2> QED BY <2>2, <2>3
<1> HIDE DEF piece
<1>4. /\ padded \in Seq(Byte)
      /\ Len(padded) = IF pos > file.len THEN pos ELSE file.len
      /\ \A i \in 1 .. Len(padded) :
           padded[i] = IF i <= file.len THEN Disk[i] ELSE Nul
  <2>1. Disk \in Seq(Byte) /\ Len(Disk) = file.len /\ Nul \in Byte
    BY BufferAssumption DEF DiskOK
  <2>2. /\ padded \in Seq(Byte)
        /\ Len(padded) = IF pos > Len(Disk) THEN pos ELSE Len(Disk)
        /\ \A i \in 1 .. Len(padded) :
             padded[i] = IF i <= Len(Disk) THEN Disk[i] ELSE Nul
    BY <1>1, <2>1, PaddedFacts
  <2> HIDE DEF padded
  <2> QED BY <2>1, <2>2
<1> HIDE DEF padded
<1>5. /\ spliced \in Seq(Byte) /\ Len(spliced) = len
      /\ \A i \in 1 .. len :
           spliced[i] = IF i \in pos + 1 .. pos + k THEN piece[i - pos] ELSE padded[i]
  <2>1. padded \in Seq(Byte) /\ pos \in 0 .. Len(padded)
    BY <1>1, <1>4
  <2>2. /\ spliced \in Seq(Byte)
        /\ Len(spliced) = IF pos + Len(piece) > Len(padded) THEN pos + Len(piece)
                          ELSE Len(padded)
        /\ \A i \in 1 .. Len(spliced) :
             spliced[i] = IF i \in pos + 1 .. pos + Len(piece) THEN piece[i - pos]
                          ELSE padded[i]
    BY <1>3, <2>1, SpliceFacts
  <2> HIDE DEF spliced
  <2>3. Len(spliced) = len
    BY <1>1, <1>3, <1>4, <2>2
  <2> HIDE DEF len
  <2> QED BY <1>3, <2>2, <2>3
<1> HIDE DEF spliced
<1>6. ASSUME NEW i \in 0 .. len - 1 PROVE Disk'[i + 1] = spliced[i + 1]
  <2>1. len \in Nat /\ i \in Nat /\ i < len /\ i + 1 \in 1 .. len
    BY <1>1
  <2>2. Disk'[i + 1] = f(i)
    BY <1>2 DEF DiskOK
  <2>3. CASE i \in pos .. end - 1
    <3>1. /\ i + 1 \in pos + 1 .. pos + k /\ i - pos \in 0 .. k - 1
          /\ (i + 1) - pos = (i - pos) + 1
      BY <1>1, <2>1, <2>3
    <3> QED BY <1>3, <1>5, <2>1, <2>2, <2>3, <3>1
  <2>4. CASE i \notin pos .. end - 1
    <3>1. i + 1 \notin pos + 1 .. pos + k /\ i + 1 \in 1 .. Len(padded)
      BY <1>1, <1>4, <2>1, <2>4
    <3>2. spliced[i + 1] = padded[i + 1]
      BY <1>5, <2>1, <3>1
    <3>3. CASE i < file.len
      <4>1. i \in 0 .. file.len - 1 /\ i + 1 <= file.len
        BY <1>1, <2>1, <3>3
      <4>2. Disk[i + 1] = file.bytes[i]
        BY <4>1 DEF DiskOK
      <4> QED BY <1>4, <2>2, <2>4, <3>1, <3>2, <3>3, <4>1, <4>2
    <3>4. CASE ~(i < file.len)
      <4>1. ~(i + 1 <= file.len)
        BY <1>1, <2>1, <3>4
      <4> QED BY <1>4, <2>2, <2>4, <3>1, <3>2, <3>4, <4>1
    <3> QED BY <3>3, <3>4
  <2> QED BY <2>3, <2>4
<1>7. Disk' \in Seq(Byte) /\ Len(Disk') = len
  BY <1>2 DEF DiskOK
<1>8. Disk' = spliced
  <2> HIDE DEF len
  <2> QED BY <1>5, <1>6, <1>7, SameBytes
<1> QED BY <1>8 DEF spliced, padded, piece

LEMMA SerializeRefines ==
  ASSUME Careful, IInv, IInv', BytesOK, BytesOK', DiskOK, DiskOK', ViewOK', Serialize
  PROVE  Stream!Serialize
<1>1. phase = "open" /\ UNCHANGED <<sect, heap, phase>>
  BY DEF Serialize
<1>2. /\ Kind' = Kind /\ Kind \in {"owned", "view"}
      /\ (Kind = "view") = (sect.mode = "VIEW")
      /\ Shown = sect /\ Shown' = sect
  BY <1>1 DEF Kind, Shown
<1>3. Base' = Base
  BY <1>2 DEF Base
<1>4. /\ sect \in Section /\ sect.size \in Nat /\ Base \in Nat /\ file'.len \in Nat
      /\ BufferOK(sect, heap) /\ Len(Bytes) = sect.size /\ pos \in Nat
  BY <1>1, <1>2 DEF IInv, OpenOK, BufferOK, FileOK, Section, Size, Base, BytesOK
<1>5. Bytes' = IF Kind = "view" THEN SubSeq(Disk', Base + 1, Base + Len(Bytes))
               ELSE Bytes
  <2>1. CASE Kind = "view"
    <3> DEFINE n == sect.size
    <3>1. Bytes' \in Seq(Byte) /\ Len(Bytes') = n
      BY <1>2 DEF BytesOK
    <3>2. Disk' \in Seq(Byte) /\ Len(Disk') = file'.len
      BY DEF DiskOK
    <3>3. ASSUME NEW i \in 0 .. n - 1
          PROVE  Base + i \in 0 .. file'.len - 1 /\ Bytes'[i + 1] = Disk'[(Base + i) + 1]
      <4>1. /\ Base + i \in 0 .. file'.len - 1
            /\ CellAt(Shown, i)' = file'.bytes[Base + i]
        BY <1>2, <1>3, <2>1 DEF ViewOK
      <4>2. Bytes'[i + 1] = CellAt(Shown, i)'
        BY <1>2 DEF BytesOK
      <4>3. Disk'[(Base + i) + 1] = file'.bytes[Base + i]
        BY <4>1 DEF DiskOK
      <4> QED BY <4>1, <4>2, <4>3
    <3>4. CASE n > 0
      <4>1. n - 1 \in 0 .. n - 1
        BY <1>4, <3>4
      <4>2. Base + (n - 1) \in 0 .. file'.len - 1
        BY <3>3, <4>1
      <4>3. Base + n <= Len(Disk') /\ n \in Nat
        BY <1>4, <3>2, <4>2
      <4> DEFINE d == Disk'
                 t == Bytes'
      <4>4. /\ d \in Seq(Byte) /\ t \in Seq(Byte) /\ Len(t) = n /\ n \in Nat
            /\ Base \in Nat /\ Base + n <= Len(d)
            /\ \A i \in 0 .. n - 1 : t[i + 1] = d[(Base + i) + 1]
        BY <1>4, <3>1, <3>2, <3>3, <4>3
      <4>5. t = SubSeq(d, Base + 1, Base + n)
        <5> HIDE DEF n, d, t
        <5> QED BY ONLY <4>4, PartOf
      <4> QED BY <1>4, <2>1, <4>5 DEF n, d, t
    <3>5. CASE n = 0
      <4>1. Bytes' = <<>>
        BY <3>1, <3>5
      <4>2. SubSeq(Disk', Base + 1, Base + Len(Bytes)) = <<>>
        <5>1. Base + 1 \in Int /\ Base + Len(Bytes) \in Int /\ Base + Len(Bytes) < Base + 1
          BY <1>4, <3>5
        <5> QED BY <5>1, SubSeqEmpty
      <4> QED BY <2>1, <4>1, <4>2
    <3> QED BY <1>4, <3>4, <3>5
  <2>2. CASE Kind # "view"
    <3>1. sect.data # MAPPED
      BY <1>2, <1>4, <2>2 DEF BufferOK, OwnsOK
    <3>2. Shown'.size = Shown.size /\ Shown.size \in Nat
      BY <1>2, <1>4
    <3>3. \A i \in 0 .. Shown.size - 1 : CellAt(Shown, i)' = CellAt(Shown, i)
      BY <1>1, <1>2, <3>1 DEF CellAt
    <3>4. Bytes' = Bytes
      BY <3>2, <3>3, StaysSame
    <3> QED BY <2>2, <3>4
  <2> QED BY <2>1, <2>2
<1>6. ASSUME NEW k \in 0 .. Len(Bytes),
             Disk' = IF k = 0 THEN Disk
                     ELSE Stream!Splice(Stream!Padded(Disk, pos), pos, SubSeq(Bytes, 1, k)),
             pos' = pos + k,
             ret' = Done("serialize", IF k = Len(Bytes) THEN "GOOD" ELSE "IO")
      PROVE  Stream!Serialize
  <2>1. Reply(ret') = Stream!Done("serialize", IF k = Len(Bytes) THEN "GOOD" ELSE "IO")
    BY <1>6, ReplyFacts
  <2>2. Stream!IsOpen
    BY <1>2 DEF Stream!IsOpen
  <2> QED BY <1>2, <1>3, <1>5, <1>6, <2>1, <2>2 DEF Stream!Serialize
<1>7. CASE UNCHANGED <<file, pos>>
  <2> DEFINE zero == 0
  <2>1. Disk' = Disk /\ pos' = pos + zero /\ zero \in 0 .. Len(Bytes)
    BY <1>4, <1>7 DEF Disk
  <2>2. ret' = Done("serialize", IF zero = Len(Bytes) THEN "GOOD" ELSE "IO")
    <3>1. sect.data = NULL => sect.size = 0
      BY <1>4 DEF BufferOK, OwnsOK, CursorsOK, Section, Size
    <3>2. CASE ret' = Done("serialize", "GOOD") /\ (sect.data = NULL \/ sect.size = 0)
      BY <1>4, <3>1, <3>2
    <3>3. CASE ret' = Done("serialize", "IO") /\ sect.size > 0
      BY <1>4, <3>3
    <3>4. ASSUME NEW k \in 1 .. MaxFile, pos' = pos + k PROVE FALSE
      BY <1>4, <1>7, <3>4
    <3> QED BY <3>2, <3>3, <3>4 DEF Serialize
  <2>3. Disk' = IF zero = 0 THEN Disk
                ELSE Stream!Splice(Stream!Padded(Disk, pos), pos, SubSeq(Bytes, 1, zero))
    BY <2>1
  <2> HIDE DEF zero
  <2> QED BY <1>6, <2>1, <2>2, <2>3
<1>8. ASSUME NEW k \in 1 .. MaxFile, k <= sect.size, file' = Written(k),
             pos' = pos + k,
             ret' = Done("serialize", IF k = sect.size THEN "GOOD" ELSE "IO")
      PROVE  Stream!Serialize
  <2>1. k \in Nat \ {0} /\ k \in 0 .. Len(Bytes)
    BY <1>4, <1>8
  <2>2. Disk' = Stream!Splice(Stream!Padded(Disk, pos), pos, SubSeq(Bytes, 1, k))
    BY <1>1, <1>8, <2>1, WrittenDisk
  <2> QED BY <1>4, <1>6, <1>8, <2>1, <2>2
<1> QED BY <1>7, <1>8 DEF Serialize

(***************************************************************************)
(* The refinement                                                          *)
(***************************************************************************)

LEMMA InitStream == Init /\ IInv /\ BytesOK /\ DiskOK => Stream!Init
<1> SUFFICES ASSUME Init, IInv, BytesOK, DiskOK PROVE Stream!Init
  OBVIOUS
<1>1. /\ phase = "raw" /\ pos = 0 /\ ret = Done("none", "GOOD")
  BY DEF Init
<1>2. Kind = "raw" /\ Shown = ZeroSection /\ Base = 0
  BY <1>1, NotOpen
<1>3. Bytes = <<>>
  BY <1>2, ZeroFields DEF BytesOK
<1>4. Reply(ret) = Stream!Done("none", "GOOD")
  BY <1>1, ReplyFacts
<1> QED BY <1>1, <1>2, <1>3, <1>4, ZeroFields DEF Stream!Init, DiskOK

LEMMA NextStream ==
  ASSUME Careful, IInv, IInv', BytesOK, BytesOK', DiskOK, DiskOK', ViewOK', Next
  PROVE  Stream!Next
<1>1. CASE Building
  <2>1. ASSUME NEW c \in 0 .. MaxAlloc, InitSection(c) \/ Load(c) \/ LoadView(c)
        PROVE  Stream!Next
    BY <2>1, InitRefines, LoadRefines, LoadViewRefines DEF Stream!Next
  <2>2. ASSUME Cleanup PROVE Stream!Next
    BY <2>2, CleanupRefines DEF Stream!Next
  <2> QED BY <1>1, <2>1, <2>2 DEF Building
<1>2. CASE Using
  <2>1. ASSUME NEW n \in 0 .. MaxBuf, NEW buf \in Buffer(n),
               Write(n, buf) \/ PutStr(n, buf)
        PROVE  Stream!Next
    <3>1. \E t \in [1 .. n -> Byte] : Stream!Write(t)
      BY <2>1, WriteRefines DEF Write, PutStr
    <3> QED BY <3>1 DEF Stream!Next
  <2>2. ASSUME NEW n \in 0 .. MaxBuf, Read(n) PROVE Stream!Next
    <3>1. Stream!Read(n)
      BY <2>2, ReadRefines
    <3> QED BY <3>1 DEF Stream!Next
  <2>3. ASSUME NEW p \in 0 .. MaxAlloc + 1,
               EnsureCapacity(p) \/ GetStr(p) \/ SeekRead(p) \/ SeekWrite(p)
        PROVE  Stream!Next
    <3>1. Stream!Reserve \/ Stream!GetStr(p) \/ Stream!Seek(p)
      BY <2>3, EnsureRefines, GetStrRefines, SeekRefines
    <3> QED BY <3>1 DEF Stream!Next
  <2>4. ASSUME Compact \/ Reset PROVE Stream!Next
    BY <2>4, CompactRefines, ResetRefines DEF Stream!Next
  <2> QED BY <1>2, <2>1, <2>2, <2>3, <2>4 DEF Using
<1>3. CASE Filing
  BY <1>3, SerializeRefines, SeekFileRefines DEF Filing, Stream!Next
<1> QED BY <1>1, <1>2, <1>3 DEF Next

LEMMA StutterStream == UNCHANGED vars => UNCHANGED Stream!vars
<1> SUFFICES ASSUME UNCHANGED vars PROVE UNCHANGED Stream!vars
  OBVIOUS
<1>1. UNCHANGED <<sect, heap, file, pos, phase, ret>>
  BY DEF vars
<1>2. Kind' = Kind /\ Shown' = Shown /\ Reply(ret') = Reply(ret)
  BY <1>1 DEF Kind, Shown
<1>3. Base' = Base /\ Disk' = Disk
  BY <1>1, <1>2 DEF Base, Disk
<1>4. Bytes' = Bytes
  BY <1>1, <1>2 DEF Bytes, Slice, CellAt, MappedCell, LastPageEnd
<1> QED BY <1>1, <1>2, <1>3, <1>4 DEF Stream!vars

(* If the client never moves the file position past the end of the file,   *)
(* or never asks for a view, a section is indistinguishable from a         *)
(* sequence of bytes with two cursors: where the bytes are kept, when a    *)
(* buffer grows, shrinks or moves, and that a call failed half way does    *)
(* not show in any result.                                                 *)
THEOREM ImplementsByteStream == Careful => (Spec => RefinesByteStream)
<1>1. Careful \in BOOLEAN
  BY DEF Careful
<1>2. CASE Careful
  <2>1. IInv => BytesOK /\ DiskOK /\ ViewOK
    BY <1>2, SeenOK
  <2>2. /\ IInv /\ IInv' /\ BytesOK /\ BytesOK' /\ DiskOK /\ DiskOK' /\ ViewOK'
        /\ [Next]_vars
        => [Stream!Next]_(Stream!vars)
    BY <1>2, NextStream, StutterStream
  <2> QED BY <2>1, <2>2, InitStream, InitIInv, Invariance, PTL
         DEF Spec, RefinesByteStream, Stream!Spec
<1> QED BY <1>1, <1>2
=============================================================================
