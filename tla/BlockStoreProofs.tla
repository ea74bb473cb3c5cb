--------------------------- MODULE BlockStoreProofs -------------------------
(***************************************************************************)
(* Theorems about the segment streams and the two stores that write them,  *)
(* BlockStore and AisaqStore, for every number of rows, scans and slots    *)
(* and every size of segment, block and page.                              *)
(*                                                                         *)
(* The first part: a stream gives back the words that were written to it,  *)
(* however long it is, whatever segments its root had before and whatever  *)
(* segments of older streams lie around it.  Read is a recursive function: *)
(* that it satisfies its own equation, and what it returns, are shown by   *)
(* taking the least number of words for which they would fail.             *)
(*                                                                         *)
(* The second part: memory and disk give back what the index holds.        *)
(*                                                                         *)
(* The third part: the rows of CREATE INDEX stay in the blocks and pages   *)
(* of AiSAQ.                                                               *)
(***************************************************************************)
EXTENDS BlockStore, AisaqStore, FiniteSetTheorems, WellFoundedInduction, TLAPS

(* Every set of numbers that is not empty has a least member.              *)
LEMMA LeastNumber ==
    ASSUME NEW T \in SUBSET Nat, T # {}
    PROVE  \E n \in T : \A m \in T : n <= m
<1> DEFINE Less == {p \in Nat \X Nat : p[1] < p[2]}
<1>1. Less = OpToRel(<, Nat) BY DEF OpToRel
<1>2. IsWellFoundedOn(Less, Nat) BY <1>1, NatLessThanWellFounded
<1> HIDE DEF Less
<1>3. PICK n \in T : \A m \in T : <<m, n>> \notin Less BY <1>2, WFMin
<1>4. \A m \in T : ~(m < n) BY <1>3 DEF Less
<1> QED BY <1>4

-----------------------------------------------------------------------------
(* Reading.                                                                *)

Taken(k) == IF k < DataSize THEN k ELSE DataSize

(* What a reader has after k words from segment p, given what it has after *)
(* fewer.                                                                  *)
Step(chain, From, k, p) ==
    LET here == SubSeq(chain[p + 1].data, 1, Taken(k))
        left == k - Taken(k)
    IN  IF left = 0 \/ chain[p + 1].next = 0
        THEN here ELSE here \o From[left][chain[p + 1].next]

IsReader(chain, n, From) ==
    From = [k \in 0 .. n |-> [p \in 0 .. Len(chain) - 1 |-> Step(chain, From, k, p)]]

LEMMA TakenFacts ==
    ASSUME NEW k \in Nat
    PROVE  /\ Taken(k) \in Nat /\ Taken(k) <= k /\ Taken(k) <= DataSize
           /\ k - Taken(k) \in Nat
           /\ k - Taken(k) # 0 => Taken(k) = DataSize /\ k - Taken(k) < k
BY DataSizeAssumption DEF Taken

LEMMA ReaderExists ==
    ASSUME NEW chain, NEW n \in Nat
    PROVE  \E From : IsReader(chain, n, From)
<1> DEFINE T == {m \in Nat : ~\E From : IsReader(chain, m, From)}
<1>1. SUFFICES T = {} OBVIOUS
<1>2. SUFFICES ASSUME T # {} PROVE FALSE OBVIOUS
<1>3. PICK m \in T : \A l \in T : m <= l
  <2>1. T \in SUBSET Nat OBVIOUS
  <2> HIDE DEF T
  <2> QED BY <1>2, <2>1, LeastNumber
<1>4. m \in Nat /\ ~\E From : IsReader(chain, m, From) OBVIOUS
<1>5. PICK Old : m # 0 => IsReader(chain, m - 1, Old)
  <2>1. CASE m = 0 BY <2>1
  <2>2. CASE m # 0
    <3>1. m - 1 \in Nat /\ ~(m <= m - 1) BY <1>4, <2>2
    <3> QED BY <1>3, <3>1
  <2> QED BY <2>1, <2>2
<1> HIDE DEF T
<1> DEFINE P == 0 .. Len(chain) - 1
           New == [k \in 0 .. m |-> [p \in P |-> Step(chain, Old, k, p)]]
<1>6. \A k \in 0 .. m : New[k] = [p \in P |-> Step(chain, Old, k, p)] OBVIOUS
<1>7. \A k \in 0 .. m - 1 : Old[k] = [p \in P |-> Step(chain, Old, k, p)]
  <2> SUFFICES ASSUME NEW k \in 0 .. m - 1
               PROVE  Old[k] = [p \in P |-> Step(chain, Old, k, p)]
    OBVIOUS
  <2>1. m # 0 BY <1>4
  <2>2. Old = [j \in 0 .. m - 1 |-> [p \in P |-> Step(chain, Old, j, p)]]
    BY <1>5, <2>1 DEF IsReader
  <2> QED BY <2>2
<1>8. \A k \in 0 .. m - 1 : New[k] = Old[k]
  <2>1. \A k \in 0 .. m - 1 : k \in 0 .. m BY <1>4
  <2> QED BY <1>6, <1>7, <2>1
<1> HIDE DEF New
<1>9. ASSUME NEW k \in 0 .. m, NEW p \in P
      PROVE  Step(chain, Old, k, p) = Step(chain, New, k, p)
  <2>1. CASE k - Taken(k) = 0 BY <2>1 DEF Step
  <2>2. CASE k - Taken(k) # 0
    <3>1. k \in Nat BY <1>4
    <3>2. k - Taken(k) \in 0 .. m - 1 BY SMTT(30), <1>4, <2>2, <3>1, TakenFacts
    <3>3. New[k - Taken(k)] = Old[k - Taken(k)] BY <1>8, <3>2
    <3> QED BY <3>3 DEF Step
  <2> QED BY <2>1, <2>2
<1>10. New = [k \in 0 .. m |-> [p \in P |-> Step(chain, New, k, p)]]
  <2>1. [k \in 0 .. m |-> [p \in P |-> Step(chain, Old, k, p)]]
          = [k \in 0 .. m |-> [p \in P |-> Step(chain, New, k, p)]]
    <3> HIDE DEF P
    <3>1. \A k \in 0 .. m : [p \in P |-> Step(chain, Old, k, p)]
                              = [p \in P |-> Step(chain, New, k, p)]
      BY <1>9
    <3> QED BY <3>1
  <2> QED BY <2>1 DEF New
<1> QED BY <1>4, <1>10 DEF IsReader

(* What Read returns comes from a function that satisfies its equation.    *)
LEMMA ReadByReader ==
    ASSUME NEW chain, NEW n \in Nat
    PROVE  \E From : /\ IsReader(chain, n, From)
                     /\ \A start : Read(chain, start, n) = From[n][StripTag(start)]
<1> DEFINE Cell(From, k, p) ==
             LET here == SubSeq(chain[p + 1].data, 1,
                                IF k < DataSize THEN k ELSE DataSize)
                 left == k - Len(here)
             IN  IF left = 0 \/ chain[p + 1].next = 0
                 THEN here ELSE here \o From[left][chain[p + 1].next]
           P == 0 .. Len(chain) - 1
           Reader == CHOOSE From :
                       From = [k \in 0 .. n |-> [p \in P |-> Cell(From, k, p)]]
<1>1. ASSUME NEW From, NEW k \in 0 .. n, NEW p
      PROVE  Cell(From, k, p) = Step(chain, From, k, p)
  <2>1. Len(SubSeq(chain[p + 1].data, 1, Taken(k))) = Taken(k)
    BY TakenFacts
  <2> QED BY <2>1 DEF Step, Taken
<1> HIDE DEF Cell
<1>2. ASSUME NEW From
      PROVE  [k \in 0 .. n |-> [p \in P |-> Cell(From, k, p)]]
               = [k \in 0 .. n |-> [p \in P |-> Step(chain, From, k, p)]]
  <2>1. \A k \in 0 .. n : [p \in P |-> Cell(From, k, p)]
                            = [p \in P |-> Step(chain, From, k, p)]
    BY <1>1
  <2> QED BY <2>1
<1>3. \E From : From = [k \in 0 .. n |-> [p \in P |-> Cell(From, k, p)]]
  <2>1. PICK From : IsReader(chain, n, From) BY ReaderExists
  <2>2. From = [k \in 0 .. n |-> [p \in P |-> Step(chain, From, k, p)]]
    BY <2>1 DEF IsReader
  <2>3. From = [k \in 0 .. n |-> [p \in P |-> Cell(From, k, p)]]
    BY <1>2, <2>2
  <2> QED BY <2>3
<1>4. Reader = [k \in 0 .. n |-> [p \in P |-> Cell(Reader, k, p)]]
  BY <1>3
<1>5. IsReader(chain, n, Reader) BY <1>2, <1>4 DEF IsReader
<1>6. \A start : Read(chain, start, n) = Reader[n][StripTag(start)]
  BY DEF Read, Reader, Cell
<1> HIDE DEF Reader
<1> QED BY <1>5, <1>6
-----------------------------------------------------------------------------
(* Writing.                                                                *)

Segments(W) == [next : Nat, data : [1 .. DataSize -> W]]

(* A stream that may be written again: its root is one of its segments.    *)
Rooted(chain, start) == start \in 0 .. Len(chain)

LEMMA FullSegments ==
    ASSUME NEW len \in Nat
    PROVE  /\ len \div DataSize \in Nat
           /\ \A k \in Nat : k * DataSize < len => k <= len \div DataSize
<1> DEFINE n == len \div DataSize
<1>1. n \in Nat /\ len < (n + 1) * DataSize BY DataSizeAssumption
<1> HIDE DEF n
<1>2. ASSUME NEW k \in Nat, k * DataSize < len PROVE k <= n
  <2>1. SUFFICES ASSUME n + 1 <= k PROVE FALSE BY <1>1
  <2>2. PICK j \in Nat : k = n + 1 + j
    <3>1. k - (n + 1) \in Nat /\ k = n + 1 + (k - (n + 1)) BY <1>1, <2>1
    <3> QED BY <3>1
  <2>3. k * DataSize = (n + 1) * DataSize + j * DataSize
    BY <1>1, <2>2, DataSizeAssumption
  <2>4. j * DataSize \in Nat BY DataSizeAssumption
  <2>5. (n + 1) * DataSize \in Nat BY <1>1, DataSizeAssumption
  <2> QED BY <1>1, <1>2, <2>3, <2>4, <2>5
<1> QED BY <1>1, <1>2 DEF n

(* The places of a stream's segments: the root's and then the end of the   *)
(* store.                                                                  *)
LEMMA SegmentPlaces ==
    ASSUME NEW X, NEW chain \in Seq(X), NEW start, Rooted(chain, start)
    PROVE  /\ RawOf(chain, start) \in Nat
           /\ SegmentAt(chain, start, 0) = RawOf(chain, start)
           /\ \A k \in Nat \ {0} :
                SegmentAt(chain, start, k)
                  = (IF start = NoRoot THEN Len(chain) + 1 ELSE Len(chain)) + k - 1
           /\ RawOf(chain, start) < IF start = NoRoot THEN Len(chain) + 1 ELSE Len(chain)
BY DEF Rooted, RawOf, SegmentAt, StripTag, NoRoot

LEMMA Concatenation ==
    ASSUME NEW X, NEW a \in Seq(X), NEW b \in Seq(X)
    PROVE  /\ a \o b \in Seq(X) /\ Len(a \o b) = Len(a) + Len(b)
           /\ \A i \in 1 .. Len(a) : (a \o b)[i] = a[i]
           /\ \A i \in 1 .. Len(b) : (a \o b)[Len(a) + i] = b[i]
OBVIOUS

Written(w, chain, start, words) ==
    LET n == NumFull(words) IN
    \A k \in 0 .. n :
        /\ SegmentAt(chain, start, k) \in 0 .. Len(w.segs) - 1
        /\ w.segs[SegmentAt(chain, start, k) + 1].data = Piece(words, k)
        /\ k < n => /\ w.segs[SegmentAt(chain, start, k) + 1].next
                         = SegmentAt(chain, start, k + 1)
                    /\ SegmentAt(chain, start, k + 1) # 0

LEMMA WriteFacts ==
    ASSUME NEW W, 0 \in W, NEW chain \in Seq(Segments(W)), NEW start,
           Rooted(chain, start), NEW words \in Seq(W)
    PROVE  LET w == WriteStream(chain, start, words) IN
           /\ w.segs \in Seq(Segments(W)) /\ Rooted(w.segs, w.root)
           /\ w.root # NoRoot /\ StripTag(w.root) = SegmentAt(chain, start, 0)
           /\ Written(w, chain, start, words)
<1> DEFINE n == NumFull(words)
           begun == IF start = NoRoot THEN Append(chain, Cleared) ELSE chain
           more == [k \in 1 .. n |-> Cleared]
           At(k) == SegmentAt(chain, start, k)
           WrittenAt(p) == {k \in 0 .. n : At(k) = p}
           Segment(k) == [next |-> IF k < n THEN At(k + 1) ELSE 0,
                          data |-> Piece(words, k)]
           Latest(p) == CHOOSE k \in WrittenAt(p) : \A j \in WrittenAt(p) : j <= k
           new == [i \in 1 .. Len(begun) + Len(more) |->
                     IF WrittenAt(i - 1) = {} THEN (begun \o more)[i]
                     ELSE Segment(Latest(i - 1))]
           w == WriteStream(chain, start, words)
<1>1. w = [segs |-> new, root |-> WithTag(RawOf(chain, start))] BY DEF WriteStream
<1>2. n \in Nat BY FullSegments DEF NumFull
<1>3. Cleared \in Segments(W) BY DEF Cleared, Segments
<1>4. /\ begun \in Seq(Segments(W)) /\ more \in Seq(Segments(W))
      /\ Len(more) = n
      /\ Len(begun) = IF start = NoRoot THEN Len(chain) + 1 ELSE Len(chain)
  <2>1. more \in [1 .. n -> Segments(W)] BY <1>3
  <2> QED BY <1>2, <1>3, <2>1
<1>5. /\ begun \o more \in Seq(Segments(W))
      /\ Len(begun \o more) = Len(begun) + Len(more)
  <2> HIDE DEF begun, more
  <2> QED BY <1>4, Concatenation
<1>6. /\ At(0) \in Nat /\ At(0) < Len(begun) /\ At(0) = RawOf(chain, start)
      /\ \A k \in Nat \ {0} : At(k) = Len(begun) + k - 1
  BY <1>4, SegmentPlaces
<1> HIDE DEF begun, more, At, n
<1>7. /\ \A k \in 0 .. n : At(k) \in 0 .. (Len(begun) + n) - 1
      /\ \A j, k \in 0 .. n : At(j) = At(k) => j = k
      /\ \A k \in 0 .. n : k < n => At(k + 1) # 0 /\ At(k + 1) \in Nat
  <2> DEFINE b == Len(begun)
  <2>0. b \in Nat /\ At(0) \in Nat /\ At(0) < b BY <1>4, <1>6
  <2>1. \A k \in Nat : k # 0 => At(k) = b + k - 1 BY <1>6
  <2> HIDE DEF b
  <2>2. \A k \in 0 .. n : k \in Nat /\ k <= n BY <1>2
  <2>3. ASSUME NEW k \in 0 .. n
        PROVE  /\ At(k) \in Nat /\ At(k) <= (b + n) - 1
               /\ k # 0 => At(k) = b + k - 1
    <3>1. CASE k = 0 BY <1>2, <2>0, <3>1
    <3>2. CASE k # 0
      <4>1. k \in Nat /\ k <= n BY <2>2
      <4>2. At(k) = b + k - 1 BY <2>1, <3>2, <4>1
      <4> QED BY <1>2, <2>0, <3>2, <4>1, <4>2
    <3> QED BY <3>1, <3>2
  <2>4. ASSUME NEW j \in 0 .. n, NEW k \in 0 .. n, At(j) = At(k) PROVE j = k
    <3>1. j \in Nat /\ k \in Nat BY <2>2
    <3>2. CASE j = 0 /\ k # 0 BY <2>0, <2>3, <2>4, <3>1, <3>2
    <3>3. CASE j # 0 /\ k = 0 BY <2>0, <2>3, <2>4, <3>1, <3>3
    <3>4. CASE j # 0 /\ k # 0 BY <2>0, <2>3, <2>4, <3>1, <3>4
    <3> QED BY <3>2, <3>3, <3>4
  <2>5. ASSUME NEW k \in 0 .. n PROVE At(k + 1) # 0 /\ At(k + 1) \in Nat
    <3>1. k + 1 \in Nat /\ k + 1 # 0 BY <2>2
    <3>2. At(k + 1) = b + (k + 1) - 1 BY <2>1, <3>1
    <3> QED BY <2>0, <2>2, <3>1, <3>2
  <2>6. \A k \in 0 .. n : At(k) \in 0 .. (b + n) - 1 BY <1>2, <2>0, <2>3
  <2> QED BY <2>4, <2>5, <2>6 DEF b
<1>8. \A k \in 0 .. n : WrittenAt(At(k)) = {k} /\ Latest(At(k)) = k
  <2> TAKE k \in 0 .. n
  <2>1. WrittenAt(At(k)) = {k} BY <1>7
  <2> HIDE DEF WrittenAt
  <2>2. k <= k BY <1>2
  <2> QED BY <2>1, <2>2
<1>9. \A p : WrittenAt(p) # {} => Latest(p) \in 0 .. n
  <2> TAKE p
  <2> SUFFICES ASSUME WrittenAt(p) # {} PROVE Latest(p) \in 0 .. n
    OBVIOUS
  <2>1. PICK k \in 0 .. n : At(k) = p OBVIOUS
  <2> QED BY <1>8, <2>1
<1>10. \A k \in 0 .. n : Segment(k) \in Segments(W)
  <2> TAKE k \in 0 .. n
  <2>1. Piece(words, k) \in [1 .. DataSize -> W]
    <3>1. \A i \in 1 .. DataSize : k * DataSize + i \in Nat \ {0}
      BY <1>2, DataSizeAssumption
    <3>2. \A j \in Nat \ {0} : j <= Len(words) => words[j] \in W OBVIOUS
    <3> QED BY <3>1, <3>2 DEF Piece
  <2>2. (IF k < n THEN At(k + 1) ELSE 0) \in Nat BY <1>7
  <2> QED BY <2>1, <2>2 DEF Segments
<1> HIDE DEF Segment, WrittenAt, Latest
<1>11. /\ new \in Seq(Segments(W)) /\ Len(new) = Len(begun) + n
       /\ \A i \in 1 .. Len(begun) + n :
            new[i] = IF WrittenAt(i - 1) = {} THEN (begun \o more)[i]
                     ELSE Segment(Latest(i - 1))
  <2>0. Len(begun) + Len(more) = Len(begun) + n /\ Len(begun) + n \in Nat
    BY <1>2, <1>4
  <2>1. \A i \in 1 .. Len(begun) + n : (begun \o more)[i] \in Segments(W)
    BY <1>5, <2>0
  <2>2. new \in [1 .. Len(begun) + n -> Segments(W)]
    BY <1>9, <1>10, <2>0, <2>1
  <2>3. \A i \in 1 .. Len(begun) + n :
            new[i] = IF WrittenAt(i - 1) = {} THEN (begun \o more)[i]
                     ELSE Segment(Latest(i - 1))
    BY <2>0
  <2>4. ASSUME NEW A, NEW l \in Nat, NEW f \in [1 .. l -> A]
        PROVE  f \in Seq(A) /\ Len(f) = l
    OBVIOUS
  <2> HIDE DEF new
  <2>5. new \in Seq(Segments(W)) /\ Len(new) = Len(begun) + n BY <2>0, <2>2, <2>4
  <2> QED BY <2>3, <2>5
<1> HIDE DEF new, w
<1>12. \A k \in 0 .. n : new[At(k) + 1] = Segment(k)
  <2> TAKE k \in 0 .. n
  <2>0. Len(begun) + n \in Nat BY <1>2, <1>4
  <2>1. At(k) \in 0 .. (Len(begun) + n) - 1 BY <1>7
  <2>2. At(k) + 1 \in 1 .. Len(begun) + n /\ (At(k) + 1) - 1 = At(k)
    <3> DEFINE top == Len(begun) + n
               at == At(k)
    <3>1. top \in Nat BY <2>0
    <3>2. at \in 0 .. top - 1 BY <2>1
    <3> HIDE DEF top, at
    <3>3. at + 1 \in 1 .. top /\ (at + 1) - 1 = at BY <3>1, <3>2
    <3> QED BY <3>3 DEF top, at
  <2> QED BY <1>8, <1>11, <2>2
<1>13. Written(w, chain, start, words)
  <2> SUFFICES ASSUME NEW k \in 0 .. n
               PROVE  /\ At(k) \in 0 .. Len(w.segs) - 1
                      /\ w.segs[At(k) + 1].data = Piece(words, k)
                      /\ k < n => /\ w.segs[At(k) + 1].next = At(k + 1)
                                  /\ At(k + 1) # 0
    BY DEF Written, n, At
  <2>1. w.segs = new BY <1>1
  <2>2. At(k) \in 0 .. Len(w.segs) - 1
    <3>1. Len(w.segs) = Len(begun) + n BY <1>11, <2>1
    <3>2. At(k) \in 0 .. (Len(begun) + n) - 1 BY <1>7
    <3> QED BY <3>1, <3>2
  <2>3. w.segs[At(k) + 1] = Segment(k) BY <1>12, <2>1
  <2>4. /\ Segment(k).data = Piece(words, k)
        /\ Segment(k).next = IF k < n THEN At(k + 1) ELSE 0
    BY DEF Segment
  <2>5. k < n => At(k + 1) # 0 BY <1>7
  <2> QED BY <2>2, <2>3, <2>4, <2>5
<1>14. /\ Rooted(w.segs, w.root) /\ w.root # NoRoot /\ StripTag(w.root) = At(0)
  <2>1. w.segs = new /\ w.root = At(0) + 1 BY <1>1, <1>6 DEF WithTag
  <2>2. Len(new) \in Nat /\ At(0) < Len(new) BY <1>2, <1>4, <1>6, <1>11
  <2> DEFINE at == At(0)
             top == Len(new)
  <2>3. at \in Nat /\ top \in Nat /\ at < top BY <1>6, <2>2
  <2> HIDE DEF at, top
  <2>4. at + 1 \in 0 .. top /\ at + 1 # 0 /\ (at + 1) - 1 = at BY <2>3
  <2> QED BY <2>1, <2>4 DEF Rooted, NoRoot, StripTag, at, top
<1> QED BY <1>1, <1>11, <1>13, <1>14 DEF w, At

-----------------------------------------------------------------------------
(* Writing, then reading.                                                  *)

(* The n words that follow the first `from`.                               *)
Part(words, from, n) == [i \in 1 .. n |-> words[from + i]]

LEMMA PartFacts ==
    ASSUME NEW W, NEW words \in Seq(W), NEW a \in Nat, NEW n \in Nat,
           a + n <= Len(words)
    PROVE  /\ Part(words, a, n) \in Seq(W) /\ Len(Part(words, a, n)) = n
           /\ \A i \in 1 .. n : Part(words, a, n)[i] = words[a + i]
<1>1. \A i \in 1 .. n : a + i \in 1 .. Len(words) OBVIOUS
<1>2. Part(words, a, n) \in [1 .. n -> W] BY <1>1 DEF Part
<1> QED BY <1>2 DEF Part

LEMMA PartsJoin ==
    ASSUME NEW W, NEW words \in Seq(W), NEW a \in Nat, NEW m \in Nat, NEW n \in Nat,
           a + m + n <= Len(words)
    PROVE  Part(words, a, m) \o Part(words, a + m, n) = Part(words, a, m + n)
<1> DEFINE first == Part(words, a, m)
           second == Part(words, a + m, n)
           whole == Part(words, a, m + n)
<1>1. /\ first \in Seq(W) /\ Len(first) = m
      /\ \A i \in 1 .. m : first[i] = words[a + i]
  <2>1. a + m <= Len(words) OBVIOUS
  <2> QED BY <2>1, PartFacts
<1>2. /\ second \in Seq(W) /\ Len(second) = n
      /\ \A i \in 1 .. n : second[i] = words[(a + m) + i]
  <2>1. PICK b \in Nat : b = a + m OBVIOUS
  <2>2. b + n <= Len(words) BY <2>1
  <2>3. /\ Part(words, b, n) \in Seq(W) /\ Len(Part(words, b, n)) = n
        /\ \A i \in 1 .. n : Part(words, b, n)[i] = words[b + i]
    BY <2>2, PartFacts
  <2> QED BY <2>1, <2>3
<1>3. /\ whole \in Seq(W) /\ Len(whole) = m + n
      /\ \A i \in 1 .. m + n : whole[i] = words[a + i]
  <2>1. PICK k \in Nat : k = m + n OBVIOUS
  <2>2. a + k <= Len(words) BY <2>1
  <2>3. /\ Part(words, a, k) \in Seq(W) /\ Len(Part(words, a, k)) = k
        /\ \A i \in 1 .. k : Part(words, a, k)[i] = words[a + i]
    BY <2>2, PartFacts
  <2> QED BY <2>1, <2>3
<1> HIDE DEF first, second, whole
<1> DEFINE both == first \o second
<1>4. /\ both \in Seq(W) /\ Len(both) = m + n
      /\ \A i \in 1 .. m : both[i] = first[i]
      /\ \A i \in 1 .. n : both[m + i] = second[i]
  <2>1. /\ both \in Seq(W) /\ Len(both) = Len(first) + Len(second)
        /\ \A i \in 1 .. Len(first) : both[i] = first[i]
        /\ \A i \in 1 .. Len(second) : both[Len(first) + i] = second[i]
    <3>1. first \in Seq(W) /\ second \in Seq(W) BY <1>1, <1>2
    <3>2. first \o second \in Seq(W) /\ Len(first \o second) = Len(first) + Len(second)
      BY <3>1
    <3>3. \A i \in 1 .. Len(first) : (first \o second)[i] = first[i] BY <3>1
    <3>4. \A i \in 1 .. Len(second) : (first \o second)[Len(first) + i] = second[i] BY <3>1
    <3> QED BY <3>2, <3>3, <3>4
  <2> HIDE DEF both
  <2>2. Len(first) = m /\ Len(second) = n BY <1>1, <1>2
  <2> QED BY <2>1, <2>2
<1> HIDE DEF both
<1>5. \A i \in 1 .. m + n : both[i] = whole[i]
  <2> TAKE i \in 1 .. m + n
  <2>1. CASE i <= m
    <3>1. i \in 1 .. m BY <2>1
    <3> QED BY <1>1, <1>3, <1>4, <3>1
  <2>2. CASE i > m
    <3> DEFINE j == i - m
    <3>1. j \in 1 .. n /\ m + j = i /\ (a + m) + j = a + i BY <2>2
    <3> HIDE DEF j
    <3>2. both[m + j] = second[j] /\ second[j] = words[(a + m) + j]
      BY <1>2, <1>4, <3>1
    <3> QED BY <1>3, <3>1, <3>2
  <2> QED BY <2>1, <2>2
<1>6. both = whole BY <1>3, <1>4, <1>5
<1> QED BY <1>6 DEF both, whole, first, second

LEMMA PieceRead ==
    ASSUME NEW W, NEW words \in Seq(W), NEW k \in Nat, NEW n \in Nat,
           n <= DataSize, k * DataSize + n <= Len(words)
    PROVE  SubSeq(Piece(words, k), 1, n) = Part(words, k * DataSize, n)
<1> DEFINE a == k * DataSize
<1>1. a \in Nat BY DataSizeAssumption
<1>2. Piece(words, k) = [i \in 1 .. DataSize |->
                           IF a + i <= Len(words) THEN words[a + i] ELSE 0]
  BY DEF Piece
<1>3. a + n <= Len(words) OBVIOUS
<1> HIDE DEF a
<1>4. \A i \in 1 .. n : Piece(words, k)[i] = words[a + i]
  <2> TAKE i \in 1 .. n
  <2>1. i \in 1 .. DataSize /\ a + i <= Len(words) BY <1>1, <1>3, DataSizeAssumption
  <2> QED BY <1>2, <2>1
<1>5. SubSeq(Piece(words, k), 1, n) = [i \in 1 .. n |-> Piece(words, k)[i]]
  OBVIOUS
<1>6. SubSeq(Piece(words, k), 1, n) = Part(words, a, n)
  BY <1>4, <1>5 DEF Part
<1> QED BY <1>6 DEF a

(* A stream gives back what was written.                                   *)
THEOREM RoundTrip ==
    ASSUME NEW W, 0 \in W, NEW chain \in Seq(Segments(W)), NEW start,
           Rooted(chain, start), NEW words \in Seq(W),
           NEW n \in Nat, n <= Len(words),
           NEW w, w = WriteStream(chain, start, words)
    PROVE  Read(w.segs, w.root, n) = Part(words, 0, n)
<1> DEFINE N == NumFull(words)
           At(k) == SegmentAt(chain, start, k)
<1>1. /\ StripTag(w.root) = At(0) /\ Written(w, chain, start, words)
      /\ N \in Nat
      /\ \A k \in Nat : k * DataSize < Len(words) => k <= N
  <2>1. StripTag(w.root) = At(0) /\ Written(w, chain, start, words)
    BY WriteFacts
  <2>2. Len(words) \in Nat OBVIOUS
  <2>3. N \in Nat /\ \A k \in Nat : k * DataSize < Len(words) => k <= N
    BY <2>2, FullSegments DEF NumFull
  <2> QED BY <2>1, <2>3
<1>2. PICK From : /\ IsReader(w.segs, n, From)
                  /\ Read(w.segs, w.root, n) = From[n][At(0)]
  BY <1>1, ReadByReader
<1>3. \A k \in 0 .. N :
         /\ At(k) \in 0 .. Len(w.segs) - 1
         /\ w.segs[At(k) + 1].data = Piece(words, k)
         /\ k < N => w.segs[At(k) + 1].next = At(k + 1) /\ At(k + 1) # 0
  BY <1>1 DEF Written
<1>4. \A j \in 0 .. n, k \in 0 .. N : From[j][At(k)] = Step(w.segs, From, j, At(k))
  <2> DEFINE P == 0 .. Len(w.segs) - 1
  <2>1. From = [j \in 0 .. n |-> [p \in P |-> Step(w.segs, From, j, p)]]
    BY <1>2 DEF IsReader
  <2>2. \A k \in 0 .. N : At(k) \in P BY <1>3
  <2> HIDE DEF P, At, N
  <2>3. \A j \in 0 .. n : From[j] = [p \in P |-> Step(w.segs, From, j, p)]
    BY <2>1
  <2> QED BY <2>2, <2>3
<1> HIDE DEF N, At
<1> DEFINE Reads(j, k) == From[j][At(k)] = Part(words, k * DataSize, j)
           T == {j \in Nat : /\ j <= n
                             /\ \E k \in 0 .. N :
                                  k * DataSize + j <= Len(words) /\ ~Reads(j, k)}
<1>5. T = {}
  <2> SUFFICES ASSUME T # {} PROVE FALSE OBVIOUS
  <2>1. PICK j \in T : \A l \in T : j <= l
    <3>1. T \in SUBSET Nat OBVIOUS
    <3> HIDE DEF T
    <3> QED BY <3>1, LeastNumber
  <2>2. j \in Nat /\ j <= n OBVIOUS
  <2>3. PICK k \in 0 .. N : k * DataSize + j <= Len(words) /\ ~Reads(j, k)
    OBVIOUS
  <2>4. \A l \in Nat, h \in 0 .. N :
          l < j /\ h * DataSize + l <= Len(words) => Reads(l, h)
    <3> SUFFICES ASSUME NEW l \in Nat, NEW h \in 0 .. N, l < j,
                        h * DataSize + l <= Len(words), ~Reads(l, h)
                 PROVE  FALSE
      OBVIOUS
    <3>1. l <= n BY <2>2
    <3>2. l \in T BY <3>1
    <3> HIDE DEF T
    <3> QED BY <2>1, <2>2, <3>2
  <2> HIDE DEF T
  <2> DEFINE a == k * DataSize
             t == Taken(j)
             left == j - t
             p == At(k)
             here == SubSeq(w.segs[p + 1].data, 1, t)
  <2>5. a \in Nat /\ k \in Nat /\ k <= N /\ a + j <= Len(words) /\ Len(words) \in Nat
    BY <1>1, <2>3, DataSizeAssumption
  <2>6. /\ t \in Nat /\ t <= j /\ t <= DataSize /\ left \in Nat
        /\ left # 0 => t = DataSize /\ left < j
    BY <2>2, TakenFacts
  <2>7. here = Part(words, a, t)
    <3>1. w.segs[p + 1].data = Piece(words, k) BY <1>3
    <3>2. k * DataSize + t <= Len(words)
      <4>1. a + t <= Len(words)
        <5> HIDE DEF a, t
        <5> QED BY <2>2, <2>5, <2>6
      <4> QED BY <4>1
    <3> QED BY <2>5, <2>6, <3>1, <3>2, PieceRead
  <2>8. From[j][p] = IF left = 0 \/ w.segs[p + 1].next = 0
                     THEN here ELSE here \o From[left][w.segs[p + 1].next]
    <3>1. j \in 0 .. n BY <2>2
    <3>2. From[j][At(k)] = Step(w.segs, From, j, At(k)) BY <1>4, <3>1
    <3> QED BY <3>2 DEF Step
  <2>9. CASE left = 0
    <3>1. t = j BY <2>2, <2>6, <2>9
    <3>2. From[j][p] = Part(words, a, j) BY <2>7, <2>8, <2>9, <3>1
    <3> QED BY <2>3, <3>2 DEF Reads
  <2>10. CASE left # 0
    <3>1. t = DataSize /\ left < j BY <2>6, <2>10
    <3>2. (k + 1) * DataSize = a + t BY <2>5, <3>1, DataSizeAssumption
    <3>3. (a + t) + left = a + j
      <4> HIDE DEF a, t
      <4> QED BY <2>2, <2>5, <2>6
    <3>4. k + 1 \in 0 .. N /\ k < N
      <4>1. (k + 1) * DataSize < Len(words)
        <5>1. a + t < Len(words)
          <6> DEFINE l == left
          <6>1. l \in Nat /\ l # 0 /\ (a + t) + l <= Len(words)
            BY <2>5, <2>6, <2>10, <3>3
          <6> HIDE DEF a, t, l
          <6> QED BY <2>5, <2>6, <6>1
        <5> QED BY <3>2, <5>1
      <4>2. k + 1 <= N BY <1>1, <2>5, <4>1
      <4> QED BY <1>1, <2>5, <4>2
    <3>5. w.segs[p + 1].next = At(k + 1) /\ At(k + 1) # 0 BY <1>3, <3>4
    <3>6. From[left][At(k + 1)] = Part(words, a + t, left)
      <4>1. (k + 1) * DataSize + left <= Len(words)
        BY <2>5, <3>2, <3>3
      <4>2. Reads(left, k + 1) BY <2>4, <2>6, <3>1, <3>4, <4>1
      <4> QED BY <3>2, <4>2 DEF Reads
    <3>7. From[j][p] = Part(words, a, t) \o Part(words, a + t, left)
      BY <2>7, <2>8, <2>10, <3>5, <3>6
    <3>8. Part(words, a, t) \o Part(words, a + t, left) = Part(words, a, t + left)
      <4>1. ASSUME NEW x \in Nat, NEW y \in Nat, NEW z \in Nat, (x + y) + z <= Len(words)
            PROVE  Part(words, x, y) \o Part(words, x + y, z) = Part(words, x, y + z)
        BY SMTT(30), <4>1, PartsJoin
      <4>2. (a + t) + left <= Len(words) BY <2>5, <3>3
      <4>3. a \in Nat /\ t \in Nat /\ left \in Nat BY <2>5, <2>6
      <4> HIDE DEF a, t, left
      <4> QED BY <4>1, <4>2, <4>3
    <3>9. t + left = j
      <4> HIDE DEF t
      <4> QED BY <2>2, <2>6
    <3> QED BY <2>3, <3>7, <3>8, <3>9 DEF Reads
  <2> QED BY <2>9, <2>10
<1>6. Reads(n, 0)
  <2>1. 0 \in 0 .. N /\ 0 * DataSize + n <= Len(words)
    BY <1>1, DataSizeAssumption
  <2> QED BY <1>5, <2>1
<1>7. 0 * DataSize = 0 BY DataSizeAssumption
<1> QED BY <1>2, <1>6, <1>7


-----------------------------------------------------------------------------
(* The inductive invariant.                                                *)

Buffer == [loads : 0 .. MaxLoads, loaded : BOOLEAN,
           data : [1 .. SlotsPerBuffer -> Rows \cup {0}],
           saved : [1 .. SlotsPerBuffer -> Rows \cup {0}]]

Word == Nat \cup Rows

Scan == [at : {"idle", "hit", "miss", "fetched", "pinned"}, buffer : Nat,
         pointer : 0 .. MaxLoads, settled : BOOLEAN]

Types ==
    /\ rows \in Seq(Rows) /\ dirty \in BOOLEAN
    /\ segs \in Seq(Segments(Word)) /\ Rooted(segs, root)
    /\ buffers \in Seq(Buffer) /\ cache \in Seq(0 .. MaxLoads)
    /\ scan \in [Scans -> Scan] /\ phase \in {"none", "persisted", "written"}
    /\ crossed \in BOOLEAN

(* Every node is in a buffer, and they leave no gap: the next node is in   *)
(* one of them or begins the next one.                                     *)
Fits(bufs, list) ==
    /\ \A node \in 1 .. Len(list) : BufferOf(node) <= Len(bufs)
    /\ BufferOf(Len(list) + 1) <= Len(bufs) + 1

(* The address of a buffer in memory.                                      *)
Current(bufs, b, loads) ==
    b \in 1 .. Len(bufs) /\ bufs[b].loaded /\ bufs[b].loads = loads

(* An address the cache keeps is the one its buffer is at, while a         *)
(* checkpoint is not about to clear the cache and no scan has kept an      *)
(* address across one.                                                     *)
CacheIsFresh == phase # "written" /\ ~crossed =>
    \A b \in 1 .. Len(cache) : cache[b] # 0 => Current(buffers, b, cache[b])

LoadsCount == \A b \in 1 .. Len(buffers) : buffers[b].loaded => buffers[b].loads # 0

(* A scan between its test of the cache and its pin.                       *)
OnTheWay == {"hit", "miss", "fetched"}
ScansOnTheWay == \A s \in Scans :
    /\ scan[s].at \in OnTheWay => scan[s].buffer \in 1 .. Len(buffers)
    /\ scan[s].at = "fetched" => scan[s].pointer # 0
    /\ scan[s].at = "hit" /\ scan[s].settled => IsHit(cache, scan[s].buffer)

(* A clean stream holds the rows, and a checkpoint that has written it     *)
(* lets nobody write before the buffers follow.                            *)
StreamHolds ==
    /\ phase # "none" => ~dirty
    /\ root # NoRoot /\ ~dirty => RowsOf([segs |-> segs, root |-> root]) = rows

(* What a restart finds is such a state with no buffer in memory.          *)
FileHolds ==
    /\ file.segs \in Seq(Segments(Word)) /\ Rooted(file.segs, file.root)
    /\ file.buffers \in Seq(Buffer)
    /\ \A b \in 1 .. Len(file.buffers) : ~file.buffers[b].loaded
    /\ file.root # NoRoot =>
         /\ RowsOf(file) \in Seq(Rows) /\ Fits(file.buffers, RowsOf(file))
         /\ ~crossed => Holds(file.buffers, RowsOf(file))

SInv == /\ Types /\ Fits(buffers, rows) /\ (~crossed => Holds(buffers, rows))
        /\ CacheIsFresh /\ LoadsCount /\ ScansOnTheWay
        /\ StreamHolds /\ FileHolds

-----------------------------------------------------------------------------
(* Nodes and their buffers.                                                *)

LEMMA Division ==
    ASSUME NEW n \in Nat, NEW S \in Nat \ {0}
    PROVE  /\ n \div S \in Nat /\ n % S \in 0 .. S - 1
           /\ n = S * (n \div S) + (n % S)
<1>1. n \div S \in Nat OBVIOUS
<1>2. n % S \in 0 .. S - 1 OBVIOUS
<1>3. n = S * (n \div S) + (n % S) OBVIOUS
<1> QED BY <1>1, <1>2, <1>3

LEMMA DivisionSteps ==
    ASSUME NEW n \in Nat, NEW S \in Nat \ {0}
    PROVE  (n + 1) \div S <= (n \div S) + 1
<1> DEFINE a == n \div S
           b == (n + 1) \div S
<1>1. a \in Nat /\ n < S * a + S
  <2>1. a \in Nat /\ n % S \in 0 .. S - 1 /\ n = S * a + (n % S) BY Division
  <2> QED BY <2>1
<1>2. b \in Nat /\ S * b <= n + 1
  <2>1. n + 1 \in Nat OBVIOUS
  <2>2. b \in Nat /\ (n + 1) % S \in 0 .. S - 1 /\ n + 1 = S * b + ((n + 1) % S)
    BY <2>1, Division
  <2> QED BY <2>2
<1> HIDE DEF a, b
<1>3. SUFFICES ASSUME b >= a + 2 PROVE FALSE BY <1>1, <1>2 DEF a, b
<1>4. PICK d \in Nat : b = a + 2 + d
  <2>1. b - (a + 2) \in Nat /\ b = a + 2 + (b - (a + 2)) BY <1>1, <1>2, <1>3
  <2> QED BY <2>1
<1>5. S * b = S * a + S + S + S * d BY <1>1, <1>4
<1>6. S * d \in Nat /\ S * a \in Nat BY <1>1, <1>4
<1>7. S * b >= S * a + S + S BY <1>5, <1>6
<1> QED BY <1>1, <1>2, <1>6, <1>7

LEMMA NodePlaces ==
    /\ \A n \in Nat \ {0} : BufferOf(n) \in Nat \ {0} /\ SlotOf(n) \in 1 .. SlotsPerBuffer
    /\ \A n \in Nat \ {0} : BufferOf(n + 1) <= BufferOf(n) + 1
    /\ \A n, m \in Nat \ {0} : BufferOf(n) = BufferOf(m) /\ SlotOf(n) = SlotOf(m) => n = m
    /\ BufferOf(1) = 1
<1> DEFINE S == SlotsPerBuffer
<1>1. S \in Nat \ {0} BY StoreAssumption
<1> HIDE DEF S
<1>2. \A n \in Nat \ {0} : BufferOf(n) \in Nat \ {0} /\ SlotOf(n) \in 1 .. S
  <2> TAKE n \in Nat \ {0}
  <2>1. n - 1 \in Nat OBVIOUS
  <2>2. (n - 1) \div S \in Nat /\ (n - 1) % S \in 0 .. S - 1 BY <1>1, <2>1, Division
  <2> QED BY <1>1, <2>2 DEF BufferOf, SlotOf, S
<1>3. \A n \in Nat \ {0} : BufferOf(n + 1) <= BufferOf(n) + 1
  <2> TAKE n \in Nat \ {0}
  <2>1. n - 1 \in Nat /\ (n - 1) + 1 = (n + 1) - 1 OBVIOUS
  <2>2. ((n - 1) + 1) \div S <= ((n - 1) \div S) + 1 BY <1>1, <2>1, DivisionSteps
  <2>3. (n - 1) \div S \in Nat /\ ((n - 1) + 1) \div S \in Nat BY <1>1, <2>1, Division
  <2> QED BY <2>1, <2>2, <2>3 DEF BufferOf, S
<1>4. ASSUME NEW n \in Nat \ {0}, NEW m \in Nat \ {0},
             BufferOf(n) = BufferOf(m), SlotOf(n) = SlotOf(m)
      PROVE  n = m
  <2>1. n - 1 \in Nat /\ m - 1 \in Nat OBVIOUS
  <2>2. /\ (n - 1) \div S \in Nat /\ (n - 1) % S \in 0 .. S - 1
        /\ n - 1 = S * ((n - 1) \div S) + ((n - 1) % S)
    BY <1>1, <2>1, Division
  <2>3. /\ (m - 1) \div S \in Nat /\ (m - 1) % S \in 0 .. S - 1
        /\ m - 1 = S * ((m - 1) \div S) + ((m - 1) % S)
    BY <1>1, <2>1, Division
  <2>4. (n - 1) \div S = (m - 1) \div S BY <1>4, <2>2, <2>3 DEF BufferOf, S
  <2>5. (n - 1) % S = (m - 1) % S BY <1>4, <2>2, <2>3 DEF SlotOf, S
  <2>6. n - 1 = m - 1
    <3> DEFINE q == (n - 1) \div S
               r == (n - 1) % S
    <3>1. n - 1 = S * q + r BY <2>2
    <3>2. m - 1 = S * q + r BY <2>3, <2>4, <2>5
    <3> HIDE DEF q, r
    <3> QED BY <3>1, <3>2
  <2> QED BY <2>6
<1>5. BufferOf(1) = 1
  <2>1. 0 \div S \in Nat /\ 0 % S \in Nat /\ 0 = S * (0 \div S) + (0 % S)
    BY <1>1, Division
  <2>2. 0 \div S = 0
    <3>1. ASSUME NEW q \in Nat, NEW r \in Nat, 0 = S * q + r PROVE q = 0
      <4>1. S * q >= q BY <1>1
      <4>2. S * q \in Nat BY <1>1
      <4> QED BY <3>1, <4>1, <4>2
    <3> DEFINE q == 0 \div S
               r == 0 % S
    <3>2. q \in Nat /\ r \in Nat /\ 0 = S * q + r BY <2>1
    <3> HIDE DEF q, r
    <3>3. q = 0 BY <3>1, <3>2
    <3> QED BY <3>3 DEF q
  <2> QED BY <2>2 DEF BufferOf, S
<1> QED BY <1>2, <1>3, <1>4, <1>5 DEF S

-----------------------------------------------------------------------------
(* The state stream.                                                       *)

(* A stream written with the rows, over whatever it held, reads as them.   *)
LEMMA RowsWritten ==
    ASSUME NEW list \in Seq(Rows), NEW old \in Seq(Segments(Word)), NEW r,
           Rooted(old, r), NEW f,
           f.segs = WriteStream(old, r, <<Len(list)>> \o list).segs,
           f.root = WriteStream(old, r, <<Len(list)>> \o list).root
    PROVE  /\ f.segs \in Seq(Segments(Word)) /\ Rooted(f.segs, f.root)
           /\ f.root # NoRoot /\ RowsOf(f) = list
<1> DEFINE words == <<Len(list)>> \o list
           w == WriteStream(old, r, words)
           m == Len(list)
<1>1. 0 \in Word /\ m \in Nat BY DEF Word
<1>2. /\ words \in Seq(Word) /\ Len(words) = 1 + m /\ words[1] = m
      /\ \A i \in 1 .. m : words[1 + i] = list[i]
  <2>1. <<m>> \in Seq(Word) /\ Len(<<m>>) = 1 /\ <<m>>[1] = m BY <1>1 DEF Word
  <2>2. list \in Seq(Word) BY DEF Word
  <2> HIDE DEF m
  <2>3. /\ <<m>> \o list \in Seq(Word) /\ Len(<<m>> \o list) = 1 + Len(list)
        /\ (<<m>> \o list)[1] = m
        /\ \A i \in 1 .. Len(list) : (<<m>> \o list)[1 + i] = list[i]
    BY <2>1, <2>2, Concatenation
  <2> QED BY <2>3 DEF m
<1>3. f.segs = w.segs /\ f.root = w.root OBVIOUS
<1> HIDE DEF words
<1>4. /\ w.segs \in Seq(Segments(Word)) /\ Rooted(w.segs, w.root) /\ w.root # NoRoot
  BY <1>1, <1>2, WriteFacts
<1>5. ASSUME NEW n \in Nat, n <= Len(words)
      PROVE  Read(w.segs, w.root, n) = Part(words, 0, n)
  <2> HIDE DEF w
  <2>1. w = WriteStream(old, r, words) BY DEF w
  <2> QED BY <1>1, <1>2, <1>5, <2>1, RoundTrip
<1> HIDE DEF w, m
<1>6. ReadOne(w.segs, w.root, 1) = m
  <2>1. 1 \in Nat /\ 1 <= Len(words) BY <1>1, <1>2
  <2>2. Read(w.segs, w.root, 1) = Part(words, 0, 1) BY <1>5, <2>1
  <2>3. Part(words, 0, 1)[1] = words[1] BY DEF Part
  <2> QED BY <1>2, <2>2, <2>3 DEF ReadOne
<1>7. ReadSome(w.segs, w.root, 1, m) = list
  <2>1. 1 + m \in Nat /\ 1 + m <= Len(words) BY <1>1, <1>2
  <2>2. Read(w.segs, w.root, 1 + m) = Part(words, 0, 1 + m) BY <1>5, <2>1
  <2> DEFINE some == SubSeq(Part(words, 0, 1 + m), 1 + 1, 1 + m)
  <2>3. /\ Part(words, 0, 1 + m) \in Seq(Word) /\ Len(Part(words, 0, 1 + m)) = 1 + m
        /\ \A i \in 1 .. 1 + m : Part(words, 0, 1 + m)[i] = words[0 + i]
    <3>1. 0 \in Nat /\ 0 + (1 + m) <= Len(words) BY <1>1, <1>2
    <3>2. words \in Seq(Word) /\ 1 + m \in Nat BY <1>2, <2>1
    <3> QED BY <3>1, <3>2, PartFacts
  <2>4. /\ some \in Seq(Word) /\ Len(some) = m
        /\ \A i \in 1 .. m : some[i] = Part(words, 0, 1 + m)[1 + i]
    <3> DEFINE part == Part(words, 0, 1 + m)
    <3>1. part \in Seq(Word) /\ Len(part) = 1 + m BY <2>3
    <3> HIDE DEF part
    <3>2. SubSeq(part, 1 + 1, 1 + m) = [i \in 1 .. m |-> part[1 + i]] BY <1>1, <3>1
    <3>3. \A i \in 1 .. m : part[1 + i] \in Word
      <4> TAKE i \in 1 .. m
      <4>1. 1 + i \in 1 .. Len(part) BY <1>1, <3>1
      <4> QED BY <3>1, <4>1
    <3>4. [i \in 1 .. m |-> part[1 + i]] \in Seq(Word) BY <1>1, <3>3
    <3>5. Len([i \in 1 .. m |-> part[1 + i]]) = m BY <1>1
    <3> QED BY <3>2, <3>4, <3>5 DEF part
  <2>5. list \in Seq(Word) /\ Len(list) = m BY DEF Word, m
  <2>6. \A i \in 1 .. m : some[i] = list[i]
    <3> TAKE i \in 1 .. m
    <3>1. 1 + i \in 1 .. 1 + m /\ 0 + (1 + i) = 1 + i BY <1>1
    <3> HIDE DEF some
    <3> QED BY <1>2, <2>3, <2>4, <3>1 DEF m
  <2> HIDE DEF some
  <2>7. some = list BY <2>4, <2>5, <2>6
  <2> QED BY <2>2, <2>7 DEF ReadSome, some
<1>8. RowsOf(f) = list BY <1>3, <1>6, <1>7 DEF RowsOf
<1> QED BY <1>3, <1>4, <1>8

(* Whoever writes the stream writes it only when a row has come.           *)
LEMMA PersistFacts ==
    ASSUME Types, StreamHolds, PersistToDisk, rows' = rows
    PROVE  /\ segs' \in Seq(Segments(Word)) /\ Rooted(segs', root') /\ ~dirty'
           /\ root' # NoRoot => RowsOf([segs |-> segs', root |-> root']) = rows
<1> DEFINE f == [segs |-> segs', root |-> root']
<1>1. CASE dirty
  <2>1. /\ f.segs = WriteStream(segs, root, <<Len(rows)>> \o rows).segs
        /\ f.root = WriteStream(segs, root, <<Len(rows)>> \o rows).root
    BY <1>1 DEF PersistToDisk, WriteStateStream, Words
  <2>2. f.segs = segs' /\ f.root = root' OBVIOUS
  <2>3. rows \in Seq(Rows) /\ segs \in Seq(Segments(Word)) /\ Rooted(segs, root)
    BY DEF Types
  <2>4. ~dirty' BY DEF PersistToDisk
  <2> HIDE DEF f
  <2>5. /\ f.segs \in Seq(Segments(Word)) /\ Rooted(f.segs, f.root)
        /\ RowsOf(f) = rows
    BY <2>1, <2>3, RowsWritten
  <2> QED BY <2>2, <2>4, <2>5 DEF f
<1>2. CASE ~dirty
  BY <1>2 DEF PersistToDisk, Types, StreamHolds
<1> QED BY <1>1, <1>2 DEF Types

-----------------------------------------------------------------------------
(* Buffers and the cache.                                                  *)

LEMMA LoadFacts ==
    ASSUME Types, LoadsCount, NEW b \in 1 .. Len(buffers), Load(b)[b].loads <= MaxLoads
    PROVE  /\ Load(b) \in Seq(Buffer) /\ Len(Load(b)) = Len(buffers)
           /\ Load(b)[b].loaded /\ Load(b)[b].loads \in 0 .. MaxLoads
           /\ Load(b)[b].loads # 0
           /\ \A c \in 1 .. Len(buffers) :
                /\ Content(Load(b)[c]) = Content(buffers[c])
                /\ Load(b)[c].loaded => Load(b)[c].loads # 0
                /\ buffers[c].loaded => Load(b)[c] = buffers[c]
<1>1. Len(buffers) \in Nat /\ ~(b > Len(buffers)) BY DEF Types
<1>2. CASE buffers[b].loaded
  <2>1. Load(b) = buffers BY <1>2 DEF Load
  <2>2. buffers[b] \in Buffer BY DEF Types
  <2> QED BY <1>2, <2>1, <2>2 DEF Types, LoadsCount, Buffer
<1>3. CASE ~buffers[b].loaded
  <2> DEFINE old == buffers[b]
             new == [loads |-> old.loads + 1, loaded |-> TRUE,
                     data |-> old.saved, saved |-> old.saved]
  <2>1. Load(b) = [buffers EXCEPT ![b] = new] BY <1>1, <1>3 DEF Load
  <2>2. old \in Buffer BY DEF Types
  <2>3. buffers \in Seq(Buffer) BY DEF Types
  <2>4. Load(b)[b] = new
    <3> HIDE DEF new
    <3> QED BY <2>1, <2>3
  <2>5. new \in Buffer /\ new.loaded /\ new.loads # 0 /\ Content(new) = Content(old)
    <3>1. new.loads = old.loads + 1 /\ new.loaded /\ new.data = old.saved OBVIOUS
    <3>2. old.loads \in 0 .. MaxLoads BY <2>2 DEF Buffer
    <3>3. new.loads \in 0 .. MaxLoads /\ new.loads # 0
      BY <2>4, <3>1, <3>2, StoreAssumption
    <3>4. new \in Buffer BY <2>2, <3>1, <3>3 DEF Buffer
    <3>5. Content(new) = Content(old) BY <1>3, <3>1 DEF Content
    <3> QED BY <3>1, <3>3, <3>4, <3>5
  <2> HIDE DEF new
  <2>6. Load(b) \in Seq(Buffer) /\ Len(Load(b)) = Len(buffers) BY <2>1, <2>3, <2>5
  <2>7. \A c \in 1 .. Len(buffers) : c # b => Load(b)[c] = buffers[c]
    BY <2>1, <2>3
  <2>8. new.loads \in 0 .. MaxLoads BY <2>5 DEF Buffer
  <2> QED BY <1>3, <2>4, <2>5, <2>6, <2>7, <2>8 DEF LoadsCount
<1> QED BY <1>2, <1>3

LEMMA KeptFacts ==
    ASSUME Types, NEW b \in Nat \ {0}, NEW loads \in 0 .. MaxLoads
    PROVE  /\ Kept(b, loads) \in Seq(0 .. MaxLoads)
           /\ b \in 1 .. Len(Kept(b, loads)) /\ Kept(b, loads)[b] = loads
           /\ \A c \in 1 .. Len(Kept(b, loads)) :
                c # b => Kept(b, loads)[c] = 0 \/ (c <= Len(cache) /\ Kept(b, loads)[c] = cache[c])
           /\ b <= Len(cache) => Len(Kept(b, loads)) = Len(cache)
           /\ \A c \in 1 .. Len(cache) : c <= Len(Kept(b, loads)) /\ (c # b => Kept(b, loads)[c] = cache[c])
<1> DEFINE n == Len(cache)
           m == IF b <= n THEN n ELSE b
<1>1. cache \in Seq(0 .. MaxLoads) /\ n \in Nat /\ 0 \in 0 .. MaxLoads
  BY StoreAssumption DEF Types
<1>2. /\ Grown(b) \in Seq(0 .. MaxLoads) /\ Len(Grown(b)) = m
      /\ \A c \in 1 .. m : Grown(b)[c] = IF c <= n THEN cache[c] ELSE 0
  <2>1. CASE b <= n BY <1>1, <2>1 DEF Grown
  <2>2. CASE ~(b <= n)
    <3> DEFINE g == [i \in 1 .. b |-> IF i <= n THEN cache[i] ELSE 0]
    <3>1. Grown(b) = g BY <2>2 DEF Grown
    <3>2. \A i \in 1 .. b : (IF i <= n THEN cache[i] ELSE 0) \in 0 .. MaxLoads
      <4> TAKE i \in 1 .. b
      <4>1. CASE i <= n
        <5>1. i \in 1 .. n BY <1>1, <4>1
        <5>2. ASSUME NEW A, NEW s \in Seq(A), NEW j \in 1 .. Len(s) PROVE s[j] \in A
          OBVIOUS
        <5>3. cache[i] \in 0 .. MaxLoads BY <1>1, <5>1, <5>2
        <5> QED BY <4>1, <5>3
      <4>2. CASE ~(i <= n) BY <1>1, <4>2
      <4> QED BY <4>1, <4>2
    <3>3. g \in Seq(0 .. MaxLoads) /\ Len(g) = b BY <3>2
    <3>4. \A i \in 1 .. b : g[i] = IF i <= n THEN cache[i] ELSE 0 OBVIOUS
    <3> QED BY <2>2, <3>1, <3>3, <3>4
  <2> QED BY <2>1, <2>2
<1>3. m \in Nat /\ b \in 1 .. m /\ n <= m BY <1>1
<1> HIDE DEF m
<1>4. Kept(b, loads) = [Grown(b) EXCEPT ![b] = loads] BY DEF Kept
<1>5. /\ Kept(b, loads) \in Seq(0 .. MaxLoads) /\ Len(Kept(b, loads)) = m
      /\ Kept(b, loads)[b] = loads
      /\ \A c \in 1 .. m : c # b => Kept(b, loads)[c] = Grown(b)[c]
  BY <1>2, <1>3, <1>4
<1>6. b <= n => m = n BY DEF m
<1> HIDE DEF n
<1>7. \A c \in 1 .. m : c # b => Kept(b, loads)[c] = 0 \/ (c <= n /\ Kept(b, loads)[c] = cache[c])
  BY <1>2, <1>5
<1>8. \A c \in 1 .. n : c <= m /\ (c # b => Kept(b, loads)[c] = cache[c])
  BY <1>1, <1>2, <1>3, <1>5
<1> QED BY <1>3, <1>5, <1>6, <1>7, <1>8 DEF n

(* What a scan may do to the cache: the address of a loaded buffer.        *)
LEMMA CacheStaysFresh ==
    ASSUME Types, \A c \in 1 .. Len(cache) : cache[c] # 0 => Current(buffers, c, cache[c]),
           NEW b \in Nat \ {0}, NEW loads \in 0 .. MaxLoads,
           NEW bufs, Len(bufs) \in Nat, Len(buffers) <= Len(bufs),
           Current(bufs, b, loads),
           \A c \in 1 .. Len(buffers) :
              buffers[c].loaded /\ c # b => bufs[c].loaded /\ bufs[c].loads = buffers[c].loads
    PROVE  \A c \in 1 .. Len(Kept(b, loads)) :
             Kept(b, loads)[c] # 0 => Current(bufs, c, Kept(b, loads)[c])
<1> DEFINE kept == Kept(b, loads)
<1>1. /\ kept \in Seq(0 .. MaxLoads) /\ kept[b] = loads
      /\ \A c \in 1 .. Len(kept) : c # b => kept[c] = 0 \/ (c <= Len(cache) /\ kept[c] = cache[c])
  BY KeptFacts
<1> HIDE DEF kept
<1>2. ASSUME NEW c \in 1 .. Len(kept), kept[c] # 0
      PROVE  Current(bufs, c, kept[c])
  <2>1. CASE c = b BY <1>1, <2>1
  <2>2. CASE c # b
    <3>1. c <= Len(cache) /\ kept[c] = cache[c] BY <1>1, <1>2, <2>2
    <3>2. c \in Nat /\ Len(cache) \in Nat /\ c >= 1 BY <1>1 DEF Types
    <3>3. Current(buffers, c, cache[c]) BY <1>2, <3>1, <3>2
    <3>4. Len(buffers) \in Nat BY DEF Types
    <3> QED BY <2>2, <3>1, <3>3, <3>4 DEF Current
  <2> QED BY <2>1, <2>2
<1> QED BY <1>2 DEF kept

-----------------------------------------------------------------------------
(* The steps.                                                              *)

LEMMA SameContent ==
    ASSUME NEW bufs, NEW new, Len(bufs) \in Nat, Len(new) = Len(bufs),
           NEW list \in Seq(Rows), Fits(bufs, list),
           \A c \in 1 .. Len(bufs) : Content(new[c]) = Content(bufs[c])
    PROVE  Fits(new, list) /\ (Holds(bufs, list) => Holds(new, list))
<1>1. ASSUME Holds(bufs, list), NEW node \in 1 .. Len(list)
      PROVE  /\ BufferOf(node) <= Len(new)
             /\ Content(new[BufferOf(node)])[SlotOf(node)] = list[node]
  <2>1. node \in Nat \ {0} OBVIOUS
  <2>2. BufferOf(node) \in Nat \ {0} BY <2>1, NodePlaces
  <2>3. BufferOf(node) <= Len(bufs) /\ Content(bufs[BufferOf(node)])[SlotOf(node)] = list[node]
    BY <1>1 DEF Holds
  <2>4. BufferOf(node) \in 1 .. Len(bufs) BY <2>2, <2>3
  <2> QED BY <2>3, <2>4
<1> QED BY <1>1 DEF Holds, Fits

(* An empty index needs no buffer.                                         *)
LEMMA NoRows ==
    ASSUME NEW bufs, Len(bufs) \in Nat
    PROVE  Holds(bufs, <<>>) /\ Fits(bufs, <<>>)
<1>1. Len(<<>>) = 0 OBVIOUS
<1>2. BufferOf(0 + 1) = 1
  <2>1. 0 + 1 = 1 OBVIOUS
  <2> QED BY <2>1, NodePlaces
<1> QED BY <1>1, <1>2 DEF Holds, Fits

LEMMA SameFile == FileHolds /\ file' = file /\ (~crossed' => ~crossed) => FileHolds'
BY DEF FileHolds

LEMMA StartsSound == Init => SInv
<1> SUFFICES ASSUME Init PROVE SInv OBVIOUS
<1>1. Types
  <2>1. rows \in Seq(Rows) /\ segs \in Seq(Segments(Word)) /\ buffers \in Seq(Buffer)
        /\ cache \in Seq(0 .. MaxLoads) /\ Len(segs) = 0
    BY DEF Init
  <2>2. Idle \in Scan BY StoreAssumption DEF Idle, Scan
  <2>3. scan \in [Scans -> Scan] BY <2>2 DEF Init
  <2>4. Rooted(segs, root) BY <2>1 DEF Init, Rooted, NoRoot
  <2> QED BY <2>1, <2>3, <2>4 DEF Init, Types
<1>2. Holds(buffers, rows) /\ Fits(buffers, rows)
  <2>1. Len(<<>>) \in Nat OBVIOUS
  <2> QED BY <2>1, NoRows DEF Init
<1>3. CacheIsFresh /\ LoadsCount BY DEF Init, CacheIsFresh, LoadsCount
<1>4. ScansOnTheWay BY DEF Init, ScansOnTheWay, OnTheWay, Idle
<1>5. StreamHolds BY DEF Init, StreamHolds
<1>6. FileHolds
  <2>1. file.segs = <<>> /\ file.root = NoRoot /\ file.buffers = <<>> BY DEF Init, NoFile
  <2>2. Len(<<>>) = 0 /\ <<>> \in Seq(Segments(Word)) /\ <<>> \in Seq(Buffer) OBVIOUS
  <2> QED BY <2>1, <2>2 DEF FileHolds, Rooted, NoRoot
<1> QED BY <1>1, <1>2, <1>3, <1>4, <1>5, <1>6 DEF SInv

(* What an insert leaves in the buffer of the new node.                    *)
Put(bufs, b, slot, r) == [bufs EXCEPT ![b].data[slot] = r]

LEMMA NodeAdded ==
    ASSUME NEW bufs \in Seq(Buffer), NEW list \in Seq(Rows), NEW r \in Rows,
           NEW b, b = BufferOf(Len(list) + 1), b \in 1 .. Len(bufs), bufs[b].loaded,
           NEW new, new = Put(bufs, b, SlotOf(Len(list) + 1), r)
    PROVE  /\ new \in Seq(Buffer) /\ Len(new) = Len(bufs)
           /\ \A c \in 1 .. Len(bufs) :
                new[c].loaded = bufs[c].loaded /\ new[c].loads = bufs[c].loads
           /\ Holds(bufs, list) => Holds(new, Append(list, r))
<1> DEFINE node == Len(list) + 1
           slot == SlotOf(node)
           old == bufs[b]
           one == [old EXCEPT !.data = [@ EXCEPT ![slot] = r]]
<1>1. node \in Nat \ {0} /\ Len(list) \in Nat OBVIOUS
<1>2. slot \in 1 .. SlotsPerBuffer BY <1>1, NodePlaces
<1>3. old \in Buffer OBVIOUS
<1>4. new = [bufs EXCEPT ![b] = one] BY DEF Put
<1>5. /\ one \in Buffer /\ one.loaded = old.loaded /\ one.loads = old.loads
      /\ one.data = [old.data EXCEPT ![slot] = r]
  BY <1>2, <1>3 DEF Buffer
<1> HIDE DEF one
<1>6. /\ new \in Seq(Buffer) /\ Len(new) = Len(bufs) /\ new[b] = one
      /\ \A c \in 1 .. Len(bufs) : c # b => new[c] = bufs[c]
  BY <1>4, <1>5
<1>7. \A c \in 1 .. Len(bufs) : new[c].loaded = bufs[c].loaded /\ new[c].loads = bufs[c].loads
  BY <1>5, <1>6
<1>8. Content(one) = [Content(old) EXCEPT ![slot] = r] BY <1>5 DEF Content
<1> DEFINE longer == Append(list, r)
<1>9. /\ Len(longer) = node /\ longer[node] = r
      /\ \A n \in 1 .. Len(list) : longer[n] = list[n]
  OBVIOUS
<1>10. Content(old) \in [1 .. SlotsPerBuffer -> Rows \cup {0}]
  BY <1>3 DEF Buffer, Content
<1> HIDE DEF longer, slot, old
<1>11. ASSUME Holds(bufs, list), NEW n \in 1 .. node
       PROVE  /\ BufferOf(n) <= Len(new)
              /\ Content(new[BufferOf(n)])[SlotOf(n)] = longer[n]
  <2>1. n \in Nat \ {0} BY <1>1
  <2>2. CASE n = node
    <3>1. BufferOf(n) = b /\ SlotOf(n) = slot BY <2>2 DEF slot
    <3>2. Content(new[b])[slot] = r BY <1>2, <1>6, <1>8, <1>10
    <3>3. b <= Len(new) BY <1>6
    <3>4. longer[n] = r BY <1>9, <2>2
    <3> QED BY <3>1, <3>2, <3>3, <3>4
  <2>3. CASE n # node
    <3>1. n \in 1 .. Len(list) BY <1>1, <2>3
    <3>2. /\ BufferOf(n) <= Len(bufs)
          /\ Content(bufs[BufferOf(n)])[SlotOf(n)] = list[n]
      BY <1>11, <3>1 DEF Holds
    <3>3. BufferOf(n) \in 1 .. Len(bufs) /\ SlotOf(n) \in 1 .. SlotsPerBuffer
      BY <2>1, <3>2, NodePlaces
    <3>4. CASE BufferOf(n) = b
      <4>1. SlotOf(n) # slot
        <5>1. BufferOf(n) = BufferOf(node) BY <3>4
        <5> HIDE DEF node
        <5> QED BY <1>1, <2>1, <2>3, <5>1, NodePlaces DEF slot
      <4>2. Content(one)[SlotOf(n)] = Content(old)[SlotOf(n)]
        BY <1>8, <1>10, <3>3, <4>1
      <4>3. Content(old)[SlotOf(n)] = list[n] BY <3>2, <3>4 DEF old
      <4> QED BY <1>6, <1>9, <3>1, <3>2, <3>4, <4>2, <4>3
    <3>5. CASE BufferOf(n) # b BY <1>6, <1>9, <3>1, <3>2, <3>3, <3>5
    <3> QED BY <3>4, <3>5
  <2> QED BY <2>2, <2>3
<1>12. Holds(bufs, list) => Holds(new, longer) BY <1>9, <1>11 DEF Holds
<1> QED BY <1>6, <1>7, <1>12 DEF longer

(* Where the new node goes, there is room for the one after it.            *)
LEMMA NodeFits ==
    ASSUME NEW bufs, Len(bufs) \in Nat, NEW more, Len(more) \in Nat, Len(bufs) <= Len(more),
           NEW list \in Seq(Rows), NEW r \in Rows, Fits(bufs, list),
           BufferOf(Len(list) + 1) <= Len(more)
    PROVE  Fits(more, Append(list, r))
<1> DEFINE node == Len(list) + 1
<1>1. node \in Nat \ {0} /\ node + 1 \in Nat \ {0} OBVIOUS
<1>2. Len(Append(list, r)) = node OBVIOUS
<1>3. BufferOf(node) \in Nat /\ BufferOf(node + 1) \in Nat
      /\ BufferOf(node + 1) <= BufferOf(node) + 1
  <2> HIDE DEF node
  <2> QED BY <1>1, NodePlaces
<1>4. ASSUME NEW n \in 1 .. node PROVE BufferOf(n) <= Len(more)
  <2>1. CASE n = node BY <2>1
  <2>2. CASE n # node
    <3>1. n \in 1 .. Len(list) /\ n \in Nat \ {0} BY <2>2
    <3>2. BufferOf(n) <= Len(bufs) /\ BufferOf(n) \in Nat BY <3>1, NodePlaces DEF Fits
    <3> QED BY <3>2
  <2> QED BY <2>1, <2>2
<1>5. BufferOf(node) <= Len(more) OBVIOUS
<1> HIDE DEF node
<1>6. BufferOf(node + 1) <= Len(more) + 1 BY <1>3, <1>5
<1> QED BY <1>2, <1>4, <1>6 DEF Fits

LEMMA InsertKeeps ==
    ASSUME SInv, NEW r \in Rows, Insert(r)
    PROVE  SInv'
<1> DEFINE node == Len(rows) + 1
           b == BufferOf(node)
           grown == IF b > Len(buffers) THEN Append(buffers, Fresh) ELSE Load(b)
           pointer == IF IsHit(cache, b) THEN cache[b] ELSE grown[b].loads
<1>0. /\ Types /\ Fits(buffers, rows) /\ (~crossed => Holds(buffers, rows))
      /\ CacheIsFresh /\ LoadsCount /\ StreamHolds /\ FileHolds
  BY DEF SInv
<1>1. /\ NoScan /\ phase = "none" /\ grown[b].loads <= MaxLoads
      /\ buffers' = IF IsHit(cache, b) /\ pointer # grown[b].loads THEN grown
                    ELSE [grown EXCEPT ![b].data[SlotOf(node)] = r]
      /\ cache' = IF IsHit(cache, b) THEN cache ELSE Kept(b, pointer)
      /\ rows' = Append(rows, r) /\ dirty' = TRUE
      /\ UNCHANGED <<root, segs, scan, phase, file, crossed>>
  BY DEF Insert
<1>2. /\ rows \in Seq(Rows) /\ buffers \in Seq(Buffer) /\ Len(buffers) \in Nat
      /\ cache \in Seq(0 .. MaxLoads) /\ Len(cache) \in Nat
  BY <1>0 DEF Types
<1>3. node \in Nat \ {0} /\ b \in Nat \ {0} /\ b <= Len(buffers) + 1
  <2>1. node \in Nat \ {0} BY <1>2
  <2>2. b <= Len(buffers) + 1 BY <1>0 DEF Fits
  <2> HIDE DEF node
  <2> QED BY <2>1, <2>2, NodePlaces
<1> HIDE DEF node, b
<1>4. /\ grown \in Seq(Buffer) /\ Len(buffers) <= Len(grown) /\ Len(grown) \in Nat
      /\ b \in 1 .. Len(grown) /\ grown[b].loaded
      /\ grown[b].loads \in 0 .. MaxLoads /\ grown[b].loads # 0
      /\ \A c \in 1 .. Len(buffers) :
           /\ Content(grown[c]) = Content(buffers[c])
           /\ buffers[c].loaded => grown[c] = buffers[c]
      /\ \A c \in 1 .. Len(grown) : grown[c].loaded => grown[c].loads # 0
  <2>1. CASE b > Len(buffers)
    <3>1. grown = Append(buffers, Fresh) /\ b = Len(buffers) + 1 BY <1>2, <1>3, <2>1
    <3>2. /\ Fresh.loads = 1 /\ Fresh.loaded
          /\ Fresh.data = NoNodes /\ Fresh.saved = NoNodes
      BY DEF Fresh
    <3>3. NoNodes \in [1 .. SlotsPerBuffer -> Rows \cup {0}] BY DEF NoNodes
    <3>4. grown[b] = Fresh BY <1>2, <3>1
    <3>5. Fresh.loads \in 0 .. MaxLoads
      <4>1. grown[b].loads <= MaxLoads BY <1>1
      <4> HIDE DEF grown
      <4> QED BY <3>2, <3>4, <4>1, StoreAssumption
    <3>6. Fresh \in Buffer BY <3>3, <3>5 DEF Fresh, Buffer
    <3>7. /\ grown \in Seq(Buffer) /\ Len(grown) = Len(buffers) + 1
          /\ \A c \in 1 .. Len(buffers) : grown[c] = buffers[c]
      <4> HIDE DEF grown
      <4> QED BY <1>2, <3>1, <3>6
    <3> HIDE DEF grown
    <3>8. \A c \in 1 .. Len(grown) : c = b \/ c \in 1 .. Len(buffers) BY <1>2, <3>1, <3>7
    <3>9. \A c \in 1 .. Len(grown) : grown[c].loaded => grown[c].loads # 0
      BY <1>0, <3>2, <3>4, <3>7, <3>8 DEF LoadsCount
    <3> QED BY <1>2, <1>3, <3>1, <3>2, <3>4, <3>5, <3>7, <3>9
  <2>2. CASE ~(b > Len(buffers))
    <3>1. grown = Load(b) /\ b \in 1 .. Len(buffers) BY <1>2, <1>3, <2>2
    <3>2. Load(b)[b].loads <= MaxLoads BY <1>1, <3>1
    <3>3. /\ Load(b) \in Seq(Buffer) /\ Len(Load(b)) = Len(buffers)
          /\ Load(b)[b].loaded /\ Load(b)[b].loads \in 0 .. MaxLoads
          /\ Load(b)[b].loads # 0
          /\ \A c \in 1 .. Len(buffers) :
               /\ Content(Load(b)[c]) = Content(buffers[c])
               /\ Load(b)[c].loaded => Load(b)[c].loads # 0
               /\ buffers[c].loaded => Load(b)[c] = buffers[c]
      BY <1>0, <3>1, <3>2, LoadFacts
    <3> HIDE DEF grown
    <3> QED BY <1>2, <3>1, <3>3
  <2> QED BY <2>1, <2>2
<1> HIDE DEF grown
<1>5. /\ pointer \in 0 .. MaxLoads
      /\ ~IsHit(cache, b) \/ ~crossed => pointer = grown[b].loads
  <2>1. CASE IsHit(cache, b)
    <3>1. b \in 1 .. Len(cache) /\ cache[b] # 0 BY <1>2, <1>3, <2>1 DEF IsHit
    <3>2. cache[b] \in 0 .. MaxLoads
      <4>1. ASSUME NEW A, NEW q \in Seq(A), NEW j \in 1 .. Len(q) PROVE q[j] \in A
        OBVIOUS
      <4> QED BY <1>2, <3>1, <4>1
    <3>3. ~crossed => Current(buffers, b, cache[b])
      BY <1>0, <1>1, <3>1 DEF CacheIsFresh
    <3>4. ~crossed => cache[b] = grown[b].loads
      <4>1. Current(buffers, b, cache[b]) => cache[b] = grown[b].loads
        BY <1>4 DEF Current
      <4> QED BY <3>3, <4>1
    <3> QED BY <2>1, <3>2, <3>4
  <2>2. CASE ~IsHit(cache, b) BY <1>4, <2>2
  <2> QED BY <2>1, <2>2
<1>6. /\ buffers' = grown \/ buffers' = Put(grown, b, SlotOf(node), r)
      /\ ~crossed => buffers' = Put(grown, b, SlotOf(node), r)
  BY <1>1, <1>5 DEF Put
<1>20. cache' = IF IsHit(cache, b) THEN cache ELSE Kept(b, pointer) BY <1>1
<1> HIDE DEF pointer
<1>7. ~crossed => Holds(grown, rows)
  <2> SUFFICES ASSUME ~crossed, NEW n \in 1 .. Len(rows)
               PROVE  /\ BufferOf(n) <= Len(grown)
                      /\ Content(grown[BufferOf(n)])[SlotOf(n)] = rows[n]
    BY DEF Holds
  <2>1. /\ BufferOf(n) <= Len(buffers)
        /\ Content(buffers[BufferOf(n)])[SlotOf(n)] = rows[n]
    BY <1>0 DEF Holds
  <2>2. BufferOf(n) \in Nat \ {0}
    <3>1. n \in Nat \ {0} OBVIOUS
    <3> QED BY <3>1, NodePlaces
  <2>3. BufferOf(n) \in 1 .. Len(buffers) BY <1>2, <2>1, <2>2
  <2> QED BY <1>2, <1>4, <2>1, <2>2, <2>3
<1>8. /\ buffers' \in Seq(Buffer) /\ Len(buffers') = Len(grown)
      /\ \A c \in 1 .. Len(grown) :
           buffers'[c].loaded = grown[c].loaded /\ buffers'[c].loads = grown[c].loads
      /\ ~crossed => Holds(buffers', Append(rows, r))
  <2> DEFINE put == Put(grown, b, SlotOf(node), r)
  <2>1. b = BufferOf(Len(rows) + 1) /\ SlotOf(node) = SlotOf(Len(rows) + 1)
    BY DEF b, node
  <2>2. put = Put(grown, b, SlotOf(Len(rows) + 1), r) BY <2>1
  <2>3. grown \in Seq(Buffer) /\ b \in 1 .. Len(grown) /\ grown[b].loaded BY <1>4
  <2>4. b = BufferOf(Len(rows) + 1) BY <2>1
  <2>5. /\ put \in Seq(Buffer) /\ Len(put) = Len(grown)
        /\ \A c \in 1 .. Len(grown) :
             put[c].loaded = grown[c].loaded /\ put[c].loads = grown[c].loads
        /\ Holds(grown, rows) => Holds(put, Append(rows, r))
    <3> HIDE DEF put
    <3> QED BY <1>2, <2>2, <2>3, <2>4, NodeAdded
  <2>6. buffers' = grown \/ buffers' = put BY <1>6
  <2>7. ~crossed => buffers' = put BY <1>6
  <2> HIDE DEF put
  <2> QED BY <1>4, <1>7, <2>5, <2>6, <2>7
<1>21. Fits(buffers', Append(rows, r))
  <2>1. Len(buffers') \in Nat /\ Len(buffers) <= Len(buffers') BY <1>4, <1>8
  <2>2. b <= Len(buffers') BY <1>4, <1>8
  <2>3. BufferOf(Len(rows) + 1) <= Len(buffers') BY <2>2 DEF b, node
  <2> QED BY <1>0, <1>2, <2>1, <2>3, NodeFits
<1>9. /\ cache' \in Seq(0 .. MaxLoads)
      /\ ~crossed => \A c \in 1 .. Len(cache') : cache'[c] # 0 => Current(buffers', c, cache'[c])
  <2>0. ~crossed => \A c \in 1 .. Len(cache) : cache[c] # 0 => Current(buffers, c, cache[c])
    BY <1>0, <1>1 DEF CacheIsFresh
  <2>1. CASE IsHit(cache, b)
    <3>1. cache' = cache BY <1>20, <2>1
    <3>2. ASSUME ~crossed, NEW c \in 1 .. Len(cache), cache[c] # 0
          PROVE  Current(buffers', c, cache[c])
      <4>1. Current(buffers, c, cache[c]) BY <2>0, <3>2
      <4>2. c \in 1 .. Len(grown) BY <1>2, <1>4, <4>1 DEF Current
      <4> QED BY <1>4, <1>8, <4>1, <4>2 DEF Current
    <3> QED BY <1>2, <3>1, <3>2
  <2>2. CASE ~IsHit(cache, b)
    <3>1. cache' = Kept(b, pointer) /\ pointer \in 0 .. MaxLoads
      BY <1>20, <1>5, <2>2
    <3>2. Kept(b, pointer) \in Seq(0 .. MaxLoads) BY <1>0, <1>3, <3>1, KeptFacts
    <3>3. /\ Len(buffers') \in Nat /\ Len(buffers) <= Len(buffers')
          /\ Current(buffers', b, pointer)
      BY <1>4, <1>5, <1>8, <2>2 DEF Current
    <3>4. \A c \in 1 .. Len(buffers) :
             buffers[c].loaded /\ c # b
               => buffers'[c].loaded /\ buffers'[c].loads = buffers[c].loads
      <4> TAKE c \in 1 .. Len(buffers)
      <4>1. c \in 1 .. Len(grown) BY <1>2, <1>4
      <4> QED BY <1>4, <1>8, <4>1
    <3>5. ASSUME ~crossed
          PROVE  \A c \in 1 .. Len(Kept(b, pointer)) :
                   Kept(b, pointer)[c] # 0 => Current(buffers', c, Kept(b, pointer)[c])
      <4>1. \A c \in 1 .. Len(cache) : cache[c] # 0 => Current(buffers, c, cache[c])
        BY <2>0, <3>5
      <4> QED BY <1>0, <1>3, <3>1, <3>3, <3>4, <4>1, CacheStaysFresh
    <3> QED BY <3>1, <3>2, <3>5
  <2> QED BY <2>1, <2>2
<1>10. Types'
  <2>1. Append(rows, r) \in Seq(Rows) BY <1>2
  <2>2. segs' \in Seq(Segments(Word)) /\ Rooted(segs', root') BY <1>0, <1>1 DEF Types
  <2>3. scan' \in [Scans -> Scan] /\ phase' = "none" /\ crossed' \in BOOLEAN
    BY <1>0, <1>1 DEF Types
  <2> QED BY <1>1, <1>8, <1>9, <2>1, <2>2, <2>3 DEF Types
<1>11. LoadsCount'
  <2>1. ASSUME NEW c \in 1 .. Len(buffers'), buffers'[c].loaded
        PROVE  buffers'[c].loads # 0
    <3>1. c \in 1 .. Len(grown) BY <1>8
    <3> QED BY <1>4, <1>8, <2>1, <3>1
  <2> QED BY <2>1 DEF LoadsCount
<1>12. ScansOnTheWay'
  BY <1>1 DEF NoScan, Idle, ScansOnTheWay, OnTheWay
<1>13. StreamHolds' BY <1>1 DEF StreamHolds
<1>14. FileHolds' BY <1>0, <1>1, SameFile
<1>15. CacheIsFresh' BY <1>1, <1>9 DEF CacheIsFresh
<1>16. Fits(buffers', rows') /\ (~crossed' => Holds(buffers', rows')) BY <1>1, <1>8, <1>21
<1> QED BY <1>10, <1>11, <1>12, <1>13, <1>14, <1>15, <1>16 DEF SInv

LEMMA DropKeeps == SInv /\ CommitDrop => SInv'
<1> SUFFICES ASSUME SInv, CommitDrop PROVE SInv' OBVIOUS
<1>1. /\ NoScan /\ phase = "none" /\ rows' = <<>> /\ root' = NoRoot /\ segs' = <<>>
      /\ buffers' = <<>> /\ cache' = <<>> /\ scan' = Moved
      /\ UNCHANGED <<dirty, phase, file, crossed>>
  BY DEF CommitDrop, InvalidatePinCache
<1>2. scan' = scan /\ \A s \in Scans : scan'[s].at = "idle"
  BY <1>1 DEF NoScan, Moved, Idle, SInv, Types
<1>3. Types'
  <2>1. /\ scan' \in [Scans -> Scan] /\ dirty' \in BOOLEAN /\ phase' = "none"
        /\ crossed' \in BOOLEAN
    BY <1>1, <1>2 DEF SInv, Types
  <2>2. Rooted(segs', root') BY <1>1 DEF Rooted, NoRoot
  <2> QED BY <1>1, <2>1, <2>2 DEF Types
<1>4. Holds(buffers', rows') /\ Fits(buffers', rows')
  <2>1. Len(<<>>) \in Nat OBVIOUS
  <2> QED BY <1>1, <2>1, NoRows
<1>5. CacheIsFresh' /\ LoadsCount' /\ ScansOnTheWay'
  BY <1>1, <1>2 DEF CacheIsFresh, LoadsCount, ScansOnTheWay, OnTheWay
<1>6. StreamHolds' BY <1>1 DEF StreamHolds
<1>7. FileHolds' BY <1>1, SameFile DEF SInv
<1> QED BY <1>3, <1>4, <1>5, <1>6, <1>7 DEF SInv

(* The scans change neither the rows, nor the streams, nor the disk.       *)
LEMMA ScanKeeps ==
    ASSUME SInv, UNCHANGED <<rows, dirty, root, segs, phase, file>>,
           buffers' \in Seq(Buffer), Len(buffers') = Len(buffers),
           \A c \in 1 .. Len(buffers) :
              /\ Content(buffers'[c]) = Content(buffers[c])
              /\ buffers'[c].loaded => buffers'[c].loads # 0,
           cache' \in Seq(0 .. MaxLoads), CacheIsFresh',
           crossed' \in BOOLEAN, crossed => crossed',
           scan' \in [Scans -> Scan], ScansOnTheWay'
    PROVE  SInv'
<1>1. Types' BY DEF SInv, Types
<1>2. LoadsCount' BY DEF LoadsCount
<1>3. Fits(buffers', rows) /\ (Holds(buffers, rows) => Holds(buffers', rows))
  <2>1. Len(buffers) \in Nat /\ rows \in Seq(Rows) /\ Fits(buffers, rows) BY DEF SInv, Types
  <2> QED BY <2>1, SameContent
<1>4. Fits(buffers', rows') /\ (~crossed' => Holds(buffers', rows')) BY <1>3 DEF SInv
<1>5. StreamHolds' BY DEF SInv, StreamHolds
<1>6. FileHolds' BY SameFile DEF SInv
<1> QED BY <1>1, <1>2, <1>4, <1>5, <1>6 DEF SInv

(* A step of a scan that only looks.                                       *)
LEMMA LooksKeep ==
    ASSUME SInv, UNCHANGED <<rows, dirty, root, segs, buffers, cache, phase, file, crossed>>,
           scan' \in [Scans -> Scan], ScansOnTheWay'
    PROVE  SInv'
<1>1. buffers' \in Seq(Buffer) /\ Len(buffers') = Len(buffers) /\ cache' \in Seq(0 .. MaxLoads)
  BY DEF SInv, Types
<1>2. \A c \in 1 .. Len(buffers) : /\ Content(buffers'[c]) = Content(buffers[c])
                                   /\ buffers'[c].loaded => buffers'[c].loads # 0
  BY DEF SInv, LoadsCount
<1>3. CacheIsFresh' BY DEF SInv, CacheIsFresh
<1>4. crossed' \in BOOLEAN /\ (crossed => crossed') BY DEF SInv, Types
<1> QED BY <1>1, <1>2, <1>3, <1>4, ScanKeeps

LEMMA LookKeeps ==
    ASSUME SInv, NEW s \in Scans, NEW node \in 1 .. Len(rows), Look(s, node)
    PROVE  SInv'
<1> DEFINE b == BufferOf(node)
           new == [at |-> IF IsHit(cache, b) THEN "hit" ELSE "miss",
                   buffer |-> b, pointer |-> 0, settled |-> TRUE]
<1>1. b \in 1 .. Len(buffers)
  <2>1. node \in Nat \ {0} /\ Len(buffers) \in Nat BY DEF SInv, Types
  <2>2. b <= Len(buffers) BY DEF SInv, Fits
  <2> QED BY <2>1, <2>2, NodePlaces
<1>2. scan' = [scan EXCEPT ![s] = new]
      /\ UNCHANGED <<rows, dirty, root, segs, buffers, cache, phase, file, crossed>>
  BY DEF Look
<1>3. scan \in [Scans -> Scan] BY DEF SInv, Types
<1>4. /\ new \in Scan /\ new.buffer = b /\ new.at \in {"hit", "miss"}
      /\ new.at = "hit" => IsHit(cache, b)
  <2> HIDE DEF b
  <2> QED BY <1>1, StoreAssumption DEF Scan
<1> HIDE DEF new, b
<1>5. scan' \in [Scans -> Scan] BY <1>2, <1>3, <1>4
<1>6. scan'[s] = new /\ \A t \in Scans : t # s => scan'[t] = scan[t] BY <1>2, <1>3
<1>7. ASSUME NEW t \in Scans
      PROVE  /\ scan'[t].at \in OnTheWay => scan'[t].buffer \in 1 .. Len(buffers)
             /\ scan'[t].at = "fetched" => scan'[t].pointer # 0
             /\ scan'[t].at = "hit" /\ scan'[t].settled => IsHit(cache, scan'[t].buffer)
  <2>1. CASE t = s BY <1>1, <1>4, <1>6, <2>1
  <2>2. CASE t # s BY <1>6, <2>2 DEF SInv, ScansOnTheWay
  <2> QED BY <2>1, <2>2
<1>8. ScansOnTheWay' BY <1>2, <1>7 DEF ScansOnTheWay, IsHit
<1> QED BY <1>2, <1>5, <1>8, LooksKeep

(* A scan that is at its pin, or done, is on the way to none.              *)
LEMMA ArrivedKeeps ==
    ASSUME SInv, NEW s \in Scans, NEW new \in Scan, new.at \in {"idle", "pinned"},
           scan' = [scan EXCEPT ![s] = new],
           UNCHANGED <<rows, dirty, root, segs, buffers, cache, phase, file, crossed>>
    PROVE  SInv'
<1>1. scan \in [Scans -> Scan] BY DEF SInv, Types
<1>2. scan' \in [Scans -> Scan] BY <1>1
<1>3. scan'[s] = new /\ \A t \in Scans : t # s => scan'[t] = scan[t] BY <1>1
<1>4. ASSUME NEW t \in Scans
      PROVE  /\ scan'[t].at \in OnTheWay => scan'[t].buffer \in 1 .. Len(buffers)
             /\ scan'[t].at = "fetched" => scan'[t].pointer # 0
             /\ scan'[t].at = "hit" /\ scan'[t].settled => IsHit(cache, scan'[t].buffer)
  <2>1. CASE t = s BY <1>3, <2>1 DEF OnTheWay
  <2>2. CASE t # s BY <1>3, <2>2 DEF SInv, ScansOnTheWay
  <2> QED BY <2>1, <2>2
<1>5. ScansOnTheWay' BY <1>4 DEF ScansOnTheWay, IsHit
<1> QED BY <1>2, <1>5, LooksKeep

(* What a hit reads is an address, whatever the vector has become.         *)
LEMMA HitFacts ==
    ASSUME SInv, NEW s \in Scans, Hit(s)
    PROVE  /\ UNCHANGED <<rows, dirty, root, segs, buffers, cache, phase, file, crossed>>
           /\ scan[s].at = "hit"
           /\ \E new \in Scan :
                /\ scan' = [scan EXCEPT ![s] = new]
                /\ new.at = "pinned" /\ new.settled = scan[s].settled
                /\ new.buffer = scan[s].buffer
                /\ scan[s].settled => /\ scan[s].buffer \in 1 .. Len(cache)
                                      /\ cache[scan[s].buffer] # 0
                                      /\ new.pointer = cache[scan[s].buffer]
<1>1. PICK pointer \in IF scan[s].settled THEN {cache[scan[s].buffer]} ELSE 0 .. MaxLoads :
         scan' = [scan EXCEPT ![s].at = "pinned", ![s].pointer = pointer]
  BY DEF Hit
<1>2. /\ scan[s].at = "hit"
      /\ UNCHANGED <<rows, dirty, root, segs, buffers, cache, phase, file, crossed>>
  BY DEF Hit
<1> DEFINE old == scan[s]
           new == [at |-> "pinned", buffer |-> old.buffer, pointer |-> pointer,
                   settled |-> old.settled]
<1>3. scan \in [Scans -> Scan] /\ old \in Scan /\ old.at = "hit" BY <1>2 DEF SInv, Types
<1>4. old.settled => old.buffer \in 1 .. Len(cache) /\ cache[old.buffer] # 0
  <2>1. old.settled => old.buffer \in 1 .. Len(buffers) /\ IsHit(cache, old.buffer)
    BY <1>3 DEF SInv, ScansOnTheWay, OnTheWay
  <2>2. Len(cache) \in Nat /\ Len(buffers) \in Nat BY DEF SInv, Types
  <2> QED BY <2>1, <2>2 DEF IsHit
<1>5. pointer \in 0 .. MaxLoads
  <2>1. CASE old.settled
    <3>1. pointer = cache[old.buffer] BY <1>1, <2>1
    <3>2. ASSUME NEW A, NEW q \in Seq(A), NEW j \in 1 .. Len(q) PROVE q[j] \in A
      OBVIOUS
    <3>3. cache \in Seq(0 .. MaxLoads) BY DEF SInv, Types
    <3>4. cache[old.buffer] \in 0 .. MaxLoads BY <1>4, <2>1, <3>2, <3>3
    <3> QED BY <3>1, <3>4
  <2>2. CASE ~old.settled BY <1>1, <2>2
  <2> QED BY <2>1, <2>2
<1>6. new \in Scan BY <1>3, <1>5 DEF Scan
<1>7. scan' = [scan EXCEPT ![s] = new]
  <2>1. [[old EXCEPT !.at = "pinned"] EXCEPT !.pointer = pointer] = new
    <3> HIDE DEF old
    <3> DEFINE one == [old EXCEPT !.at = "pinned"]
               two == [at |-> "pinned", buffer |-> old.buffer,
                       pointer |-> old.pointer, settled |-> old.settled]
    <3>1. one = two BY <1>3 DEF Scan
    <3>2. [two EXCEPT !.pointer = pointer] = new OBVIOUS
    <3> HIDE DEF one, two, new
    <3>3. [one EXCEPT !.pointer = pointer] = new BY <3>1, <3>2
    <3> QED BY <3>3 DEF one
  <2>2. scan' = [scan EXCEPT ![s] = [[old EXCEPT !.at = "pinned"] EXCEPT !.pointer = pointer]]
    BY <1>1, <1>3
  <2> QED BY <2>1, <2>2
<1>8. old.settled => new.pointer = cache[old.buffer] BY <1>1
<1>9. new.at = "pinned" /\ new.settled = old.settled /\ new.buffer = old.buffer OBVIOUS
<1> HIDE DEF new
<1> QED BY <1>2, <1>4, <1>6, <1>7, <1>8, <1>9

LEMMA HitKeeps ==
    ASSUME SInv, NEW s \in Scans, Hit(s)
    PROVE  SInv'
<1>1. PICK new \in Scan : scan' = [scan EXCEPT ![s] = new] /\ new.at = "pinned"
  BY HitFacts
<1>2. UNCHANGED <<rows, dirty, root, segs, buffers, cache, phase, file, crossed>> BY HitFacts
<1> QED BY <1>1, <1>2, ArrivedKeeps

LEMMA EndKeeps ==
    ASSUME SInv, NEW s \in Scans, EndScan(s)
    PROVE  SInv'
<1>1. Idle \in Scan /\ Idle.at = "idle" BY StoreAssumption DEF Idle, Scan
<1>2. /\ scan' = [scan EXCEPT ![s] = Idle]
      /\ UNCHANGED <<rows, dirty, root, segs, buffers, cache, phase, file, crossed>>
  BY DEF EndScan
<1> QED BY <1>1, <1>2, ArrivedKeeps

(* What a miss fetches: the address of its buffer, which is in memory now. *)
LEMMA FetchKeeps ==
    ASSUME SInv, NEW s \in Scans, Fetch(s)
    PROVE  SInv'
<1> DEFINE b == scan[s].buffer
           loads == Load(b)[b].loads
           old == scan[s]
           new == [at |-> "fetched", buffer |-> old.buffer, pointer |-> loads,
                   settled |-> old.settled]
<1>1. /\ scan[s].at = "miss" /\ loads <= MaxLoads /\ buffers' = Load(b)
      /\ scan' = [scan EXCEPT ![s].at = "fetched", ![s].pointer = loads]
      /\ UNCHANGED <<rows, dirty, root, segs, cache, phase, file, crossed>>
  BY DEF Fetch
<1>2. /\ scan \in [Scans -> Scan] /\ Len(buffers) \in Nat /\ Types /\ LoadsCount
      /\ CacheIsFresh /\ ScansOnTheWay /\ old \in Scan
  BY DEF SInv, Types
<1>3. b \in 1 .. Len(buffers) BY <1>1, <1>2 DEF ScansOnTheWay, OnTheWay
<1> HIDE DEF b
<1>4. /\ Load(b) \in Seq(Buffer) /\ Len(Load(b)) = Len(buffers)
      /\ loads \in 0 .. MaxLoads /\ loads # 0
      /\ \A c \in 1 .. Len(buffers) :
           /\ Content(Load(b)[c]) = Content(buffers[c])
           /\ Load(b)[c].loaded => Load(b)[c].loads # 0
           /\ buffers[c].loaded => Load(b)[c] = buffers[c]
  BY <1>1, <1>2, <1>3, LoadFacts
<1> HIDE DEF loads
<1>5. /\ new \in Scan /\ new.at = "fetched" /\ new.pointer # 0 /\ new.buffer = b
  BY <1>2, <1>4 DEF Scan, b
<1>6. scan' = [scan EXCEPT ![s] = new]
  <2> DEFINE one == [old EXCEPT !.at = "fetched"]
             two == [at |-> "fetched", buffer |-> old.buffer, pointer |-> old.pointer,
                     settled |-> old.settled]
  <2>1. scan' = [scan EXCEPT ![s] = [one EXCEPT !.pointer = loads]] BY <1>1, <1>2
  <2>2. one = two
    <3> HIDE DEF old
    <3> QED BY <1>2 DEF Scan
  <2>3. [two EXCEPT !.pointer = loads] = new OBVIOUS
  <2> HIDE DEF one, two, new
  <2>4. [one EXCEPT !.pointer = loads] = new BY <2>2, <2>3
  <2> QED BY <2>1, <2>4
<1> HIDE DEF new, old
<1>7. scan' \in [Scans -> Scan] /\ scan'[s] = new
      /\ \A t \in Scans : t # s => scan'[t] = scan[t]
  BY <1>2, <1>5, <1>6
<1>8. ASSUME NEW t \in Scans
      PROVE  /\ scan'[t].at \in OnTheWay => scan'[t].buffer \in 1 .. Len(buffers)
             /\ scan'[t].at = "fetched" => scan'[t].pointer # 0
             /\ scan'[t].at = "hit" /\ scan'[t].settled => IsHit(cache, scan'[t].buffer)
  <2>1. CASE t = s BY <1>3, <1>5, <1>7, <2>1 DEF OnTheWay
  <2>2. CASE t # s BY <1>2, <1>7, <2>2 DEF ScansOnTheWay
  <2> QED BY <2>1, <2>2
<1>9. ScansOnTheWay'
  <2>1. cache' = cache /\ Len(buffers') = Len(buffers) BY <1>1, <1>4
  <2> QED BY <1>8, <2>1 DEF ScansOnTheWay, IsHit
<1>10. CacheIsFresh'
  <2>1. ASSUME NEW c, NEW p, Current(buffers, c, p) PROVE Current(buffers', c, p)
    BY <1>1, <1>4, <2>1 DEF Current
  <2> QED BY <1>1, <1>2, <2>1 DEF CacheIsFresh
<1>11. buffers' \in Seq(Buffer) /\ Len(buffers') = Len(buffers)
       /\ \A c \in 1 .. Len(buffers) :
            /\ Content(buffers'[c]) = Content(buffers[c])
            /\ buffers'[c].loaded => buffers'[c].loads # 0
  BY <1>1, <1>4
<1>12. cache' \in Seq(0 .. MaxLoads) /\ crossed' \in BOOLEAN /\ (crossed => crossed')
  BY <1>1, <1>2 DEF Types
<1>13. UNCHANGED <<rows, dirty, root, segs, phase, file>> BY <1>1
<1> QED BY <1>7, <1>9, <1>10, <1>11, <1>12, <1>13, ScanKeeps

(* Keeping an address leaves the buffers as they are, and the scans that   *)
(* were about to read the vector unsettled when it grew.  The cache is as  *)
(* fresh as it was, unless the scan has crossed a checkpoint.              *)
LEMMA KeepKeeps ==
    ASSUME SInv, NEW s \in Scans, Keep(s)
    PROVE  SInv'
<1> DEFINE b == scan[s].buffer
           loads == scan[s].pointer
           old == scan[s]
           new == [old EXCEPT !.at = "pinned"]
<1>1. /\ scan[s].at = "fetched" /\ cache' = Kept(b, loads)
      /\ scan' = [Grows(b) EXCEPT ![s].at = "pinned"]
      /\ crossed' = (crossed \/ (phase # "written" /\ ~IsAt(b, loads)))
      /\ UNCHANGED <<rows, dirty, root, segs, buffers, phase, file>>
  BY DEF Keep
<1>2. /\ scan \in [Scans -> Scan] /\ Len(buffers) \in Nat /\ Len(cache) \in Nat
      /\ Types /\ LoadsCount /\ CacheIsFresh /\ ScansOnTheWay /\ old \in Scan
  BY DEF SInv, Types
<1>3. b \in 1 .. Len(buffers) /\ b \in Nat \ {0} /\ loads \in 0 .. MaxLoads /\ loads # 0
  <2>1. b \in 1 .. Len(buffers) /\ loads # 0
    BY <1>1, <1>2 DEF ScansOnTheWay, OnTheWay
  <2>2. loads \in 0 .. MaxLoads BY <1>2 DEF Scan
  <2> QED BY <1>2, <2>1, <2>2
<1>4. new \in Scan /\ new.at = "pinned"
  <2> HIDE DEF old
  <2> QED BY <1>2 DEF Scan
<1>5. /\ Moved \in [Scans -> Scan]
      /\ \A t \in Scans : Moved[t] = IF scan[t].at = "hit"
                                     THEN [scan[t] EXCEPT !.settled = FALSE] ELSE scan[t]
  <2>1. \A t \in Scans : [scan[t] EXCEPT !.settled = FALSE] \in Scan BY <1>2 DEF Scan
  <2> HIDE DEF Scan
  <2> QED BY <1>2, <2>1 DEF Moved
<1> HIDE DEF b, loads
<1>6. /\ Grows(b) \in [Scans -> Scan]
      /\ \A t \in Scans : \/ Grows(b)[t] = scan[t] /\ (b <= Len(cache) \/ scan[t].at # "hit")
                          \/ Grows(b)[t] = [scan[t] EXCEPT !.settled = FALSE] /\ scan[t].at = "hit"
  BY <1>2, <1>5 DEF Grows
<1>7. Grows(b)[s] = old BY <1>1, <1>6
<1>8. scan' = [Grows(b) EXCEPT ![s] = new]
  <2> HIDE DEF old
  <2> QED BY <1>1, <1>6, <1>7
<1> HIDE DEF new
<1>9. scan' \in [Scans -> Scan] /\ scan'[s] = new
      /\ \A t \in Scans \ {s} : scan'[t] = Grows(b)[t]
  BY <1>4, <1>6, <1>8
<1>10. /\ cache' \in Seq(0 .. MaxLoads) /\ cache'[b] = loads /\ b <= Len(cache')
       /\ \A c \in 1 .. Len(cache) : c <= Len(cache') /\ (c # b => cache'[c] = cache[c])
  <2>1. /\ Kept(b, loads) \in Seq(0 .. MaxLoads)
        /\ b \in 1 .. Len(Kept(b, loads)) /\ Kept(b, loads)[b] = loads
        /\ \A c \in 1 .. Len(cache) :
             c <= Len(Kept(b, loads)) /\ (c # b => Kept(b, loads)[c] = cache[c])
    BY <1>2, <1>3, KeptFacts
  <2> QED BY <1>1, <2>1
<1>11. CacheIsFresh'
  <2> SUFFICES ASSUME phase # "written", ~crossed'
               PROVE  \A c \in 1 .. Len(cache') : cache'[c] # 0 => Current(buffers', c, cache'[c])
    BY <1>1 DEF CacheIsFresh
  <2>1. ~crossed /\ IsAt(b, loads) BY <1>1
  <2>2. \A c \in 1 .. Len(cache) : cache[c] # 0 => Current(buffers, c, cache[c])
    BY <1>2, <2>1 DEF CacheIsFresh
  <2>3. Current(buffers, b, loads) BY <1>3, <2>1 DEF IsAt, Current
  <2>4. \A c \in 1 .. Len(Kept(b, loads)) :
           Kept(b, loads)[c] # 0 => Current(buffers, c, Kept(b, loads)[c])
    BY <1>2, <1>3, <2>2, <2>3, CacheStaysFresh
  <2> QED BY <1>1, <2>4
<1>12. ASSUME NEW t \in Scans
      PROVE  /\ scan'[t].at \in OnTheWay => scan'[t].buffer \in 1 .. Len(buffers)
             /\ scan'[t].at = "fetched" => scan'[t].pointer # 0
             /\ scan'[t].at = "hit" /\ scan'[t].settled
                  => scan'[t].buffer <= Len(cache') /\ cache'[scan'[t].buffer] # 0
  <2>1. CASE t = s BY <1>4, <1>9, <2>1 DEF OnTheWay
  <2>2. CASE t # s /\ scan'[t] = scan[t] /\ (b <= Len(cache) \/ scan[t].at # "hit")
    <3>1. /\ scan[t].at \in OnTheWay => scan[t].buffer \in 1 .. Len(buffers)
          /\ scan[t].at = "fetched" => scan[t].pointer # 0
      BY <1>2 DEF ScansOnTheWay
    <3>2. ASSUME scan[t].at = "hit", scan[t].settled
          PROVE  scan[t].buffer <= Len(cache') /\ cache'[scan[t].buffer] # 0
      <4>1. scan[t].buffer \in 1 .. Len(cache) /\ cache[scan[t].buffer] # 0
        BY <1>2, <3>1, <3>2 DEF ScansOnTheWay, IsHit, OnTheWay
      <4> QED BY <1>3, <1>10, <4>1
    <3> QED BY <2>2, <3>1, <3>2
  <2>3. CASE t # s /\ scan'[t] = [scan[t] EXCEPT !.settled = FALSE] /\ scan[t].at = "hit"
    <3>1. scan[t] \in Scan BY <1>2
    <3>2. ~scan'[t].settled /\ scan'[t].buffer = scan[t].buffer /\ scan'[t].at = "hit"
      BY <2>3, <3>1 DEF Scan
    <3>3. scan[t].buffer \in 1 .. Len(buffers) BY <1>2, <2>3 DEF ScansOnTheWay, OnTheWay
    <3> QED BY <3>2, <3>3
  <2> QED BY <1>6, <1>9, <2>1, <2>2, <2>3
<1>13. ScansOnTheWay' BY <1>1, <1>12 DEF ScansOnTheWay, IsHit
<1>14. /\ buffers' \in Seq(Buffer) /\ Len(buffers') = Len(buffers)
       /\ \A c \in 1 .. Len(buffers) :
            /\ Content(buffers'[c]) = Content(buffers[c])
            /\ buffers'[c].loaded => buffers'[c].loads # 0
  BY <1>1, <1>2 DEF Types, LoadsCount
<1>15. crossed' \in BOOLEAN /\ (crossed => crossed') BY <1>1, <1>2 DEF Types
<1>16. UNCHANGED <<rows, dirty, root, segs, phase, file>> BY <1>1
<1> QED BY <1>9, <1>10, <1>11, <1>13, <1>14, <1>15, <1>16, ScanKeeps

LEMMA PersistKeeps == SInv /\ Persist => SInv'
<1> SUFFICES ASSUME SInv, Persist PROVE SInv' OBVIOUS
<1>1. /\ PersistToDisk /\ phase' = "persisted"
      /\ phase = "none" /\ UNCHANGED <<rows, buffers, cache, scan, file, crossed>>
  BY DEF Persist
<1>2. Types /\ StreamHolds BY DEF SInv
<1>3. /\ segs' \in Seq(Segments(Word)) /\ Rooted(segs', root') /\ ~dirty'
      /\ root' # NoRoot => RowsOf([segs |-> segs', root |-> root']) = rows
  <2>1. rows' = rows BY <1>1
  <2> QED BY <1>1, <1>2, <2>1, PersistFacts
<1>4. dirty' = FALSE BY <1>1 DEF PersistToDisk
<1>5. Types' BY <1>1, <1>2, <1>3, <1>4 DEF Types
<1>6. StreamHolds' BY <1>1, <1>3 DEF StreamHolds
<1>7. Fits(buffers', rows') /\ (~crossed' => Holds(buffers', rows')) BY <1>1 DEF SInv
<1>8. CacheIsFresh' /\ LoadsCount' /\ ScansOnTheWay'
  BY <1>1 DEF SInv, CacheIsFresh, LoadsCount, ScansOnTheWay, IsHit
<1>9. FileHolds' BY <1>1, SameFile DEF SInv
<1> QED BY <1>5, <1>6, <1>7, <1>8, <1>9 DEF SInv

(* Buffers written out hold on disk what they held.                        *)
LEMMA SavedFacts ==
    ASSUME NEW bufs \in Seq(Buffer), NEW saved,
           saved = [i \in 1 .. Len(bufs) |-> Saved(bufs[i])]
    PROVE  /\ saved \in Seq(Buffer) /\ Len(saved) = Len(bufs)
           /\ \A c \in 1 .. Len(bufs) :
                Content(saved[c]) = Content(bufs[c]) /\ ~saved[c].loaded
<1>1. ASSUME NEW c \in 1 .. Len(bufs)
      PROVE  /\ Saved(bufs[c]) \in Buffer /\ ~Saved(bufs[c]).loaded
             /\ Content(Saved(bufs[c])) = Content(bufs[c])
  <2> DEFINE old == bufs[c]
  <2>1. old \in Buffer OBVIOUS
  <2>2. NoNodes \in [1 .. SlotsPerBuffer -> Rows \cup {0}] BY DEF NoNodes
  <2> HIDE DEF old
  <2>3. /\ Saved(old).loads = old.loads /\ Saved(old).loaded = FALSE
        /\ Saved(old).data = NoNodes /\ Saved(old).saved = Content(old)
    BY DEF Saved, Content
  <2>4. Content(old) \in [1 .. SlotsPerBuffer -> Rows \cup {0}]
    BY <2>1 DEF Content, Buffer
  <2>5. Saved(old) \in Buffer BY <2>1, <2>2, <2>4 DEF Saved, Content, Buffer
  <2>6. Content(Saved(old)) = Content(old)
    <3> DEFINE new == Saved(old)
    <3>1. new.loaded = FALSE /\ new.saved = Content(old) BY <2>3
    <3> HIDE DEF new
    <3>2. Content(new) = new.saved BY <3>1 DEF Content
    <3> QED BY <3>1, <3>2 DEF new
  <2> QED BY <2>3, <2>5, <2>6 DEF old
<1>2. Len(bufs) \in Nat OBVIOUS
<1>3. saved \in Seq(Buffer) /\ Len(saved) = Len(bufs) BY <1>1, <1>2
<1>4. \A c \in 1 .. Len(bufs) : saved[c] = Saved(bufs[c]) OBVIOUS
<1> QED BY <1>1, <1>3, <1>4

(* A file written from a clean stream and the saved buffers is a sound one.*)
LEMMA FileWritten ==
    ASSUME SInv, phase # "none", file' = OnFile, crossed' = crossed
    PROVE  FileHolds'
<1> DEFINE saved == [i \in 1 .. Len(buffers) |-> Saved(buffers[i])]
<1>1. file'.segs = segs /\ file'.root = root /\ file'.buffers = saved BY DEF OnFile
<1>2. /\ buffers \in Seq(Buffer) /\ rows \in Seq(Rows) /\ Len(buffers) \in Nat
      /\ segs \in Seq(Segments(Word)) /\ Rooted(segs, root)
  BY DEF SInv, Types
<1>3. /\ saved \in Seq(Buffer) /\ Len(saved) = Len(buffers)
      /\ \A c \in 1 .. Len(buffers) :
           Content(saved[c]) = Content(buffers[c]) /\ ~saved[c].loaded
  BY <1>2, SavedFacts
<1> HIDE DEF saved
<1>4. Fits(saved, rows) /\ (~crossed => Holds(saved, rows))
  <2>1. Fits(buffers, rows) /\ (~crossed => Holds(buffers, rows)) BY DEF SInv
  <2> QED BY <1>2, <1>3, <2>1, SameContent
<1>5. root # NoRoot => RowsOf(file') = rows
  <2>1. ~dirty BY DEF SInv, StreamHolds
  <2>2. root # NoRoot => RowsOf([segs |-> segs, root |-> root]) = rows
    BY <2>1 DEF SInv, StreamHolds
  <2>3. RowsOf([segs |-> segs, root |-> root]) = RowsOf(file') BY <1>1 DEF RowsOf
  <2> QED BY <2>2, <2>3
<1>6. \A b \in 1 .. Len(saved) : ~saved[b].loaded BY <1>3
<1>7. /\ file'.segs \in Seq(Segments(Word)) /\ Rooted(file'.segs, file'.root)
      /\ file'.buffers \in Seq(Buffer)
      /\ \A b \in 1 .. Len(file'.buffers) : ~file'.buffers[b].loaded
  BY <1>1, <1>2, <1>3, <1>6
<1>8. file'.root # NoRoot =>
        /\ RowsOf(file') \in Seq(Rows) /\ Fits(file'.buffers, RowsOf(file'))
        /\ ~crossed' => Holds(file'.buffers, RowsOf(file'))
  BY <1>1, <1>2, <1>4, <1>5
<1> QED BY <1>7, <1>8 DEF FileHolds

(* Scans after the cache was cleared.                                      *)
LEMMA MovedFacts ==
    ASSUME SInv, scan' = Moved, Len(buffers') = Len(buffers)
    PROVE  scan' \in [Scans -> Scan] /\ ScansOnTheWay'
<1>1. scan \in [Scans -> Scan] /\ ScansOnTheWay BY DEF SInv, Types
<1>2. ASSUME NEW t \in Scans
      PROVE  /\ scan'[t] \in Scan
             /\ scan'[t].at \in OnTheWay => scan'[t].buffer \in 1 .. Len(buffers)
             /\ scan'[t].at = "fetched" => scan'[t].pointer # 0
             /\ ~(scan'[t].at = "hit" /\ scan'[t].settled)
  <2> DEFINE old == scan[t]
  <2>1. /\ old \in Scan /\ (old.at \in OnTheWay => old.buffer \in 1 .. Len(buffers))
        /\ old.at = "fetched" => old.pointer # 0
    BY <1>1 DEF ScansOnTheWay
  <2>2. scan'[t] = IF old.at = "hit" THEN [old EXCEPT !.settled = FALSE] ELSE old
    BY DEF Moved
  <2> HIDE DEF old
  <2>3. CASE old.at = "hit"
    <3> DEFINE new == [old EXCEPT !.settled = FALSE]
    <3>1. new \in Scan /\ new.at = "hit" /\ ~new.settled /\ new.buffer = old.buffer
      BY <2>1, <2>3 DEF Scan
    <3> HIDE DEF new
    <3>2. scan'[t] = new BY <2>2, <2>3 DEF new
    <3> QED BY <2>1, <2>3, <3>1, <3>2 DEF OnTheWay
  <2>4. CASE old.at # "hit" BY <2>1, <2>2, <2>4
  <2> QED BY <2>3, <2>4
<1>3. scan' \in [Scans -> Scan]
  <2>1. scan' = [s \in Scans |-> scan'[s]] BY DEF Moved
  <2>2. \A s \in Scans : scan'[s] \in Scan BY <1>2
  <2> HIDE DEF Scan
  <2> QED BY <2>1, <2>2
<1>4. ScansOnTheWay' BY <1>2 DEF ScansOnTheWay
<1> QED BY <1>3, <1>4

LEMMA SerializeKeeps == SInv /\ SerializeBuffers => SInv'
<1> SUFFICES ASSUME SInv, SerializeBuffers PROVE SInv' OBVIOUS
<1>1. /\ phase = "persisted" /\ phase' = "written"
      /\ buffers' = [i \in 1 .. Len(buffers) |-> Saved(buffers[i])]
      /\ UNCHANGED <<rows, dirty, root, segs, cache, scan, file, crossed>>
  BY DEF SerializeBuffers
<1>2. Types /\ StreamHolds /\ ScansOnTheWay /\ Len(buffers) \in Nat BY DEF SInv, Types
<1>3. /\ buffers' \in Seq(Buffer) /\ Len(buffers') = Len(buffers)
      /\ \A c \in 1 .. Len(buffers) :
           Content(buffers'[c]) = Content(buffers[c]) /\ ~buffers'[c].loaded
  BY <1>1, <1>2, SavedFacts DEF Types
<1>4. Types' BY <1>1, <1>2, <1>3 DEF Types
<1>5. Fits(buffers', rows) /\ (~crossed => Holds(buffers', rows))
  <2>1. Fits(buffers, rows) /\ (~crossed => Holds(buffers, rows)) /\ rows \in Seq(Rows)
    BY DEF SInv, Types
  <2> QED BY <1>2, <1>3, <2>1, SameContent
<1>6. CacheIsFresh' BY <1>1 DEF CacheIsFresh
<1>7. LoadsCount' BY <1>3 DEF LoadsCount
<1>8. ScansOnTheWay' BY <1>1, <1>2, <1>3 DEF ScansOnTheWay, IsHit
<1>9. StreamHolds' BY <1>1, <1>2 DEF StreamHolds
<1>10. FileHolds' BY <1>1, SameFile DEF SInv
<1>11. Fits(buffers', rows') /\ (~crossed' => Holds(buffers', rows')) BY <1>1, <1>5
<1> QED BY <1>4, <1>6, <1>7, <1>8, <1>9, <1>10, <1>11 DEF SInv

(* The cache cleared, and the file written: the end of a checkpoint and of *)
(* a log.                                                                  *)
LEMMA FilingKeeps ==
    ASSUME SInv, phase # "none", phase' = "none", InvalidatePinCache, file' = OnFile,
           UNCHANGED <<rows, dirty, root, segs, buffers, crossed>>
    PROVE  SInv'
<1>1. cache' = <<>> /\ scan' = Moved BY DEF InvalidatePinCache
<1>2. Types /\ StreamHolds BY DEF SInv
<1>3. scan' \in [Scans -> Scan] /\ ScansOnTheWay' BY <1>1, MovedFacts
<1>4. Types'
  <2>1. cache' \in Seq(0 .. MaxLoads) BY <1>1
  <2> QED BY <1>2, <1>3, <2>1 DEF Types
<1>5. StreamHolds' BY <1>2 DEF StreamHolds
<1>6. Fits(buffers', rows') /\ (~crossed' => Holds(buffers', rows')) BY DEF SInv
<1>7. CacheIsFresh' /\ LoadsCount' BY <1>1 DEF SInv, CacheIsFresh, LoadsCount
<1>8. FileHolds' BY FileWritten
<1> QED BY <1>3, <1>4, <1>5, <1>6, <1>7, <1>8 DEF SInv

LEMMA CheckpointKeeps == SInv /\ FlushPartialBlocks => SInv'
<1> SUFFICES ASSUME SInv, FlushPartialBlocks PROVE SInv' OBVIOUS
<1>1. /\ phase # "none" /\ phase' = "none" /\ InvalidatePinCache /\ file' = OnFile
      /\ UNCHANGED <<rows, dirty, root, segs, buffers, crossed>>
  BY DEF FlushPartialBlocks
<1> QED BY <1>1, FilingKeeps

LEMMA LogKeeps == SInv /\ SerializeToWAL => SInv'
<1> SUFFICES ASSUME SInv, SerializeToWAL PROVE SInv' OBVIOUS
<1>1. /\ phase # "none" /\ phase' = "none" /\ InvalidatePinCache /\ file' = OnFile
      /\ UNCHANGED <<rows, dirty, root, segs, buffers, crossed>>
  BY DEF SerializeToWAL
<1> QED BY <1>1, FilingKeeps

LEMMA RestartKeeps == SInv /\ Restart => SInv'
<1> SUFFICES ASSUME SInv, Restart PROVE SInv' OBVIOUS
<1> DEFINE old == file.buffers
<1>1. /\ root' = file.root /\ segs' = file.segs
      /\ buffers' = [i \in 1 .. Len(old) |-> [old[i] EXCEPT !.loads = 0]]
      /\ rows' = IF file.root = NoRoot THEN <<>> ELSE RowsOf(file)
      /\ dirty' = FALSE /\ cache' = <<>>
      /\ scan' = [s \in Scans |-> Idle] /\ phase' = "none" /\ file' = file
      /\ crossed' = crossed
  BY DEF Restart
<1>2. /\ file.segs \in Seq(Segments(Word)) /\ Rooted(file.segs, file.root)
      /\ old \in Seq(Buffer) /\ Len(old) \in Nat
      /\ \A b \in 1 .. Len(old) : ~old[b].loaded
      /\ file.root # NoRoot =>
           /\ RowsOf(file) \in Seq(Rows) /\ Fits(old, RowsOf(file))
           /\ ~crossed => Holds(old, RowsOf(file))
  BY DEF SInv, FileHolds
<1> HIDE DEF old
<1>3. ASSUME NEW c \in 1 .. Len(old)
      PROVE  /\ [old[c] EXCEPT !.loads = 0] \in Buffer
             /\ ~[old[c] EXCEPT !.loads = 0].loaded
             /\ Content([old[c] EXCEPT !.loads = 0]) = Content(old[c])
  <2> DEFINE one == old[c]
             new == [one EXCEPT !.loads = 0]
  <2>1. one \in Buffer /\ ~one.loaded BY <1>2
  <2> HIDE DEF one
  <2>2. new \in Buffer /\ new.loaded = one.loaded /\ new.saved = one.saved
    <3> DEFINE L == 0 .. MaxLoads
               D == [1 .. SlotsPerBuffer -> Rows \cup {0}]
    <3>1. 0 \in L BY StoreAssumption
    <3>2. Buffer = [loads : L, loaded : BOOLEAN, data : D, saved : D] BY DEF Buffer
    <3> HIDE DEF L, D
    <3> QED BY <2>1, <3>1, <3>2
  <2> HIDE DEF new
  <2>3. Content(new) = Content(one) BY <2>1, <2>2 DEF Content
  <2> QED BY <2>1, <2>2, <2>3 DEF new, one
<1>4. /\ buffers' \in Seq(Buffer) /\ Len(buffers') = Len(old)
      /\ \A c \in 1 .. Len(old) : ~buffers'[c].loaded /\ Content(buffers'[c]) = Content(old[c])
  <2> DEFINE New(c) == [old[c] EXCEPT !.loads = 0]
  <2>1. buffers' = [c \in 1 .. Len(old) |-> New(c)] BY <1>1
  <2>2. \A c \in 1 .. Len(old) : New(c) \in Buffer /\ ~New(c).loaded /\ Content(New(c)) = Content(old[c])
    BY <1>3
  <2> HIDE DEF New
  <2>3. buffers' \in Seq(Buffer) /\ Len(buffers') = Len(old) BY <1>2, <2>1, <2>2
  <2>4. \A c \in 1 .. Len(old) : buffers'[c] = New(c) BY <2>1
  <2> QED BY <2>2, <2>3, <2>4
<1>5. rows' \in Seq(Rows) /\ Fits(buffers', rows') /\ (~crossed' => Holds(buffers', rows'))
  <2>1. CASE file.root = NoRoot
    <3>1. rows' = <<>> /\ Len(buffers') \in Nat BY <1>1, <1>2, <1>4, <2>1
    <3>2. Holds(buffers', <<>>) /\ Fits(buffers', <<>>) BY <3>1, NoRows
    <3> QED BY <3>1, <3>2
  <2>2. CASE file.root # NoRoot
    <3> DEFINE list == RowsOf(file)
    <3>1. rows' = list /\ list \in Seq(Rows) /\ Fits(old, list) /\ (~crossed => Holds(old, list))
      BY <1>1, <1>2, <2>2
    <3> HIDE DEF list
    <3>2. Fits(buffers', list) /\ (~crossed => Holds(buffers', list))
      BY <1>2, <1>4, <3>1, SameContent
    <3> QED BY <1>1, <3>1, <3>2
  <2> QED BY <2>1, <2>2
<1>6. scan' \in [Scans -> Scan] /\ ScansOnTheWay'
  <2>1. Idle \in Scan /\ Idle.at = "idle" BY StoreAssumption DEF Idle, Scan
  <2> QED BY <1>1, <2>1 DEF ScansOnTheWay, OnTheWay
<1>7. Types'
  <2>1. cache' \in Seq(0 .. MaxLoads) /\ crossed' \in BOOLEAN BY <1>1 DEF SInv, Types
  <2> QED BY <1>1, <1>2, <1>4, <1>5, <1>6, <2>1 DEF Types
<1>8. CacheIsFresh' /\ LoadsCount'
  <2>1. CacheIsFresh' BY <1>1 DEF CacheIsFresh
  <2>2. \A c \in 1 .. Len(buffers') : ~buffers'[c].loaded BY <1>4
  <2> QED BY <2>1, <2>2 DEF LoadsCount
<1>9. StreamHolds'
  <2>1. RowsOf([segs |-> segs', root |-> root']) = RowsOf(file)
    <3>1. RowsOf([segs |-> file.segs, root |-> file.root]) = RowsOf(file) BY DEF RowsOf
    <3> QED BY <1>1, <3>1
  <2>2. root' # NoRoot => rows' = RowsOf(file) BY <1>1
  <2> QED BY <1>1, <2>1, <2>2 DEF StreamHolds
<1>10. FileHolds' BY <1>1, SameFile DEF SInv
<1> QED BY <1>5, <1>6, <1>7, <1>8, <1>9, <1>10 DEF SInv

-----------------------------------------------------------------------------
LEMMA Unchanged == SInv /\ UNCHANGED vars => SInv'
<1> SUFFICES ASSUME SInv, UNCHANGED vars PROVE SInv' OBVIOUS
<1>1. /\ UNCHANGED <<rows, dirty, root, segs, buffers, cache, phase, file, crossed>>
      /\ scan' = scan
  BY DEF vars
<1>2. scan' \in [Scans -> Scan] /\ ScansOnTheWay'
  BY <1>1 DEF SInv, Types, ScansOnTheWay, IsHit
<1> QED BY <1>1, <1>2, LooksKeep

LEMMA SInvInductive == SInv /\ [Next]_vars => SInv'
<1> SUFFICES ASSUME SInv, [Next]_vars PROVE SInv' OBVIOUS
<1>1. CASE \E r \in Rows : Insert(r) BY <1>1, InsertKeeps
<1>2. CASE CommitDrop BY <1>2, DropKeeps
<1>3. CASE \E s \in Scans, node \in 1 .. Len(rows) : Look(s, node) BY <1>3, LookKeeps
<1>4. CASE \E s \in Scans : Hit(s) BY <1>4, HitKeeps
<1>5. CASE \E s \in Scans : Fetch(s) BY <1>5, FetchKeeps
<1>12. CASE \E s \in Scans : Keep(s) BY <1>12, KeepKeeps
<1>6. CASE \E s \in Scans : EndScan(s) BY <1>6, EndKeeps
<1>7. CASE Persist BY <1>7, PersistKeeps
<1>8. CASE SerializeBuffers BY <1>8, SerializeKeeps
<1>13. CASE FlushPartialBlocks BY <1>13, CheckpointKeeps
<1>9. CASE SerializeToWAL BY <1>9, LogKeeps
<1>10. CASE Restart BY <1>10, RestartKeeps
<1>11. CASE UNCHANGED vars BY <1>11, Unchanged
<1> QED BY <1>1, <1>2, <1>3, <1>4, <1>5, <1>6, <1>7, <1>8, <1>9, <1>10, <1>11,
        <1>12, <1>13 DEF Next, Steps

LEMMA SInvHolds == Spec => []SInv
<1> QED BY StartsSound, SInvInductive, PTL DEF Spec

(* Pins.  While a scan that no checkpoint has overtaken is under way none  *)
(* is about to clear the cache; what it has fetched, and what it has pinned*)
(* from a vector that nobody moved, is where its buffer is.                *)
PinsHold ==
    /\ overtaken \subseteq Scans
    /\ \A s \in Scans : s \notin overtaken /\ ~crossed =>
         /\ scan[s].at # "idle" => phase # "written"
         /\ scan[s].at = "fetched" \/ (scan[s].at = "pinned" /\ scan[s].settled) =>
              Current(buffers, scan[s].buffer, scan[s].pointer)

LEMMA LookPins ==
    ASSUME SInv, PinsHold, NEW s \in Scans, NEW node \in 1 .. Len(rows), Look(s, node)
    PROVE  PinsHold'
<1>1. /\ scan[s] = Idle /\ scan'[s].at \in {"hit", "miss"}
      /\ \A t \in Scans : t # s => scan'[t] = scan[t]
      /\ overtaken' = IF phase = "written" THEN overtaken \cup {s} ELSE overtaken
      /\ UNCHANGED <<buffers, phase, crossed>>
  BY DEF Look, SInv, Types
<1>2. ASSUME NEW t \in Scans, t \notin overtaken', ~crossed'
      PROVE  /\ scan'[t].at # "idle" => phase' # "written"
             /\ scan'[t].at = "fetched" \/ (scan'[t].at = "pinned" /\ scan'[t].settled) =>
                  Current(buffers', scan'[t].buffer, scan'[t].pointer)
  <2>1. t \notin overtaken /\ ~crossed BY <1>1, <1>2
  <2>2. CASE t = s BY <1>1, <1>2, <2>2
  <2>3. CASE t # s BY <1>1, <2>1, <2>3 DEF PinsHold
  <2> QED BY <2>2, <2>3
<1>3. overtaken' \subseteq Scans BY <1>1 DEF PinsHold
<1> QED BY <1>2, <1>3 DEF PinsHold

(* A scan hits under a checkpoint that is not yet at the buffers, or none: *)
(* what the cache has kept is fresh.                                       *)
LEMMA HitPins ==
    ASSUME SInv, PinsHold, NEW s \in Scans, Hit(s)
    PROVE  PinsHold'
<1>1. /\ UNCHANGED <<buffers, cache, phase, crossed>> /\ scan[s].at = "hit"
      /\ \E new \in Scan :
           /\ scan' = [scan EXCEPT ![s] = new]
           /\ new.at = "pinned" /\ new.settled = scan[s].settled
           /\ new.buffer = scan[s].buffer
           /\ scan[s].settled => /\ scan[s].buffer \in 1 .. Len(cache)
                                 /\ cache[scan[s].buffer] # 0
                                 /\ new.pointer = cache[scan[s].buffer]
  BY HitFacts
<1>2. overtaken' = overtaken BY DEF Hit
<1>3. PICK new \in Scan :
        /\ scan' = [scan EXCEPT ![s] = new]
        /\ new.at = "pinned" /\ new.settled = scan[s].settled
        /\ new.buffer = scan[s].buffer
        /\ scan[s].settled => /\ scan[s].buffer \in 1 .. Len(cache)
                              /\ cache[scan[s].buffer] # 0
                              /\ new.pointer = cache[scan[s].buffer]
  BY <1>1
<1>4. scan'[s] = new /\ \A t \in Scans : t # s => scan'[t] = scan[t]
  BY <1>3 DEF SInv, Types
<1>5. ASSUME NEW t \in Scans, t \notin overtaken', ~crossed'
      PROVE  /\ scan'[t].at # "idle" => phase' # "written"
             /\ scan'[t].at = "fetched" \/ (scan'[t].at = "pinned" /\ scan'[t].settled) =>
                  Current(buffers', scan'[t].buffer, scan'[t].pointer)
  <2>1. t \notin overtaken /\ ~crossed BY <1>1, <1>2, <1>5
  <2>2. CASE t = s
    <3>1. phase # "written" BY <1>1, <2>1, <2>2 DEF PinsHold
    <3>2. scan[s].settled => Current(buffers, scan[s].buffer, cache[scan[s].buffer])
      BY <1>3, <2>1, <3>1 DEF SInv, CacheIsFresh
    <3>3. new.settled => Current(buffers, new.buffer, new.pointer) BY <1>3, <3>2
    <3> QED BY <1>1, <1>3, <1>4, <2>2, <3>1, <3>3
  <2>3. CASE t # s BY <1>1, <1>4, <2>1, <2>3 DEF PinsHold
  <2> QED BY <2>2, <2>3
<1> QED BY <1>2, <1>5 DEF PinsHold

LEMMA FetchPins ==
    ASSUME SInv, PinsHold, NEW s \in Scans, Fetch(s)
    PROVE  PinsHold'
<1> DEFINE b == scan[s].buffer
           loads == Load(b)[b].loads
<1>1. /\ scan[s].at = "miss" /\ buffers' = Load(b)
      /\ UNCHANGED <<phase, crossed, overtaken>>
  BY DEF Fetch
<1>2. scan' = [scan EXCEPT ![s].at = "fetched", ![s].pointer = loads] BY DEF Fetch
<1>3. /\ scan'[s].at = "fetched" /\ scan'[s].buffer = b /\ scan'[s].pointer = loads
      /\ \A t \in Scans : t # s => scan'[t] = scan[t]
  <2>1. scan \in [Scans -> Scan] BY DEF SInv, Types
  <2> HIDE DEF loads
  <2> QED BY <1>2, <2>1 DEF Scan
<1>4. b \in 1 .. Len(buffers) BY <1>1 DEF SInv, ScansOnTheWay, OnTheWay
<1>5. /\ Current(buffers', b, loads)
      /\ \A c, p : Current(buffers, c, p) => Current(buffers', c, p)
  <2>1. buffers \in Seq(Buffer) /\ Len(buffers) \in Nat BY DEF SInv, Types
  <2>2. ~(b > Len(buffers)) BY <1>4, <2>1
  <2> HIDE DEF b
  <2>3. CASE buffers[b].loaded
    <3>1. buffers' = buffers BY <1>1, <2>3 DEF Load
    <3> QED BY <1>1, <1>4, <2>3, <3>1 DEF Current
  <2>4. CASE ~buffers[b].loaded
    <3> DEFINE new == [loads |-> buffers[b].loads + 1, loaded |-> TRUE,
                       data |-> buffers[b].saved, saved |-> buffers[b].saved]
    <3>1. buffers' = [buffers EXCEPT ![b] = new] BY <1>1, <2>2, <2>4 DEF Load
    <3>2. new.loaded OBVIOUS
    <3> HIDE DEF new
    <3>3. Len(buffers') = Len(buffers) /\ buffers'[b] = new BY <1>4, <2>1, <3>1
    <3>4. \A c \in 1 .. Len(buffers) : c # b => buffers'[c] = buffers[c]
      BY <1>4, <2>1, <3>1
    <3>5. ASSUME NEW c, NEW p, Current(buffers, c, p) PROVE Current(buffers', c, p)
      BY <2>4, <3>3, <3>4, <3>5 DEF Current
    <3>6. Current(buffers', b, loads) BY <1>1, <1>4, <3>2, <3>3 DEF Current
    <3> QED BY <3>5, <3>6
  <2> QED BY <2>3, <2>4
<1> HIDE DEF b, loads
<1>6. ASSUME NEW t \in Scans, t \notin overtaken', ~crossed'
      PROVE  /\ scan'[t].at # "idle" => phase' # "written"
             /\ scan'[t].at = "fetched" \/ (scan'[t].at = "pinned" /\ scan'[t].settled) =>
                  Current(buffers', scan'[t].buffer, scan'[t].pointer)
  <2>1. t \notin overtaken /\ ~crossed BY <1>1, <1>6
  <2>2. CASE t = s BY <1>1, <1>3, <1>5, <2>1, <2>2 DEF PinsHold
  <2>3. CASE t # s BY <1>1, <1>3, <1>5, <2>1, <2>3 DEF PinsHold
  <2> QED BY <2>2, <2>3
<1> QED BY <1>1, <1>6 DEF PinsHold

LEMMA KeepPins ==
    ASSUME SInv, PinsHold, NEW s \in Scans, Keep(s)
    PROVE  PinsHold'
<1> DEFINE b == scan[s].buffer
<1>1. /\ scan[s].at = "fetched" /\ (crossed => crossed')
      /\ UNCHANGED <<buffers, phase, overtaken>>
  BY DEF Keep
<1>2. scan' = [Grows(b) EXCEPT ![s].at = "pinned"] BY DEF Keep
<1>3. /\ Grows(b) \in [Scans -> Scan]
      /\ \A t \in Scans : Grows(b)[t] = scan[t] \/ (scan[t].at = "hit" /\ Grows(b)[t].at = "hit")
  <2>1. scan \in [Scans -> Scan] BY DEF SInv, Types
  <2>2. CASE Grows(b) = scan BY <2>1, <2>2
  <2>3. CASE Grows(b) = Moved
    <3>1. ASSUME NEW t \in Scans
          PROVE  /\ Moved[t] \in Scan
                 /\ Moved[t] = scan[t] \/ (scan[t].at = "hit" /\ Moved[t].at = "hit")
      <4> DEFINE old == scan[t]
      <4>1. old \in Scan BY <2>1
      <4>2. Moved[t] = IF old.at = "hit" THEN [old EXCEPT !.settled = FALSE] ELSE old
        BY DEF Moved
      <4> HIDE DEF old
      <4>3. CASE old.at = "hit"
        <5> DEFINE new == [old EXCEPT !.settled = FALSE]
        <5>1. new \in Scan /\ new.at = "hit" BY <4>1, <4>3 DEF Scan
        <5> HIDE DEF new
        <5>2. Moved[t] = new BY <4>2, <4>3 DEF new
        <5> QED BY <4>3, <5>1, <5>2 DEF old
      <4>4. CASE old.at # "hit" BY <4>1, <4>2, <4>4 DEF old
      <4> QED BY <4>3, <4>4
    <3>2. Moved = [t \in Scans |-> Moved[t]] BY DEF Moved
    <3>3. \A t \in Scans : Moved[t] \in Scan BY <3>1
    <3> HIDE DEF Scan
    <3>4. Moved \in [Scans -> Scan] BY <3>2, <3>3
    <3> QED BY <2>3, <3>1, <3>4
  <2> QED BY <2>2, <2>3 DEF Grows
<1>4. /\ scan'[s].at = "pinned" /\ scan'[s].buffer = scan[s].buffer
      /\ scan'[s].pointer = scan[s].pointer
      /\ \A t \in Scans : t # s =>
           scan'[t] = scan[t] \/ (scan[t].at = "hit" /\ scan'[t].at = "hit")
  <2> DEFINE g == Grows(b)
  <2>1. g \in [Scans -> Scan] /\ g[s] = scan[s] BY <1>1, <1>3
  <2>2. scan' = [g EXCEPT ![s].at = "pinned"] BY <1>2
  <2>3. \A t \in Scans : g[t] = scan[t] \/ (scan[t].at = "hit" /\ g[t].at = "hit") BY <1>3
  <2> HIDE DEF g
  <2>4. \A t \in Scans : t # s => scan'[t] = g[t] BY <2>1, <2>2
  <2>5. scan'[s] = [g[s] EXCEPT !.at = "pinned"] BY <2>1, <2>2
  <2>6. g[s] \in Scan BY <2>1
  <2>7. scan'[s].at = "pinned" /\ scan'[s].buffer = g[s].buffer /\ scan'[s].pointer = g[s].pointer
    BY <2>5, <2>6 DEF Scan
  <2> QED BY <2>1, <2>3, <2>4, <2>7
<1>5. ASSUME NEW t \in Scans, t \notin overtaken', ~crossed'
      PROVE  /\ scan'[t].at # "idle" => phase' # "written"
             /\ scan'[t].at = "fetched" \/ (scan'[t].at = "pinned" /\ scan'[t].settled) =>
                  Current(buffers', scan'[t].buffer, scan'[t].pointer)
  <2>1. t \notin overtaken /\ ~crossed BY <1>1, <1>5
  <2>2. CASE t = s BY <1>1, <1>4, <2>1, <2>2 DEF PinsHold
  <2>3. CASE t # s
    <3>1. CASE scan'[t] = scan[t] BY <1>1, <2>1, <3>1 DEF PinsHold
    <3>2. CASE scan[t].at = "hit" /\ scan'[t].at = "hit" BY <1>1, <2>1, <3>2 DEF PinsHold
    <3> QED BY <1>4, <2>3, <3>1, <3>2
  <2> QED BY <2>2, <2>3
<1> QED BY <1>1, <1>5 DEF PinsHold

LEMMA EndPins ==
    ASSUME SInv, PinsHold, NEW s \in Scans, EndScan(s)
    PROVE  PinsHold'
<1>1. /\ scan'[s].at = "idle" /\ \A t \in Scans : t # s => scan'[t] = scan[t]
      /\ overtaken' = overtaken \ {s} /\ UNCHANGED <<buffers, phase, crossed>>
  BY DEF EndScan, Idle, SInv, Types
<1>2. ASSUME NEW t \in Scans, t \notin overtaken', ~crossed'
      PROVE  /\ scan'[t].at # "idle" => phase' # "written"
             /\ scan'[t].at = "fetched" \/ (scan'[t].at = "pinned" /\ scan'[t].settled) =>
                  Current(buffers', scan'[t].buffer, scan'[t].pointer)
  <2>1. CASE t = s BY <1>1, <2>1
  <2>2. CASE t # s
    <3>1. t \notin overtaken /\ ~crossed BY <1>1, <1>2, <2>2
    <3> QED BY <1>1, <2>2, <3>1 DEF PinsHold
  <2> QED BY <2>1, <2>2
<1> QED BY <1>1, <1>2 DEF PinsHold

(* A checkpoint that writes the buffers out overtakes every scan.          *)
LEMMA SerializePins ==
    ASSUME SInv, PinsHold, SerializeBuffers
    PROVE  PinsHold'
<1>1. scan' = scan /\ overtaken' = {s \in Scans : scan[s] # Idle} BY DEF SerializeBuffers
<1>2. ASSUME NEW t \in Scans, t \notin overtaken' PROVE scan'[t].at = "idle"
  BY <1>1, <1>2 DEF Idle
<1> QED BY <1>1, <1>2 DEF PinsHold

(* The cache cleared: a hit is not settled any more, the rest stays.       *)
LEMMA FilingPins ==
    ASSUME PinsHold, FlushPartialBlocks \/ SerializeToWAL
    PROVE  PinsHold'
<1>1. /\ scan' = Moved /\ phase' = "none" /\ UNCHANGED <<buffers, crossed, overtaken>>
  BY DEF FlushPartialBlocks, SerializeToWAL, InvalidatePinCache
<1>2. ASSUME NEW t \in Scans, t \notin overtaken', ~crossed'
      PROVE  scan'[t].at = "fetched" \/ (scan'[t].at = "pinned" /\ scan'[t].settled) =>
                  Current(buffers', scan'[t].buffer, scan'[t].pointer)
  <2>1. scan'[t] = IF scan[t].at = "hit" THEN [scan[t] EXCEPT !.settled = FALSE] ELSE scan[t]
    BY <1>1 DEF Moved
  <2>2. CASE scan[t].at # "hit"
    <3>1. scan'[t] = scan[t] BY <2>1, <2>2
    <3> QED BY <1>1, <1>2, <3>1 DEF PinsHold
  <2>3. CASE scan[t].at = "hit"
    <3> DEFINE old == scan[t]
    <3>1. scan'[t] = [old EXCEPT !.settled = FALSE] BY <2>1, <2>3
    <3>2. [old EXCEPT !.settled = FALSE].at = old.at OBVIOUS
    <3> QED BY <2>3, <3>1, <3>2
  <2> QED BY <2>2, <2>3
<1>3. overtaken' \subseteq Scans BY <1>1 DEF PinsHold
<1> QED BY <1>1, <1>2, <1>3 DEF PinsHold

(* Writers wait for the scans, and a restart ends them.                    *)
LEMMA QuietPins ==
    ASSUME SInv, PinsHold,
           \/ \E r \in Rows : Insert(r)
           \/ CommitDrop \/ Persist \/ Restart
    PROVE  PinsHold'
<1>1. \A t \in Scans : scan'[t].at = "idle"
  <2>1. CASE \E r \in Rows : Insert(r) BY <2>1 DEF Insert, NoScan, Idle
  <2>2. CASE CommitDrop BY <2>2 DEF CommitDrop, NoScan, InvalidatePinCache, Moved, Idle
  <2>3. CASE Persist BY <2>3 DEF Persist, PersistToDisk, NoScan, Idle
  <2>4. CASE Restart BY <2>4 DEF Restart, Idle
  <2> QED BY <2>1, <2>2, <2>3, <2>4
<1>2. overtaken' \subseteq Scans
  <2>1. overtaken' \in {overtaken, {}} BY DEF Insert, CommitDrop, Persist, Restart
  <2> QED BY <2>1 DEF PinsHold
<1> QED BY <1>1, <1>2 DEF PinsHold

LEMMA PinsInductive == SInv /\ PinsHold /\ [Next]_vars => PinsHold'
<1> SUFFICES ASSUME SInv, PinsHold, [Next]_vars PROVE PinsHold' OBVIOUS
<1>1. CASE (\E r \in Rows : Insert(r)) \/ CommitDrop \/ Persist \/ Restart BY <1>1, QuietPins
<1>2. CASE \E s \in Scans, node \in 1 .. Len(rows) : Look(s, node) BY <1>2, LookPins
<1>3. CASE \E s \in Scans : Hit(s) BY <1>3, HitPins
<1>4. CASE \E s \in Scans : Fetch(s) BY <1>4, FetchPins
<1>5. CASE \E s \in Scans : Keep(s) BY <1>5, KeepPins
<1>6. CASE \E s \in Scans : EndScan(s) BY <1>6, EndPins
<1>7. CASE SerializeBuffers BY <1>7, SerializePins
<1>8. CASE FlushPartialBlocks \/ SerializeToWAL BY <1>8, FilingPins
<1>9. CASE UNCHANGED vars BY <1>9 DEF vars, PinsHold, Current
<1> QED BY <1>1, <1>2, <1>3, <1>4, <1>5, <1>6, <1>7, <1>8, <1>9 DEF Next, Steps

LEMMA PinsHoldAlways == Spec => []PinsHold
<1>1. Init => PinsHold BY DEF Init, PinsHold, Idle
<1> QED BY <1>1, PinsInductive, SInvHolds, PTL DEF Spec

(* What a scan has pinned is in memory at that address until the scan ends,*)
(* whoever scans beside it, through loads, logs and cleared caches: unless *)
(* a checkpoint's writing of the buffers overtakes it, another scan or a   *)
(* log moves the vector it reads, or a stale address was kept before.  No  *)
(* assumption keeps scans away from a checkpoint.                          *)
THEOREM PinsOutlastLogs == Spec => []PinsStayValid
<1>1. PinsHold => PinsStayValid
  BY DEF PinsHold, PinsStayValid, Current, IsAt
<1> QED BY <1>1, PinsHoldAlways, PTL

(* Every reachable state of the store is well typed: the root is one of    *)
(* the stream's segments, no pointer goes beyond the loads there were.     *)
THEOREM StoreTypeCorrect == Spec => []TypeOK
<1>1. SInv /\ PinsHold => TypeOK
  <2> SUFFICES ASSUME SInv, PinsHold PROVE TypeOK OBVIOUS
  <2>1. Types BY DEF SInv
  <2>2. \A s \in Scans : scan[s].at \in {"idle", "hit", "miss", "fetched", "pinned"}
    BY <2>1 DEF Types, Scan
  <2>3. overtaken \subseteq Scans BY DEF PinsHold
  <2> QED BY <2>1, <2>2, <2>3 DEF Types, TypeOK, Buffer, Rooted
<1> QED BY <1>1, SInvHolds, PinsHoldAlways, PTL

(* The stream and the node buffers agree in memory and on disk, through    *)
(* growth and rewriting of the stream, drops, loads on demand,             *)
(* checkpoints, the log and restarts, for every size of segment and        *)
(* buffer.  The nodes do until a scan keeps an address that a checkpoint   *)
(* has taken back since: before that, whatever the scans do to the cache   *)
(* beside a checkpoint, inserts reach their node and nothing else.         *)
THEOREM StoreGivesBackWhatItTook == Spec => []StoreGivesBack
<1>1. SInv => StoreGivesBack
  BY DEF SInv, StreamHolds, FileHolds, StoreGivesBack
<1> QED BY <1>1, SInvHolds, PTL

-----------------------------------------------------------------------------
(* The third part: the block store of AiSAQ.  What its memory holds of a   *)
(* row of CREATE INDEX its disk holds wherever a block has an id, and the  *)
(* state stream of the last checkpoint spells blocks of which that holds.  *)

Block(n) == [id : Nat, mem : [1 .. n -> Nat]]

(* A block with an id is one of those on disk.                             *)
OnDisk(d, blocks, n) == \A b \in 1 .. Len(blocks) :
    blocks[b].id # Invalid => blocks[b].id \in 1 .. Len(d) /\ d[blocks[b].id] \in [1 .. n -> Nat]

(* The row is in its slot, in memory and on disk.                          *)
Keeps(d, blocks, at, slot, r) ==
    /\ at <= Len(blocks) /\ blocks[at].mem[slot] = r
    /\ blocks[at].id # Invalid => d[blocks[at].id][slot] = r

KeepsRow(d, g, p, pair) ==
    /\ Keeps(d, g, BlockOf(pair[2]), NodeSlot(pair[2]), pair[1])
    /\ Keeps(d, p, PageOf(pair[2]), CodeSlot(pair[2]), pair[1])

(* A count, graph blocks, pages and a row map that go together.            *)
Agrees(d, c, g, p, map) ==
    /\ c \in Nat /\ map \in SUBSET (Nat \X Nat)
    /\ g \in Seq(Block(NodesPerBlock)) /\ OnDisk(d, g, NodesPerBlock)
    /\ p \in Seq(Block(CodesPerPage)) /\ OnDisk(d, p, CodesPerPage)
    /\ \A pair \in map : pair[1] <= TableSize => pair[2] < c /\ KeepsRow(d, g, p, pair)

(* The words of a state stream: where each field stands.                   *)
Spells(words, c, g, p, list) ==
    LET pagesAt == 3 + Len(g)
        rowsAt == 4 + Len(g) + Len(p)
    IN  /\ words \in Seq(Nat) /\ Len(words) = rowsAt + 2 * Len(list)
        /\ words[1] = c /\ words[2] = Len(g)
        /\ \A i \in 1 .. Len(g) : words[2 + i] = g[i].id
        /\ words[pagesAt] = Len(p)
        /\ \A i \in 1 .. Len(p) : words[pagesAt + i] = p[i].id
        /\ words[rowsAt] = Len(list)
        /\ \A i \in 1 .. Len(list) : /\ words[rowsAt + (2 * i - 1)] = list[i][1]
                                     /\ words[rowsAt + 2 * i] = list[i][2]

(* What a restart reads once its blocks are loaded.                        *)
AllLoaded(d, blocks) == \A b \in 1 .. Len(blocks) :
    blocks[b].id # Invalid /\ blocks[b].mem = d[blocks[b].id]

Gives(segments, start, words) ==
    \A n \in 0 .. Len(words) : Read(segments, start, n) = Part(words, 0, n)

Reopens(d, f) ==
    \E c, g, p, words, list :
        /\ Agrees(d, c, g, p, Range(list)) /\ AllLoaded(d, g) /\ AllLoaded(d, p)
        /\ list \in Seq(Nat \X Nat) /\ Spells(words, c, g, p, list)
        /\ Gives(f.segs, f.root, words)

Chains ==
    /\ stateSegs \in Seq(Segments(Nat)) /\ Rooted(stateSegs, stateRoot)
    /\ stateFile.segs \in Seq(Segments(Nat)) /\ Rooted(stateFile.segs, stateFile.root)

KInv ==
    /\ disk \in Seq(Range(disk)) /\ Chains
    /\ Agrees(disk, count, graph, pages, rowMap) /\ IsFiniteSet(rowMap)
    /\ stateFile.root # NoRoot /\ ~stateFile.logged => Reopens(disk, stateFile)

-----------------------------------------------------------------------------
(* Where nodes and codes are.                                              *)

LEMMA LargestQuotient ==
    ASSUME NEW S \in Nat \ {0}, NEW n \in Nat, NEW k \in Nat, S * k <= n
    PROVE  k <= n \div S
<1> DEFINE q == n \div S
<1>1. q \in Nat /\ n < S * q + S
  <2>1. q \in Nat /\ n % S \in 0 .. S - 1 /\ n = S * q + (n % S) BY Division
  <2> HIDE DEF q
  <2>2. S * q \in Nat BY <2>1
  <2> QED BY <2>1, <2>2
<1> HIDE DEF q
<1>2. SUFFICES ASSUME q + 1 <= k PROVE FALSE BY <1>1 DEF q
<1>3. PICK j \in Nat : k = q + 1 + j
  <2>1. k - (q + 1) \in Nat /\ k = q + 1 + (k - (q + 1)) BY <1>1, <1>2
  <2> QED BY <2>1
<1>4. S * k = S * q + S + S * j BY <1>1, <1>3
<1>5. S * j \in Nat /\ S * q \in Nat BY <1>1, <1>3
<1> QED BY <1>1, <1>4, <1>5

LEMMA Places ==
    ASSUME NEW S \in Nat \ {0}, NEW n \in Nat
    PROVE  /\ (n \div S) + 1 \in Nat \ {0} /\ (n % S) + 1 \in 1 .. S
           /\ ((n \div S) + 1 - 1) * S + ((n % S) + 1) = n + 1
           /\ \A m \in Nat : n <= m => (n \div S) + 1 <= (m \div S) + 1
           /\ \A m \in Nat : (n \div S) + 1 = (m \div S) + 1 /\ (n % S) + 1 = (m % S) + 1 => n = m
           /\ \A m \in Nat : n < m => (n \div S) + 1 <= (m + S - 1) \div S
<1> DEFINE q == n \div S
           r == n % S
<1>1. q \in Nat /\ r \in 0 .. S - 1 /\ n = S * q + r BY Division
<1> HIDE DEF q, r
<1>2. q + 1 \in Nat \ {0} /\ r + 1 \in 1 .. S BY <1>1
<1>3. (q + 1 - 1) * S + (r + 1) = n + 1
  <2>1. q + 1 - 1 = q /\ q * S = S * q BY <1>1
  <2>2. S * q \in Nat BY <1>1
  <2> QED BY <1>1, <2>1, <2>2
<1>4. ASSUME NEW m \in Nat, n <= m PROVE q + 1 <= (m \div S) + 1
  <2>1. S * q <= m
    <3>1. S * q \in Nat BY <1>1
    <3> QED BY <1>1, <1>4, <3>1
  <2>2. q <= m \div S BY <1>1, <2>1, LargestQuotient
  <2>3. m \div S \in Nat BY Division
  <2> QED BY <1>1, <2>2, <2>3
<1>5. ASSUME NEW m \in Nat, q + 1 = (m \div S) + 1, r + 1 = (m % S) + 1 PROVE n = m
  <2>1. m \div S \in Nat /\ m % S \in 0 .. S - 1 /\ m = S * (m \div S) + (m % S)
    BY Division
  <2>2. q = m \div S BY <1>1, <1>5, <2>1
  <2>3. r = m % S BY <1>1, <1>5, <2>1
  <2>4. m = S * q + r BY <2>1, <2>2, <2>3
  <2> QED BY <1>1, <2>4
<1>6. ASSUME NEW m \in Nat, n < m PROVE q + 1 <= (m + S - 1) \div S
  <2>1. m + S - 1 \in Nat OBVIOUS
  <2>2. S * (q + 1) = S * q + S BY <1>1
  <2>3. S * q \in Nat BY <1>1
  <2>4. S * (q + 1) <= m + S - 1 BY <1>1, <1>6, <2>2, <2>3
  <2> QED BY <1>1, <2>1, <2>4, LargestQuotient
<1> QED BY <1>2, <1>3, <1>4, <1>5, <1>6 DEF q, r

LEMMA BlockPlaces ==
    ASSUME NEW n \in Nat
    PROVE  /\ BlockOf(n) \in Nat \ {0} /\ NodeSlot(n) \in 1 .. NodesPerBlock
           /\ (BlockOf(n) - 1) * NodesPerBlock + NodeSlot(n) = n + 1
           /\ \A m \in Nat : n <= m => BlockOf(n) <= BlockOf(m)
           /\ \A m \in Nat : BlockOf(n) = BlockOf(m) /\ NodeSlot(n) = NodeSlot(m) => n = m
<1>1. NodesPerBlock \in Nat \ {0} BY AisaqStoreAssumption
<1>2. /\ BlockOf(n) \in Nat \ {0} /\ NodeSlot(n) \in 1 .. NodesPerBlock
      /\ (BlockOf(n) - 1) * NodesPerBlock + NodeSlot(n) = n + 1
  <2>1. \A S \in Nat \ {0} : /\ (n \div S) + 1 \in Nat \ {0} /\ (n % S) + 1 \in 1 .. S
                            /\ ((n \div S) + 1 - 1) * S + ((n % S) + 1) = n + 1
    BY Places
  <2> QED BY <1>1, <2>1 DEF BlockOf, NodeSlot
<1>3. \A m \in Nat : n <= m => BlockOf(n) <= BlockOf(m) BY <1>1, Places DEF BlockOf
<1>4. ASSUME NEW m \in Nat, BlockOf(n) = BlockOf(m), NodeSlot(n) = NodeSlot(m)
      PROVE  n = m
  <2>1. ASSUME NEW S \in Nat \ {0}, (n \div S) + 1 = (m \div S) + 1,
               (n % S) + 1 = (m % S) + 1
        PROVE  n = m
    BY <2>1, Places
  <2> QED BY <1>1, <1>4, <2>1 DEF BlockOf, NodeSlot
<1> QED BY <1>2, <1>3, <1>4

LEMMA PagePlaces ==
    ASSUME NEW n \in Nat
    PROVE  /\ PageOf(n) \in Nat \ {0} /\ CodeSlot(n) \in 1 .. CodesPerPage
           /\ (PageOf(n) - 1) * CodesPerPage + CodeSlot(n) = n + 1
           /\ \A m \in Nat : n < m => PageOf(n) <= (m + CodesPerPage - 1) \div CodesPerPage
<1>1. CodesPerPage \in Nat \ {0} BY AisaqStoreAssumption
<1>2. \A S \in Nat \ {0} :
         /\ (n \div S) + 1 \in Nat \ {0} /\ (n % S) + 1 \in 1 .. S
         /\ ((n \div S) + 1 - 1) * S + ((n % S) + 1) = n + 1
         /\ \A m \in Nat : n < m => (n \div S) + 1 <= (m + S - 1) \div S
  BY Places
<1> QED BY <1>1, <1>2 DEF PageOf, CodeSlot


-----------------------------------------------------------------------------
(* The state stream of AiSAQ.                                              *)

(* The words of the stream stand where the reader looks for them.          *)
LEMMA RowsListed ==
    ASSUME rowMap \in SUBSET (Nat \X Nat), IsFiniteSet(rowMap)
    PROVE  /\ MapAsList \in Seq(Nat \X Nat) /\ Len(MapAsList) = Cardinality(rowMap)
           /\ Cardinality(rowMap) \in Nat /\ Range(MapAsList) \subseteq rowMap
<1> DEFINE N == Cardinality(rowMap)
<1>1. N \in Nat /\ ExistsBijection(1 .. N, rowMap) BY FS_CardinalityType
<1>2. PICK f \in [1 .. N -> rowMap] : IsInjective(f)
  BY <1>1 DEF ExistsBijection, Bijection, Injection, IsInjective
<1>3. MapAsList \in [1 .. N -> rowMap] BY <1>2 DEF MapAsList, SetToSeq
<1>4. MapAsList \in [1 .. N -> Nat \X Nat] BY <1>3
<1>5. MapAsList \in Seq(Nat \X Nat) /\ Len(MapAsList) = N BY <1>1, <1>4
<1>6. Range(MapAsList) \subseteq rowMap BY <1>3 DEF Range
<1> QED BY <1>1, <1>5, <1>6

LEMMA FunctionIsSequence ==
    ASSUME NEW A, NEW l \in Nat, NEW f \in [1 .. l -> A]
    PROVE  f \in Seq(A) /\ Len(f) = l
OBVIOUS

LEMMA PairsInWords ==
    ASSUME NEW list \in Seq(Nat \X Nat), NEW rows2,
           rows2 = [i \in 1 .. 2 * Len(list) |-> list[(i + 1) \div 2][((i + 1) % 2) + 1]]
    PROVE  /\ rows2 \in Seq(Nat) /\ Len(rows2) = 2 * Len(list)
           /\ \A i \in 1 .. Len(list) : /\ 2 * i - 1 \in 1 .. 2 * Len(list)
                                        /\ 2 * i \in 1 .. 2 * Len(list)
                                        /\ rows2[2 * i - 1] = list[i][1]
                                        /\ rows2[2 * i] = list[i][2]
<1> DEFINE N == Len(list)
           At(i) == list[(i + 1) \div 2][((i + 1) % 2) + 1]
<1>1. N \in Nat OBVIOUS
<1>2. \A j \in 1 .. N : list[j] \in Nat \X Nat OBVIOUS
<1>3. ASSUME NEW i \in 1 .. 2 * N PROVE At(i) \in Nat
  <2>1. (i + 1) \div 2 \in 1 .. N /\ ((i + 1) % 2) + 1 \in {1, 2} BY <1>1
  <2> DEFINE j == (i + 1) \div 2
             k == ((i + 1) % 2) + 1
  <2>2. j \in 1 .. N /\ k \in {1, 2} BY <2>1
  <2> HIDE DEF j, k
  <2>3. list[j][k] \in Nat
    <3>1. list[j] \in Nat \X Nat BY <1>2, <2>2
    <3> QED BY <2>2, <3>1
  <2> QED BY <2>3 DEF j, k
<1>4. rows2 \in [1 .. 2 * N -> Nat] BY <1>3
<1>5. rows2 \in Seq(Nat) /\ Len(rows2) = 2 * N
  <2>1. 2 * N \in Nat BY <1>1
  <2> HIDE DEF N
  <2> QED BY <1>4, <2>1, FunctionIsSequence
<1>6. ASSUME NEW i \in 1 .. N
      PROVE  /\ 2 * i - 1 \in 1 .. 2 * N /\ 2 * i \in 1 .. 2 * N
             /\ rows2[2 * i - 1] = list[i][1] /\ rows2[2 * i] = list[i][2]
  <2>1. 2 * i - 1 \in 1 .. 2 * N /\ 2 * i \in 1 .. 2 * N BY <1>1
  <2>2. /\ ((2 * i - 1) + 1) \div 2 = i /\ ((2 * i - 1) + 1) % 2 = 0
        /\ (2 * i + 1) \div 2 = i /\ (2 * i + 1) % 2 = 1
    OBVIOUS
  <2>3. rows2[2 * i - 1] = At(2 * i - 1) /\ rows2[2 * i] = At(2 * i) BY <2>1
  <2> QED BY <2>1, <2>2, <2>3
<1> QED BY <1>5, <1>6

LEMMA StateSpelled ==
    ASSUME count \in Nat, rowMap \in SUBSET (Nat \X Nat), IsFiniteSet(rowMap),
           NEW B, NEW C, NEW g \in Seq(Block(B)), NEW p \in Seq(Block(C))
    PROVE  Spells(StateWords(g, p), count, g, p, MapAsList)
<1> DEFINE list == MapAsList
           G == Len(g)
           P == Len(p)
           N == Cardinality(rowMap)
           a == <<count, G>>
           gids == [i \in 1 .. G |-> g[i].id]
           pids == [i \in 1 .. P |-> p[i].id]
           rows2 == [i \in 1 .. 2 * N |-> list[(i + 1) \div 2][((i + 1) % 2) + 1]]
           w2 == a \o gids
           w3 == w2 \o <<P>>
           w4 == w3 \o pids
           w5 == w4 \o <<N>>
           w6 == w5 \o rows2
<1>1. list \in Seq(Nat \X Nat) /\ Len(list) = N /\ N \in Nat BY RowsListed
<1>2. StateWords(g, p) = w6 BY DEF StateWords
<1>3. G \in Nat /\ P \in Nat OBVIOUS
<1>4. gids \in Seq(Nat) /\ Len(gids) = G /\ \A i \in 1 .. G : gids[i] = g[i].id
  <2>1. ASSUME NEW i \in 1 .. G PROVE g[i].id \in Nat
    <3>1. g[i] \in Block(B) OBVIOUS
    <3> QED BY <3>1 DEF Block
  <2> QED BY <1>3, <2>1
<1>5. pids \in Seq(Nat) /\ Len(pids) = P /\ \A i \in 1 .. P : pids[i] = p[i].id
  <2>1. ASSUME NEW i \in 1 .. P PROVE p[i].id \in Nat
    <3>1. p[i] \in Block(C) OBVIOUS
    <3> QED BY <3>1 DEF Block
  <2> QED BY <1>3, <2>1
<1>6. /\ rows2 \in Seq(Nat) /\ Len(rows2) = 2 * N
      /\ \A i \in 1 .. N : /\ 2 * i - 1 \in 1 .. 2 * N /\ 2 * i \in 1 .. 2 * N
                           /\ rows2[2 * i - 1] = list[i][1] /\ rows2[2 * i] = list[i][2]
  <2>1. rows2 = [i \in 1 .. 2 * Len(list) |-> list[(i + 1) \div 2][((i + 1) % 2) + 1]]
    BY <1>1
  <2> HIDE DEF rows2, list
  <2>2. /\ rows2 \in Seq(Nat) /\ Len(rows2) = 2 * Len(list)
        /\ \A i \in 1 .. Len(list) : /\ 2 * i - 1 \in 1 .. 2 * Len(list)
                                     /\ 2 * i \in 1 .. 2 * Len(list)
                                     /\ rows2[2 * i - 1] = list[i][1]
                                     /\ rows2[2 * i] = list[i][2]
    BY <1>1, <2>1, PairsInWords
  <2> QED BY <1>1, <2>2
<1>7. a \in Seq(Nat) /\ Len(a) = 2 /\ a[1] = count /\ a[2] = G BY <1>3
<1>8. <<P>> \in Seq(Nat) /\ Len(<<P>>) = 1 /\ <<P>>[1] = P BY <1>3
<1>9. <<N>> \in Seq(Nat) /\ Len(<<N>>) = 1 /\ <<N>>[1] = N BY <1>1
<1> HIDE DEF list, a, gids, pids, rows2, G, P, N
<1>10. /\ w2 \in Seq(Nat) /\ Len(w2) = 2 + G
       /\ \A i \in 1 .. 2 : w2[i] = a[i]
       /\ \A i \in 1 .. G : w2[2 + i] = g[i].id
  <2>1. /\ w2 \in Seq(Nat) /\ Len(w2) = Len(a) + Len(gids)
        /\ \A i \in 1 .. Len(a) : w2[i] = a[i]
        /\ \A i \in 1 .. Len(gids) : w2[Len(a) + i] = gids[i]
    <3>1. a \in Seq(Nat) /\ gids \in Seq(Nat) BY <1>4, <1>7
    <3> QED BY <3>1, Concatenation
  <2> QED BY <1>4, <1>7, <2>1
<1> HIDE DEF w2
<1>11. /\ w3 \in Seq(Nat) /\ Len(w3) = 3 + G
       /\ \A i \in 1 .. 2 + G : w3[i] = w2[i]
       /\ w3[3 + G] = P
  <2>1. /\ w3 \in Seq(Nat) /\ Len(w3) = Len(w2) + Len(<<P>>)
        /\ \A i \in 1 .. Len(w2) : w3[i] = w2[i]
        /\ \A i \in 1 .. Len(<<P>>) : w3[Len(w2) + i] = <<P>>[i]
    BY <1>8, <1>10, Concatenation
  <2> HIDE DEF w3
  <2>2. w3[(2 + G) + 1] = P
    <3>1. 1 \in 1 .. Len(<<P>>) BY <1>8
    <3> QED BY <1>8, <1>10, <2>1, <3>1
  <2>3. (2 + G) + 1 = 3 + G BY <1>3
  <2> QED BY <1>3, <1>8, <1>10, <2>1, <2>2, <2>3
<1> HIDE DEF w3
<1>12. /\ w4 \in Seq(Nat) /\ Len(w4) = 3 + G + P
       /\ \A i \in 1 .. 3 + G : w4[i] = w3[i]
       /\ \A i \in 1 .. P : w4[(3 + G) + i] = p[i].id
  <2>1. /\ w4 \in Seq(Nat) /\ Len(w4) = Len(w3) + Len(pids)
        /\ \A i \in 1 .. Len(w3) : w4[i] = w3[i]
        /\ \A i \in 1 .. Len(pids) : w4[Len(w3) + i] = pids[i]
    <3>1. w3 \in Seq(Nat) /\ pids \in Seq(Nat) BY <1>5, <1>11
    <3> QED BY <3>1, Concatenation
  <2> QED BY <1>5, <1>11, <2>1
<1> HIDE DEF w4
<1>13. /\ w5 \in Seq(Nat) /\ Len(w5) = 4 + G + P
       /\ \A i \in 1 .. 3 + G + P : w5[i] = w4[i]
       /\ w5[4 + G + P] = N
  <2>1. /\ w5 \in Seq(Nat) /\ Len(w5) = Len(w4) + Len(<<N>>)
        /\ \A i \in 1 .. Len(w4) : w5[i] = w4[i]
        /\ \A i \in 1 .. Len(<<N>>) : w5[Len(w4) + i] = <<N>>[i]
    BY <1>9, <1>12, Concatenation
  <2> HIDE DEF w5
  <2>2. w5[(3 + G + P) + 1] = N
    <3>1. 1 \in 1 .. Len(<<N>>) BY <1>9
    <3> QED BY <1>9, <1>12, <2>1, <3>1
  <2>3. (3 + G + P) + 1 = 4 + G + P BY <1>3
  <2> QED BY <1>3, <1>9, <1>12, <2>1, <2>2, <2>3
<1> HIDE DEF w5
<1>14. /\ w6 \in Seq(Nat) /\ Len(w6) = (4 + G + P) + 2 * N
       /\ \A i \in 1 .. 4 + G + P : w6[i] = w5[i]
       /\ \A i \in 1 .. 2 * N : w6[(4 + G + P) + i] = rows2[i]
  <2>1. /\ w6 \in Seq(Nat) /\ Len(w6) = Len(w5) + Len(rows2)
        /\ \A i \in 1 .. Len(w5) : w6[i] = w5[i]
        /\ \A i \in 1 .. Len(rows2) : w6[Len(w5) + i] = rows2[i]
    <3>1. w5 \in Seq(Nat) /\ rows2 \in Seq(Nat) BY <1>6, <1>13
    <3> QED BY <3>1, Concatenation
  <2> QED BY <1>6, <1>13, <2>1
<1> HIDE DEF w6
<1>15. w6[1] = count /\ w6[2] = G
  <2>1. ASSUME NEW i \in 1 .. 2 PROVE w6[i] = a[i]
    <3>1. i \in 1 .. 2 + G /\ i \in 1 .. 3 + G BY <1>3
    <3>2. i \in 1 .. 3 + G + P /\ i \in 1 .. 4 + G + P BY <1>3
    <3>3. w6[i] = w5[i] /\ w5[i] = w4[i] BY <1>13, <1>14, <3>2
    <3>4. w4[i] = w3[i] /\ w3[i] = w2[i] BY <1>11, <1>12, <3>1
    <3> QED BY <1>10, <3>3, <3>4
  <2> QED BY <1>7, <2>1
<1>16. \A i \in 1 .. G : w6[2 + i] = g[i].id
  <2> TAKE i \in 1 .. G
  <2>1. /\ 2 + i \in 1 .. 2 + G /\ 2 + i \in 1 .. 3 + G
        /\ 2 + i \in 1 .. 3 + G + P /\ 2 + i \in 1 .. 4 + G + P
    BY <1>3
  <2>2. w6[2 + i] = w5[2 + i] /\ w5[2 + i] = w4[2 + i] BY <1>13, <1>14, <2>1
  <2>3. w4[2 + i] = w3[2 + i] /\ w3[2 + i] = w2[2 + i] BY <1>11, <1>12, <2>1
  <2> QED BY <1>10, <2>2, <2>3
<1>17. w6[3 + G] = P
  <2>1. 3 + G \in 1 .. 3 + G /\ 3 + G \in 1 .. 3 + G + P /\ 3 + G \in 1 .. 4 + G + P
    BY <1>3
  <2> QED BY <1>11, <1>12, <1>13, <1>14, <2>1
<1>18. \A i \in 1 .. P : w6[(3 + G) + i] = p[i].id
  <2> TAKE i \in 1 .. P
  <2>1. (3 + G) + i \in 1 .. 3 + G + P /\ (3 + G) + i \in 1 .. 4 + G + P BY <1>3
  <2> QED BY <1>12, <1>13, <1>14, <2>1
<1>19. w6[4 + G + P] = N
  <2>1. 4 + G + P \in 1 .. 4 + G + P BY <1>3
  <2> QED BY <1>13, <1>14, <2>1
<1>20. \A i \in 1 .. N : /\ w6[(4 + G + P) + (2 * i - 1)] = list[i][1]
                         /\ w6[(4 + G + P) + 2 * i] = list[i][2]
  BY <1>6, <1>14
<1> QED BY <1>1, <1>2, <1>14, <1>15, <1>16, <1>17, <1>18, <1>19, <1>20
        DEF Spells, G, P, list

(* What a reader gets from a stream of these words.                        *)
LEMMA WordRead ==
    ASSUME NEW segments, NEW start, NEW words \in Seq(Nat),
           Gives(segments, start, words), NEW i \in 1 .. Len(words)
    PROVE  ReadOne(segments, start, i) = words[i]
<1>1. i \in 0 .. Len(words) /\ i \in 1 .. i /\ 0 + i = i OBVIOUS
<1>2. Read(segments, start, i) = Part(words, 0, i) BY <1>1 DEF Gives
<1>3. Part(words, 0, i)[i] = words[0 + i] BY <1>1 DEF Part
<1> QED BY <1>1, <1>2, <1>3 DEF ReadOne

LEMMA WordsRead ==
    ASSUME NEW segments, NEW start, NEW words \in Seq(Nat),
           Gives(segments, start, words),
           NEW at \in Nat, NEW n \in Nat, at + n <= Len(words), NEW i \in 1 .. n
    PROVE  ReadSome(segments, start, at, n)[i] = words[at + i]
<1> DEFINE part == Part(words, 0, at + n)
           some == ReadSome(segments, start, at, n)
<1>1. at + n \in 0 .. Len(words) OBVIOUS
<1>2. /\ part \in Seq(Nat) /\ Len(part) = at + n
      /\ \A j \in 1 .. at + n : part[j] = words[0 + j]
  <2>1. PICK m \in Nat : m = at + n OBVIOUS
  <2>2. 0 \in Nat /\ words \in Seq(Nat) /\ m \in Nat /\ 0 + m <= Len(words) BY <2>1
  <2>3. /\ Part(words, 0, m) \in Seq(Nat) /\ Len(Part(words, 0, m)) = m
        /\ \A j \in 1 .. m : Part(words, 0, m)[j] = words[0 + j]
    BY <2>2, PartFacts
  <2> QED BY <2>1, <2>3
<1>3. some = SubSeq(part, at + 1, at + n) BY <1>1 DEF ReadSome, Gives
<1> HIDE DEF part, some
<1>4. some = [j \in 1 .. n |-> part[at + j]] BY <1>2, <1>3
<1>5. at + i \in 1 .. at + n /\ 0 + (at + i) = at + i OBVIOUS
<1>6. some[i] = words[at + i] BY <1>2, <1>4, <1>5
<1> QED BY <1>6 DEF some

-----------------------------------------------------------------------------
(* Blocks and the disk.                                                    *)

Longer(d, e) == /\ Len(d) \in Nat /\ Len(e) \in Nat /\ Len(d) <= Len(e)
                /\ \A i \in 1 .. Len(d) : e[i] = d[i]

Listed(s, n) == s = [i \in 1 .. n |-> s[i]]

(* Blocks that have been written out, or that the pool has loaded again:   *)
(* what they kept they keep.                                               *)
LEMMA BlocksWritten ==
    ASSUME NEW n \in Nat, NEW d, NEW e, Longer(d, e),
           NEW blocks \in Seq(Block(n)), OnDisk(d, blocks, n), NEW new,
           Listed(new, Len(blocks)),
           \A b \in 1 .. Len(blocks) :
              \/ new[b] = blocks[b]
              \/ /\ new[b] = [id |-> new[b].id, mem |-> blocks[b].mem]
                 /\ blocks[b].id = Invalid
                 /\ new[b].id \in 1 .. Len(e) /\ e[new[b].id] = blocks[b].mem
    PROVE  /\ new \in Seq(Block(n)) /\ Len(new) = Len(blocks) /\ OnDisk(e, new, n)
           /\ \A at \in Nat \ {0} : \A slot, r :
                 Keeps(d, blocks, at, slot, r) => Keeps(e, new, at, slot, r)
<1>1. Len(blocks) \in Nat OBVIOUS
<1>2. ASSUME NEW b \in 1 .. Len(blocks)
      PROVE  /\ new[b] \in Block(n) /\ new[b].mem = blocks[b].mem
             /\ new[b].id # Invalid => /\ new[b].id \in 1 .. Len(e)
                                       /\ e[new[b].id] \in [1 .. n -> Nat]
                                       /\ \/ e[new[b].id] = blocks[b].mem
                                          \/ /\ blocks[b].id # Invalid
                                             /\ e[new[b].id] = d[blocks[b].id]
  <2>0. blocks[b] \in Block(n) OBVIOUS
  <2>1. CASE new[b] = blocks[b]
    <3>1. CASE blocks[b].id = Invalid BY <2>0, <2>1, <3>1
    <3>2. CASE blocks[b].id # Invalid
      <4>1. /\ blocks[b].id \in 1 .. Len(d) /\ d[blocks[b].id] \in [1 .. n -> Nat]
        BY <3>2 DEF OnDisk
      <4>2. blocks[b].id \in 1 .. Len(e) BY <4>1 DEF Longer
      <4>3. e[blocks[b].id] = d[blocks[b].id] BY <4>1 DEF Longer
      <4> QED BY <2>0, <2>1, <3>2, <4>1, <4>2, <4>3
    <3> QED BY <3>1, <3>2
  <2>2. CASE /\ new[b] = [id |-> new[b].id, mem |-> blocks[b].mem]
             /\ blocks[b].id = Invalid
             /\ new[b].id \in 1 .. Len(e) /\ e[new[b].id] = blocks[b].mem
    <3>1. blocks[b].mem \in [1 .. n -> Nat] BY <2>0 DEF Block
    <3>2. new[b].id \in Nat BY <2>2 DEF Longer
    <3>3. [id |-> new[b].id, mem |-> blocks[b].mem] \in Block(n) BY <3>1, <3>2 DEF Block
    <3>4. new[b] \in Block(n) BY <2>2, <3>3
    <3>5. new[b].mem = blocks[b].mem BY <2>2
    <3> QED BY <2>2, <3>1, <3>4, <3>5
  <2> QED BY <2>1, <2>2
<1>3. new \in [1 .. Len(blocks) -> Block(n)]
  <2>1. \A b \in 1 .. Len(blocks) : new[b] \in Block(n) BY <1>2
  <2> QED BY <2>1 DEF Listed
<1>4. new \in Seq(Block(n)) /\ Len(new) = Len(blocks) BY <1>1, <1>3, FunctionIsSequence
<1>5. OnDisk(e, new, n) BY <1>2, <1>4 DEF OnDisk
<1>6. ASSUME NEW at \in Nat \ {0}, NEW slot, NEW r, Keeps(d, blocks, at, slot, r)
      PROVE  Keeps(e, new, at, slot, r)
  <2>1. at \in 1 .. Len(blocks) BY <1>1, <1>6 DEF Keeps
  <2>2. blocks[at].mem[slot] = r /\ (blocks[at].id # Invalid => d[blocks[at].id][slot] = r)
    BY <1>6 DEF Keeps
  <2>3. new[at].mem = blocks[at].mem BY <1>2, <2>1
  <2>4. new[at].id # Invalid => e[new[at].id][slot] = r
    <3>1. new[at].id # Invalid => \/ e[new[at].id] = blocks[at].mem
                                  \/ /\ blocks[at].id # Invalid
                                     /\ e[new[at].id] = d[blocks[at].id]
      BY <1>2, <2>1
    <3> QED BY <2>2, <3>1
  <2>5. at <= Len(new) BY <1>4, <2>1
  <2> QED BY <2>2, <2>3, <2>4, <2>5 DEF Keeps
<1> QED BY <1>4, <1>5, <1>6

LEMMA BlocksLoaded ==
    ASSUME NEW n \in Nat, NEW d, NEW blocks \in Seq(Block(n)), OnDisk(d, blocks, n),
           NEW new, Listed(new, Len(blocks)),
           \A b \in 1 .. Len(blocks) :
              \/ new[b] = blocks[b]
              \/ /\ blocks[b].id # Invalid
                 /\ new[b] = [id |-> blocks[b].id, mem |-> d[blocks[b].id]]
    PROVE  /\ new \in Seq(Block(n)) /\ Len(new) = Len(blocks) /\ OnDisk(d, new, n)
           /\ \A at \in Nat \ {0} : \A slot, r :
                 Keeps(d, blocks, at, slot, r) => Keeps(d, new, at, slot, r)
<1>1. Len(blocks) \in Nat OBVIOUS
<1>2. ASSUME NEW b \in 1 .. Len(blocks)
      PROVE  /\ new[b] \in Block(n) /\ new[b].id = blocks[b].id
             /\ \/ new[b].mem = blocks[b].mem
                \/ blocks[b].id # Invalid /\ new[b].mem = d[blocks[b].id]
  <2>0. blocks[b] \in Block(n) OBVIOUS
  <2>1. CASE new[b] = blocks[b] BY <2>0, <2>1
  <2>2. CASE /\ blocks[b].id # Invalid
             /\ new[b] = [id |-> blocks[b].id, mem |-> d[blocks[b].id]]
    <3>1. d[blocks[b].id] \in [1 .. n -> Nat] BY <2>2 DEF OnDisk
    <3>2. blocks[b].id \in Nat BY <2>0 DEF Block
    <3>3. [id |-> blocks[b].id, mem |-> d[blocks[b].id]] \in Block(n) BY <3>1, <3>2 DEF Block
    <3> QED BY <2>2, <3>3
  <2> QED BY <2>1, <2>2
<1>3. new \in [1 .. Len(blocks) -> Block(n)]
  <2>1. \A b \in 1 .. Len(blocks) : new[b] \in Block(n) BY <1>2
  <2> QED BY <2>1 DEF Listed
<1>4. new \in Seq(Block(n)) /\ Len(new) = Len(blocks) BY <1>1, <1>3, FunctionIsSequence
<1>5. OnDisk(d, new, n) BY <1>2, <1>4 DEF OnDisk
<1>6. ASSUME NEW at \in Nat \ {0}, NEW slot, NEW r, Keeps(d, blocks, at, slot, r)
      PROVE  Keeps(d, new, at, slot, r)
  <2>1. at \in 1 .. Len(blocks) BY <1>1, <1>6 DEF Keeps
  <2>2. blocks[at].mem[slot] = r /\ (blocks[at].id # Invalid => d[blocks[at].id][slot] = r)
    BY <1>6 DEF Keeps
  <2>3. new[at].id = blocks[at].id BY <1>2, <2>1
  <2>4. new[at].mem[slot] = r BY <1>2, <2>1, <2>2
  <2>5. at <= Len(new) BY <1>4, <2>1
  <2> QED BY <2>2, <2>3, <2>4, <2>5 DEF Keeps
<1> QED BY <1>4, <1>5, <1>6

(* What agrees still agrees when its blocks keep what they kept.           *)
LEMMA StillAgrees ==
    ASSUME NEW d, NEW e, NEW c, NEW g, NEW p, NEW map, Agrees(d, c, g, p, map),
           NEW g2 \in Seq(Block(NodesPerBlock)), OnDisk(e, g2, NodesPerBlock),
           NEW p2 \in Seq(Block(CodesPerPage)), OnDisk(e, p2, CodesPerPage),
           \A at \in Nat \ {0} : \A slot, r :
              Keeps(d, g, at, slot, r) => Keeps(e, g2, at, slot, r),
           \A at \in Nat \ {0} : \A slot, r :
              Keeps(d, p, at, slot, r) => Keeps(e, p2, at, slot, r),
           NEW sub, sub \subseteq map
    PROVE  Agrees(e, c, g2, p2, sub)
<1>1. ASSUME NEW pair \in sub, pair[1] <= TableSize
      PROVE  pair[2] < c /\ KeepsRow(e, g2, p2, pair)
  <2>1. pair[2] < c /\ KeepsRow(d, g, p, pair) BY <1>1 DEF Agrees
  <2>2. pair[2] \in Nat BY DEF Agrees
  <2>3. BlockOf(pair[2]) \in Nat \ {0} /\ PageOf(pair[2]) \in Nat \ {0}
    BY <2>2, BlockPlaces, PagePlaces
  <2>4. /\ Keeps(d, g, BlockOf(pair[2]), NodeSlot(pair[2]), pair[1])
        /\ Keeps(d, p, PageOf(pair[2]), CodeSlot(pair[2]), pair[1])
    BY <2>1 DEF KeepsRow
  <2>5. /\ Keeps(e, g2, BlockOf(pair[2]), NodeSlot(pair[2]), pair[1])
        /\ Keeps(e, p2, PageOf(pair[2]), CodeSlot(pair[2]), pair[1])
    BY <2>3, <2>4
  <2> QED BY <2>1, <2>5 DEF KeepsRow
<1>2. sub \in SUBSET (Nat \X Nat) /\ c \in Nat BY DEF Agrees
<1> QED BY <1>1, <1>2 DEF Agrees

LEMMA NothingAgrees ==
    ASSUME NEW d
    PROVE  Agrees(d, 0, <<>>, <<>>, {})
<1>1. <<>> \in Seq(Block(NodesPerBlock)) /\ <<>> \in Seq(Block(CodesPerPage)) /\ Len(<<>>) = 0
  OBVIOUS
<1> QED BY <1>1 DEF Agrees, OnDisk

LEMMA ReopensLonger ==
    ASSUME NEW d, NEW e, Longer(d, e), NEW f, Reopens(d, f)
    PROVE  Reopens(e, f)
<1>1. PICK c, g, p, words, list :
        /\ Agrees(d, c, g, p, Range(list)) /\ AllLoaded(d, g) /\ AllLoaded(d, p)
        /\ list \in Seq(Nat \X Nat) /\ Spells(words, c, g, p, list)
        /\ Gives(f.segs, f.root, words)
  BY DEF Reopens
<1>2. /\ g \in Seq(Block(NodesPerBlock)) /\ OnDisk(d, g, NodesPerBlock)
      /\ p \in Seq(Block(CodesPerPage)) /\ OnDisk(d, p, CodesPerPage)
  BY <1>1 DEF Agrees
<1>3. NodesPerBlock \in Nat /\ CodesPerPage \in Nat BY AisaqStoreAssumption
<1>4. /\ OnDisk(e, g, NodesPerBlock)
      /\ \A at \in Nat \ {0} : \A slot, r :
            Keeps(d, g, at, slot, r) => Keeps(e, g, at, slot, r)
  <2>1. Listed(g, Len(g)) BY <1>2 DEF Listed
  <2> QED BY <1>2, <1>3, <2>1, BlocksWritten
<1>5. /\ OnDisk(e, p, CodesPerPage)
      /\ \A at \in Nat \ {0} : \A slot, r :
            Keeps(d, p, at, slot, r) => Keeps(e, p, at, slot, r)
  <2>1. Listed(p, Len(p)) BY <1>2 DEF Listed
  <2> QED BY <1>2, <1>3, <2>1, BlocksWritten
<1>6. Agrees(e, c, g, p, Range(list)) BY <1>1, <1>2, <1>4, <1>5, StillAgrees
<1>7. ASSUME NEW n, NEW blocks, AllLoaded(d, blocks), OnDisk(d, blocks, n)
      PROVE  AllLoaded(e, blocks)
  BY <1>7 DEF AllLoaded, OnDisk, Longer
<1>8. AllLoaded(e, g) /\ AllLoaded(e, p) BY <1>1, <1>2, <1>7
<1> QED BY <1>1, <1>6, <1>8 DEF Reopens

-----------------------------------------------------------------------------
(* The steps that write no stream.                                         *)

LEMMA StateLong == Len(disk) \in Nat /\ disk' = disk => Longer(disk, disk')
BY DEF Longer

LEMMA SameFileReopens ==
    ASSUME KInv, UNCHANGED <<disk, stateFile>>
    PROVE  (stateFile.root # NoRoot /\ ~stateFile.logged => Reopens(disk, stateFile))'
<1> QED BY DEF KInv

LEMMA SameChains == Chains /\ UNCHANGED <<state, stateFile>> => Chains'
BY DEF Chains, state

LEMMA StoreStarts == AiSaqInit => KInv
<1> SUFFICES ASSUME AiSaqInit PROVE KInv OBVIOUS
<1>1. disk \in Seq(Range(disk)) BY DEF AiSaqInit
<1>2. Chains
  <2>1. /\ stateSegs = <<>> /\ stateRoot = NoRoot
        /\ stateFile.segs = <<>> /\ stateFile.root = NoRoot
    BY DEF AiSaqInit
  <2>2. <<>> \in Seq(Segments(Nat)) /\ Len(<<>>) = 0 OBVIOUS
  <2> QED BY <2>1, <2>2 DEF Chains, Rooted, NoRoot
<1>3. Agrees(disk, count, graph, pages, rowMap) BY NothingAgrees DEF AiSaqInit
<1>4. IsFiniteSet(rowMap) BY FS_EmptySet DEF AiSaqInit
<1>5. stateFile.root = NoRoot BY DEF AiSaqInit
<1> QED BY <1>1, <1>2, <1>3, <1>4, <1>5 DEF KInv

LEMMA DropKeepsRows == KInv /\ AiSaqCommitDrop => KInv'
<1> SUFFICES ASSUME KInv, AiSaqCommitDrop PROVE KInv' OBVIOUS
<1>1. /\ graph' = <<>> /\ pages' = <<>> /\ count' = 0 /\ rowMap' = {}
      /\ UNCHANGED <<state, disk, stateFile>>
  BY DEF AiSaqCommitDrop
<1>2. Agrees(disk', count', graph', pages', rowMap') BY <1>1, NothingAgrees
<1>3. IsFiniteSet(rowMap') BY <1>1, FS_EmptySet
<1>4. Chains' BY <1>1, SameChains DEF KInv
<1>5. disk' \in Seq(Range(disk')) BY <1>1 DEF KInv
<1>6. (stateFile.root # NoRoot /\ ~stateFile.logged => Reopens(disk, stateFile))'
  BY <1>1, SameFileReopens
<1> QED BY <1>2, <1>3, <1>4, <1>5, <1>6 DEF KInv

LEMMA EvictKeepsRows == KInv /\ EvictBlock => KInv'
<1> SUFFICES ASSUME KInv, EvictBlock PROVE KInv' OBVIOUS
<1>1. UNCHANGED <<count, rowMap, state, disk, stateFile>> BY DEF EvictBlock
<1>2. NodesPerBlock \in Nat /\ CodesPerPage \in Nat BY AisaqStoreAssumption
<1>3. /\ Agrees(disk, count, graph, pages, rowMap)
      /\ graph \in Seq(Block(NodesPerBlock)) /\ OnDisk(disk, graph, NodesPerBlock)
      /\ pages \in Seq(Block(CodesPerPage)) /\ OnDisk(disk, pages, CodesPerPage)
  BY DEF KInv, Agrees
<1>4. ASSUME NEW n \in Nat, NEW blocks \in Seq(Block(n)), OnDisk(disk, blocks, n),
             NEW b \in 1 .. Len(blocks), blocks[b].id # Invalid,
             NEW new, new = [blocks EXCEPT ![b].mem = disk[blocks[b].id]]
      PROVE  /\ new \in Seq(Block(n)) /\ OnDisk(disk, new, n)
             /\ \A at \in Nat \ {0} : \A slot, r :
                  Keeps(disk, blocks, at, slot, r) => Keeps(disk, new, at, slot, r)
  <2> DEFINE v == [blocks[b] EXCEPT !.mem = disk[blocks[b].id]]
  <2>1. v = [id |-> blocks[b].id, mem |-> disk[blocks[b].id]]
    <3>1. blocks[b] \in Block(n) OBVIOUS
    <3> QED BY <3>1 DEF Block
  <2>2. new = [blocks EXCEPT ![b] = v] BY <1>4
  <2> HIDE DEF v
  <2>3. /\ Listed(new, Len(blocks)) /\ new[b] = v
        /\ \A c \in 1 .. Len(blocks) : c # b => new[c] = blocks[c]
    <3>1. DOMAIN blocks = 1 .. Len(blocks) OBVIOUS
    <3> QED BY <2>2, <3>1 DEF Listed
  <2>4. \A c \in 1 .. Len(blocks) :
           \/ new[c] = blocks[c]
           \/ /\ blocks[c].id # Invalid
              /\ new[c] = [id |-> blocks[c].id, mem |-> disk[blocks[c].id]]
    BY <1>4, <2>1, <2>3
  <2>5. Listed(new, Len(blocks)) /\ OnDisk(disk, blocks, n) BY <1>4, <2>3
  <2> QED BY <2>4, <2>5, BlocksLoaded
<1>5. ASSUME NEW n \in Nat, NEW blocks \in Seq(Block(n)), OnDisk(disk, blocks, n)
      PROVE  \A at \in Nat \ {0} : \A slot, r :
                Keeps(disk, blocks, at, slot, r) => Keeps(disk, blocks, at, slot, r)
  OBVIOUS
<1>6. Agrees(disk, count, graph', pages', rowMap)
  <2>1. ASSUME NEW b \in 1 .. Len(graph), graph[b].id # Invalid,
               graph' = [graph EXCEPT ![b].mem = disk[graph[b].id]], pages' = pages
        PROVE  Agrees(disk, count, graph', pages', rowMap)
    <3>1. /\ graph' \in Seq(Block(NodesPerBlock)) /\ OnDisk(disk, graph', NodesPerBlock)
          /\ \A at \in Nat \ {0} : \A slot, r :
                Keeps(disk, graph, at, slot, r) => Keeps(disk, graph', at, slot, r)
      <4>1. /\ NodesPerBlock \in Nat /\ graph \in Seq(Block(NodesPerBlock))
            /\ OnDisk(disk, graph, NodesPerBlock)
        BY <1>2, <1>3
      <4>2. graph' = [graph EXCEPT ![b].mem = disk[graph[b].id]] BY <2>1
      <4> QED BY <1>4, <2>1, <4>1, <4>2
    <3> QED BY <1>3, <2>1, <3>1, StillAgrees
  <2>2. ASSUME NEW b \in 1 .. Len(pages), pages[b].id # Invalid,
               pages' = [pages EXCEPT ![b].mem = disk[pages[b].id]], graph' = graph
        PROVE  Agrees(disk, count, graph', pages', rowMap)
    <3>1. /\ pages' \in Seq(Block(CodesPerPage)) /\ OnDisk(disk, pages', CodesPerPage)
          /\ \A at \in Nat \ {0} : \A slot, r :
                Keeps(disk, pages, at, slot, r) => Keeps(disk, pages', at, slot, r)
      <4>1. /\ CodesPerPage \in Nat /\ pages \in Seq(Block(CodesPerPage))
            /\ OnDisk(disk, pages, CodesPerPage)
        BY <1>2, <1>3
      <4>2. pages' = [pages EXCEPT ![b].mem = disk[pages[b].id]] BY <2>2
      <4> QED BY <1>4, <2>2, <4>1, <4>2
    <3> QED BY <1>3, <2>2, <3>1, StillAgrees
  <2> QED BY <2>1, <2>2 DEF EvictBlock, Evict
<1>7. Chains' BY <1>1, SameChains DEF KInv
<1>8. (stateFile.root # NoRoot /\ ~stateFile.logged => Reopens(disk, stateFile))'
  BY <1>1, SameFileReopens
<1> QED BY <1>1, <1>6, <1>7, <1>8 DEF KInv

(* A row that goes to the next node disturbs no node before it.            *)
LEMMA BlocksGrown ==
    ASSUME NEW g \in Seq(Block(NodesPerBlock)), NEW node \in Nat, NEW new,
           new = EnsureGraphCapacity(g, node), NEW d, OnDisk(d, g, NodesPerBlock)
    PROVE  /\ new \in Seq(Block(NodesPerBlock)) /\ BlockOf(node) <= Len(new)
           /\ OnDisk(d, new, NodesPerBlock)
           /\ \A at \in Nat \ {0} : \A slot, r :
                 Keeps(d, g, at, slot, r) => Keeps(d, new, at, slot, r)
<1> DEFINE more == [i \in 1 .. BlockOf(node) - Len(g) |-> NewBlock(NodesPerBlock)]
           B == Block(NodesPerBlock)
<1>1. NodesPerBlock \in Nat /\ BlockOf(node) \in Nat \ {0} /\ Len(g) \in Nat
  BY AisaqStoreAssumption, BlockPlaces
<1>2. NewBlock(NodesPerBlock) \in B /\ NewBlock(NodesPerBlock).id = Invalid
  BY DEF NewBlock, Block, Zeroes, Invalid
<1>3. PICK l \in Nat : /\ more = [i \in 1 .. l |-> NewBlock(NodesPerBlock)]
                       /\ BlockOf(node) <= Len(g) + l
  <2>1. CASE BlockOf(node) > Len(g)
    <3>1. BlockOf(node) - Len(g) \in Nat BY <1>1, <2>1
    <3>2. BlockOf(node) <= Len(g) + (BlockOf(node) - Len(g)) BY <1>1
    <3> QED BY <3>1, <3>2
  <2>2. CASE ~(BlockOf(node) > Len(g))
    <3>1. 1 .. BlockOf(node) - Len(g) = 1 .. 0 BY <1>1, <2>2
    <3>2. BlockOf(node) <= Len(g) + 0 BY <1>1, <2>2
    <3> QED BY <3>1, <3>2
  <2> QED BY <2>1, <2>2
<1> HIDE DEF more
<1>4. more \in Seq(B) /\ Len(more) = l
  <2>1. more \in [1 .. l -> B] BY <1>2, <1>3
  <2> HIDE DEF B
  <2> QED BY <2>1, FunctionIsSequence
<1>5. \A i \in 1 .. l : more[i].id = Invalid BY <1>2, <1>3
<1>6. new = g \o more BY DEF EnsureGraphCapacity, more
<1>7. /\ new \in Seq(B) /\ Len(new) = Len(g) + l
      /\ \A i \in 1 .. Len(g) : new[i] = g[i]
      /\ \A i \in 1 .. l : new[Len(g) + i] = more[i]
  <2>1. /\ g \o more \in Seq(B) /\ Len(g \o more) = Len(g) + Len(more)
        /\ \A i \in 1 .. Len(g) : (g \o more)[i] = g[i]
        /\ \A i \in 1 .. Len(more) : (g \o more)[Len(g) + i] = more[i]
    <3> HIDE DEF B
    <3>1. g \in Seq(B) BY DEF B
    <3> QED BY <1>4, <3>1, Concatenation
  <2> QED BY <1>4, <1>6, <2>1
<1>8. OnDisk(d, new, NodesPerBlock)
  <2>1. ASSUME NEW b \in 1 .. Len(new), new[b].id # Invalid
        PROVE  b \in 1 .. Len(g) /\ new[b] = g[b]
    <3>1. CASE b <= Len(g) BY <1>1, <1>7, <3>1
    <3>2. CASE b > Len(g)
      <4>1. b - Len(g) \in 1 .. l /\ Len(g) + (b - Len(g)) = b BY <1>1, <1>7, <3>2
      <4> QED BY <1>5, <1>7, <2>1, <4>1
    <3> QED BY <1>1, <3>1, <3>2
  <2> QED BY <2>1 DEF OnDisk
<1>9. ASSUME NEW at \in Nat \ {0}, NEW slot, NEW r, Keeps(d, g, at, slot, r)
      PROVE  Keeps(d, new, at, slot, r)
  <2>1. at \in 1 .. Len(g) BY <1>1, <1>9 DEF Keeps
  <2>2. new[at] = g[at] /\ at <= Len(new) BY <1>1, <1>7, <2>1
  <2> QED BY <1>9, <2>2 DEF Keeps
<1> QED BY <1>3, <1>7, <1>8, <1>9 DEF B

LEMMA InsertKeepsRows ==
    ASSUME KInv, NEW r \in LiveRows, AiSaqInsert(r)
    PROVE  KInv'
<1> DEFINE grown == EnsureGraphCapacity(graph, count)
           b == BlockOf(count)
           s == NodeSlot(count)
<1>1. /\ Agrees(disk, count, graph, pages, rowMap) /\ count \in Nat
      /\ graph \in Seq(Block(NodesPerBlock)) /\ OnDisk(disk, graph, NodesPerBlock)
      /\ pages \in Seq(Block(CodesPerPage)) /\ OnDisk(disk, pages, CodesPerPage)
      /\ rowMap \in SUBSET (Nat \X Nat)
  BY DEF KInv, Agrees
<1>2. /\ graph' = WriteNode(grown, count, r) /\ rowMap' = rowMap \cup {<<r, count>>}
      /\ count' = count + 1 /\ pages' = pages
      /\ UNCHANGED <<stateRoot, stateSegs, disk, stateFile>>
  BY DEF AiSaqInsert
<1>3. /\ grown \in Seq(Block(NodesPerBlock)) /\ b <= Len(grown)
      /\ OnDisk(disk, grown, NodesPerBlock)
      /\ \A at \in Nat \ {0} : \A slot, row :
            Keeps(disk, graph, at, slot, row) => Keeps(disk, grown, at, slot, row)
  BY <1>1, BlocksGrown
<1>4. r \in Nat /\ r > TableSize /\ TableSize \in Nat /\ NodesPerBlock \in Nat
  BY AisaqStoreAssumption
<1> HIDE DEF grown
<1>5. b \in 1 .. Len(grown) /\ s \in 1 .. NodesPerBlock
  <2>1. BlockOf(count) \in Nat \ {0} /\ NodeSlot(count) \in 1 .. NodesPerBlock
    BY <1>1, BlockPlaces
  <2>2. Len(grown) \in Nat BY <1>3
  <2> QED BY <1>3, <2>1, <2>2
<1> DEFINE put == [grown[b] EXCEPT !.mem = [@ EXCEPT ![s] = r]]
<1>6. /\ graph' \in Seq(Block(NodesPerBlock)) /\ Len(graph') = Len(grown)
      /\ \A c \in 1 .. Len(grown) : c # b => graph'[c] = grown[c]
      /\ graph'[b].id = grown[b].id
      /\ \A slot \in 1 .. NodesPerBlock : slot # s => graph'[b].mem[slot] = grown[b].mem[slot]
  <2>1. grown[b] \in Block(NodesPerBlock) BY <1>3, <1>5
  <2>2. grown[b].mem \in [1 .. NodesPerBlock -> Nat] /\ grown[b].id \in Nat BY <2>1 DEF Block
  <2>3. put = [id |-> grown[b].id, mem |-> [grown[b].mem EXCEPT ![s] = r]]
    BY <2>1 DEF Block
  <2>4. [grown[b].mem EXCEPT ![s] = r] \in [1 .. NodesPerBlock -> Nat] BY <1>4, <2>2
  <2>5. put \in Block(NodesPerBlock) BY <2>2, <2>3, <2>4 DEF Block
  <2>6. graph' = [grown EXCEPT ![b] = put] BY <1>2 DEF WriteNode
  <2>7. put.id = grown[b].id /\ put.mem = [grown[b].mem EXCEPT ![s] = r] BY <2>3
  <2> HIDE DEF put, b, s
  <2>8. graph' \in Seq(Block(NodesPerBlock)) /\ Len(graph') = Len(grown) /\ graph'[b] = put
    BY <1>3, <1>5, <2>5, <2>6
  <2>9. \A c \in 1 .. Len(grown) : c # b => graph'[c] = grown[c] BY <1>3, <2>6
  <2>10. \A slot \in 1 .. NodesPerBlock : slot # s => put.mem[slot] = grown[b].mem[slot]
    BY <2>2, <2>7
  <2> QED BY <2>7, <2>8, <2>9, <2>10
<1>7. OnDisk(disk, graph', NodesPerBlock)
  <2> HIDE DEF b, s
  <2>1. \A c \in 1 .. Len(grown) : graph'[c].id = grown[c].id BY <1>5, <1>6
  <2> QED BY <1>3, <1>6, <2>1 DEF OnDisk
<1>8. ASSUME NEW pair \in rowMap', pair[1] <= TableSize
      PROVE  pair[2] < count' /\ KeepsRow(disk, graph', pages, pair)
  <2>1. pair \in rowMap BY <1>2, <1>4, <1>8
  <2>2. pair[2] < count /\ KeepsRow(disk, graph, pages, pair) /\ pair[2] \in Nat
    BY <1>1, <1>8, <2>1 DEF Agrees
  <2> DEFINE at == BlockOf(pair[2])
             slot == NodeSlot(pair[2])
  <2>3. at \in Nat \ {0} /\ slot \in 1 .. NodesPerBlock /\ (at = b => slot # s)
    <3>1. pair[2] # count BY <1>1, <2>2
    <3> QED BY <1>1, <2>2, <3>1, BlockPlaces
  <2>4. Keeps(disk, graph, at, slot, pair[1]) BY <2>2 DEF KeepsRow
  <2>5. Keeps(disk, grown, at, slot, pair[1]) BY <1>3, <2>3, <2>4
  <2> HIDE DEF at, slot, b, s
  <2>6. at \in 1 .. Len(grown) BY <1>3, <2>3, <2>5 DEF Keeps
  <2>7. graph'[at].id = grown[at].id /\ graph'[at].mem[slot] = grown[at].mem[slot]
    BY <1>6, <2>3, <2>6
  <2>8. Keeps(disk, graph', at, slot, pair[1]) BY <1>6, <2>5, <2>7 DEF Keeps
  <2>9. pair[2] < count' BY <1>1, <1>2, <2>2
  <2> QED BY <2>2, <2>8, <2>9 DEF KeepsRow, at, slot
<1>9. rowMap' \in SUBSET (Nat \X Nat) /\ count' \in Nat BY <1>1, <1>2, <1>4
<1>10. Agrees(disk', count', graph', pages', rowMap')
  BY <1>1, <1>2, <1>6, <1>7, <1>8, <1>9 DEF Agrees
<1>11. IsFiniteSet(rowMap') BY <1>2, FS_AddElement DEF KInv
<1>12. Chains' BY <1>2 DEF KInv, Chains
<1>13. (stateFile.root # NoRoot /\ ~stateFile.logged => Reopens(disk, stateFile))'
  BY <1>2, SameFileReopens
<1> QED BY <1>2, <1>10, <1>11, <1>12, <1>13 DEF KInv

(* CREATE INDEX puts each row in its node and its code in its page.        *)
LEMMA NodesLinked ==
    ASSUME NEW n \in Nat \ {0}, NEW table \in [1 .. n -> Nat], NEW d
    PROVE  /\ Linked(table) \in Seq(Block(NodesPerBlock))
           /\ OnDisk(d, Linked(table), NodesPerBlock)
           /\ \A i \in 1 .. n : table[i] # Null =>
                Keeps(d, Linked(table), BlockOf(i - 1), NodeSlot(i - 1), table[i])
<1> DEFINE blocks == EnsureGraphCapacity(<<>>, Len(table) - 1)
           RowAt(node) == IF node < Len(table) /\ table[node + 1] # Null THEN table[node + 1] ELSE 0
           N == NodesPerBlock
           Mem(b) == [i \in 1 .. N |-> RowAt((b - 1) * N + i - 1)]
           new == Linked(table)
<1>1. Len(table) = n /\ n - 1 \in Nat BY FunctionIsSequence
<1>2. N \in Nat \ {0} BY AisaqStoreAssumption
<1>3. /\ blocks \in Seq(Block(N)) /\ BlockOf(n - 1) <= Len(blocks)
      /\ OnDisk(<<>>, blocks, N)
  <2>1. <<>> \in Seq(Block(N)) /\ OnDisk(<<>>, <<>>, N) BY DEF OnDisk
  <2>2. blocks = EnsureGraphCapacity(<<>>, n - 1) BY <1>1
  <2>3. PICK node \in Nat : node = n - 1 BY <1>1
  <2> HIDE DEF blocks
  <2>4. blocks = EnsureGraphCapacity(<<>>, node) BY <2>2, <2>3
  <2>5. /\ blocks \in Seq(Block(N)) /\ BlockOf(node) <= Len(blocks)
        /\ OnDisk(<<>>, blocks, N)
    BY <2>1, <2>4, BlocksGrown DEF N
  <2> QED BY <2>3, <2>5
<1>4. \A b \in 1 .. Len(blocks) : blocks[b].id = Invalid /\ blocks[b] \in Block(N)
  <2>1. Len(<<>>) = 0 OBVIOUS
  <2> HIDE DEF blocks, N
  <2>2. \A b \in 1 .. Len(blocks) : blocks[b].id # Invalid => blocks[b].id \in 1 .. 0
    BY <1>3, <2>1 DEF OnDisk
  <2> QED BY <1>3, <2>2
<1>5. new = [b \in 1 .. Len(blocks) |-> [blocks[b] EXCEPT !.mem = Mem(b)]]
  BY DEF Linked
<1>6. ASSUME NEW b \in 1 .. Len(blocks)
      PROVE  new[b] = [id |-> Invalid, mem |-> Mem(b)]
  <2>1. new[b] = [blocks[b] EXCEPT !.mem = Mem(b)] BY <1>5
  <2>2. blocks[b] \in Block(N) /\ blocks[b].id = Invalid BY <1>4
  <2> HIDE DEF blocks, Mem, new
  <2> QED BY <2>1, <2>2 DEF Block
<1>7. ASSUME NEW b \in 1 .. Len(blocks), NEW i \in 1 .. N
      PROVE  (b - 1) * N + i - 1 \in Nat
  <2>1. b - 1 \in Nat /\ i - 1 \in Nat BY <1>3
  <2>2. (b - 1) * N \in Nat BY <1>2, <2>1
  <2> QED BY <1>2, <2>1, <2>2
<1>8. \A node \in Nat : RowAt(node) \in Nat
  <2> TAKE node \in Nat
  <2>1. node < n => node + 1 \in 1 .. n OBVIOUS
  <2> QED BY <1>1, <2>1
<1>9. ASSUME NEW b \in 1 .. Len(blocks) PROVE Mem(b) \in [1 .. N -> Nat]
  <2> HIDE DEF RowAt
  <2> QED BY <1>7, <1>8
<1>10. new \in Seq(Block(N)) /\ Len(new) = Len(blocks)
  <2>1. Len(blocks) \in Nat BY <1>3
  <2>2. \A b \in 1 .. Len(blocks) : new[b] \in Block(N)
    <3> TAKE b \in 1 .. Len(blocks)
    <3>1. Mem(b) \in [1 .. N -> Nat] BY <1>9
    <3> HIDE DEF Mem, new, blocks, N
    <3>2. [id |-> Invalid, mem |-> Mem(b)] \in Block(N) BY <3>1 DEF Block, Invalid
    <3> QED BY <1>6, <3>2
  <2>3. new \in [1 .. Len(blocks) -> Block(N)]
    <3>1. new = [b \in 1 .. Len(blocks) |-> new[b]] BY <1>5
    <3> HIDE DEF new, blocks
    <3> QED BY <2>2, <3>1
  <2> HIDE DEF new, blocks
  <2> QED BY <2>1, <2>3, FunctionIsSequence
<1>11. OnDisk(d, new, N)
  <2> HIDE DEF new, blocks, Mem
  <2>1. ASSUME NEW b \in 1 .. Len(blocks) PROVE new[b].id = Invalid
    <3>1. new[b] = [id |-> Invalid, mem |-> Mem(b)] BY <1>6
    <3> QED BY <3>1
  <2> QED BY <1>10, <2>1 DEF OnDisk
<1>12. ASSUME NEW i \in 1 .. n, table[i] # Null
       PROVE  Keeps(d, new, BlockOf(i - 1), NodeSlot(i - 1), table[i])
  <2> DEFINE b == BlockOf(i - 1)
             s == NodeSlot(i - 1)
  <2>1. i - 1 \in Nat /\ i - 1 <= n - 1 /\ (i - 1) + 1 = i OBVIOUS
  <2>2. b \in Nat \ {0} /\ s \in 1 .. N /\ b <= BlockOf(n - 1) /\ (b - 1) * N + s = i
    BY <1>1, <2>1, BlockPlaces
  <2> HIDE DEF b, s
  <2>3. b \in 1 .. Len(blocks)
    <3>1. BlockOf(n - 1) \in Nat BY <1>1, BlockPlaces
    <3>2. Len(blocks) \in Nat BY <1>3
    <3> QED BY <1>3, <2>2, <3>1, <3>2
  <2>4. Mem(b)[s] = table[i]
    <3>1. Mem(b)[s] = RowAt((b - 1) * N + s - 1) BY <2>2
    <3>2. (b - 1) * N + s - 1 = i - 1
      <4> DEFINE x == (b - 1) * N
      <4>1. x \in Nat
        <5>1. b - 1 \in Nat BY <2>2
        <5> QED BY <1>2, <5>1
      <4>2. x + s = i /\ s \in Nat BY <1>2, <2>2
      <4> HIDE DEF x
      <4>3. x + s - 1 = i - 1 BY <4>1, <4>2
      <4> QED BY <4>3 DEF x
    <3>3. RowAt(i - 1) = table[i] BY <1>1, <1>12, <2>1
    <3> HIDE DEF Mem, RowAt
    <3> QED BY <3>1, <3>2, <3>3
  <2>5. new[b] = [id |-> Invalid, mem |-> Mem(b)] BY <1>6, <2>3
  <2>6. b <= Len(new) BY <1>10, <2>3
  <2> HIDE DEF new, Mem, blocks
  <2> QED BY <2>4, <2>5, <2>6 DEF Keeps, b, s
<1> QED BY <1>10, <1>11, <1>12 DEF N

LEMMA RowsCoded ==
    ASSUME NEW n \in Nat \ {0}, NEW table \in [1 .. n -> Nat], NEW d
    PROVE  /\ Coded(table) \in Seq(Block(CodesPerPage))
           /\ OnDisk(d, Coded(table), CodesPerPage)
           /\ \A i \in 1 .. n : table[i] # Null =>
                Keeps(d, Coded(table), PageOf(i - 1), CodeSlot(i - 1), table[i])
<1> DEFINE C == CodesPerPage
           needed == (Len(table) + C - 1) \div C
           Code(row) == IF row \in DOMAIN table /\ table[row] # Null THEN table[row] ELSE 0
           Mem(p) == [i \in 1 .. C |-> Code((p - 1) * C + i)]
           new == Coded(table)
<1>1. Len(table) = n /\ DOMAIN table = 1 .. n BY FunctionIsSequence
<1>2. C \in Nat \ {0} BY AisaqStoreAssumption
<1>3. needed \in Nat /\ needed = (n + C - 1) \div C
  <2>1. n + C - 1 \in Nat BY <1>2
  <2> QED BY <1>1, <1>2, <2>1, Division
<1>4. new = [p \in 1 .. needed |-> [id |-> Invalid, mem |-> Mem(p)]]
  BY DEF Coded
<1>5. \A row : Code(row) \in Nat BY <1>1
<1>6. \A p : Mem(p) \in [1 .. C -> Nat]
  <2> HIDE DEF Code
  <2> QED BY <1>5
<1> HIDE DEF needed
<1>7. new \in Seq(Block(C)) /\ Len(new) = needed
  <2>1. new \in [1 .. needed -> Block(C)]
    <3> HIDE DEF Mem, new
    <3>1. \A p \in 1 .. needed : [id |-> Invalid, mem |-> Mem(p)] \in Block(C)
      BY <1>6 DEF Block, Invalid
    <3> QED BY <1>4, <3>1
  <2> HIDE DEF new
  <2> QED BY <1>3, <2>1, FunctionIsSequence
<1>8. OnDisk(d, new, C)
  <2> HIDE DEF new, Mem
  <2>1. \A p \in 1 .. needed : new[p].id = Invalid BY <1>4
  <2> QED BY <1>7, <2>1 DEF OnDisk
<1>9. ASSUME NEW i \in 1 .. n, table[i] # Null
      PROVE  Keeps(d, new, PageOf(i - 1), CodeSlot(i - 1), table[i])
  <2> DEFINE p == PageOf(i - 1)
             s == CodeSlot(i - 1)
  <2>1. i - 1 \in Nat /\ i - 1 < n /\ (i - 1) + 1 = i OBVIOUS
  <2>2. p \in Nat \ {0} /\ s \in 1 .. C /\ p <= needed /\ (p - 1) * C + s = i
    BY <1>3, <2>1, PagePlaces
  <2> HIDE DEF p, s
  <2>3. p \in 1 .. needed BY <1>3, <2>2
  <2>4. Mem(p)[s] = table[i]
    <3>1. Mem(p)[s] = Code((p - 1) * C + s) BY <2>2
    <3>2. Code(i) = table[i] BY <1>1, <1>9
    <3> HIDE DEF Mem, Code
    <3> QED BY <2>2, <3>1, <3>2
  <2>5. new[p] = [id |-> Invalid, mem |-> Mem(p)] BY <1>4, <2>3
  <2> HIDE DEF new, Mem
  <2> QED BY <1>3, <1>7, <2>3, <2>4, <2>5 DEF Keeps, p, s
<1> QED BY <1>7, <1>8, <1>9 DEF C

LEMMA CreateKeepsRows ==
    ASSUME KInv, NEW table \in Tables, CreateIndex(table)
    PROVE  KInv'
<1>1. PICK n \in 1 .. TableSize, nulls \in SUBSET (1 .. TableSize) :
         table = [i \in 1 .. n |-> IF i \in nulls THEN Null ELSE i]
  BY DEF Tables
<1>2. n \in Nat \ {0} BY AisaqStoreAssumption
<1>3. /\ table \in [1 .. n -> Nat] /\ Len(table) = n
      /\ \A i \in 1 .. n : table[i] \in Nat
  <2>1. table \in [1 .. n -> Nat] BY <1>1, <1>2 DEF Null
  <2> QED BY <1>2, <2>1, FunctionIsSequence
<1> DEFINE rowsIn == {j \in 1 .. Len(table) : table[j] # Null}
           map == {<<table[i], i - 1>> : i \in rowsIn}
<1>4. /\ pages' = Coded(table) /\ graph' = Linked(table) /\ count' = n /\ rowMap' = map
      /\ UNCHANGED <<stateRoot, stateSegs, disk, stateFile>>
  BY <1>3 DEF CreateIndex
<1>5. rowsIn \in SUBSET (1 .. n) BY <1>3
<1>6. map \in SUBSET (Nat \X Nat) BY <1>2, <1>3
<1>7. IsFiniteSet(map)
  <2> DEFINE f == [i \in rowsIn |-> <<table[i], i - 1>>]
  <2>1. IsFiniteSet(rowsIn)
    <3>1. IsFiniteSet(1 .. n) BY <1>2, FS_Interval
    <3> QED BY <1>5, <3>1, FS_Subset
  <2>2. f \in Surjection(rowsIn, map) BY DEF Surjection
  <2> HIDE DEF map, rowsIn, f
  <2> QED BY <2>1, <2>2, FS_Surjection
<1>8. ASSUME NEW pair \in map
      PROVE  pair[2] < n /\ KeepsRow(disk, Linked(table), Coded(table), pair)
  <2>1. PICK i \in 1 .. n : table[i] # Null /\ pair = <<table[i], i - 1>> BY <1>5
  <2>2. /\ Keeps(disk, Linked(table), BlockOf(i - 1), NodeSlot(i - 1), table[i])
        /\ Keeps(disk, Coded(table), PageOf(i - 1), CodeSlot(i - 1), table[i])
    BY <1>2, <1>3, <2>1, NodesLinked, RowsCoded
  <2>3. pair[1] = table[i] /\ pair[2] = i - 1 /\ i - 1 < n BY <1>2, <2>1
  <2> QED BY <2>2, <2>3 DEF KeepsRow
<1> HIDE DEF map
<1>9. /\ Linked(table) \in Seq(Block(NodesPerBlock)) /\ OnDisk(disk, Linked(table), NodesPerBlock)
      /\ Coded(table) \in Seq(Block(CodesPerPage)) /\ OnDisk(disk, Coded(table), CodesPerPage)
  BY <1>2, <1>3, NodesLinked, RowsCoded
<1>10. n \in Nat BY <1>2
<1>11. Agrees(disk, n, Linked(table), Coded(table), map) BY <1>6, <1>8, <1>9, <1>10 DEF Agrees
<1>12. Agrees(disk', count', graph', pages', rowMap') BY <1>4, <1>11
<1>13. Chains' BY <1>4 DEF KInv, Chains
<1>14. (stateFile.root # NoRoot /\ ~stateFile.logged => Reopens(disk, stateFile))'
  BY <1>4, SameFileReopens
<1> QED BY <1>4, <1>7, <1>12, <1>13, <1>14 DEF KInv

(* A restart from a checkpoint has what the stream spells.                 *)
LEMMA RestartKeepsRows ==
    ASSUME KInv, ~LoggedBuild, AiSaqRestart
    PROVE  KInv'
<1> DEFINE f == stateFile
           Field(i) == ReadOne(f.segs, f.root, i)
           Fields(i, n) == ReadSome(f.segs, f.root, i, n)
           nGraph == Field(2)
           nPages == Field(3 + nGraph)
           nRows == Field(4 + nGraph + nPages)
           pairs == Fields(4 + nGraph + nPages, 2 * nRows)
           Opened(id) == [id |-> id, mem |-> Loaded(id)]
<1>1. /\ count' = Field(1)
      /\ graph' = [i \in 1 .. nGraph |-> Opened(Fields(2, nGraph)[i])]
      /\ pages' = [i \in 1 .. nPages |-> Opened(Fields(3 + nGraph, nPages)[i])]
      /\ rowMap' = {<<pairs[2 * i - 1], pairs[2 * i]>> : i \in 1 .. nRows}
      /\ stateRoot' = f.root /\ stateSegs' = f.segs /\ UNCHANGED <<disk, stateFile>>
  BY DEF AiSaqRestart
<1>2. Reopens(disk, stateFile) BY DEF KInv, AiSaqRestart
<1>3. PICK c, g, p, words, list :
        /\ Agrees(disk, c, g, p, Range(list)) /\ AllLoaded(disk, g) /\ AllLoaded(disk, p)
        /\ list \in Seq(Nat \X Nat) /\ Spells(words, c, g, p, list)
        /\ Gives(f.segs, f.root, words)
  BY <1>2 DEF Reopens
<1> DEFINE G == Len(g)
           P == Len(p)
           N == Len(list)
<1>4. /\ g \in Seq(Block(NodesPerBlock)) /\ p \in Seq(Block(CodesPerPage))
      /\ G \in Nat /\ P \in Nat /\ N \in Nat
  BY <1>3 DEF Agrees
<1>5. /\ words \in Seq(Nat) /\ Len(words) = (4 + G + P) + 2 * N
      /\ words[1] = c /\ words[2] = G
      /\ \A i \in 1 .. G : words[2 + i] = g[i].id
      /\ words[3 + G] = P
      /\ \A i \in 1 .. P : words[(3 + G) + i] = p[i].id
      /\ words[4 + G + P] = N
      /\ \A i \in 1 .. N : /\ words[(4 + G + P) + (2 * i - 1)] = list[i][1]
                           /\ words[(4 + G + P) + 2 * i] = list[i][2]
  BY <1>3 DEF Spells
<1> HIDE DEF G, P, N, f
<1>6. /\ \A i \in 1 .. Len(words) : Field(i) = words[i]
      /\ \A at, n \in Nat : at + n <= Len(words) =>
            \A i \in 1 .. n : Fields(at, n)[i] = words[at + i]
  <2>1. words \in Seq(Nat) /\ Gives(f.segs, f.root, words) BY <1>3, <1>5
  <2>2. \A i \in 1 .. Len(words) : Field(i) = words[i] BY <2>1, WordRead
  <2>3. ASSUME NEW at \in Nat, NEW n \in Nat, at + n <= Len(words), NEW i \in 1 .. n
        PROVE  Fields(at, n)[i] = words[at + i]
    BY <2>1, <2>3, WordsRead
  <2> QED BY <2>2, <2>3
<1> HIDE DEF Field, Fields
<1>7. Field(1) = c /\ nGraph = G
  <2>1. 1 \in 1 .. Len(words) /\ 2 \in 1 .. Len(words)
    <3>1. Len(words) = (4 + G + P) + 2 * N BY <1>5
    <3> QED BY <1>4, <3>1
  <2> QED BY <1>5, <1>6, <2>1
<1>8. nPages = P
  <2>1. 3 + G \in 1 .. Len(words)
    <3>1. Len(words) = (4 + G + P) + 2 * N BY <1>5
    <3> QED BY <1>4, <3>1
  <2> QED BY <1>5, <1>6, <1>7, <2>1
<1>9. nRows = N
  <2>1. 4 + G + P \in 1 .. Len(words)
    <3>1. Len(words) = (4 + G + P) + 2 * N BY <1>5
    <3> QED BY <1>4, <3>1
  <2> QED BY <1>5, <1>6, <1>7, <1>8, <2>1
<1> HIDE DEF nGraph, nPages, nRows
<1>10. ASSUME NEW B, NEW blocks \in Seq(Block(B)), AllLoaded(disk, blocks),
              NEW at \in Nat, at + Len(blocks) <= Len(words),
              \A i \in 1 .. Len(blocks) : words[at + i] = blocks[i].id
       PROVE  [i \in 1 .. Len(blocks) |-> Opened(Fields(at, Len(blocks))[i])] = blocks
  <2>1. ASSUME NEW i \in 1 .. Len(blocks)
        PROVE  Opened(Fields(at, Len(blocks))[i]) = blocks[i]
    <3>1. Len(blocks) \in Nat OBVIOUS
    <3>2. Fields(at, Len(blocks))[i] = blocks[i].id BY <1>6, <1>10, <3>1
    <3>3. blocks[i].id # Invalid /\ blocks[i].mem = disk[blocks[i].id]
      BY <1>10 DEF AllLoaded
    <3>4. blocks[i] \in Block(B) OBVIOUS
    <3>5. blocks[i] = [id |-> blocks[i].id, mem |-> blocks[i].mem] BY <3>4 DEF Block
    <3> QED BY <3>2, <3>3, <3>5 DEF Loaded
  <2>2. blocks = [i \in 1 .. Len(blocks) |-> blocks[i]] OBVIOUS
  <2> HIDE DEF Opened
  <2> QED BY <2>1, <2>2
<1>11. graph' = g
  <2>1. 2 + Len(g) <= Len(words) /\ \A i \in 1 .. Len(g) : words[2 + i] = g[i].id
    <3>1. Len(words) = (4 + G + P) + 2 * N BY <1>5
    <3>2. 2 + G <= Len(words) BY <1>4, <3>1
    <3> QED BY <1>5, <3>2 DEF G
  <2>2. [i \in 1 .. Len(g) |-> Opened(Fields(2, Len(g))[i])] = g BY <1>3, <1>4, <1>10, <2>1
  <2> QED BY <1>1, <1>7, <2>2 DEF G
<1>12. pages' = p
  <2>1. /\ 3 + G \in Nat /\ (3 + G) + Len(p) <= Len(words)
        /\ \A i \in 1 .. Len(p) : words[(3 + G) + i] = p[i].id
    BY <1>4, <1>5 DEF P
  <2>2. [i \in 1 .. Len(p) |-> Opened(Fields(3 + G, Len(p))[i])] = p
    BY <1>3, <1>4, <1>10, <2>1
  <2> QED BY <1>1, <1>7, <1>8, <2>2 DEF P
<1>13. \A i \in 1 .. N : <<pairs[2 * i - 1], pairs[2 * i]>> = list[i]
  <2> TAKE i \in 1 .. N
  <2>1. 2 * i - 1 \in 1 .. 2 * N /\ 2 * i \in 1 .. 2 * N BY <1>4
  <2>2. pairs = Fields(4 + G + P, 2 * N) BY <1>7, <1>8, <1>9
  <2>3. 4 + G + P \in Nat /\ 2 * N \in Nat /\ (4 + G + P) + 2 * N <= Len(words) BY <1>4, <1>5
  <2>4. \A j \in 1 .. 2 * N : Fields(4 + G + P, 2 * N)[j] = words[(4 + G + P) + j]
    BY <1>6, <2>3
  <2>5. pairs[2 * i - 1] = list[i][1] /\ pairs[2 * i] = list[i][2]
    BY <1>5, <2>1, <2>2, <2>4
  <2>6. list[i] \in Nat \X Nat BY <1>3 DEF N
  <2> QED BY <2>5, <2>6
<1>14. rowMap' = {list[i] : i \in 1 .. N} BY <1>1, <1>9, <1>13
<1>15. rowMap' = Range(list)
  <2>1. DOMAIN list = 1 .. N BY <1>3 DEF N
  <2> QED BY <1>14, <2>1 DEF Range
<1>16. IsFiniteSet(rowMap')
  <2>1. DOMAIN list = 1 .. N BY <1>3 DEF N
  <2>2. IsFiniteSet(1 .. N) BY <1>4, FS_Interval
  <2>3. list \in Surjection(1 .. N, rowMap') BY <1>3, <1>14, <2>1 DEF Surjection, N
  <2> QED BY <2>2, <2>3, FS_Surjection
<1>17. count' = c BY <1>1, <1>7
<1>18. Agrees(disk', count', graph', pages', rowMap') BY <1>1, <1>3, <1>11, <1>12, <1>15, <1>17
<1>19. Chains' BY <1>1 DEF KInv, Chains, f
<1>20. (stateFile.root # NoRoot /\ ~stateFile.logged => Reopens(disk, stateFile))'
  BY <1>1, SameFileReopens
<1>21. disk' \in Seq(Range(disk')) BY <1>1 DEF KInv
<1> QED BY <1>16, <1>18, <1>19, <1>20, <1>21 DEF KInv

-----------------------------------------------------------------------------
(* A checkpoint: ids for the blocks without one, then the stream.          *)

Rank(blocks, i) == Cardinality({j \in Transient(blocks) : j <= i})

LEMMA Ranks ==
    ASSUME NEW blocks, Len(blocks) \in Nat
    PROVE  /\ Cardinality(Transient(blocks)) \in Nat
           /\ \A i \in Transient(blocks) : Rank(blocks, i) \in 1 .. Cardinality(Transient(blocks))
           /\ \A i, k \in Transient(blocks) : Rank(blocks, i) = Rank(blocks, k) => i = k
<1> DEFINE T == Transient(blocks)
           UpTo(i) == {j \in T : j <= i}
<1>1. IsFiniteSet(T) /\ T \subseteq Nat
  <2>1. IsFiniteSet(1 .. Len(blocks)) BY FS_Interval
  <2>2. T \subseteq 1 .. Len(blocks) BY DEF Transient
  <2> HIDE DEF T
  <2>3. IsFiniteSet(T) BY <2>1, <2>2, FS_Subset
  <2>4. T \subseteq Nat BY <2>2
  <2> QED BY <2>3, <2>4
<1> HIDE DEF T
<1>2. Cardinality(T) \in Nat BY <1>1, FS_CardinalityType
<1>3. ASSUME NEW i \in T
      PROVE  /\ IsFiniteSet(UpTo(i)) /\ Cardinality(UpTo(i)) \in Nat
             /\ Cardinality(UpTo(i)) <= Cardinality(T) /\ Cardinality(UpTo(i)) # 0
  <2>1. UpTo(i) \subseteq T OBVIOUS
  <2>2. i \in UpTo(i) BY <1>1
  <2> HIDE DEF UpTo
  <2>3. IsFiniteSet(UpTo(i)) /\ Cardinality(UpTo(i)) <= Cardinality(T) BY <1>1, <2>1, FS_Subset
  <2>4. Cardinality(UpTo(i)) \in Nat BY <2>3, FS_CardinalityType
  <2>5. Cardinality(UpTo(i)) # 0 BY <2>2, <2>3, FS_EmptySet
  <2> QED BY <2>3, <2>4, <2>5
<1>4. ASSUME NEW i \in T, NEW k \in T, i < k
      PROVE  Cardinality(UpTo(i)) < Cardinality(UpTo(k))
  <2>1. UpTo(i) \subseteq UpTo(k) /\ k \in UpTo(k) /\ k \notin UpTo(i)
    <3>1. i \in Nat /\ k \in Nat /\ \A j \in T : j \in Nat BY <1>1
    <3>2. k <= k /\ ~(k <= i) /\ \A j \in T : j <= i => j <= k BY <1>4, <3>1
    <3> QED BY <3>2
  <2>2. /\ IsFiniteSet(UpTo(k)) /\ Cardinality(UpTo(k)) \in Nat /\ Cardinality(UpTo(i)) \in Nat
    BY <1>3
  <2> HIDE DEF UpTo
  <2>3. Cardinality(UpTo(i)) <= Cardinality(UpTo(k))
        /\ (Cardinality(UpTo(i)) = Cardinality(UpTo(k)) => UpTo(i) = UpTo(k))
    BY <2>1, <2>2, FS_Subset
  <2> QED BY <2>1, <2>2, <2>3
<1>5. ASSUME NEW i \in T, NEW k \in T, Cardinality(UpTo(i)) = Cardinality(UpTo(k))
      PROVE  i = k
  <2>1. i \in Nat /\ k \in Nat BY <1>1
  <2>2. Cardinality(UpTo(i)) \in Nat /\ Cardinality(UpTo(k)) \in Nat BY <1>3
  <2> HIDE DEF UpTo
  <2>3. ~(i < k) BY <1>4, <1>5, <2>2
  <2>4. ~(k < i) BY <1>4, <1>5, <2>2
  <2> QED BY <2>1, <2>3, <2>4
<1>6. \A i \in T : UpTo(i) = {j \in Transient(blocks) : j <= i} BY DEF T
<1> QED BY <1>2, <1>3, <1>5 DEF Rank, T

LEMMA BlocksConverted ==
    ASSUME NEW n \in Nat, NEW blocks \in Seq(Block(n)), NEW taken \in Nat, NEW new,
           new = Converted(blocks, taken)
    PROVE  /\ new \in Seq(Block(n)) /\ Len(new) = Len(blocks) /\ Listed(new, Len(blocks))
           /\ \A b \in 1 .. Len(blocks) : blocks[b].id # Invalid => new[b] = blocks[b]
           /\ \A b \in 1 .. Len(blocks) : blocks[b].id = Invalid =>
                /\ b \in Transient(blocks)
                /\ new[b] = [id |-> new[b].id, mem |-> blocks[b].mem]
                /\ new[b].id = taken + Rank(blocks, b)
<1>1. Len(blocks) \in Nat OBVIOUS
<1>2. new = [i \in 1 .. Len(blocks) |->
               IF NeedsId(blocks[i]) THEN [blocks[i] EXCEPT !.id = taken + Rank(blocks, i)]
                                     ELSE blocks[i]]
  BY DEF Converted, IdFor, Rank
<1>3. Listed(new, Len(blocks)) BY <1>2 DEF Listed
<1>4. ASSUME NEW b \in 1 .. Len(blocks), blocks[b].id # Invalid
      PROVE  new[b] = blocks[b] /\ new[b] \in Block(n)
  <2>1. ~NeedsId(blocks[b]) BY <1>4 DEF NeedsId
  <2>2. blocks[b] \in Block(n) OBVIOUS
  <2> QED BY <1>2, <2>1, <2>2
<1>5. ASSUME NEW b \in 1 .. Len(blocks), blocks[b].id = Invalid
      PROVE  /\ b \in Transient(blocks) /\ new[b] \in Block(n)
             /\ new[b] = [id |-> new[b].id, mem |-> blocks[b].mem]
             /\ new[b].id = taken + Rank(blocks, b)
  <2>1. NeedsId(blocks[b]) BY <1>5 DEF NeedsId
  <2>2. b \in Transient(blocks) BY <2>1 DEF Transient
  <2>3. blocks[b] \in Block(n) OBVIOUS
  <2>4. new[b] = [blocks[b] EXCEPT !.id = taken + Rank(blocks, b)] BY <1>2, <2>1
  <2>5. new[b] = [id |-> taken + Rank(blocks, b), mem |-> blocks[b].mem]
    BY <2>3, <2>4 DEF Block
  <2>6. taken + Rank(blocks, b) \in Nat
    <3>1. Rank(blocks, b) \in Nat BY <1>1, <2>2, Ranks
    <3> QED BY <3>1
  <2>7. [id |-> taken + Rank(blocks, b), mem |-> blocks[b].mem] \in Block(n)
    BY <2>3, <2>6 DEF Block
  <2> QED BY <2>2, <2>5, <2>7
<1>6. new \in [1 .. Len(blocks) -> Block(n)]
  <2>1. \A b \in 1 .. Len(blocks) : new[b] \in Block(n) BY <1>4, <1>5
  <2> QED BY <1>3, <2>1 DEF Listed
<1>7. new \in Seq(Block(n)) /\ Len(new) = Len(blocks) BY <1>1, <1>6, FunctionIsSequence
<1> QED BY <1>3, <1>4, <1>5, <1>7

(* Every block that had no id is found on disk under the one it got.       *)
IdsDiffer(d, blocks) == \A k, l \in 1 .. Len(blocks) :
    blocks[k].id = blocks[l].id /\ blocks[k].id > Len(d) => k = l
WrittenOut(d, blocks, t) ==
    [i \in 1 .. t |-> blocks[CHOOSE k \in 1 .. Len(blocks) : blocks[k].id = Len(d) + i].mem]
Extends(d, blocks, t, e) ==
    /\ Longer(d, e) /\ Len(e) = Len(d) + t /\ e \in Seq(Range(e))
    /\ \A k \in 1 .. Len(blocks) :
         blocks[k].id \in Len(d) + 1 .. Len(d) + t => e[blocks[k].id] = blocks[k].mem

LEMMA DiskExtended ==
    ASSUME NEW d, d \in Seq(Range(d)), NEW blocks, Len(blocks) \in Nat, NEW t \in Nat,
           IdsDiffer(d, blocks)
    PROVE  Extends(d, blocks, t, d \o WrittenOut(d, blocks, t))
<1> DEFINE new == WrittenOut(d, blocks, t)
           e == d \o new
           X == Range(d) \cup Range(new)
           Found(i) == CHOOSE k \in 1 .. Len(blocks) : blocks[k].id = Len(d) + i
<1>1. Len(d) \in Nat OBVIOUS
<1>2. d \in Seq(X) /\ new \in Seq(X) /\ Len(new) = t
  <2>1. DOMAIN d = 1 .. Len(d) OBVIOUS
  <2>2. d \in [1 .. Len(d) -> X]
    <3>1. \A i \in 1 .. Len(d) : d[i] \in X BY <2>1 DEF Range
    <3>2. d = [i \in 1 .. Len(d) |-> d[i]] OBVIOUS
    <3> HIDE DEF X
    <3> QED BY <3>1, <3>2
  <2>3. new \in [1 .. t -> X]
    <3>1. DOMAIN new = 1 .. t /\ new = [i \in 1 .. t |-> new[i]] BY DEF WrittenOut
    <3>2. \A i \in 1 .. t : new[i] \in X BY <3>1 DEF Range
    <3> HIDE DEF X, new
    <3> QED BY <3>1, <3>2
  <2>4. new \in Seq(X) /\ Len(new) = t
    <3> HIDE DEF X, new
    <3> QED BY <2>3, FunctionIsSequence
  <2>5. d \in Seq(X)
    <3> HIDE DEF X
    <3> QED BY <1>1, <2>2, FunctionIsSequence
  <2> QED BY <2>4, <2>5
<1> HIDE DEF X, new
<1>3. /\ e \in Seq(X) /\ Len(e) = Len(d) + t
      /\ \A i \in 1 .. Len(d) : e[i] = d[i]
      /\ \A i \in 1 .. t : e[Len(d) + i] = new[i]
  <2>1. /\ d \o new \in Seq(X) /\ Len(d \o new) = Len(d) + Len(new)
        /\ \A i \in 1 .. Len(d) : (d \o new)[i] = d[i]
        /\ \A i \in 1 .. Len(new) : (d \o new)[Len(d) + i] = new[i]
    <3>1. ASSUME NEW a \in Seq(X), NEW b \in Seq(X)
          PROVE  /\ a \o b \in Seq(X) /\ Len(a \o b) = Len(a) + Len(b)
                 /\ \A i \in 1 .. Len(a) : (a \o b)[i] = a[i]
                 /\ \A i \in 1 .. Len(b) : (a \o b)[Len(a) + i] = b[i]
      BY <3>1, Concatenation
    <3> QED BY <1>2, <3>1
  <2> QED BY <1>2, <2>1
<1> HIDE DEF e
<1>4. Longer(d, e) BY <1>1, <1>3 DEF Longer
<1>5. e \in Seq(Range(e))
  <2>1. DOMAIN e = 1 .. Len(e) /\ Len(e) \in Nat BY <1>3
  <2>2. e \in [1 .. Len(e) -> Range(e)]
    <3>1. e = [i \in 1 .. Len(e) |-> e[i]] BY <1>3
    <3>2. \A i \in 1 .. Len(e) : e[i] \in Range(e) BY <2>1 DEF Range
    <3> QED BY <3>1, <3>2
  <2> QED BY <2>1, <2>2, FunctionIsSequence
<1>6. ASSUME NEW k \in 1 .. Len(blocks), blocks[k].id \in Len(d) + 1 .. Len(d) + t
      PROVE  e[blocks[k].id] = blocks[k].mem
  <2> DEFINE i == blocks[k].id - Len(d)
  <2>1. i \in 1 .. t /\ Len(d) + i = blocks[k].id /\ blocks[k].id > Len(d) BY <1>1, <1>6
  <2> HIDE DEF i
  <2>2. Found(i) \in 1 .. Len(blocks) /\ blocks[Found(i)].id = Len(d) + i BY <2>1
  <2>3. Found(i) = k
    <3> HIDE DEF Found
    <3> QED BY <2>1, <2>2 DEF IdsDiffer
  <2>4. new[i] = blocks[Found(i)].mem BY <2>1 DEF new, WrittenOut
  <2> HIDE DEF Found
  <2> QED BY <1>3, <2>1, <2>3, <2>4
<1>7. Extends(d, blocks, t, e) BY <1>3, <1>4, <1>5, <1>6 DEF Extends
<1> QED BY <1>7 DEF e, new

JoinOf(blocks, g0, g, p0, p) ==
    /\ Len(blocks) = Len(g0) + Len(p0) /\ Len(g0) \in Nat /\ Len(p0) \in Nat
    /\ \A k \in 1 .. Len(g0) : blocks[k] = g[k]
    /\ \A k \in 1 .. Len(p0) : blocks[Len(g0) + k] = p[k]

LEMMA IdsApart ==
    ASSUME NEW n \in Nat, NEW g0 \in Seq(Block(n)), NEW m \in Nat, NEW p0 \in Seq(Block(m)),
           NEW d, d \in Seq(Range(d)), OnDisk(d, g0, n), OnDisk(d, p0, m),
           NEW g, g = Converted(g0, Len(d)),
           NEW p, p = Converted(p0, Len(d) + Cardinality(Transient(g0)))
    PROVE  JoinOf(g \o p, g0, g, p0, p) /\ IdsDiffer(d, g \o p)
<1> DEFINE D == Len(d)
           X == Cardinality(Transient(g0))
           G == Len(g0)
           P == Len(p0)
           blocks == g \o p
<1>1. D \in Nat /\ G \in Nat /\ P \in Nat OBVIOUS
<1>2. X \in Nat BY <1>1, Ranks
<1>3. /\ g \in Seq(Block(n)) /\ Len(g) = G
      /\ \A k \in 1 .. G : g0[k].id # Invalid => g[k] = g0[k]
      /\ \A k \in 1 .. G : g0[k].id = Invalid =>
           k \in Transient(g0) /\ g[k].id = D + Rank(g0, k)
  <2> HIDE DEF D
  <2>1. n \in Nat /\ g0 \in Seq(Block(n)) /\ D \in Nat /\ g = Converted(g0, D) BY <1>1 DEF D
  <2>2. /\ g \in Seq(Block(n)) /\ Len(g) = Len(g0) /\ Listed(g, Len(g0))
        /\ \A b \in 1 .. Len(g0) : g0[b].id # Invalid => g[b] = g0[b]
        /\ \A b \in 1 .. Len(g0) : g0[b].id = Invalid =>
             /\ b \in Transient(g0)
             /\ g[b] = [id |-> g[b].id, mem |-> g0[b].mem]
             /\ g[b].id = D + Rank(g0, b)
    BY <2>1, BlocksConverted
  <2> QED BY <2>2
<1>4. /\ p \in Seq(Block(m)) /\ Len(p) = P
      /\ \A k \in 1 .. P : p0[k].id # Invalid => p[k] = p0[k]
      /\ \A k \in 1 .. P : p0[k].id = Invalid =>
           k \in Transient(p0) /\ p[k].id = (D + X) + Rank(p0, k)
  <2>1. D + X \in Nat BY <1>1, <1>2
  <2>2. p = Converted(p0, D + X) OBVIOUS
  <2> DEFINE E == D + X
  <2>3. m \in Nat /\ p0 \in Seq(Block(m)) /\ E \in Nat /\ p = Converted(p0, E) BY <2>1, <2>2
  <2> HIDE DEF E
  <2>4. /\ p \in Seq(Block(m)) /\ Len(p) = Len(p0) /\ Listed(p, Len(p0))
        /\ \A b \in 1 .. Len(p0) : p0[b].id # Invalid => p[b] = p0[b]
        /\ \A b \in 1 .. Len(p0) : p0[b].id = Invalid =>
             /\ b \in Transient(p0)
             /\ p[b] = [id |-> p[b].id, mem |-> p0[b].mem]
             /\ p[b].id = E + Rank(p0, b)
    BY <2>3, BlocksConverted
  <2> QED BY <2>4 DEF E
<1>5. /\ Len(blocks) = G + P
      /\ \A k \in 1 .. G : blocks[k] = g[k]
      /\ \A k \in 1 .. P : blocks[G + k] = p[k]
  <2>1. g \in Seq(Block(n) \cup Block(m)) /\ p \in Seq(Block(n) \cup Block(m)) BY <1>3, <1>4
  <2>2. /\ Len(g \o p) = Len(g) + Len(p)
        /\ \A k \in 1 .. Len(g) : (g \o p)[k] = g[k]
        /\ \A k \in 1 .. Len(p) : (g \o p)[Len(g) + k] = p[k]
    BY <2>1, Concatenation
  <2> QED BY <1>3, <1>4, <2>2
<1> HIDE DEF blocks
<1>6. ASSUME NEW k \in 1 .. G, g[k].id > D
      PROVE  k \in Transient(g0) /\ g[k].id = D + Rank(g0, k) /\ Rank(g0, k) \in 1 .. X
  <2>1. g0[k].id = Invalid
    <3>1. SUFFICES ASSUME g0[k].id # Invalid PROVE FALSE OBVIOUS
    <3>2. g0[k].id \in 1 .. D BY <3>1 DEF OnDisk
    <3> QED BY <1>1, <1>3, <1>6, <3>1, <3>2
  <2>2. k \in Transient(g0) /\ g[k].id = D + Rank(g0, k) BY <1>3, <2>1
  <2> QED BY <1>1, <2>2, Ranks
<1>7. ASSUME NEW k \in 1 .. P, p[k].id > D
      PROVE  /\ k \in Transient(p0) /\ p[k].id = (D + X) + Rank(p0, k)
             /\ Rank(p0, k) \in Nat /\ Rank(p0, k) # 0
  <2>1. p0[k].id = Invalid
    <3>1. SUFFICES ASSUME p0[k].id # Invalid PROVE FALSE OBVIOUS
    <3>2. p0[k].id \in 1 .. D BY <3>1 DEF OnDisk
    <3> QED BY <1>1, <1>4, <1>7, <3>1, <3>2
  <2>2. k \in Transient(p0) /\ p[k].id = (D + X) + Rank(p0, k) BY <1>4, <2>1
  <2>3. Rank(p0, k) \in 1 .. Cardinality(Transient(p0)) BY <1>1, <2>2, Ranks
  <2> QED BY <2>2, <2>3
<1>8. \A i, k \in Transient(g0) : Rank(g0, i) = Rank(g0, k) => i = k BY <1>1, Ranks
<1>9. \A i, k \in Transient(p0) : Rank(p0, i) = Rank(p0, k) => i = k BY <1>1, Ranks
<1> HIDE DEF D, X, G, P
<1>10. ASSUME NEW k \in 1 .. G + P
       PROVE  \/ k \in 1 .. G /\ blocks[k] = g[k]
              \/ /\ k > G /\ k - G \in 1 .. P /\ blocks[k] = p[k - G]
  <2>1. CASE k <= G
    <3>1. k \in 1 .. G BY <1>1, <2>1
    <3> QED BY <1>5, <3>1
  <2>2. CASE k > G
    <3>1. k - G \in 1 .. P /\ G + (k - G) = k BY <1>1, <2>2
    <3> QED BY <1>5, <2>2, <3>1
  <2> QED BY <1>1, <2>1, <2>2
<1>11. ASSUME NEW k \in 1 .. G + P, NEW l \in 1 .. G + P,
              blocks[k].id = blocks[l].id, blocks[k].id > D
       PROVE  k = l
  <2>1. CASE k \in 1 .. G /\ blocks[k] = g[k] /\ l \in 1 .. G /\ blocks[l] = g[l]
    <3>1. /\ k \in Transient(g0) /\ g[k].id = D + Rank(g0, k) /\ Rank(g0, k) \in 1 .. X
          /\ l \in Transient(g0) /\ g[l].id = D + Rank(g0, l) /\ Rank(g0, l) \in 1 .. X
      BY <1>6, <1>11, <2>1
    <3>2. D + Rank(g0, k) = D + Rank(g0, l)
      <4>1. g[k].id = g[l].id BY <1>11, <2>1
      <4> QED BY <3>1, <4>1
    <3>3. ASSUME NEW a \in Nat, NEW b \in Nat, D + a = D + b PROVE a = b
      BY <1>1, <3>3
    <3>4. Rank(g0, k) = Rank(g0, l) BY <1>2, <3>1, <3>2, <3>3
    <3> QED BY <1>8, <3>1, <3>4
  <2>2. CASE /\ k > G /\ k - G \in 1 .. P /\ blocks[k] = p[k - G]
             /\ l > G /\ l - G \in 1 .. P /\ blocks[l] = p[l - G]
    <3>1. /\ k - G \in Transient(p0) /\ p[k - G].id = (D + X) + Rank(p0, k - G)
          /\ l - G \in Transient(p0) /\ p[l - G].id = (D + X) + Rank(p0, l - G)
          /\ Rank(p0, k - G) \in Nat /\ Rank(p0, l - G) \in Nat
      BY <1>7, <1>11, <2>2
    <3>2. (D + X) + Rank(p0, k - G) = (D + X) + Rank(p0, l - G)
      <4>1. p[k - G].id = p[l - G].id BY <1>11, <2>2
      <4> QED BY <3>1, <4>1
    <3>3. ASSUME NEW a \in Nat, NEW b \in Nat, (D + X) + a = (D + X) + b PROVE a = b
      BY <1>1, <1>2, <3>3
    <3>4. Rank(p0, k - G) = Rank(p0, l - G) BY <3>1, <3>2, <3>3
    <3>5. k - G = l - G BY <1>9, <3>1, <3>4
    <3> QED BY <1>1, <3>5
  <2>3. ASSUME NEW a \in 1 .. G, NEW b \in 1 .. P, g[a].id = p[b].id, g[a].id > D
        PROVE  FALSE
    <3>1. g[a].id = D + Rank(g0, a) /\ Rank(g0, a) \in 1 .. X BY <1>6, <2>3
    <3>2. p[b].id = (D + X) + Rank(p0, b) /\ Rank(p0, b) \in Nat /\ Rank(p0, b) # 0
      BY <1>7, <2>3
    <3> QED BY <1>1, <1>2, <2>3, <3>1, <3>2
  <2>4. CASE /\ k \in 1 .. G /\ blocks[k] = g[k]
             /\ l > G /\ l - G \in 1 .. P /\ blocks[l] = p[l - G]
    BY <1>11, <2>3, <2>4
  <2>5. CASE /\ l \in 1 .. G /\ blocks[l] = g[l]
             /\ k > G /\ k - G \in 1 .. P /\ blocks[k] = p[k - G]
    BY <1>11, <2>3, <2>5
  <2> QED BY <1>10, <2>1, <2>2, <2>4, <2>5
<1>12. JoinOf(blocks, g0, g, p0, p) BY <1>1, <1>5 DEF JoinOf, G, P
<1>13. IdsDiffer(d, blocks) BY <1>5, <1>11 DEF IdsDiffer, D
<1> QED BY <1>12, <1>13 DEF blocks

(* A stream written after any other gives its words back.                  *)
Chained(f) == f.segs \in Seq(Segments(Nat)) /\ Rooted(f.segs, f.root)

LEMMA StreamStored ==
    ASSUME count \in Nat, rowMap \in SUBSET (Nat \X Nat), IsFiniteSet(rowMap),
           NEW B, NEW C, NEW g \in Seq(Block(B)), NEW p \in Seq(Block(C)),
           NEW from, Chained(from), NEW w, w = AiSaqWriteStateStream(from, g, p)
    PROVE  Chained(w) /\ Gives(w.segs, w.root, StateWords(g, p))
<1> DEFINE words == StateWords(g, p)
<1>1. words \in Seq(Nat)
  <2>1. Spells(words, count, g, p, MapAsList) BY StateSpelled
  <2> QED BY <2>1 DEF Spells
<1> HIDE DEF words
<1>2. /\ from.segs \in Seq(Segments(Nat)) /\ Rooted(from.segs, from.root) /\ 0 \in Nat
      /\ w = WriteStream(from.segs, from.root, words)
  BY DEF Chained, AiSaqWriteStateStream, words
<1>3. Chained(w)
  <2>1. LET v == WriteStream(from.segs, from.root, words) IN
        /\ v.segs \in Seq(Segments(Nat)) /\ Rooted(v.segs, v.root)
        /\ v.root # NoRoot /\ StripTag(v.root) = SegmentAt(from.segs, from.root, 0)
        /\ Written(v, from.segs, from.root, words)
    BY <1>1, <1>2, WriteFacts
  <2> QED BY <1>2, <2>1 DEF Chained
<1>4. ASSUME NEW n \in 0 .. Len(words)
      PROVE  Read(w.segs, w.root, n) = Part(words, 0, n)
  <2> DEFINE chain == from.segs
             start == from.root
  <2>1. /\ chain \in Seq(Segments(Nat)) /\ Rooted(chain, start) /\ 0 \in Nat
        /\ w = WriteStream(chain, start, words) /\ words \in Seq(Nat)
        /\ n \in Nat /\ n <= Len(words)
    BY <1>1, <1>2
  <2> HIDE DEF chain, start
  <2> QED BY <2>1, RoundTrip
<1> QED BY <1>3, <1>4 DEF Gives, words

LEMMA FirstStored ==
    ASSUME KInv
    PROVE  Chained(AiSaqPersistToDisk)
<1>1. Chained(Here) BY DEF KInv, Chains, Chained, Here
<1>2. /\ count \in Nat /\ rowMap \in SUBSET (Nat \X Nat) /\ IsFiniteSet(rowMap)
      /\ graph \in Seq(Block(NodesPerBlock)) /\ pages \in Seq(Block(CodesPerPage))
  BY DEF KInv, Agrees
<1>3. Chained(AiSaqWriteStateStream(Here, graph, pages)) BY <1>1, <1>2, StreamStored
<1> QED BY <1>1, <1>3 DEF AiSaqPersistToDisk

LEMMA WALKeepsRows == KInv /\ AiSaqSerializeToWAL => KInv'
<1> SUFFICES ASSUME KInv, AiSaqSerializeToWAL PROVE KInv' OBVIOUS
<1> DEFINE first == AiSaqPersistToDisk
<1>1. /\ stateFile' = [root |-> first.root, segs |-> first.segs, logged |-> TRUE]
      /\ stateRoot' = first.root /\ stateSegs' = first.segs
      /\ UNCHANGED <<graph, pages, count, rowMap, disk>>
  BY DEF AiSaqSerializeToWAL
<1>2. Chained(first) BY FirstStored
<1> HIDE DEF first
<1>3. Chains' BY <1>1, <1>2 DEF Chains, Chained
<1>4. stateFile'.logged BY <1>1
<1> QED BY <1>1, <1>3, <1>4 DEF KInv

(* The blocks of a checkpoint: in memory, and as a restart loads them.     *)
Stored(d, e, blocks) == \A b \in 1 .. Len(blocks) :
    blocks[b].id \in Len(d) + 1 .. Len(e) => e[blocks[b].id] = blocks[b].mem
Numbered(blocks) == \A b \in 1 .. Len(blocks) : blocks[b].id # Invalid
SameIds(one, other) ==
    Len(one) = Len(other) /\ \A b \in 1 .. Len(other) : one[b].id = other[b].id
StillKeeps(d, blocks, e, new) == \A at \in Nat \ {0} : \A slot, r :
    Keeps(d, blocks, at, slot, r) => Keeps(e, new, at, slot, r)

LEMMA BlocksPersisted ==
    ASSUME NEW n \in Nat, NEW d, NEW e, Longer(d, e),
           NEW blocks \in Seq(Block(n)), OnDisk(d, blocks, n),
           NEW taken \in Nat, Len(d) <= taken,
           taken + Cardinality(Transient(blocks)) <= Len(e),
           NEW new, new = Converted(blocks, taken), Stored(d, e, new)
    PROVE  /\ new \in Seq(Block(n)) /\ OnDisk(e, new, n) /\ Numbered(new)
           /\ StillKeeps(d, blocks, e, new)
<1>1. Len(blocks) \in Nat /\ Len(d) \in Nat /\ Len(e) \in Nat BY DEF Longer
<1>2. /\ new \in Seq(Block(n)) /\ Len(new) = Len(blocks) /\ Listed(new, Len(blocks))
      /\ \A b \in 1 .. Len(blocks) : blocks[b].id # Invalid => new[b] = blocks[b]
      /\ \A b \in 1 .. Len(blocks) : blocks[b].id = Invalid =>
           /\ b \in Transient(blocks)
           /\ new[b] = [id |-> new[b].id, mem |-> blocks[b].mem]
           /\ new[b].id = taken + Rank(blocks, b)
  BY BlocksConverted
<1>3. ASSUME NEW b \in 1 .. Len(blocks), blocks[b].id = Invalid
      PROVE  /\ new[b] = [id |-> new[b].id, mem |-> blocks[b].mem]
             /\ new[b].id \in Len(d) + 1 .. Len(e) /\ new[b].id # Invalid
             /\ e[new[b].id] = blocks[b].mem
  <2>1. /\ b \in Transient(blocks) /\ new[b] = [id |-> new[b].id, mem |-> blocks[b].mem]
        /\ new[b].id = taken + Rank(blocks, b)
    BY <1>2, <1>3
  <2>2. /\ Rank(blocks, b) \in 1 .. Cardinality(Transient(blocks))
        /\ Cardinality(Transient(blocks)) \in Nat
    BY <1>1, <2>1, Ranks
  <2>3. new[b].id \in Len(d) + 1 .. Len(e) /\ new[b].id # Invalid
    BY <1>1, <2>1, <2>2 DEF Invalid
  <2>4. new[b].mem = blocks[b].mem BY <2>1
  <2>5. e[new[b].id] = new[b].mem BY <1>2, <2>3 DEF Stored
  <2> QED BY <2>1, <2>3, <2>4, <2>5
<1>4. \A b \in 1 .. Len(blocks) :
         \/ new[b] = blocks[b]
         \/ /\ new[b] = [id |-> new[b].id, mem |-> blocks[b].mem]
            /\ blocks[b].id = Invalid
            /\ new[b].id \in 1 .. Len(e) /\ e[new[b].id] = blocks[b].mem
  <2> TAKE b \in 1 .. Len(blocks)
  <2>1. CASE blocks[b].id # Invalid BY <1>2, <2>1
  <2>2. CASE blocks[b].id = Invalid
    <3>1. /\ new[b] = [id |-> new[b].id, mem |-> blocks[b].mem]
          /\ new[b].id \in Len(d) + 1 .. Len(e) /\ e[new[b].id] = blocks[b].mem
      BY <1>3, <2>2
    <3>2. new[b].id \in 1 .. Len(e) BY <1>1, <3>1
    <3> QED BY <2>2, <3>1, <3>2
  <2> QED BY <2>1, <2>2
<1>5. /\ OnDisk(e, new, n)
      /\ \A at \in Nat \ {0} : \A slot, r :
            Keeps(d, blocks, at, slot, r) => Keeps(e, new, at, slot, r)
  BY <1>2, <1>4, BlocksWritten
<1>6. Numbered(new)
  <2>1. ASSUME NEW b \in 1 .. Len(blocks) PROVE new[b].id # Invalid BY <1>2, <1>3
  <2> QED BY <1>2, <2>1 DEF Numbered
<1> QED BY <1>2, <1>5, <1>6 DEF StillKeeps

LEMMA BlocksReopened ==
    ASSUME NEW n \in Nat, NEW d, NEW blocks \in Seq(Block(n)), OnDisk(d, blocks, n),
           Numbered(blocks)
    PROVE  \E new \in Seq(Block(n)) :
              /\ OnDisk(d, new, n) /\ AllLoaded(d, new) /\ SameIds(new, blocks)
              /\ StillKeeps(d, blocks, d, new)
<1> DEFINE new == [b \in 1 .. Len(blocks) |-> [id |-> blocks[b].id, mem |-> d[blocks[b].id]]]
<1>1. Listed(new, Len(blocks)) BY DEF Listed
<1>2. \A b \in 1 .. Len(blocks) : /\ blocks[b].id # Invalid
                                  /\ new[b] = [id |-> blocks[b].id, mem |-> d[blocks[b].id]]
  BY DEF Numbered
<1> HIDE DEF new
<1>3. /\ new \in Seq(Block(n)) /\ Len(new) = Len(blocks) /\ OnDisk(d, new, n)
      /\ \A at \in Nat \ {0} : \A slot, r :
            Keeps(d, blocks, at, slot, r) => Keeps(d, new, at, slot, r)
  BY <1>1, <1>2, BlocksLoaded
<1>4. ASSUME NEW b \in 1 .. Len(blocks)
      PROVE  new[b].id = blocks[b].id /\ new[b].id # Invalid /\ new[b].mem = d[new[b].id]
  <2>1. blocks[b].id # Invalid /\ new[b] = [id |-> blocks[b].id, mem |-> d[blocks[b].id]]
    BY <1>2
  <2>2. new[b].id = blocks[b].id /\ new[b].mem = d[blocks[b].id] BY <2>1
  <2> QED BY <2>1, <2>2
<1>5. AllLoaded(d, new) /\ SameIds(new, blocks) BY <1>3, <1>4 DEF AllLoaded, SameIds
<1> QED BY <1>3, <1>5 DEF StillKeeps

LEMMA SpelledAgain ==
    ASSUME NEW words, NEW c, NEW g, NEW p, NEW list, Spells(words, c, g, p, list),
           NEW g2, SameIds(g2, g), NEW p2, SameIds(p2, p)
    PROVE  Spells(words, c, g2, p2, list)
BY DEF Spells, SameIds

(* A file of which a restart makes what the checkpoint was taken of.       *)
LEMMA FileReopens ==
    ASSUME NEW d, NEW c, NEW g, NEW p, NEW map, Agrees(d, c, g, p, map),
           Numbered(g), Numbered(p),
           NEW words, NEW list \in Seq(Nat \X Nat), Range(list) \subseteq map,
           Spells(words, c, g, p, list), NEW f, Gives(f.segs, f.root, words)
    PROVE  Reopens(d, f)
<1>1. NodesPerBlock \in Nat /\ CodesPerPage \in Nat BY AisaqStoreAssumption
<1>2. /\ g \in Seq(Block(NodesPerBlock)) /\ OnDisk(d, g, NodesPerBlock)
      /\ p \in Seq(Block(CodesPerPage)) /\ OnDisk(d, p, CodesPerPage)
  BY DEF Agrees
<1>3. PICK g2 \in Seq(Block(NodesPerBlock)) :
        /\ OnDisk(d, g2, NodesPerBlock) /\ AllLoaded(d, g2) /\ SameIds(g2, g)
        /\ StillKeeps(d, g, d, g2)
  BY <1>1, <1>2, BlocksReopened
<1>4. PICK p2 \in Seq(Block(CodesPerPage)) :
        /\ OnDisk(d, p2, CodesPerPage) /\ AllLoaded(d, p2) /\ SameIds(p2, p)
        /\ StillKeeps(d, p, d, p2)
  BY <1>1, <1>2, BlocksReopened
<1>5. Agrees(d, c, g2, p2, Range(list))
  <2>1. /\ \A at \in Nat \ {0} : \A slot, r :
              Keeps(d, g, at, slot, r) => Keeps(d, g2, at, slot, r)
        /\ \A at \in Nat \ {0} : \A slot, r :
              Keeps(d, p, at, slot, r) => Keeps(d, p2, at, slot, r)
    BY <1>3, <1>4 DEF StillKeeps
  <2> QED BY <1>3, <1>4, <2>1, StillAgrees
<1>6. Spells(words, c, g2, p2, list) BY <1>3, <1>4, SpelledAgain
<1> QED BY <1>3, <1>4, <1>5, <1>6 DEF Reopens

LEMMA SerializeKeepsRows == KInv /\ SerializeToDisk => KInv'
<1> SUFFICES ASSUME KInv, SerializeToDisk PROVE KInv' OBVIOUS
<1> DEFINE D == Len(disk)
           G == Cardinality(Transient(graph))
           P == Cardinality(Transient(pages))
           g == Converted(graph, D)
           p == Converted(pages, D + G)
           first == AiSaqPersistToDisk
           second == AiSaqWriteStateStream(first, g, p)
           new == WrittenOut(disk, g \o p, G + P)
           e == disk \o new
<1>1. /\ graph' = g /\ pages' = p /\ disk' = e
      /\ stateRoot' = second.root /\ stateSegs' = second.segs
      /\ stateFile' = [root |-> second.root, segs |-> second.segs, logged |-> FALSE]
      /\ UNCHANGED <<count, rowMap>>
  BY DEF SerializeToDisk, Rewritten, WrittenOut
<1>2. /\ Agrees(disk, count, graph, pages, rowMap)
      /\ disk \in Seq(Range(disk)) /\ count \in Nat
      /\ rowMap \in SUBSET (Nat \X Nat) /\ IsFiniteSet(rowMap)
      /\ graph \in Seq(Block(NodesPerBlock)) /\ OnDisk(disk, graph, NodesPerBlock)
      /\ pages \in Seq(Block(CodesPerPage)) /\ OnDisk(disk, pages, CodesPerPage)
  BY DEF KInv, Agrees
<1>3. NodesPerBlock \in Nat /\ CodesPerPage \in Nat BY AisaqStoreAssumption
<1>4. D \in Nat /\ G \in Nat /\ P \in Nat
  <2>1. Len(graph) \in Nat /\ Len(pages) \in Nat /\ Len(disk) \in Nat BY <1>2
  <2> QED BY <2>1, Ranks
<1>5. /\ g \in Seq(Block(NodesPerBlock)) /\ Len(g) = Len(graph)
      /\ p \in Seq(Block(CodesPerPage)) /\ Len(p) = Len(pages)
  <2>1. D + G \in Nat BY <1>4
  <2>2. ASSUME NEW n \in Nat, NEW blocks \in Seq(Block(n)), NEW taken \in Nat
        PROVE  /\ Converted(blocks, taken) \in Seq(Block(n))
               /\ Len(Converted(blocks, taken)) = Len(blocks)
    BY BlocksConverted
  <2> HIDE DEF D, G
  <2> QED BY <1>2, <1>3, <1>4, <2>1, <2>2
<1>6. JoinOf(g \o p, graph, g, pages, p) /\ IdsDiffer(disk, g \o p)
  <2>1. /\ NodesPerBlock \in Nat /\ graph \in Seq(Block(NodesPerBlock))
        /\ CodesPerPage \in Nat /\ pages \in Seq(Block(CodesPerPage))
        /\ disk \in Seq(Range(disk))
        /\ OnDisk(disk, graph, NodesPerBlock) /\ OnDisk(disk, pages, CodesPerPage)
        /\ g = Converted(graph, Len(disk))
        /\ p = Converted(pages, Len(disk) + Cardinality(Transient(graph)))
    BY <1>2, <1>3
  <2> HIDE DEF g, p
  <2> QED BY <2>1, IdsApart
<1> HIDE DEF g, p
<1> DEFINE blocks == g \o p
           t == G + P
<1>7. Extends(disk, blocks, t, e)
  <2>1. Len(blocks) \in Nat /\ t \in Nat
    <3> HIDE DEF G, P
    <3> QED BY <1>4, <1>6 DEF JoinOf
  <2>2. disk \in Seq(Range(disk)) /\ IdsDiffer(disk, blocks) BY <1>2, <1>6
  <2>3. e = disk \o WrittenOut(disk, blocks, t) OBVIOUS
  <2> HIDE DEF blocks, t, new, e
  <2> QED BY <2>1, <2>2, <2>3, DiskExtended
<1> HIDE DEF new, e
<1>8. Stored(disk, e, g) /\ Stored(disk, e, p)
  <2>1. ASSUME NEW b \in 1 .. Len(g), g[b].id \in D + 1 .. Len(e)
        PROVE  e[g[b].id] = g[b].mem
    <3>1. b \in 1 .. Len(blocks) /\ blocks[b] = g[b] BY <1>5, <1>6 DEF JoinOf
    <3> HIDE DEF blocks
    <3> QED BY <1>7, <2>1, <3>1 DEF Extends
  <2>2. ASSUME NEW b \in 1 .. Len(p), p[b].id \in D + 1 .. Len(e)
        PROVE  e[p[b].id] = p[b].mem
    <3>1. Len(graph) + b \in 1 .. Len(blocks) /\ blocks[Len(graph) + b] = p[b]
      BY <1>5, <1>6 DEF JoinOf
    <3> HIDE DEF blocks
    <3> QED BY <1>7, <2>2, <3>1 DEF Extends
  <2> QED BY <2>1, <2>2 DEF Stored
<1> HIDE DEF blocks
<1>9. /\ OnDisk(e, g, NodesPerBlock) /\ Numbered(g) /\ StillKeeps(disk, graph, e, g)
  <2>1. D <= D /\ D + G <= Len(e) BY <1>4, <1>7 DEF Extends
  <2>2. g = Converted(graph, D) BY DEF g
  <2>3. Longer(disk, e) BY <1>7 DEF Extends
  <2> QED BY <1>2, <1>3, <1>4, <1>8, <2>1, <2>2, <2>3, BlocksPersisted
<1>10. /\ OnDisk(e, p, CodesPerPage) /\ Numbered(p) /\ StillKeeps(disk, pages, e, p)
  <2> DEFINE taken == D + G
  <2>1. taken \in Nat /\ D <= taken /\ taken + P <= Len(e) BY <1>4, <1>7 DEF Extends
  <2>2. p = Converted(pages, taken) BY DEF p
  <2> HIDE DEF taken
  <2>3. Longer(disk, e) BY <1>7 DEF Extends
  <2> QED BY <1>2, <1>3, <1>8, <2>1, <2>2, <2>3, BlocksPersisted
<1>11. Agrees(e, count, g, p, rowMap)
  <2>1. /\ \A at \in Nat \ {0} : \A slot, r :
              Keeps(disk, graph, at, slot, r) => Keeps(e, g, at, slot, r)
        /\ \A at \in Nat \ {0} : \A slot, r :
              Keeps(disk, pages, at, slot, r) => Keeps(e, p, at, slot, r)
    BY <1>9, <1>10 DEF StillKeeps
  <2> QED BY <1>2, <1>5, <1>9, <1>10, <2>1, StillAgrees
<1>12. Chained(second) /\ Gives(second.segs, second.root, StateWords(g, p))
  <2>1. Chained(first) BY FirstStored
  <2>2. second = AiSaqWriteStateStream(first, g, p) OBVIOUS
  <2> HIDE DEF first, second
  <2> QED BY <1>2, <1>5, <2>1, <2>2, StreamStored
<1> HIDE DEF first, second
<1>13. Reopens(e, stateFile')
  <2>1. Spells(StateWords(g, p), count, g, p, MapAsList) BY <1>2, <1>5, StateSpelled
  <2>2. MapAsList \in Seq(Nat \X Nat) /\ Range(MapAsList) \subseteq rowMap BY <1>2, RowsListed
  <2>3. Gives(stateFile'.segs, stateFile'.root, StateWords(g, p)) BY <1>1, <1>12
  <2> QED BY <1>9, <1>10, <1>11, <2>1, <2>2, <2>3, FileReopens
<1>14. Chains' BY <1>1, <1>12 DEF Chains, Chained
<1>15. disk' \in Seq(Range(disk')) BY <1>1, <1>7 DEF Extends
<1>16. Agrees(disk, count, graph, pages, rowMap)' BY <1>1, <1>11
<1>17. IsFiniteSet(rowMap)' BY <1>1, <1>2
<1>18. Reopens(disk, stateFile)' BY <1>1, <1>13
<1> QED BY <1>14, <1>15, <1>16, <1>17, <1>18 DEF KInv

-----------------------------------------------------------------------------
(* Built rows stay.                                                        *)

LEMMA StoreUnchanged == KInv /\ UNCHANGED storeVars => KInv'
<1> SUFFICES ASSUME KInv, UNCHANGED storeVars PROVE KInv' OBVIOUS
<1>1. UNCHANGED <<graph, pages, count, rowMap, state, disk, stateFile>> BY DEF storeVars
<1>2. Chains' BY <1>1, SameChains DEF KInv
<1>3. (stateFile.root # NoRoot /\ ~stateFile.logged => Reopens(disk, stateFile))'
  BY <1>1, SameFileReopens
<1> QED BY <1>1, <1>2, <1>3 DEF KInv

LEMMA KInvInductive ==
    ASSUME ~LoggedBuild
    PROVE  KInv /\ [AiSaqNext]_storeVars => KInv'
<1> SUFFICES ASSUME KInv, [AiSaqNext]_storeVars PROVE KInv' OBVIOUS
<1>1. CASE AiSaqSteps
  <2>1. ASSUME NEW table \in Tables, CreateIndex(table) PROVE KInv' BY <2>1, CreateKeepsRows
  <2>2. ASSUME NEW r \in LiveRows, AiSaqInsert(r) PROVE KInv' BY <2>2, InsertKeepsRows
  <2>3. CASE EvictBlock BY <2>3, EvictKeepsRows
  <2>4. CASE AiSaqCommitDrop BY <2>4, DropKeepsRows
  <2>5. CASE AiSaqSerializeToWAL BY <2>5, WALKeepsRows
  <2> QED BY <1>1, <2>1, <2>2, <2>3, <2>4, <2>5 DEF AiSaqSteps
<1>2. CASE SerializeToDisk BY <1>2, SerializeKeepsRows
<1>3. CASE AiSaqRestart BY <1>3, RestartKeepsRows
<1>4. CASE UNCHANGED storeVars BY <1>4, StoreUnchanged
<1> QED BY <1>1, <1>2, <1>3, <1>4 DEF AiSaqNext

LEMMA KInvKeepsRows == KInv => BuiltRowsKept
<1> SUFFICES ASSUME KInv, NEW pair \in rowMap, pair[1] <= TableSize
             PROVE  HasNode(pair) /\ HasCode(pair)
  BY DEF BuiltRowsKept
<1>1. ASSUME NEW n \in Nat \ {0}, NEW blocks \in Seq(Block(n)), NEW at \in Nat \ {0},
             at <= Len(blocks)
      PROVE  blocks[at].mem # NullHandle
  <2>1. blocks[at] \in Block(n) BY <1>1
  <2>2. DOMAIN blocks[at].mem = 1 .. n BY <2>1 DEF Block
  <2>3. 1 \in 1 .. n /\ DOMAIN <<>> = {} OBVIOUS
  <2> QED BY <2>2, <2>3 DEF NullHandle
<1>2. /\ graph \in Seq(Block(NodesPerBlock)) /\ pages \in Seq(Block(CodesPerPage))
      /\ KeepsRow(disk, graph, pages, pair) /\ pair[2] \in Nat
  BY DEF KInv, Agrees
<1>3. /\ Keeps(disk, graph, BlockOf(pair[2]), NodeSlot(pair[2]), pair[1])
      /\ Keeps(disk, pages, PageOf(pair[2]), CodeSlot(pair[2]), pair[1])
  BY <1>2 DEF KeepsRow
<1>4. BlockOf(pair[2]) \in Nat \ {0} /\ PageOf(pair[2]) \in Nat \ {0}
  BY <1>2, BlockPlaces, PagePlaces
<1>5. NodesPerBlock \in Nat \ {0} /\ CodesPerPage \in Nat \ {0} BY AisaqStoreAssumption
<1>6. HasNode(pair)
  <2> DEFINE at == BlockOf(pair[2])
  <2>1. at <= Len(graph) /\ graph[at].mem[NodeSlot(pair[2])] = pair[1] BY <1>3 DEF Keeps
  <2>2. at \in Nat \ {0} BY <1>4
  <2> HIDE DEF at
  <2>3. graph[at].mem # NullHandle BY <1>1, <1>2, <1>5, <2>1, <2>2
  <2> QED BY <2>1, <2>3 DEF HasNode, at
<1>7. HasCode(pair)
  <2> DEFINE at == PageOf(pair[2])
  <2>1. at <= Len(pages) /\ pages[at].mem[CodeSlot(pair[2])] = pair[1] BY <1>3 DEF Keeps
  <2>2. at \in Nat \ {0} BY <1>4
  <2> HIDE DEF at
  <2>3. pages[at].mem # NullHandle BY <1>1, <1>2, <1>5, <2>1, <2>2
  <2> QED BY <2>1, <2>3 DEF HasCode, at
<1> QED BY <1>6, <1>7

(* A row of CREATE INDEX that the AiSAQ index knows has its node and its   *)
(* PQ code where a search reads them, over inserts, evictions, DROP,       *)
(* checkpoints and restarts, as long as a restart finds a checkpoint:      *)
(* SerializeToWAL logs the state stream and not the blocks it names, and a *)
(* restart from the log alone finds neither.                               *)
THEOREM BuiltRowsStay ==
    ASSUME ~LoggedBuild
    PROVE  AiSaqSpec => []BuiltRowsKept
<1>1. AiSaqInit => KInv BY StoreStarts
<1>2. KInv /\ [AiSaqNext]_storeVars => KInv' BY KInvInductive
<1>3. KInv => BuiltRowsKept BY KInvKeepsRows
<1> QED BY <1>1, <1>2, <1>3, PTL DEF AiSaqSpec
=============================================================================
