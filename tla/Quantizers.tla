----------------------------- MODULE Quantizers -----------------------------
(***************************************************************************)
(* The quantizers that turn a vector into a code: FLAT, PQ, ScaNN and      *)
(* RaBitQ.  Vectors have integer components and a distance is an exact     *)
(* fraction <<numerator, denominator>>.  Under the cosine metric a vector  *)
(* lies on an axis, so that its norm is an integer.  A byte has ByteBits   *)
(* bits; PQ and ScaNN take codes of a byte or of half of one.              *)
(***************************************************************************)
EXTENDS Integers, Sequences, FiniteSets, Functions

CONSTANTS ByteBits,
          Rotate(_)     \* RandomRotation::Apply: linear, keeps inner products

ASSUME ByteAssumption == ByteBits \in Nat \ {0} /\ ByteBits % 2 = 0

(* What the powers of two are, as far as two bytes reach.                  *)
ASSUME PowersOfTwo ==
    /\ 2^0 = 1
    /\ \A n \in 0 .. 2 * ByteBits : 2^n \in Nat \ {0} /\ 2^(n + 1) = 2 * 2^n

Metrics == {"l2sq", "cosine", "ip"}
Zero(n) == [i \in 1..n |-> 0]
Dot(u, v) == SumFunction([i \in 1..Len(u) |-> u[i] * v[i]])
Minus(u, v) == [i \in 1..Len(u) |-> u[i] - v[i]]
NormSq(v) == Dot(v, v)
Abs(n) == IF n < 0 THEN -n ELSE n
AbsSum(v) == SumFunction([i \in 1..Len(v) |-> Abs(v[i])])

(* Normalize, of a vector on an axis; the zero vector stays zero.          *)
Unit(v) == [i \in 1..Len(v) |-> IF v[i] > 0 THEN 1 ELSE IF v[i] < 0 THEN -1 ELSE 0]

(* A distance of two (parts of) vectors by metric, smaller is closer.      *)
VecDist(metric, u, v) == IF metric = "l2sq" THEN NormSq(Minus(u, v)) ELSE -Dot(u, v)

-----------------------------------------------------------------------------
(* Bits: LSB first, a code of a component straddles at most two bytes.     *)

Bytes(bits) == (bits + ByteBits - 1) \div ByteBits
Offset(i, bits) == ((i - 1) * bits) \div ByteBits + 1
Shift(i, bits) == ((i - 1) * bits) % ByteBits

(* Of each component the bits that its first byte takes, and those that    *)
(* are left for the next.                                                  *)
LowBits(raw, bits) == [i \in 1..Len(raw) |-> (raw[i] * 2^Shift(i, bits)) % 2^ByteBits]
HighBits(raw, bits) == [i \in 1..Len(raw) |-> raw[i] \div 2^(ByteBits - Shift(i, bits))]
Begins(raw, bits, b) == {i \in 1..Len(raw) : Offset(i, bits) = b}
Straddles(raw, bits, b) ==
    {i \in 1..Len(raw) : Offset(i, bits) + 1 = b /\ ByteBits - Shift(i, bits) < bits}

PackBits_NoStraddle(raw, bits) ==
    [b \in 1 .. Bytes(Len(raw) * bits) |->
        SumFunctionOnSet(LowBits(raw, bits), Begins(raw, bits, b))]
PackBits(raw, bits) ==
    [b \in 1 .. Bytes(Len(raw) * bits) |->
        SumFunctionOnSet(LowBits(raw, bits), Begins(raw, bits, b))
        + SumFunctionOnSet(HighBits(raw, bits), Straddles(raw, bits, b))]

RawBits(bytes, i, bits) ==
    LET o == Offset(i, bits)
        used == ByteBits - Shift(i, bits)
    IN  (bytes[o] \div 2^Shift(i, bits)
         + (IF used < bits THEN bytes[o + 1] * 2^used ELSE 0)) % 2^bits

(* Two's complement.                                                       *)
SignExtended(raw, bits) == IF raw >= 2^(bits - 1) THEN raw - 2^bits ELSE raw
UnpackBits(bytes, i, bits) == SignExtended(RawBits(bytes, i, bits), bits)

-----------------------------------------------------------------------------
(* PQ and ScaNN: a vector is cut into m slots of dim / m components, each  *)
(* coded by the number of a centroid of the slot's codebook.               *)

IsPq(q) == q.kind \in {"pq", "scann"}
SubDim(q) == q.dim \div q.m
Sub(q, v, s) == SubSeq(v, (s - 1) * SubDim(q) + 1, s * SubDim(q))
Centroids(q) == 0 .. 2^q.bits - 1

(* KMeansPlusPlus on fewer samples than centroids: the samples, then for   *)
(* every centroid without one, and for a repeated sample, the first.  On   *)
(* none, PQ's codebook is zero; ScaNN does not get that far.               *)
SlotBook(q, samples, s) ==
    [c \in Centroids(q) |->
        IF samples = <<>> THEN Zero(SubDim(q))
        ELSE LET mine == Sub(q, samples[c + 1], s)
             IN  IF c < Len(samples) /\ \A d \in 1..c : Sub(q, samples[d], s) # mine
                 THEN mine ELSE Sub(q, samples[1], s)]
Book(q, samples) == [s \in 1..q.m |-> SlotBook(q, samples, s)]

(* BuildCrossDistanceTable: the diagonal is 0 whatever the metric.         *)
CrossTable(q, book) ==
    [s \in 1..q.m |-> [a \in Centroids(q) |-> [b \in Centroids(q) |->
        IF a = b THEN 0 ELSE VecDist(q.metric, book[s][a], book[s][b])]]]

(* ScaNN's cost of a residual, times the anchor's square unless that is 0: *)
(* the part along the anchor counts eta times.                             *)
AnisoCost(q, r, x) ==
    IF NormSq(x) = 0 THEN NormSq(r)
    ELSE (q.eta - 1) * Dot(r, x) * Dot(r, x) + NormSq(r) * NormSq(x)

CentroidCost(q, x, cen) ==
    IF q.kind = "pq" THEN NormSq(Minus(x, cen)) ELSE AnisoCost(q, Minus(x, cen), x)

(* The first of the nearest.                                               *)
NearestCentroid(q, s, x) ==
    LET Cost(c) == CentroidCost(q, x, q.book[s][c])
    IN  CHOOSE c \in Centroids(q) : /\ \A d \in Centroids(q) : Cost(c) <= Cost(d)
                                    /\ \A d \in 0 .. c - 1 : Cost(c) < Cost(d)

WriteCodes(q, cids) == PackBits(cids, q.bits)     \* of half a byte: the first in the low half
PqEncode(q, v) == WriteCodes(q, [s \in 1..q.m |-> NearestCentroid(q, s, Sub(q, v, s))])
ReadCode(q, code, s) == RawBits(code, s, q.bits)
Decode(q, code) ==      \* the vector a code stands for
    [i \in 1..q.dim |-> LET s == (i - 1) \div SubDim(q) + 1
                        IN  q.book[s][ReadCode(q, code, s)][((i - 1) % SubDim(q)) + 1]]

PqTable(q, x) == [s \in 1..q.m |-> [c \in Centroids(q) |->
                     VecDist(q.metric, Sub(q, x, s), q.book[s][c])]]
PqSum(q, code, row) == SumFunction([s \in 1..q.m |-> row[s][ReadCode(q, code, s)]])

(* PQ has the table once it is trained; ScaNN computes the distances.      *)
PqCodeDistance(q, a, b) ==
    <<SumFunction([s \in 1..q.m |->
        LET ca == ReadCode(q, a, s)
            cb == ReadCode(q, b, s)
        IN  IF q.table # <<>> THEN q.table[s][ca][cb]
            ELSE VecDist(q.metric, q.book[s][ca], q.book[s][cb])]), 1>>
ScannCodeDistance(q, a, b) ==
    <<SumFunction([s \in 1..q.m |-> VecDist(q.metric, q.book[s][ReadCode(q, a, s)],
                                            q.book[s][ReadCode(q, b, s)])]), 1>>

-----------------------------------------------------------------------------
(* RaBitQ: the residual to the samples' mean, rotated, one level of bits   *)
(* bits per component, and what the estimators need besides.               *)

SupportedBits == (1..ByteBits) \ {6}
Effective(q, v) == IF q.metric = "cosine" THEN Unit(v) ELSE v

(* The mean, rounded down to the grid of the model.                        *)
MeanOf(q, samples) ==
    [k \in 1..q.dim |-> IF samples = <<>> THEN 0
        ELSE SumFunction([i \in 1..Len(samples) |-> Effective(q, samples[i])[k]]) \div Len(samples)]

(* lrint: to the nearest integer, halves to the even one; den > 0.         *)
Rounded(num, den) ==
    LET below == num \div den
        rest == 2 * (num % den)
    IN  IF rest < den \/ (rest = den /\ below % 2 = 0) THEN below ELSE below + 1

MaxAbs(r) == CHOOSE a \in {Abs(r[i]) : i \in 1..Len(r)} : \A i \in 1..Len(r) : Abs(r[i]) <= a

(* For 2 bits and more, step = max / (2^(bits-1) - 1/2): the levels reach  *)
(* from -2^(bits-1) to 2^(bits-1) - 1.                                     *)
Level(r, i, bits) ==
    IF MaxAbs(r) = 0 THEN 0
    ELSE LET n == Rounded(r[i] * (2^bits - 1), 2 * MaxAbs(r))
         IN  IF n > 2^(bits - 1) - 1 THEN 2^(bits - 1) - 1
             ELSE IF n < -(2^(bits - 1)) THEN -(2^(bits - 1)) ELSE n

Residual(q, v) == Rotate(Minus(Effective(q, v), q.centroid))
RabitqEncode(q, v) ==
    LET r == Residual(q, v)
    IN  [bytes |-> PackBits([i \in 1..q.dim |->
                       IF q.bits = 1 THEN IF r[i] > 0 THEN 1 ELSE 0
                       ELSE Level(r, i, q.bits) % 2^q.bits], q.bits),
         alphaSq |-> NormSq(r),
         \* what a level is worth in the residual: alpha / (beta sqrt(dim)), or the step
         scale |-> IF q.bits = 1
                   THEN IF AbsSum(r) = 0 THEN <<0, 1>> ELSE <<NormSq(r), AbsSum(r)>>
                   ELSE <<2 * MaxAbs(r), 2^q.bits - 1>>,
         rc |-> Dot(Minus(Effective(q, v), q.centroid), q.centroid)]

LevelOf(q, code, i) ==
    IF q.bits = 1 THEN 2 * RawBits(code.bytes, i, 1) - 1 ELSE UnpackBits(code.bytes, i, q.bits)
Levels(q, code) == [i \in 1..q.dim |-> LevelOf(q, code, i)]

RabitqQuery(q, x) == [rot |-> Residual(q, x),
                      normSq |-> NormSq(Minus(Effective(q, x), q.centroid)),
                      cDotQ |-> Dot(q.centroid, Effective(q, x))]

Whole(n, f) == <<n * f[2] + f[1], f[2]>>      \* n + f
Negated(f) == <<-f[1], f[2]>>
ByMetric(metric, dot) == IF metric = "ip" THEN Negated(dot) ELSE Whole(1, Negated(dot))

RabitqEstimate(q, code, pre) ==
    LET cross == <<code.scale[1] * Dot(Levels(q, code), pre.rot), code.scale[2]>>
        sq == Whole(code.alphaSq + pre.normSq, <<-2 * cross[1], cross[2]>>)
    IN  IF q.metric = "l2sq" THEN IF sq[1] < 0 THEN <<0, sq[2]>> ELSE sq
        ELSE ByMetric(q.metric, Whole(code.rc + pre.cDotQ, cross))

RabitqCodeDistance(q, a, b) ==
    LET ra == [i \in 1..q.dim |-> a.scale[1] * b.scale[2] * LevelOf(q, a, i)]
        rb == [i \in 1..q.dim |-> b.scale[1] * a.scale[2] * LevelOf(q, b, i)]
        den == a.scale[2] * b.scale[2] * a.scale[2] * b.scale[2]
    IN  IF q.metric = "l2sq" THEN <<NormSq(Minus(ra, rb)), den>>
        ELSE ByMetric(q.metric, Whole(a.rc + b.rc + q.normSq, <<Dot(ra, rb), den>>))

-----------------------------------------------------------------------------
(* FLAT: the code is the vector.                                           *)

Cosine(dot, norms) == IF norms = 0 THEN <<1, 1>> ELSE Whole(1, <<-dot, norms>>)
FlatQuery(q, x) == Effective(q, x)
FlatEstimate(q, code, x) == IF q.metric = "cosine" THEN Cosine(Dot(code, x), AbsSum(code))
                            ELSE <<VecDist(q.metric, code, x), 1>>
FlatCodeDistance(q, a, b) == IF q.metric = "cosine" THEN Cosine(Dot(a, b), AbsSum(a) * AbsSum(b))
                             ELSE <<VecDist(q.metric, a, b), 1>>

-----------------------------------------------------------------------------
(* The interface.                                                          *)

(* With no sample every cell of ScaNN's Lloyd step is empty, and the seed  *)
(* it copies for an empty cell is read at the null data() of an empty      *)
(* buffer: the process does not survive.  PQ's k-means returns early, and  *)
(* RaBitQ's mean is only taken of one sample and more.                     *)
TrainSurvives(q, samples) == q.kind = "scann" => samples # <<>>

PqTrain(q, samples) ==
    LET book == Book(q, samples)
    IN  [q EXCEPT !.trained = TRUE, !.book = book, !.table = CrossTable(q, book)]
ScannTrain(q, samples) == [q EXCEPT !.trained = TRUE, !.book = Book(q, samples)]
RabitqTrain(q, samples) ==
    LET c == MeanOf(q, samples)
    IN  [q EXCEPT !.trained = TRUE, !.centroid = c, !.normSq = NormSq(c)]
Train(q, samples) == CASE q.kind = "flat" -> q
                       [] q.kind = "pq" -> PqTrain(q, samples)
                       [] q.kind = "scann" -> ScannTrain(q, samples)
                       [] q.kind = "rabitq" -> RabitqTrain(q, samples)

CodeSize(q) ==
    CASE q.kind = "flat" -> <<q.dim, "floats">>
      [] IsPq(q) -> <<Bytes(q.m * q.bits), "bytes">>
      [] q.kind = "rabitq" -> <<Bytes(q.dim * q.bits), "bytes and a trailer">>

Encode(q, v) == CASE q.kind = "flat" -> v
                  [] IsPq(q) -> PqEncode(q, v)
                  [] q.kind = "rabitq" -> RabitqEncode(q, v)

PreprocessQuery(q, x) == CASE q.kind = "flat" -> FlatQuery(q, x)
                           [] IsPq(q) -> PqTable(q, x)
                           [] q.kind = "rabitq" -> RabitqQuery(q, x)

EstimateDistance(q, code, pre) == CASE q.kind = "flat" -> FlatEstimate(q, code, pre)
                                    [] IsPq(q) -> <<PqSum(q, code, pre), 1>>
                                    [] q.kind = "rabitq" -> RabitqEstimate(q, code, pre)

CodeDistance(q, a, b) == CASE q.kind = "flat" -> FlatCodeDistance(q, a, b)
                           [] q.kind = "pq" -> PqCodeDistance(q, a, b)
                           [] q.kind = "scann" -> ScannCodeDistance(q, a, b)
                           [] q.kind = "rabitq" -> RabitqCodeDistance(q, a, b)

-----------------------------------------------------------------------------
(* The blobs: everything but what Deserialize computes again.  RaBitQ's    *)
(* rotation is its seed, and only a trained RaBitQ can be serialized.      *)

FlatBlob(q) == [kind |-> "flat", metric |-> q.metric, dim |-> q.dim]
PqBlob(q) == [kind |-> "pq", metric |-> q.metric, dim |-> q.dim,
              m |-> q.m, bits |-> q.bits, book |-> q.book]
ScannBlob(q) == [kind |-> "scann", metric |-> q.metric, dim |-> q.dim,
                 m |-> q.m, bits |-> q.bits, eta |-> q.eta, book |-> q.book]
RabitqBlob(q) == [kind |-> "rabitq", metric |-> q.metric, dim |-> q.dim,
                  bits |-> q.bits, centroid |-> q.centroid]
Serialize(q) == CASE q.kind = "flat" -> FlatBlob(q) [] q.kind = "pq" -> PqBlob(q)
                  [] q.kind = "scann" -> ScannBlob(q) [] q.kind = "rabitq" -> RabitqBlob(q)

FlatRestored_AsConstructed(q, b) == q
FlatRestored(q, b) == [kind |-> "flat", metric |-> b.metric, dim |-> b.dim]
PqRestored(q, b) == [kind |-> "pq", metric |-> b.metric, dim |-> b.dim, m |-> b.m,
                     bits |-> b.bits, book |-> b.book, trained |-> TRUE,
                     table |-> CrossTable(b, b.book)]
ScannRestored(q, b) == [kind |-> "scann", metric |-> b.metric, dim |-> b.dim, m |-> b.m,
                        bits |-> b.bits, eta |-> b.eta, book |-> b.book, trained |-> TRUE]
RabitqRestored(q, b) == [kind |-> "rabitq", metric |-> b.metric, dim |-> b.dim, bits |-> b.bits,
                         centroid |-> b.centroid, normSq |-> NormSq(b.centroid), trained |-> TRUE]

(* The first byte of a blob names the kind that wrote it.                  *)
CanDeserialize(q, b) == q.kind = b.kind
Deserialize(q, b) == CASE q.kind = "flat" -> FlatRestored(q, b) [] q.kind = "pq" -> PqRestored(q, b)
                       [] q.kind = "scann" -> ScannRestored(q, b)
                       [] q.kind = "rabitq" -> RabitqRestored(q, b)
=============================================================================
