--------------------------- MODULE SegmentStreams ---------------------------
(***************************************************************************)
(* The streams of IndexBlockStore: a stream is a chain of segments of one  *)
(* allocator, which only ever hands out new segments.  A raw pointer is    *)
(* the number of segments allocated before its own, so the first is 0,     *)
(* which is also what a cleared next pointer reads as; a root carries the  *)
(* stream tag and is never 0.  A word stands for a field of the stream.    *)
(***************************************************************************)
EXTENDS Integers, Sequences, SequencesExt

CONSTANT DataSize           \* words that the data of a segment holds
ASSUME DataSizeAssumption == DataSize \in Nat \ {0}

NoRoot == 0
WithTag(raw) == raw + 1
StripTag(root) == root - 1

Cleared == [next |-> 0, data |-> [i \in 1 .. DataSize |-> 0]]

NumFull(words) == Len(words) \div DataSize

Piece(words, k) ==          \* the data of the stream's segment k
    [i \in 1 .. DataSize |-> IF k * DataSize + i <= Len(words) THEN words[k * DataSize + i] ELSE 0]

RawOf(segs, root) == IF root = NoRoot THEN Len(segs) ELSE StripTag(root)

\* The root is used again, every other segment is new.  A segment that is
\* full has a successor, even when nothing follows.
SegmentAt_ReusesLast(segs, root, k) ==
    IF k = 0 THEN RawOf(segs, root)
             ELSE (IF root = NoRoot THEN Len(segs) + 1 ELSE Len(segs)) + k - 2
SegmentAt(segs, root, k) ==
    IF k = 0 THEN RawOf(segs, root)
             ELSE (IF root = NoRoot THEN Len(segs) + 1 ELSE Len(segs)) + k - 1

WriteStream(segs, root, words) ==
    LET begun == IF root = NoRoot THEN Append(segs, Cleared) ELSE segs
        more == [k \in 1 .. NumFull(words) |-> Cleared]
        Written(p) == {k \in 0 .. NumFull(words) : SegmentAt(segs, root, k) = p}
        Segment(k) == [next |-> IF k < NumFull(words) THEN SegmentAt(segs, root, k + 1) ELSE 0,
                       data |-> Piece(words, k)]
    IN  [segs |-> [i \in 1 .. Len(begun) + Len(more) |->
                     IF Written(i - 1) = {} THEN (begun \o more)[i]
                     ELSE Segment(CHOOSE k \in Written(i - 1) : \A j \in Written(i - 1) : j <= k)],
         root |-> WithTag(RawOf(segs, root))]

\* What the reader has after n words.  It follows next pointers until one is
\* clear, and stops short then.
Read(segs, root, n) ==
    LET From[k \in 0 .. n] == [p \in 0 .. Len(segs) - 1 |->
          LET here == SubSeq(segs[p + 1].data, 1, IF k < DataSize THEN k ELSE DataSize)
              left == k - Len(here)
          IN  IF left = 0 \/ segs[p + 1].next = 0
              THEN here ELSE here \o From[left][segs[p + 1].next]]
    IN  From[n][StripTag(root)]

ReadOne(segs, root, at) == Read(segs, root, at)[at]
ReadSome(segs, root, at, n) == SubSeq(Read(segs, root, at + n), at + 1, at + n)
=============================================================================
