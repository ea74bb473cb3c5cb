------------------------- MODULE VectorIndexProofs -------------------------
(***************************************************************************)
(* The index follows the table through every sequence of writes,           *)
(* checkpoints, crashes and replays, for every core that keeps what is     *)
(* inserted.                                                               *)
(*                                                                         *)
(* IndexCoversTable is not inductive: it speaks of the index in memory     *)
(* after recovery, but what recovery yields is decided by the checkpointed *)
(* copy and the log.  The invariant therefore says of two pairs, (memory,  *)
(* calls still to replay) and (disk, log), that applying the calls to the  *)
(* index would give the table.  Applying is stated without recursion: the  *)
(* last call that concerns a row decides whether it is live.               *)
(*                                                                         *)
(* And scans, over a core whose searches return what it holds: no deleted  *)
(* row, no row twice, and as many as were asked for if the table has them. *)
(***************************************************************************)
EXTENDS VectorIndex, QueryPlans, SequenceTheorems, FunctionTheorems,
        FiniteSetTheorems, WellFoundedInduction, TLAPS

(* What the facade needs from a core, over the set of states it can have.  *)
CoreContract(Cores) ==
    /\ EmptyCore \in Cores
    /\ \A c \in Cores, r \in Rows, v \in Vecs :
         /\ CoreInsert(c, r, v) \in Cores
         /\ CoreEntries(CoreInsert(c, r, v)) = CoreEntries(c) \cup {<<r, v>>}

IndexSet(Cores) ==
    [core : Cores, known : SUBSET Rows, tombstones : SUBSET Rows]

(* A call that decides row r's fate: appending a NULL does not.            *)
Concerns(c, r) == c.row = r /\ (c.kind = "append" => c.vec \in Vecs)
Silent(log, r) == \A i \in 1..Len(log) : ~Concerns(log[i], r)
Decides(log, i, r) ==
    /\ i \in 1..Len(log) /\ Concerns(log[i], r)
    /\ \A j \in 1..Len(log) : j > i => ~Concerns(log[j], r)

(* Row r is live, or live with vector v, once log has been applied to ix.  *)
Alive(ix, log, r) ==
    \/ Silent(log, r) /\ r \in ix.known \ ix.tombstones
    \/ \E i \in 1..Len(log) : Decides(log, i, r) /\ log[i].kind = "append"
Holds(ix, log, r, v) ==
    \/ Silent(log, r) /\ <<r, v>> \in CoreEntries(ix.core)
    \/ \E i \in 1..Len(log) :
         Decides(log, i, r) /\ log[i].kind = "append" /\ log[i].vec = v

Covers(ix, log) ==
    \A r \in Rows :
        /\ Alive(ix, log, r) <=> table[r] \in Vecs
        /\ table[r] \in Vecs => Holds(ix, log, r, table[r])

(* One call applied to an index of the right shape.                        *)
LEMMA AppliedShape ==
    ASSUME NEW Cores, CoreContract(Cores), NEW ix \in IndexSet(Cores),
           NEW c \in Calls
    PROVE  /\ Applied(ix, c) \in IndexSet(Cores)
           /\ \A r \in Rows :
                r \in Applied(ix, c).known \ Applied(ix, c).tombstones <=>
                  IF Concerns(c, r) THEN c.kind = "append"
                  ELSE r \in ix.known \ ix.tombstones
           /\ \A r \in Rows, v \in Vecs :
                <<r, v>> \in CoreEntries(ix.core)
                  \/ (Concerns(c, r) /\ c.kind = "append" /\ c.vec = v)
                => <<r, v>> \in CoreEntries(Applied(ix, c).core)
<1> USE FacadeAssumption DEF IndexSet
<1>1. CASE c.kind = "append" /\ c.vec = NoVec
  <2>1. Applied(ix, c) = ix BY <1>1 DEF Applied, Constructed
  <2>2. \A r \in Rows : ~Concerns(c, r) BY <1>1 DEF Concerns
  <2> QED BY <2>1, <2>2
<1>2. CASE c.kind = "append" /\ c.vec # NoVec
  <2>1. c.row \in Rows /\ c.vec \in Vecs BY <1>2 DEF Calls
  <2>2. Applied(ix, c) =
          [core |-> CoreInsert(ix.core, c.row, c.vec),
           known |-> ix.known \cup {c.row}, tombstones |-> ix.tombstones \ {c.row}]
    BY <1>2 DEF Applied, Constructed
  <2>3. /\ CoreInsert(ix.core, c.row, c.vec) \in Cores
        /\ CoreEntries(CoreInsert(ix.core, c.row, c.vec))
             = CoreEntries(ix.core) \cup {<<c.row, c.vec>>}
    BY <2>1 DEF CoreContract
  <2>4. \A r : Concerns(c, r) <=> c.row = r BY <2>1 DEF Concerns
  <2> QED BY <1>2, <2>1, <2>2, <2>3, <2>4
<1>3. CASE c.kind = "delete"
  <2>1. c.row \in Rows BY <1>3 DEF Calls
  <2>2. Applied(ix, c) = [ix EXCEPT !.tombstones = @ \cup ({c.row} \cap ix.known)]
    BY <1>3 DEF Applied, Deleted
  <2>4. \A r : Concerns(c, r) <=> c.row = r BY <1>3 DEF Concerns
  <2> QED BY <1>3, <2>1, <2>2, <2>4
<1> QED BY <1>1, <1>2, <1>3 DEF Calls

(* A call logged after others decides, if it concerns the row.             *)
LEMMA CallLogged ==
    ASSUME NEW ix, NEW log \in Seq(Calls), NEW c \in Calls, NEW r \in Rows, NEW v
    PROVE  /\ Alive(ix, Append(log, c), r) <=>
                IF Concerns(c, r) THEN c.kind = "append" ELSE Alive(ix, log, r)
           /\ Holds(ix, Append(log, c), r, v) <=>
                IF Concerns(c, r) THEN c.kind = "append" /\ c.vec = v
                ELSE Holds(ix, log, r, v)
<1> DEFINE new == Append(log, c)
           n == Len(log)
<1>1. /\ n \in Nat /\ Len(new) = n + 1 /\ new[n + 1] = c
      /\ \A i \in 1..n : new[i] = log[i]
  OBVIOUS
<1> HIDE DEF new, n
<1>2. CASE Concerns(c, r)
  <2>1. Decides(new, n + 1, r) BY <1>1, <1>2 DEF Decides
  <2>2. \A i \in 1..Len(new) : Decides(new, i, r) => i = n + 1
    BY <1>1, <1>2 DEF Decides
  <2>3. ~Silent(new, r) BY <1>1, <1>2 DEF Silent
  <2> QED BY <1>1, <1>2, <2>1, <2>2, <2>3 DEF Alive, Holds, new
<1>3. CASE ~Concerns(c, r)
  <2>1. Silent(new, r) <=> Silent(log, r) BY <1>1, <1>3 DEF Silent, n
  <2>2. \A i \in 1..n : Decides(new, i, r) <=> Decides(log, i, r)
    BY <1>1, <1>3 DEF Decides, n
  <2>3. ~Decides(new, n + 1, r) BY <1>1, <1>3 DEF Decides
  <2> QED BY <1>1, <1>3, <2>1, <2>2, <2>3 DEF Alive, Holds, n, new
<1> QED BY <1>2, <1>3

(* Applying the first call to the index leaves what the log decides.       *)
LEMMA CallReplayed ==
    ASSUME NEW Cores, CoreContract(Cores), NEW ix \in IndexSet(Cores),
           NEW log \in Seq(Calls), log # <<>>, NEW r \in Rows
    PROVE  /\ Alive(Applied(ix, Head(log)), Tail(log), r) <=> Alive(ix, log, r)
           /\ \A v \in Vecs : Holds(ix, log, r, v) =>
                Holds(Applied(ix, Head(log)), Tail(log), r, v)
<1> DEFINE c == Head(log)
           rest == Tail(log)
           n == Len(rest)
           after == Applied(ix, c)
<1>1. /\ c \in Calls /\ c = log[1] /\ rest \in Seq(Calls)
      /\ n \in Nat /\ Len(log) = n + 1
      /\ \A i \in 1..n : rest[i] = log[i + 1]
  OBVIOUS
<1>2. /\ r \in after.known \ after.tombstones <=>
           IF Concerns(c, r) THEN c.kind = "append"
           ELSE r \in ix.known \ ix.tombstones
      /\ \A v \in Vecs :
           <<r, v>> \in CoreEntries(ix.core)
             \/ (Concerns(c, r) /\ c.kind = "append" /\ c.vec = v)
           => <<r, v>> \in CoreEntries(after.core)
  BY <1>1, AppliedShape
<1> HIDE DEF c, rest, n, after
<1>3. \A i \in 1..n : Decides(rest, i, r) <=> Decides(log, i + 1, r)
  <2> SUFFICES ASSUME NEW i \in 1..n
               PROVE  Decides(rest, i, r) <=> Decides(log, i + 1, r)
    OBVIOUS
  <2>1. ASSUME Decides(rest, i, r) PROVE Decides(log, i + 1, r)
    <3>1. ASSUME NEW j \in 1..Len(log), j > i + 1 PROVE ~Concerns(log[j], r)
      <4>1. j - 1 \in 1..n /\ j - 1 > i /\ rest[j - 1] = log[j]
        BY <1>1, <3>1
      <4> QED BY <2>1, <4>1 DEF Decides, n
    <3> QED BY <1>1, <2>1, <3>1 DEF Decides, n
  <2>2. ASSUME Decides(log, i + 1, r) PROVE Decides(rest, i, r)
    <3>1. ASSUME NEW j \in 1..n, j > i PROVE ~Concerns(rest[j], r)
      <4>1. j + 1 \in 1..Len(log) /\ j + 1 > i + 1 BY <1>1, <3>1
      <4> QED BY <1>1, <2>2, <4>1 DEF Decides
    <3> QED BY <1>1, <2>2, <3>1 DEF Decides, n
  <2> QED BY <2>1, <2>2
<1>4. Silent(log, r) <=> Silent(rest, r) /\ ~Concerns(c, r)
  <2>1. ASSUME Silent(rest, r), ~Concerns(c, r), NEW i \in 1..Len(log)
        PROVE  ~Concerns(log[i], r)
    <3>1. CASE i = 1 BY <1>1, <2>1, <3>1
    <3>2. CASE i # 1
      <4>1. i - 1 \in 1..n /\ rest[i - 1] = log[i] BY <1>1, <3>2
      <4> QED BY <2>1, <4>1 DEF Silent, n
    <3> QED BY <3>1, <3>2
  <2>2. ASSUME Silent(log, r) PROVE Silent(rest, r) /\ ~Concerns(c, r)
    <3>1. \A i \in 1..n : ~Concerns(rest[i], r) BY <1>1, <2>2 DEF Silent
    <3> QED BY <1>1, <2>2, <3>1 DEF Silent, n
  <2> QED BY <2>1, <2>2 DEF Silent
<1>5. Decides(log, 1, r) <=> Silent(rest, r) /\ Concerns(c, r)
  <2>1. ASSUME Decides(log, 1, r) PROVE Silent(rest, r) /\ Concerns(c, r)
    <3>1. \A i \in 1..n : ~Concerns(rest[i], r) BY <1>1, <2>1 DEF Decides
    <3> QED BY <1>1, <2>1, <3>1 DEF Silent, Decides, n
  <2>2. ASSUME Silent(rest, r), Concerns(c, r) PROVE Decides(log, 1, r)
    <3>1. ASSUME NEW j \in 1..Len(log), j > 1 PROVE ~Concerns(log[j], r)
      <4>1. j - 1 \in 1..n /\ rest[j - 1] = log[j] BY <1>1, <3>1
      <4> QED BY <2>2, <4>1 DEF Silent, n
    <3> QED BY <1>1, <2>2, <3>1 DEF Decides
  <2> QED BY <2>1, <2>2
(* A decision in the log is the first call's or the rest's.                *)
<1>6. \A i \in 1..Len(log) : i # 1 =>
        i - 1 \in 1..n /\ rest[i - 1] = log[i] /\ (i - 1) + 1 = i
  BY <1>1
<1>7. \A i \in 1..n : i + 1 \in 1..Len(log) /\ rest[i] = log[i + 1]
  BY <1>1
<1>8. 1 \in 1..Len(log) /\ log[1] = c BY <1>1
<1>9. Alive(after, rest, r) <=> Alive(ix, log, r)
  <2>1. ASSUME Alive(after, rest, r) PROVE Alive(ix, log, r)
    <3>1. CASE Silent(rest, r) /\ r \in after.known \ after.tombstones
      BY <1>2, <1>4, <1>5, <1>8, <3>1 DEF Alive
    <3>2. CASE \E i \in 1..n : Decides(rest, i, r) /\ rest[i].kind = "append"
      BY <1>3, <1>7, <3>2 DEF Alive
    <3> QED BY <2>1, <3>1, <3>2 DEF Alive, n
  <2>2. ASSUME Alive(ix, log, r) PROVE Alive(after, rest, r)
    <3>1. CASE Silent(log, r) /\ r \in ix.known \ ix.tombstones
      BY <1>2, <1>4, <3>1 DEF Alive
    <3>2. CASE Decides(log, 1, r) /\ log[1].kind = "append"
      BY <1>2, <1>5, <1>8, <3>2 DEF Alive
    <3>3. ASSUME NEW i \in 1..Len(log), i # 1, Decides(log, i, r),
                 log[i].kind = "append"
          PROVE  Alive(after, rest, r)
      <4>1. Decides(rest, i - 1, r) BY <1>3, <1>6, <3>3
      <4> QED BY <1>6, <3>3, <4>1 DEF Alive, n
    <3> QED BY <2>2, <3>1, <3>2, <3>3 DEF Alive
  <2> QED BY <2>1, <2>2
<1>10. ASSUME NEW v \in Vecs, Holds(ix, log, r, v) PROVE Holds(after, rest, r, v)
  <2>1. CASE Silent(log, r) /\ <<r, v>> \in CoreEntries(ix.core)
    BY <1>2, <1>4, <2>1 DEF Holds
  <2>2. CASE Decides(log, 1, r) /\ log[1].kind = "append" /\ log[1].vec = v
    BY <1>2, <1>5, <1>8, <2>2 DEF Holds
  <2>3. ASSUME NEW i \in 1..Len(log), i # 1, Decides(log, i, r),
               log[i].kind = "append", log[i].vec = v
        PROVE  Holds(after, rest, r, v)
    <3>1. Decides(rest, i - 1, r) BY <1>3, <1>6, <2>3
    <3> QED BY <1>6, <2>3, <3>1 DEF Holds, n
  <2> QED BY <1>10, <2>1, <2>2, <2>3 DEF Holds
<1> QED BY <1>9, <1>10 DEF c, rest, after
-----------------------------------------------------------------------------
(* The inductive invariant.                                                *)

Shape(Cores) ==
    /\ mem \in IndexSet(Cores) /\ disk \in IndexSet(Cores)
    /\ dirty \in BOOLEAN
    /\ pending \in Calls \cup {NoCall}
    /\ table \in [Rows -> Vecs \cup {NoVec, Absent}]
    /\ wal \in Seq(Calls) /\ replay \in Seq(Calls)

(* A pending write has raised the flag, found recovery over, and, if it    *)
(* appends, is for a row id the table does not hold.                       *)
PendingInv ==
    pending # NoCall =>
        /\ dirty /\ replay = <<>>
        /\ pending.kind = "append" => table[pending.row] = Absent

CoverInv(Cores) ==
    /\ Shape(Cores) /\ PendingInv
    /\ ~dirty => mem = disk
    /\ Covers(mem, replay) /\ Covers(disk, wal)

LEMMA CoverInit ==
    ASSUME NEW Cores, CoreContract(Cores), Init
    PROVE  CoverInv(Cores)
<1> USE FacadeAssumption DEF Init, EmptyIndex
<1>1. Shape(Cores)
  <2>1. EmptyIndex \in IndexSet(Cores) BY DEF CoreContract, IndexSet
  <2>2. wal \in Seq(Calls) /\ replay \in Seq(Calls) OBVIOUS
  <2>3. table \in [Rows -> Vecs \cup {NoVec, Absent}] OBVIOUS
  <2> QED BY <2>1, <2>2, <2>3 DEF Shape
<1>2. PendingInv BY DEF PendingInv
<1>3. \A r \in Rows : ~Alive(EmptyIndex, <<>>, r) BY DEF Alive
<1>4. Covers(mem, replay) /\ Covers(disk, wal) BY <1>3 DEF Covers
<1> QED BY <1>1, <1>2, <1>4 DEF CoverInv

LEMMA CoverStep ==
    ASSUME NEW Cores, CoreContract(Cores), CoverInv(Cores), [Next]_vars
    PROVE  CoverInv(Cores)'
<1> USE FacadeAssumption
<1>0. /\ Shape(Cores) /\ PendingInv /\ (~dirty => mem = disk)
      /\ Covers(mem, replay) /\ Covers(disk, wal)
  BY DEF CoverInv
<1>1. CASE CallWrite
  <2>1. PICK c \in Calls : Callable(c) /\ pending' = c BY <1>1 DEF CallWrite
  <2>2. /\ dirty' = TRUE /\ replay = <<>>
        /\ UNCHANGED <<mem, disk, table, wal, replay>>
    BY <1>1 DEF CallWrite, Flagged
  <2>3. Shape(Cores)' BY <1>0, <2>1, <2>2 DEF Shape
  <2>4. PendingInv' BY <2>1, <2>2 DEF PendingInv, Callable
  <2>5. Covers(mem, replay)' /\ Covers(disk, wal)'
    BY <1>0, <2>2 DEF Covers
  <2> QED BY <2>2, <2>3, <2>4, <2>5 DEF CoverInv
<1>2. CASE DoWrite
  <2> DEFINE c == pending
  <2>1. /\ c \in Calls /\ dirty /\ replay = <<>>
        /\ c.kind = "append" => table[c.row] = Absent
    BY <1>0, <1>2 DEF DoWrite, PendingInv, Shape
  <2>2. /\ mem' = Applied(mem, c) /\ wal' = Append(wal, c)
        /\ table' = [table EXCEPT ![c.row] = IF c.kind = "append" THEN c.vec ELSE Absent]
        /\ pending' = NoCall /\ UNCHANGED <<dirty, disk, replay>>
    BY <1>2 DEF DoWrite
  <2>3. /\ c.row \in Rows /\ c.kind \in {"append", "delete"}
        /\ c.kind = "append" => c.vec \in Vecs \cup {NoVec}
    BY <2>1 DEF Calls
  <2>4. Shape(Cores)'
    <3>1. mem' \in IndexSet(Cores) BY <1>0, <2>1, <2>2, AppliedShape DEF Shape
    <3>2. wal' \in Seq(Calls) BY <1>0, <2>1, <2>2 DEF Shape
    <3>3. table' \in [Rows -> Vecs \cup {NoVec, Absent}]
      BY <1>0, <2>2, <2>3 DEF Shape
    <3> QED BY <1>0, <2>2, <3>1, <3>2, <3>3 DEF Shape
  <2>5. \A r \in Rows :
          /\ ~Concerns(c, r) => (table'[r] \in Vecs <=> table[r] \in Vecs)
          /\ ~Concerns(c, r) /\ table'[r] \in Vecs => table'[r] = table[r]
          /\ Concerns(c, r) => (table'[r] \in Vecs <=> c.kind = "append")
          /\ Concerns(c, r) /\ c.kind = "append" => table'[r] = c.vec
    BY <1>0, <2>1, <2>2, <2>3 DEF Shape, Concerns
  <2>6. Covers(disk, wal)'
    <3> SUFFICES ASSUME NEW r \in Rows
                 PROVE  /\ Alive(disk, wal', r) <=> table'[r] \in Vecs
                        /\ table'[r] \in Vecs => Holds(disk, wal', r, table'[r])
      BY <2>2 DEF Covers
    <3>1. /\ Alive(disk, wal, r) <=> table[r] \in Vecs
          /\ table[r] \in Vecs => Holds(disk, wal, r, table[r])
      BY <1>0 DEF Covers
    <3>2. /\ Alive(disk, wal', r) <=>
               IF Concerns(c, r) THEN c.kind = "append" ELSE Alive(disk, wal, r)
          /\ Holds(disk, wal', r, table'[r]) <=>
               IF Concerns(c, r) THEN c.kind = "append" /\ c.vec = table'[r]
               ELSE Holds(disk, wal, r, table'[r])
      BY <1>0, <2>1, <2>2, CallLogged DEF Shape
    <3> QED BY <2>5, <3>1, <3>2
  <2>7. Covers(mem, replay)'
    <3> SUFFICES ASSUME NEW r \in Rows
                 PROVE  /\ Alive(mem', <<>>, r) <=> table'[r] \in Vecs
                        /\ table'[r] \in Vecs => Holds(mem', <<>>, r, table'[r])
      BY <2>1, <2>2 DEF Covers
    <3>1. /\ Alive(mem, <<>>, r) <=> table[r] \in Vecs
          /\ table[r] \in Vecs => Holds(mem, <<>>, r, table[r])
      BY <1>0, <2>1 DEF Covers
    <3>2. \A ix, v : /\ Alive(ix, <<>>, r) <=> r \in ix.known \ ix.tombstones
                     /\ Holds(ix, <<>>, r, v) <=> <<r, v>> \in CoreEntries(ix.core)
      BY DEF Alive, Holds, Silent, Decides
    <3>3. /\ r \in mem'.known \ mem'.tombstones <=>
               IF Concerns(c, r) THEN c.kind = "append"
               ELSE r \in mem.known \ mem.tombstones
          /\ \A v \in Vecs :
               <<r, v>> \in CoreEntries(mem.core)
                 \/ (Concerns(c, r) /\ c.kind = "append" /\ c.vec = v)
               => <<r, v>> \in CoreEntries(mem'.core)
      BY <1>0, <2>1, <2>2, AppliedShape DEF Shape
    <3> QED BY <2>5, <3>1, <3>2, <3>3
  <2>8. PendingInv' BY <2>2 DEF PendingInv
  <2> QED BY <2>1, <2>2, <2>4, <2>6, <2>7, <2>8 DEF CoverInv
<1>3. CASE Compact
  BY <1>0, <1>3 DEF Compact, CoverInv, Shape, PendingInv, Covers
<1>4. CASE Checkpoint
  <2>1. /\ replay = <<>> /\ pending = NoCall /\ disk' = mem /\ wal' = <<>>
        /\ UNCHANGED <<mem, pending, table, replay>> /\ dirty' = FALSE
    BY <1>0, <1>4 DEF Checkpoint, Persisted, NoWriteUnderWay
  <2>2. Shape(Cores)' BY <1>0, <2>1 DEF Shape
  <2>3. Covers(mem, replay)' /\ Covers(disk, wal)' BY <1>0, <2>1 DEF Covers
  <2> QED BY <2>1, <2>2, <2>3 DEF CoverInv, PendingInv
<1>5. CASE Restart
  <2>1. /\ mem' = disk /\ pending' = NoCall /\ replay' = wal /\ dirty' = FALSE
        /\ UNCHANGED <<disk, table, wal>>
    BY <1>5 DEF Restart, Loaded
  <2>2. Shape(Cores)' BY <1>0, <2>1 DEF Shape
  <2>3. Covers(mem, replay)' /\ Covers(disk, wal)' BY <1>0, <2>1 DEF Covers
  <2> QED BY <2>1, <2>2, <2>3 DEF CoverInv, PendingInv
<1>6. CASE Replay
  <2>1. /\ replay # <<>> /\ mem' = Applied(mem, Head(replay))
        /\ replay' = Tail(replay) /\ dirty' = TRUE
        /\ UNCHANGED <<disk, pending, table, wal>>
    BY <1>6 DEF Replay, Flagged
  <2>2. pending = NoCall BY <1>0, <2>1 DEF PendingInv
  <2>3. Head(replay) \in Calls /\ Tail(replay) \in Seq(Calls)
    BY <1>0, <2>1 DEF Shape
  <2>4. Applied(mem, Head(replay)) \in IndexSet(Cores)
    BY <1>0, <2>3, AppliedShape DEF Shape
  <2>5. Shape(Cores)' BY <1>0, <2>1, <2>3, <2>4 DEF Shape
  <2>6. Covers(mem, replay)'
    <3> SUFFICES ASSUME NEW r \in Rows
                 PROVE  /\ Alive(mem', replay', r) <=> table[r] \in Vecs
                        /\ table[r] \in Vecs => Holds(mem', replay', r, table[r])
      BY <2>1 DEF Covers
    <3>1. /\ Alive(mem', replay', r) <=> Alive(mem, replay, r)
          /\ \A v \in Vecs : Holds(mem, replay, r, v) => Holds(mem', replay', r, v)
      BY <1>0, <2>1, CallReplayed DEF Shape
    <3> QED BY <1>0, <3>1 DEF Covers
  <2>7. Covers(disk, wal)' BY <1>0, <2>1 DEF Covers
  <2> QED BY <2>1, <2>2, <2>5, <2>6, <2>7 DEF CoverInv, PendingInv
<1>7. ASSUME NEW t \in Readers,
             InitializeScan(t) \/ ExecuteMultiScan(t) \/ FilterOne(t) \/ EndScan(t)
      PROVE  CoverInv(Cores)'
  <2>1. UNCHANGED <<mem, dirty, disk, pending, table, wal, replay>>
    BY <1>7 DEF InitializeScan, ExecuteMultiScan, FilterOne, EndScan
  <2> QED BY <1>0, <2>1 DEF CoverInv, Shape, PendingInv, Covers
<1>8. CASE UNCHANGED vars
  BY <1>0, <1>8 DEF vars, CoverInv, Shape, PendingInv, Covers
<1> QED BY <1>1, <1>2, <1>3, <1>4, <1>5, <1>6, <1>7, <1>8 DEF Next

(* What that says of the index outside recovery.                           *)
LEMMA CoverMeans ==
    ASSUME NEW Cores, CoverInv(Cores)
    PROVE  IndexCoversTable
<1> SUFFICES ASSUME replay = <<>>
             PROVE  /\ mem.known \ mem.tombstones = LiveRows
                    /\ \A r \in LiveRows : <<r, table[r]>> \in CoreEntries(mem.core)
  BY DEF IndexCoversTable
<1>1. \A ix, r, v : /\ Alive(ix, <<>>, r) <=> r \in ix.known \ ix.tombstones
                    /\ Holds(ix, <<>>, r, v) <=> <<r, v>> \in CoreEntries(ix.core)
  BY DEF Alive, Holds, Silent, Decides
<1>2. Covers(mem, <<>>) /\ mem.known \subseteq Rows
  BY DEF CoverInv, Shape, IndexSet
<1> QED BY <1>1, <1>2 DEF Covers, LiveRows

(* Whatever sequence of writes, checkpoints, crashes and replays happened, *)
(* the index outside recovery knows exactly the table's rows with a        *)
(* vector, each under the vector the table has: for every core that keeps  *)
(* its entries, and whether or not row ids come back.                      *)
THEOREM IndexFollowsTable ==
    ASSUME NEW Cores, CoreContract(Cores)
    PROVE  Spec => []IndexCoversTable
<1>1. Init => CoverInv(Cores) BY CoverInit
<1>2. CoverInv(Cores) /\ [Next]_vars => CoverInv(Cores)' BY CoverStep
<1>3. CoverInv(Cores) => IndexCoversTable BY CoverMeans
<1> QED BY <1>1, <1>2, <1>3, PTL DEF Spec

(* A checkpoint may skip writing an index whose flag is clear.             *)
THEOREM SkippedCheckpointLosesNothing ==
    ASSUME NEW Cores, CoreContract(Cores)
    PROVE  Spec => []CleanMeansSaved
<1>1. Init => CoverInv(Cores) BY CoverInit
<1>2. CoverInv(Cores) /\ [Next]_vars => CoverInv(Cores)' BY CoverStep
<1>3. CoverInv(Cores) => CleanMeansSaved BY DEF CoverInv, CleanMeansSaved
<1> QED BY <1>1, <1>2, <1>3, PTL DEF Spec
-----------------------------------------------------------------------------
(* Scans, as long as no row id comes back.                                 *)

RowsOf(c) == {e[1] : e \in CoreEntries(c)}
RowsIn(list) == {list[i] : i \in 1..Len(list)}
NoneTwice(list) == \A i, j \in 1..Len(list) : i # j => list[i] # list[j]

(* What a scan needs from a core every row was inserted into once: its     *)
(* searches return rows it holds, none twice.                              *)
SearchContract(Cores, Simple) ==
    /\ CoreContract(Cores)
    /\ Simple \subseteq Cores
    /\ EmptyCore \in Simple /\ CoreEntries(EmptyCore) = {}
    /\ \A c \in Simple, r \in Rows, v \in Vecs :
         r \notin RowsOf(c) => CoreInsert(c, r, v) \in Simple
    /\ \A c \in Simple, q \in Vecs, k \in Nat : \A list \in CoreSearch(c, q, k) :
         list \in Seq(RowsOf(c)) /\ NoneTwice(list)

-----------------------------------------------------------------------------
(* The filter of a scan keeps the first candidates without a tombstone.    *)

Positions(cands) == {i \in 1..Len(cands) : ~Tombstoned(cands[i])}

(* Counting the members of a finite set of positions up to each of them    *)
(* numbers the positions from 1 to how many they are.                      *)
LEMMA RanksNumber ==
    ASSUME NEW n \in Nat, NEW S \in SUBSET (1..n)
    PROVE  /\ IsFiniteSet(S) /\ Cardinality(S) \in Nat
           /\ \A h \in 1..Cardinality(S) :
                \E i \in S : Cardinality({j \in S : j <= i}) = h
<1>0. S \subseteq Int /\ IsFiniteSet(1..n) BY FS_Interval
<1>1. IsFiniteSet(S) BY <1>0, FS_Subset
<1>2. Cardinality(S) \in Nat BY <1>1, FS_CardinalityType
<1> DEFINE Rank(i) == Cardinality({j \in S : j <= i})
           m == Cardinality(S)
           f == [i \in S |-> Rank(i)]
<1>3. ASSUME NEW i \in S
      PROVE  /\ IsFiniteSet({j \in S : j <= i})
             /\ Rank(i) \in 1..m
  <2>1. {j \in S : j <= i} \in SUBSET S OBVIOUS
  <2>2. IsFiniteSet({j \in S : j <= i}) /\ Rank(i) <= m /\ Rank(i) \in Nat
    BY <1>1, <2>1, FS_Subset, FS_CardinalityType
  <2>3. Rank(i) # 0
    <3>1. i \in {j \in S : j <= i} OBVIOUS
    <3> QED BY <2>2, <3>1, FS_EmptySet
  <2> QED BY <1>2, <2>2, <2>3
<1>4. ASSUME NEW i \in S, NEW k \in S, i < k PROVE Rank(i) # Rank(k)
  <2>1. {j \in S : j <= i} \subseteq {j \in S : j <= k}
    <3>1. i \in Int /\ k \in Int /\ \A j \in S : j \in Int BY <1>0
    <3>2. \A j \in S : j <= i => j <= k BY <1>4, <3>1
    <3> QED BY <3>2
  <2>2. k \in {j \in S : j <= k} /\ k \notin {j \in S : j <= i} BY <1>4
  <2>3. {j \in S : j <= i} # {j \in S : j <= k} BY <2>2
  <2> QED BY <1>3, <2>1, <2>3, FS_Subset
<1> HIDE DEF Rank, m
<1>5. \A i, k \in S : i # k => Rank(i) # Rank(k)
  <2> TAKE i \in S, k \in S
  <2>1. CASE i < k BY <1>4, <2>1
  <2>2. CASE k < i BY <1>4, <2>2
  <2>3. i \in Int /\ k \in Int OBVIOUS
  <2> QED BY <2>1, <2>2, <2>3
<1>6. f \in Injection(S, 1..m)
  BY <1>3, <1>5, Fun_IsInj
<1>7. IsFiniteSet(1..m) /\ Cardinality(1..m) = m
  BY <1>2, FS_Interval DEF m
<1>8. f \in Surjection(S, 1..m)
  BY <1>6, <1>7, FS_Injection DEF m
<1>9. \A h \in 1..m : \E i \in S : f[i] = h
  BY <1>8 DEF Surjection
<1> QED BY <1>1, <1>2, <1>9 DEF Rank, m

LEMMA HitsFacts ==
    ASSUME NEW cands \in Seq(Rows), NoneTwice(cands), NEW limit \in Nat
    PROVE  /\ Hits(cands, limit) \in Seq(Rows) /\ NoneTwice(Hits(cands, limit))
           /\ \A i \in 1..Len(Hits(cands, limit)) :
                \E j \in Positions(cands) : Hits(cands, limit)[i] = cands[j]
           /\ IsFiniteSet(Positions(cands))
           /\ \/ Len(Hits(cands, limit)) = limit
              \/ Len(Hits(cands, limit)) = Cardinality(Positions(cands))
<1> DEFINE live == Positions(cands)
           Rank(i) == Cardinality({j \in live : j <= i})
           found == Cardinality(live)
           n == IF found <= limit THEN found ELSE limit
           At(h) == CHOOSE i \in live : Rank(i) = h
           hits == Hits(cands, limit)
<1>1. live \in SUBSET (1..Len(cands)) /\ Len(cands) \in Nat BY DEF Positions
<1>2. /\ IsFiniteSet(live) /\ found \in Nat
      /\ \A h \in 1..found : \E i \in live : Rank(i) = h
  BY <1>1, RanksNumber
<1>3. hits = [h \in 1..n |-> cands[At(h)]] BY DEF Hits, Positions
<1>4. n \in Nat /\ 1..n \subseteq 1..found BY <1>2
<1>5. \A h \in 1..n : At(h) \in live /\ Rank(At(h)) = h BY <1>2, <1>4
<1>6. \A i \in live : cands[i] \in Rows BY <1>1
<1> HIDE DEF live, Rank, found, At, hits
<1>7. hits \in Seq(Rows) /\ Len(hits) = n /\ \A h \in 1..n : hits[h] = cands[At(h)]
  <2>1. hits \in [1..n -> Rows] BY <1>3, <1>5, <1>6
  <2> QED BY SMTT(30), <1>3, <1>4, <2>1
<1>8. NoneTwice(hits)
  <2> SUFFICES ASSUME NEW g \in 1..n, NEW h \in 1..n, g # h
               PROVE  hits[g] # hits[h]
    BY <1>7 DEF NoneTwice
  <2>1. At(g) # At(h) BY <1>5
  <2>2. At(g) \in 1..Len(cands) /\ At(h) \in 1..Len(cands) BY <1>1, <1>5
  <2> QED BY <1>7, <2>1, <2>2 DEF NoneTwice
<1>9. \A i \in 1..Len(hits) : \E j \in live : hits[i] = cands[j]
  BY <1>5, <1>7
<1> QED BY <1>2, <1>4, <1>7, <1>8, <1>9 DEF live, found, hits
-----------------------------------------------------------------------------
(* Every row enters a core once, through writes, crashes and replays.      *)

Adds(c) == c.kind = "append" /\ c.vec \in Vecs

Once(Simple, ix, log) ==
    /\ ix.core \in Simple /\ RowsOf(ix.core) = ix.known
    /\ IsFiniteSet(ix.known) /\ ix.known \subseteq used
    /\ ix.tombstones \subseteq ix.known
    /\ \A i \in 1..Len(log) : Adds(log[i]) =>
         /\ log[i].row \notin ix.known /\ log[i].row \in used
         /\ \A j \in 1..Len(log) : Adds(log[j]) /\ i # j => log[i].row # log[j].row

NewRow(ix, log, r) ==
    /\ r \notin ix.known
    /\ \A i \in 1..Len(log) : Adds(log[i]) => log[i].row # r

OnceInv(Simple) ==
    /\ Once(Simple, mem, replay) /\ Once(Simple, disk, wal)
    /\ pending # NoCall /\ Adds(pending) =>
         /\ pending.row \in used
         /\ NewRow(mem, <<>>, pending.row) /\ NewRow(disk, wal, pending.row)

(* A call that adds no row the index knows leaves it with each row once,   *)
(* and lifts no tombstone.                                                 *)
LEMMA AppliedOnce ==
    ASSUME NEW Cores, NEW Simple, SearchContract(Cores, Simple),
           NEW ix \in IndexSet(Cores), NEW c \in Calls,
           Once(Simple, ix, <<>>),
           Adds(c) => c.row \notin ix.known /\ c.row \in used
    PROVE  /\ Applied(ix, c).core \in Simple
           /\ RowsOf(Applied(ix, c).core) = Applied(ix, c).known
           /\ IsFiniteSet(Applied(ix, c).known) /\ Applied(ix, c).known \subseteq used
           /\ Applied(ix, c).known = ix.known \cup (IF Adds(c) THEN {c.row} ELSE {})
           /\ Applied(ix, c).tombstones \subseteq Applied(ix, c).known
           /\ ix.tombstones \subseteq Applied(ix, c).tombstones
<1> USE FacadeAssumption
<1>0. /\ ix.core \in Simple /\ RowsOf(ix.core) = ix.known
      /\ IsFiniteSet(ix.known) /\ ix.known \subseteq used
      /\ ix.tombstones \subseteq ix.known
  BY DEF Once
<1>1. CASE c.kind = "append" /\ c.vec = NoVec
  <2>1. Applied(ix, c) = ix BY <1>1 DEF Applied, Constructed
  <2>2. ~Adds(c) BY <1>1 DEF Adds
  <2> QED BY <1>0, <2>1, <2>2
<1>2. CASE c.kind = "append" /\ c.vec # NoVec
  <2>1. c.row \in Rows /\ c.vec \in Vecs BY <1>2 DEF Calls
  <2>2. Adds(c) /\ c.row \notin ix.known /\ c.row \in used BY <1>2, <2>1 DEF Adds
  <2>3. Applied(ix, c) =
          [core |-> CoreInsert(ix.core, c.row, c.vec),
           known |-> ix.known \cup {c.row}, tombstones |-> ix.tombstones \ {c.row}]
    BY <1>2 DEF Applied, Constructed
  <2>4. CoreInsert(ix.core, c.row, c.vec) \in Simple
    BY <1>0, <2>1, <2>2 DEF SearchContract
  <2>5. CoreEntries(CoreInsert(ix.core, c.row, c.vec))
          = CoreEntries(ix.core) \cup {<<c.row, c.vec>>}
    BY <1>0, <2>1 DEF SearchContract, CoreContract
  <2>6. RowsOf(CoreInsert(ix.core, c.row, c.vec)) = RowsOf(ix.core) \cup {c.row}
    <3>1. <<c.row, c.vec>>[1] = c.row OBVIOUS
    <3> QED BY <2>5, <3>1, Zenon DEF RowsOf
  <2>7. IsFiniteSet(ix.known \cup {c.row}) BY <1>0, FS_AddElement
  <2> QED BY <1>0, <2>2, <2>3, <2>4, <2>6, <2>7
<1>3. CASE c.kind = "delete"
  <2>1. Applied(ix, c) = [ix EXCEPT !.tombstones = @ \cup ({c.row} \cap ix.known)]
    BY <1>3 DEF Applied, Deleted
  <2>2. ~Adds(c) BY <1>3 DEF Adds
  <2>3. /\ Applied(ix, c).core = ix.core /\ Applied(ix, c).known = ix.known
        /\ Applied(ix, c).tombstones = ix.tombstones \cup ({c.row} \cap ix.known)
    BY <2>1 DEF IndexSet
  <2> QED BY <1>0, <2>2, <2>3
<1> QED BY <1>1, <1>2, <1>3 DEF Calls

LEMMA OnceInit ==
    ASSUME NEW Cores, NEW Simple, SearchContract(Cores, Simple), Init
    PROVE  OnceInv(Simple)
<1>1. /\ EmptyIndex.core = EmptyCore /\ EmptyIndex.known = {}
      /\ EmptyIndex.tombstones = {}
  BY DEF EmptyIndex
<1>2. RowsOf(EmptyCore) = {} BY DEF SearchContract, RowsOf
<1>3. IsFiniteSet({}) BY FS_EmptySet
<1>4. Once(Simple, EmptyIndex, <<>>)
  BY <1>1, <1>2, <1>3 DEF Once, SearchContract
<1> QED BY <1>4 DEF Init, OnceInv

LEMMA OnceStep ==
    ASSUME ~ReuseRowIds, NEW Cores, NEW Simple, SearchContract(Cores, Simple),
           CoverInv(Cores), OnceInv(Simple), [Next]_vars
    PROVE  /\ OnceInv(Simple)'
           /\ DoWrite => mem.tombstones \subseteq mem'.tombstones
<1>0. /\ Once(Simple, mem, replay) /\ Once(Simple, disk, wal)
      /\ pending # NoCall /\ Adds(pending) =>
           /\ pending.row \in used
           /\ NewRow(mem, <<>>, pending.row) /\ NewRow(disk, wal, pending.row)
  BY DEF OnceInv
<1>s. /\ Shape(Cores) /\ PendingInv /\ (~dirty => mem = disk)
      /\ mem \in IndexSet(Cores) /\ disk \in IndexSet(Cores)
      /\ wal \in Seq(Calls) /\ replay \in Seq(Calls)
  BY DEF CoverInv, Shape
<1>n. \A ix : Once(Simple, ix, <<>>) <=>
        /\ ix.core \in Simple /\ RowsOf(ix.core) = ix.known
        /\ IsFiniteSet(ix.known) /\ ix.known \subseteq used
        /\ ix.tombstones \subseteq ix.known
  BY DEF Once
<1>l. \A ix, log : Once(Simple, ix, log) => Once(Simple, ix, <<>>)
  BY DEF Once
<1>1. CASE CallWrite
  <2>1. PICK c \in Calls :
          Callable(c) /\ pending' = c /\ used' = used \cup {c.row}
    BY <1>1 DEF CallWrite
  <2>2. replay = <<>> /\ UNCHANGED <<mem, disk, wal, replay>>
    BY <1>1 DEF CallWrite
  <2>3. Once(Simple, mem, replay)' /\ Once(Simple, disk, wal)'
    BY <1>0, <2>1, <2>2 DEF Once
  <2>4. ASSUME Adds(c)
        PROVE  /\ c.row \in used' /\ NewRow(mem, <<>>, c.row)
               /\ NewRow(disk, wal, c.row)
    <3>1. c.row \notin used /\ c.row \in used' BY <2>1, <2>4 DEF Callable, Adds
    <3> QED BY <1>0, <3>1 DEF Once, NewRow
  <2>5. ~DoWrite
    <3>1. pending = NoCall BY <1>1 DEF CallWrite
    <3> QED BY <3>1 DEF DoWrite
  <2> QED BY <2>1, <2>2, <2>3, <2>4, <2>5 DEF OnceInv, NewRow
<1>2. CASE DoWrite
  <2> DEFINE c == pending
  <2>1. c \in Calls /\ c # NoCall /\ replay = <<>>
    BY <1>s, <1>2 DEF DoWrite, PendingInv, Shape
  <2>2. /\ mem' = Applied(mem, c) /\ wal' = Append(wal, c)
        /\ pending' = NoCall /\ UNCHANGED <<disk, replay, used>>
    BY <1>2 DEF DoWrite
  <2>3. Adds(c) => /\ c.row \notin mem.known /\ c.row \in used
                   /\ NewRow(disk, wal, c.row)
    BY <1>0, <2>1 DEF NewRow
  <2>4. /\ mem'.core \in Simple /\ RowsOf(mem'.core) = mem'.known
        /\ IsFiniteSet(mem'.known) /\ mem'.known \subseteq used
        /\ mem'.tombstones \subseteq mem'.known
        /\ mem.tombstones \subseteq mem'.tombstones
    BY <1>0, <1>s, <1>l, <2>1, <2>2, <2>3, AppliedOnce
  <2>5. Once(Simple, mem, replay)' BY <2>1, <2>2, <2>4 DEF Once
  <2>6. Once(Simple, disk, wal)'
    <3> DEFINE n == Len(wal)
    <3>1. /\ n \in Nat /\ Len(wal') = n + 1 /\ wal'[n + 1] = c
          /\ \A i \in 1..n : wal'[i] = wal[i]
      BY <1>s, <2>1, <2>2
    <3>2. \A i \in 1..n : Adds(wal[i]) =>
            /\ wal[i].row \notin disk.known /\ wal[i].row \in used
            /\ \A j \in 1..n : Adds(wal[j]) /\ i # j => wal[i].row # wal[j].row
      BY <1>0 DEF Once
    <3>3. Adds(c) => /\ c.row \notin disk.known /\ c.row \in used
                     /\ \A i \in 1..n : Adds(wal[i]) => wal[i].row # c.row
      BY <2>3 DEF NewRow
    <3> HIDE DEF n, c
    <3>4. \A i \in 1 .. n + 1 : i \in 1..n \/ i = n + 1 BY <3>1
    <3>5. \A i \in 1 .. n + 1 : Adds(wal'[i]) =>
            wal'[i].row \notin disk.known /\ wal'[i].row \in used
      BY <3>1, <3>2, <3>3, <3>4
    <3>6. \A i, j \in 1 .. n + 1 : Adds(wal'[i]) /\ Adds(wal'[j]) /\ i # j =>
            wal'[i].row # wal'[j].row
      BY <3>1, <3>2, <3>3, <3>4
    <3> QED BY <1>0, <2>2, <3>1, <3>5, <3>6 DEF Once
  <2> QED BY <2>2, <2>4, <2>5, <2>6 DEF OnceInv
<1>3. CASE Compact
  BY <1>0, <1>3 DEF Compact, OnceInv, Once, NewRow, DoWrite
<1>4. CASE Checkpoint
  <2>1. /\ replay = <<>> /\ pending = NoCall /\ disk' = mem /\ wal' = <<>>
        /\ UNCHANGED <<mem, pending, replay, used>>
    BY <1>s, <1>4 DEF Checkpoint, Persisted, NoWriteUnderWay
  <2> QED BY <1>0, <2>1 DEF OnceInv, Once, DoWrite
<1>5. CASE Restart
  <2>1. /\ mem' = disk /\ pending' = NoCall /\ replay' = wal
        /\ UNCHANGED <<disk, wal, used>>
    BY <1>5 DEF Restart, Loaded
  <2>2. ~DoWrite \/ mem.tombstones \subseteq mem'.tombstones
    <3>1. ASSUME DoWrite PROVE FALSE
      <4>1. wal' = Append(wal, pending) /\ wal' = wal BY <2>1, <3>1 DEF DoWrite
      <4>2. Len(Append(wal, pending)) = Len(wal) + 1 /\ Len(wal) \in Nat
        BY <1>s
      <4> QED BY <4>1, <4>2
    <3> QED BY <3>1
  <2> QED BY <1>0, <2>1, <2>2 DEF OnceInv, Once
<1>6. CASE Replay
  <2>1. /\ replay # <<>> /\ mem' = Applied(mem, Head(replay))
        /\ replay' = Tail(replay) /\ UNCHANGED <<disk, pending, wal, used>>
    BY <1>6 DEF Replay
  <2>2. pending = NoCall BY <1>s, <2>1 DEF PendingInv
  <2> DEFINE c == Head(replay)
             rest == Tail(replay)
             n == Len(rest)
  <2>3. /\ c \in Calls /\ c = replay[1] /\ n \in Nat /\ Len(replay) = n + 1
        /\ \A i \in 1..n : rest[i] = replay[i + 1] /\ i + 1 \in 1..Len(replay)
        /\ 1 \in 1..Len(replay) /\ \A i \in 1..n : i + 1 # 1
        /\ \A i, j \in 1..n : i # j => i + 1 # j + 1
    BY <1>s, <2>1
  <2>4. \A i \in 1..Len(replay) : Adds(replay[i]) =>
          /\ replay[i].row \notin mem.known /\ replay[i].row \in used
          /\ \A j \in 1..Len(replay) :
               Adds(replay[j]) /\ i # j => replay[i].row # replay[j].row
    BY <1>0 DEF Once
  <2>5. /\ mem'.core \in Simple /\ RowsOf(mem'.core) = mem'.known
        /\ IsFiniteSet(mem'.known) /\ mem'.known \subseteq used
        /\ mem'.known = mem.known \cup (IF Adds(c) THEN {c.row} ELSE {})
        /\ mem'.tombstones \subseteq mem'.known
    BY <1>0, <1>s, <1>l, <2>1, <2>3, <2>4, AppliedOnce
  <2> HIDE DEF c, rest, n
  <2>6. \A i \in 1..n : Adds(rest[i]) =>
          /\ rest[i].row \notin mem'.known /\ rest[i].row \in used
          /\ \A j \in 1..n : Adds(rest[j]) /\ i # j => rest[i].row # rest[j].row
    <3> SUFFICES ASSUME NEW i \in 1..n, Adds(rest[i])
                 PROVE  /\ rest[i].row \notin mem'.known /\ rest[i].row \in used
                        /\ \A j \in 1..n : Adds(rest[j]) /\ i # j =>
                             rest[i].row # rest[j].row
      OBVIOUS
    <3>1. rest[i].row \notin mem.known /\ rest[i].row \in used
      BY <2>3, <2>4
    <3>2. Adds(c) => rest[i].row # c.row BY <2>3, <2>4
    <3>3. \A j \in 1..n : Adds(rest[j]) /\ i # j => rest[i].row # rest[j].row
      BY <2>3, <2>4
    <3> QED BY <2>5, <3>1, <3>2, <3>3
  <2>7. Once(Simple, mem, replay)' BY <2>1, <2>5, <2>6 DEF Once, rest, n
  <2>8. ~DoWrite BY <2>2 DEF DoWrite
  <2> QED BY <1>0, <2>1, <2>2, <2>7, <2>8 DEF OnceInv, Once
<1>7. ASSUME NEW t \in Readers,
             InitializeScan(t) \/ ExecuteMultiScan(t) \/ FilterOne(t) \/ EndScan(t)
      PROVE  /\ OnceInv(Simple)' /\ ~DoWrite
  <2>1. UNCHANGED <<mem, disk, pending, used, wal, replay>>
    BY <1>7 DEF InitializeScan, ExecuteMultiScan, FilterOne, EndScan
  <2> QED BY <1>0, <2>1 DEF OnceInv, Once, NewRow, DoWrite
<1>8. CASE UNCHANGED vars
  BY <1>0, <1>8 DEF vars, OnceInv, Once, NewRow, DoWrite
<1> QED BY <1>1, <1>2, <1>3, <1>4, <1>5, <1>6, <1>7, <1>8 DEF Next
-----------------------------------------------------------------------------
(* What a scan holds while writes go on around it.                         *)

(* The tombstones a scan has still to see cover what was deleted since its *)
(* search: every candidate was live then or is a tombstone now.            *)
ScanSound(s, dead) ==
    /\ IsFiniteSet(s.live) /\ s.owed \subseteq s.live /\ s.limit \in Nat
    /\ s.hits \in Seq(Rows) /\ NoneTwice(s.hits) /\ RowsIn(s.hits) \subseteq s.live
    /\ s.at = "filter" =>
         /\ s.cands \in Seq(Rows) /\ NoneTwice(s.cands)
         /\ RowsIn(s.cands) \subseteq s.live \cup dead
         /\ RowsIn(s.cands) \cap RowsIn(s.hits) = {}

(* The account of a multi-scan: those it started with made up for every    *)
(* tombstone of then (D), so that those it passed over (S), which all have *)
(* a tombstone now, were deleted since unless they are in D.               *)
Account(s, dead, D, S) ==
    /\ IsFiniteSet(D) /\ IsFiniteSet(S)
    /\ S \subseteq dead /\ S \subseteq s.owed \cup D
    /\ RowsIn(s.cands) \subseteq s.owed \cup D
    /\ S \cap RowsIn(s.cands) = {}
    /\ Len(s.hits) + Len(s.cands) + Cardinality(S) >= s.limit + Cardinality(D)

PassedOver(s, dead) == \E D, S : Account(s, dead, D, S)

NoneMissing(s, dead) ==
    s.owed \subseteq RowsIn(s.hits) \cup RowsIn(s.cands) \cup dead

ScanFills(s, dead) ==
    /\ s.at = "scanned" => AtLeast(Len(s.hits), s.limit, s.owed)
    /\ s.at = "filter" => NoneMissing(s, dead) \/ PassedOver(s, dead)
    /\ s.at = "filtered" =>
         AtLeast(Len(s.hits) + Cardinality(s.owed \cap dead), s.limit, s.owed)

ScanStates == [at : {"idle", "scanned", "filter", "filtered"},
               cands : Seq(Rows), hits : Seq(Rows), limit : Nat,
               live : SUBSET Rows, owed : SUBSET Rows]

(* No scan is on during recovery.                                          *)
ScanInv ==
    /\ replay # <<>> => \A t \in Readers : scan[t] = Idle
    /\ scan \in [Readers -> ScanStates]
    /\ \A t \in Readers : ScanSound(scan[t], mem.tombstones)

FullInv == \A t \in Readers : ScanFills(scan[t], mem.tombstones)

(* An idle scan holds nothing.                                             *)
LEMMA IdleIsSound ==
    ASSUME NEW dead
    PROVE  ScanSound(Idle, dead) /\ ScanFills(Idle, dead)
<1>1. /\ Idle.at = "idle" /\ Idle.hits = <<>> /\ Idle.limit = 0
      /\ Idle.live = {} /\ Idle.owed = {}
  BY DEF Idle
<1>2. IsFiniteSet({}) BY FS_EmptySet
<1>3. RowsIn(<<>>) = {} /\ NoneTwice(<<>>) BY DEF RowsIn, NoneTwice
<1> QED BY <1>1, <1>2, <1>3 DEF ScanSound, ScanFills

(* A row may get a tombstone while a scan is on; none is lifted.           *)
LEMMA MoreTombstones ==
    ASSUME NEW s, NEW dead, NEW more, dead \subseteq more,
           ScanSound(s, dead), s.hits \in Seq(Rows)
    PROVE  /\ ScanSound(s, more)
           /\ ScanFills(s, dead) => ScanFills(s, more)
<1>1. ScanSound(s, more) BY DEF ScanSound
<1>2. ASSUME ScanFills(s, dead) PROVE ScanFills(s, more)
  <2>1. NoneMissing(s, dead) => NoneMissing(s, more) BY DEF NoneMissing
  <2>2. PassedOver(s, dead) => PassedOver(s, more)
    BY DEF PassedOver, Account
  <2>3. ASSUME AtLeast(Len(s.hits) + Cardinality(s.owed \cap dead), s.limit, s.owed)
        PROVE  AtLeast(Len(s.hits) + Cardinality(s.owed \cap more), s.limit, s.owed)
    <3>1. IsFiniteSet(s.owed) /\ s.limit \in Nat /\ Len(s.hits) \in Nat
      <4>1. IsFiniteSet(s.live) /\ s.owed \in SUBSET s.live BY DEF ScanSound
      <4> QED BY <4>1, FS_Subset DEF ScanSound
    <3>2. IsFiniteSet(s.owed \cap more) /\ IsFiniteSet(s.owed \cap dead)
      BY <3>1, FS_Intersection
    <3>3. s.owed \cap dead \in SUBSET (s.owed \cap more) OBVIOUS
    <3>4. /\ Cardinality(s.owed \cap dead) <= Cardinality(s.owed \cap more)
          /\ Cardinality(s.owed \cap dead) \in Nat
          /\ Cardinality(s.owed \cap more) \in Nat /\ Cardinality(s.owed) \in Nat
      BY <3>1, <3>2, <3>3, FS_Subset, FS_CardinalityType
    <3> QED BY <2>3, <3>1, <3>4 DEF AtLeast
  <2> QED BY <1>2, <2>1, <2>2, <2>3 DEF ScanFills
<1> QED BY <1>1, <1>2

(* The rows of a list without repetition are as many as the list is long.  *)
LEMMA RowsCount ==
    ASSUME NEW X, NEW list \in Seq(X), NoneTwice(list)
    PROVE  IsFiniteSet(RowsIn(list)) /\ Cardinality(RowsIn(list)) = Len(list)
<1> DEFINE n == Len(list)
           f == [i \in 1..n |-> list[i]]
<1>1. /\ n \in Nat
      /\ IsFiniteSet(1..n) /\ Cardinality(1..n) = n
  <2>1. n \in Nat /\ (1 > n => n = 0) OBVIOUS
  <2> HIDE DEF n
  <2> QED BY <2>1, FS_Interval
<1>2. f \in Bijection(1..n, RowsIn(list))
  <2>1. f \in [1..n -> RowsIn(list)] BY DEF RowsIn
  <2>2. \A i, j \in 1..n : f[i] = f[j] => i = j BY DEF NoneTwice
  <2>3. \A x \in RowsIn(list) : \E i \in 1..n : f[i] = x BY DEF RowsIn
  <2>4. f \in Injection(1..n, RowsIn(list)) BY <2>1, <2>2, Fun_IsInj
  <2>5. f \in Surjection(1..n, RowsIn(list)) BY <2>1, <2>3, Fun_IsSurj
  <2> QED BY <2>4, <2>5 DEF Bijection
<1>3. ExistsBijection(1..n, RowsIn(list)) BY <1>2 DEF ExistsBijection
<1> QED BY <1>1, <1>3, FS_Bijection

(* Unless all of them were found, a search for limit more than the         *)
(* tombstones leaves at least limit candidates that have none.             *)
LEMMA FilterLeavesEnough ==
    ASSUME NEW cands \in Seq(Rows), NoneTwice(cands), NEW limit \in Nat,
           IsFiniteSet(mem.tombstones), NEW live, IsFiniteSet(live),
           live \cap mem.tombstones = {},
           Len(cands) >= Oversample(limit) \/ live \subseteq RowsIn(cands)
    PROVE  AtLeast(Len(Hits(cands, limit)), limit, live)
<1> DEFINE P == Positions(cands)
           D == {i \in 1..Len(cands) : Tombstoned(cands[i])}
<1>1. /\ IsFiniteSet(P) /\ Cardinality(P) \in Nat
      /\ \/ Len(Hits(cands, limit)) = limit
         \/ Len(Hits(cands, limit)) = Cardinality(P)
  BY HitsFacts, FS_CardinalityType
<1>2. /\ Len(cands) \in Nat
      /\ IsFiniteSet(1..Len(cands)) /\ Cardinality(1..Len(cands)) = Len(cands)
  <2> DEFINE n == Len(cands)
  <2>1. n \in Nat /\ (1 > n => n = 0) OBVIOUS
  <2> HIDE DEF n
  <2>2. IsFiniteSet(1..n) /\ Cardinality(1..n) = n BY <2>1, FS_Interval
  <2> QED BY <2>1, <2>2 DEF n
<1>3. CASE Len(cands) >= Oversample(limit)
  <2>1. IsFiniteSet(D) /\ Cardinality(D) \in Nat
    <3>1. D \in SUBSET (1..Len(cands)) OBVIOUS
    <3> QED BY <1>2, <3>1, FS_Subset, FS_CardinalityType
  <2>2. Cardinality(D) <= Cardinality(mem.tombstones)
    <3> DEFINE f == [i \in D |-> cands[i]]
    <3>1. f \in [D -> mem.tombstones] BY DEF Tombstoned
    <3>2. \A i, j \in D : f[i] = f[j] => i = j BY DEF NoneTwice
    <3>3. f \in Injection(D, mem.tombstones) BY <3>1, <3>2, Fun_IsInj
    <3> QED BY <3>3, FS_Injection
  <2>3. Cardinality(P) + Cardinality(D) = Len(cands)
    <3>1. P \cup D = 1..Len(cands) /\ P \cap D = {} BY DEF Positions
    <3>2. Cardinality({}) = 0 BY FS_EmptySet
    <3> HIDE DEF P, D
    <3>3. Cardinality(P \cup D)
            = Cardinality(P) + Cardinality(D) - Cardinality(P \cap D)
      BY <1>1, <2>1, FS_Union
    <3>4. Cardinality(P \cup D) = Len(cands) /\ Cardinality(P \cap D) = 0
      BY <1>2, <3>1, <3>2
    <3> QED BY <1>1, <2>1, <3>3, <3>4
  <2>4. Cardinality(mem.tombstones) \in Nat BY FS_CardinalityType
  <2>5. Cardinality(P) >= limit
    <3>1. Len(cands) >= limit + Cardinality(mem.tombstones)
      BY <1>3 DEF Oversample
    <3> HIDE DEF P, D
    <3> QED BY <1>1, <1>2, <2>1, <2>2, <2>3, <2>4, <3>1
  <2>6. Len(Hits(cands, limit)) >= limit BY <1>1, <2>5
  <2> QED BY <2>6 DEF AtLeast
<1>4. CASE live \subseteq RowsIn(cands)
  <2> DEFINE g == [r \in live |-> CHOOSE i \in P : cands[i] = r]
  <2>1. \A r \in live : \E i \in P : cands[i] = r
    BY <1>4 DEF RowsIn, Positions, Tombstoned
  <2>2. \A r \in live : g[r] \in P /\ cands[g[r]] = r BY <2>1
  <2> HIDE DEF P
  <2>3. g \in [live -> P] BY <2>2
  <2> HIDE DEF g
  <2>4. \A r, q \in live : g[r] = g[q] => r = q BY <2>2
  <2>5. g \in Injection(live, P) BY <2>3, <2>4, Fun_IsInj
  <2>6. Cardinality(live) <= Cardinality(P) BY <1>1, <2>5, FS_Injection
  <2>7. Cardinality(live) \in Nat BY FS_CardinalityType
  <2> QED BY <1>1, <2>6, <2>7 DEF AtLeast
<1> QED BY <1>3, <1>4

(* What a search answers while its reader holds the lock.                  *)
LEMMA SearchAnswers ==
    ASSUME NEW Cores, NEW Simple, SearchContract(Cores, Simple),
           CoverInv(Cores), IndexCoversTable, OnceInv(Simple), replay = <<>>,
           NEW q \in Vecs, NEW limit \in 1..MaxLimit,
           NEW cands \in CoreSearch(mem.core, q, Oversample(limit))
    PROVE  /\ cands \in Seq(Rows) /\ NoneTwice(cands) /\ limit \in Nat
           /\ RowsIn(cands) \subseteq LiveRows \cup mem.tombstones
           /\ IsFiniteSet(LiveRows) /\ IsFiniteSet(mem.tombstones)
           /\ LiveRows \cap mem.tombstones = {}
           /\ Owed(cands, limit) \subseteq LiveRows
           /\ \/ /\ Len(cands) >= Oversample(limit)
                 /\ Owed(cands, limit) = LiveRows
              \/ Owed(cands, limit) \subseteq RowsIn(cands)
<1>1. /\ mem.core \in Simple /\ RowsOf(mem.core) = mem.known
      /\ IsFiniteSet(mem.known) /\ mem.tombstones \subseteq mem.known
  BY DEF OnceInv, Once
<1>2. mem.known \subseteq Rows BY DEF CoverInv, Shape, IndexSet
<1>3. mem.known \ mem.tombstones = LiveRows BY DEF IndexCoversTable
<1>4. IsFiniteSet(mem.tombstones) /\ IsFiniteSet(LiveRows)
  <2>1. mem.tombstones \in SUBSET mem.known /\ LiveRows \in SUBSET mem.known
    BY <1>1, <1>3
  <2> QED BY <1>1, <2>1, FS_Subset
<1>5. limit \in Nat /\ Oversample(limit) \in Nat
  <2>1. Cardinality(mem.tombstones) \in Nat BY <1>4, FS_CardinalityType
  <2> QED BY <2>1 DEF Oversample
<1>6. cands \in Seq(RowsOf(mem.core)) /\ NoneTwice(cands)
  BY <1>1, <1>5 DEF SearchContract
<1>7. cands \in Seq(Rows) /\ RowsIn(cands) \subseteq mem.known
  BY <1>1, <1>2, <1>6 DEF RowsIn
<1>8. /\ Owed(cands, limit) \subseteq LiveRows
      /\ \/ Len(cands) >= Oversample(limit) /\ Owed(cands, limit) = LiveRows
         \/ Owed(cands, limit) \subseteq RowsIn(cands)
  BY DEF Owed, RowsIn
<1> QED BY <1>1, <1>3, <1>4, <1>5, <1>6, <1>7, <1>8

(* A single scan filters under the lock it searched under.                 *)
LEMMA ScannedSound ==
    ASSUME NEW cands \in Seq(Rows), NoneTwice(cands), NEW limit \in Nat,
           NEW live, IsFiniteSet(live), NEW owed \in SUBSET live,
           RowsIn(cands) \subseteq live \cup mem.tombstones
    PROVE  ScanSound([at |-> "scanned", cands |-> cands, limit |-> limit,
                      hits |-> Hits(cands, limit), live |-> live, owed |-> owed],
                     mem.tombstones)
<1>1. /\ Hits(cands, limit) \in Seq(Rows) /\ NoneTwice(Hits(cands, limit))
      /\ \A i \in 1..Len(Hits(cands, limit)) :
           \E j \in Positions(cands) : Hits(cands, limit)[i] = cands[j]
  BY HitsFacts
<1>2. \A j \in Positions(cands) : cands[j] \in live
  BY DEF Positions, Tombstoned, RowsIn
<1>3. RowsIn(Hits(cands, limit)) \subseteq live BY <1>1, <1>2 DEF RowsIn
<1> QED BY <1>1, <1>3 DEF ScanSound

(* A multi-scan starts with all its candidates to be looked up.            *)
LEMMA SearchedSound ==
    ASSUME NEW cands \in Seq(Rows), NoneTwice(cands), NEW limit \in Nat,
           NEW live, IsFiniteSet(live), NEW owed \in SUBSET live,
           IsFiniteSet(mem.tombstones),
           RowsIn(cands) \subseteq live \cup mem.tombstones,
           NEW s, s = [at |-> "filter", cands |-> cands, limit |-> limit,
                       hits |-> <<>>, live |-> live, owed |-> owed]
    PROVE  /\ ScanSound(s, mem.tombstones)
           /\ (Len(cands) >= Oversample(limit) /\ owed = live)
                \/ owed \subseteq RowsIn(cands) => ScanFills(s, mem.tombstones)
<1>1. /\ s.at = "filter" /\ s.cands = cands /\ s.limit = limit
      /\ s.hits = <<>> /\ s.live = live /\ s.owed = owed
  OBVIOUS
<1>2. RowsIn(<<>>) = {} /\ NoneTwice(<<>>) /\ <<>> \in Seq(Rows) /\ Len(<<>>) = 0
  BY DEF RowsIn, NoneTwice
<1>3. ScanSound(s, mem.tombstones) BY <1>1, <1>2 DEF ScanSound
<1>4. ASSUME Len(cands) >= Oversample(limit), owed = live
      PROVE  PassedOver(s, mem.tombstones)
  <2>1. IsFiniteSet({}) /\ Cardinality({}) = 0 BY FS_EmptySet
  <2>2. Len(<<>>) + Len(cands) + Cardinality({})
          >= limit + Cardinality(mem.tombstones)
    BY <1>2, <1>4, <2>1 DEF Oversample
  <2>3. Account(s, mem.tombstones, mem.tombstones, {})
    BY <1>1, <1>4, <2>1, <2>2 DEF Account
  <2> QED BY <2>3 DEF PassedOver
<1>5. owed \subseteq RowsIn(cands) => NoneMissing(s, mem.tombstones)
  BY <1>1 DEF NoneMissing
<1> QED BY <1>1, <1>3, <1>4, <1>5 DEF ScanFills

(* One candidate is looked up.                                             *)
LEMMA LookedUp ==
    ASSUME NEW s, NEW dead, ScanSound(s, dead), s.at = "filter", s.cands # <<>>,
           NEW u, u.at = "filter", u.cands = Tail(s.cands),
           u.limit = s.limit, u.live = s.live, u.owed = s.owed,
           u.hits = IF Head(s.cands) \in dead THEN s.hits
                    ELSE Append(s.hits, Head(s.cands))
    PROVE  /\ ScanSound(u, dead)
           /\ ScanFills(s, dead) => ScanFills(u, dead)
<1> DEFINE h == Head(s.cands)
           rest == Tail(s.cands)
           n == Len(rest)
<1>1. /\ IsFiniteSet(s.live) /\ s.owed \subseteq s.live /\ s.limit \in Nat
      /\ s.hits \in Seq(Rows) /\ NoneTwice(s.hits) /\ RowsIn(s.hits) \subseteq s.live
      /\ s.cands \in Seq(Rows) /\ NoneTwice(s.cands)
      /\ RowsIn(s.cands) \subseteq s.live \cup dead
      /\ RowsIn(s.cands) \cap RowsIn(s.hits) = {}
  BY DEF ScanSound
<1>2. /\ rest \in Seq(Rows) /\ n \in Nat /\ Len(s.cands) = n + 1
      /\ h = s.cands[1] /\ h \in Rows
      /\ \A i \in 1..n : rest[i] = s.cands[i + 1]
  BY <1>1
<1>3. /\ 1 \in 1..Len(s.cands)
      /\ \A i \in 1..n : i + 1 \in 1..Len(s.cands) /\ i + 1 # 1
      /\ \A i, j \in 1..n : i # j => i + 1 # j + 1
      /\ \A i \in 1..Len(s.cands) : i = 1 \/ (i - 1 \in 1..n /\ s.cands[i] = rest[i - 1])
  BY <1>2
<1> HIDE DEF h, rest, n
<1>4. /\ NoneTwice(rest) /\ h \notin RowsIn(rest)
      /\ RowsIn(s.cands) = RowsIn(rest) \cup {h}
  <2>1. \A i, j \in 1..n : i # j => rest[i] # rest[j]
    BY <1>1, <1>2, <1>3 DEF NoneTwice
  <2>2. \A i \in 1..n : rest[i] # h BY <1>1, <1>2, <1>3 DEF NoneTwice
  <2>3. RowsIn(s.cands) \subseteq RowsIn(rest) \cup {h}
    BY SMTT(30), <1>2, <1>3 DEF RowsIn, n
  <2>4. RowsIn(rest) \cup {h} \subseteq RowsIn(s.cands)
    BY <1>2, <1>3 DEF RowsIn, n
  <2> QED BY <2>1, <2>2, <2>3, <2>4 DEF NoneTwice, RowsIn, n
<1>5. CASE h \in dead
  <2>1. u.hits = s.hits BY <1>5 DEF h
  <2>2. ScanSound(u, dead)
    BY <1>1, <1>2, <1>4, <2>1 DEF ScanSound, rest
  <2>3. NoneMissing(s, dead) => NoneMissing(u, dead)
    BY <1>4, <1>5, <2>1 DEF NoneMissing, rest
  <2>4. ASSUME PassedOver(s, dead) PROVE PassedOver(u, dead)
    <3>1. PICK D, S : Account(s, dead, D, S) BY <2>4 DEF PassedOver
    <3>2. h \notin S /\ h \in s.owed \cup D BY <1>4, <3>1 DEF Account
    <3>3. /\ IsFiniteSet(S \cup {h})
          /\ Cardinality(S \cup {h}) = Cardinality(S) + 1
      BY <3>1, <3>2, FS_AddElement DEF Account
    <3>4. Cardinality(S) \in Nat /\ Cardinality(D) \in Nat /\ Len(s.hits) \in Nat
      BY <1>1, <3>1, FS_CardinalityType DEF Account
    <3>5. Len(s.hits) + n + (Cardinality(S) + 1) >= s.limit + Cardinality(D)
      <4>1. Len(s.hits) + Len(s.cands) + Cardinality(S) >= s.limit + Cardinality(D)
        BY <3>1 DEF Account
      <4>2. Len(s.cands) = n + 1 /\ n \in Nat BY <1>2
      <4>3. s.limit \in Nat BY <1>1
      <4> DEFINE a == Len(s.hits)
                 b == Len(s.cands)
                 x == Cardinality(S)
                 y == Cardinality(D)
                 l == s.limit
      <4>4. /\ a \in Nat /\ b = n + 1 /\ n \in Nat /\ x \in Nat /\ y \in Nat
            /\ l \in Nat /\ a + b + x >= l + y
        BY <3>4, <4>1, <4>2, <4>3
      <4> HIDE DEF a, b, x, y, l
      <4>5. a + n + (x + 1) >= l + y BY <4>4
      <4> QED BY <4>5 DEF a, x, y, l
    <3>6. Account(u, dead, D, S \cup {h})
      BY <1>4, <1>5, <2>1, <3>1, <3>2, <3>3, <3>5 DEF Account, rest, n
    <3> QED BY <3>6 DEF PassedOver
  <2> QED BY <2>2, <2>3, <2>4 DEF ScanFills
<1>6. CASE h \notin dead
  <2>1. u.hits = Append(s.hits, h) BY <1>6 DEF h
  <2>2. h \in s.live /\ h \notin RowsIn(s.hits) BY <1>1, <1>4, <1>6
  <2>3. /\ u.hits \in Seq(Rows) /\ Len(s.hits) \in Nat
        /\ Len(u.hits) = Len(s.hits) + 1 /\ u.hits[Len(s.hits) + 1] = h
        /\ \A i \in 1..Len(s.hits) : u.hits[i] = s.hits[i]
    BY <1>1, <1>2, <2>1
  <2>4. \A i \in 1..Len(u.hits) : i \in 1..Len(s.hits) \/ i = Len(s.hits) + 1
    BY <2>3
  <2>5. \A i \in 1..Len(s.hits) : i \in 1..Len(u.hits) BY <2>3
  <2>6. Len(s.hits) + 1 \in 1..Len(u.hits) BY <2>3
  <2>7. \A i \in 1..Len(s.hits) : s.hits[i] # h BY <2>2 DEF RowsIn
  <2>8. NoneTwice(u.hits)
    BY <1>1, <2>3, <2>4, <2>7 DEF NoneTwice
  <2>9. RowsIn(u.hits) = RowsIn(s.hits) \cup {h}
    <3>1. RowsIn(u.hits) \subseteq RowsIn(s.hits) \cup {h}
      BY <2>3, <2>4 DEF RowsIn
    <3>2. RowsIn(s.hits) \cup {h} \subseteq RowsIn(u.hits)
      BY <2>3, <2>5, <2>6 DEF RowsIn
    <3> QED BY <3>1, <3>2
  <2>10. ScanSound(u, dead)
    BY <1>1, <1>2, <1>4, <2>2, <2>3, <2>8, <2>9 DEF ScanSound, rest
  <2>11. NoneMissing(s, dead) => NoneMissing(u, dead)
    BY <1>4, <2>9 DEF NoneMissing, rest
  <2>12. ASSUME PassedOver(s, dead) PROVE PassedOver(u, dead)
    <3>1. PICK D, S : Account(s, dead, D, S) BY <2>12 DEF PassedOver
    <3>2. Cardinality(S) \in Nat /\ Cardinality(D) \in Nat
      BY <3>1, FS_CardinalityType DEF Account
    <3>3. Len(u.hits) + n + Cardinality(S) >= s.limit + Cardinality(D)
      <4>1. Len(s.hits) + Len(s.cands) + Cardinality(S) >= s.limit + Cardinality(D)
        BY <3>1 DEF Account
      <4>2. Len(s.cands) = n + 1 /\ n \in Nat BY <1>2
      <4>3. s.limit \in Nat BY <1>1
      <4> DEFINE a == Len(s.hits)
                 b == Len(s.cands)
                 c == Len(u.hits)
                 x == Cardinality(S)
                 y == Cardinality(D)
                 l == s.limit
      <4>4. /\ a \in Nat /\ b = n + 1 /\ n \in Nat /\ c = a + 1
            /\ x \in Nat /\ y \in Nat /\ l \in Nat /\ a + b + x >= l + y
        BY <2>3, <3>2, <4>1, <4>2, <4>3
      <4> HIDE DEF a, b, c, x, y, l
      <4>5. c + n + x >= l + y BY <4>4
      <4> QED BY <4>5 DEF c, x, y, l
    <3>4. Account(u, dead, D, S)
      BY <1>4, <2>9, <3>1, <3>3 DEF Account, rest, n
    <3> QED BY <3>4 DEF PassedOver
  <2> QED BY <2>10, <2>11, <2>12 DEF ScanFills
<1> QED BY <1>5, <1>6

(* A multi-scan that has looked up all it will is as full as promised.     *)
LEMMA FilterEnds ==
    ASSUME NEW s, NEW dead, ScanSound(s, dead), s.at = "filter",
           s.cands = <<>> \/ Len(s.hits) >= s.limit, ScanFills(s, dead)
    PROVE  AtLeast(Len(s.hits) + Cardinality(s.owed \cap dead), s.limit, s.owed)
<1>1. /\ IsFiniteSet(s.owed) /\ s.limit \in Nat
      /\ s.hits \in Seq(Rows) /\ NoneTwice(s.hits)
      /\ NoneMissing(s, dead) \/ PassedOver(s, dead)
  <2>1. IsFiniteSet(s.live) /\ s.owed \in SUBSET s.live BY DEF ScanSound
  <2> QED BY <2>1, FS_Subset DEF ScanSound, ScanFills
<1> DEFINE gone == s.owed \cap dead
           a == Len(s.hits)
           g == Cardinality(gone)
           l == s.limit
<1>2. IsFiniteSet(gone) /\ g \in Nat /\ a \in Nat /\ Cardinality(s.owed) \in Nat
  <2>1. IsFiniteSet(gone) BY <1>1, FS_Intersection
  <2>2. g \in Nat /\ Cardinality(s.owed) \in Nat
    BY <1>1, <2>1, FS_CardinalityType
  <2> QED BY <1>1, <2>1, <2>2
<1>3. CASE a >= l
  <2>1. a + g >= l BY <1>1, <1>2, <1>3
  <2> QED BY <2>1 DEF AtLeast
<1>4. CASE s.cands = <<>> /\ NoneMissing(s, dead)
  <2>1. RowsIn(s.cands) = {} BY <1>4 DEF RowsIn
  <2>2. s.owed \in SUBSET (RowsIn(s.hits) \cup gone) BY <1>4, <2>1 DEF NoneMissing
  <2>3. IsFiniteSet(RowsIn(s.hits)) /\ Cardinality(RowsIn(s.hits)) = a
    BY <1>1, RowsCount
  <2> DEFINE both == RowsIn(s.hits) \cap gone
  <2>4. /\ IsFiniteSet(RowsIn(s.hits) \cup gone)
        /\ Cardinality(RowsIn(s.hits) \cup gone) = a + g - Cardinality(both)
    BY <1>2, <2>3, FS_Union
  <2>5. Cardinality(both) \in Nat
    BY <1>2, <2>3, FS_Intersection, FS_CardinalityType
  <2>6. Cardinality(s.owed) <= Cardinality(RowsIn(s.hits) \cup gone)
    BY <2>2, <2>4, FS_Subset
  <2> HIDE DEF both, a, g, gone
  <2>7. a + g >= Cardinality(s.owed) BY <1>2, <2>4, <2>5, <2>6
  <2> QED BY <2>7 DEF AtLeast, a, g, gone
<1>5. CASE s.cands = <<>> /\ PassedOver(s, dead)
  <2>1. PICK D, S : Account(s, dead, D, S) BY <1>5 DEF PassedOver
  <2> DEFINE live == S \cap s.owed
             rest == S \ s.owed
             n == Cardinality(S)
             m == Cardinality(D)
             p == Cardinality(live)
             q == Cardinality(rest)
  <2>2. IsFiniteSet(S) /\ IsFiniteSet(D) /\ n \in Nat /\ m \in Nat
    BY <2>1, FS_CardinalityType DEF Account
  <2>3. live \in SUBSET gone /\ rest \in SUBSET D BY <2>1 DEF Account
  <2>4. /\ IsFiniteSet(live) /\ p <= g /\ p \in Nat
    BY <1>2, <2>3, FS_Subset, FS_CardinalityType
  <2>5. IsFiniteSet(rest) /\ q <= m /\ q \in Nat
    BY <2>2, <2>3, FS_Subset, FS_CardinalityType
  <2>6. q = n - p BY <2>2, FS_Difference
  <2>7. Len(s.cands) = 0 BY <1>5
  <2>8. a + Len(s.cands) + n >= l + m BY <2>1 DEF Account
  <2> HIDE DEF live, rest, n, m, p, q, a, g, l, gone
  <2>9. l \in Nat BY <1>1 DEF l
  <2>10. a + n >= l + m BY <1>2, <2>2, <2>7, <2>8, <2>9
  <2>11. a + g >= l BY <1>2, <2>2, <2>4, <2>5, <2>6, <2>9, <2>10
  <2> QED BY <2>11 DEF AtLeast, a, g, l, gone
<1> QED BY <1>1, <1>3, <1>4, <1>5
-----------------------------------------------------------------------------
(* The inductive invariant of the scans.                                   *)

LEMMA ScansInit == Init => ScanInv /\ FullInv
<1> SUFFICES ASSUME Init PROVE ScanInv /\ FullInv
  OBVIOUS
<1>1. scan = [t \in Readers |-> Idle] /\ replay = <<>> BY DEF Init
<1>2. Idle \in ScanStates
  <2>1. <<>> \in Seq(Rows) OBVIOUS
  <2> QED BY <2>1 DEF Idle, ScanStates
<1> QED BY <1>1, <1>2, IdleIsSound DEF ScanInv, FullInv

LEMMA ScansStep ==
    ASSUME ~ReuseRowIds, NEW Cores, NEW Simple, SearchContract(Cores, Simple),
           CoverInv(Cores), IndexCoversTable, OnceInv(Simple), ScanInv, [Next]_vars
    PROVE  /\ ScanInv'
           /\ FullInv => FullInv'
<1> DEFINE dead == mem.tombstones
<1>0. /\ replay # <<>> => \A t \in Readers : scan[t] = Idle
      /\ scan \in [Readers -> ScanStates]
      /\ \A t \in Readers : ScanSound(scan[t], dead)
  BY DEF ScanInv
<1>i. Idle \in ScanStates
  <2>1. <<>> \in Seq(Rows) OBVIOUS
  <2> QED BY <2>1 DEF Idle, ScanStates
<1>h. \A s \in ScanStates : s.hits \in Seq(Rows) BY DEF ScanStates
(* A step that leaves the scans alone and lifts no tombstone.              *)
<1>1. ASSUME UNCHANGED <<scan, replay>>, dead \subseteq dead'
      PROVE  ScanInv' /\ (FullInv => FullInv')
  <2>1. \A t \in Readers : ScanSound(scan[t], dead')
                           /\ (ScanFills(scan[t], dead) => ScanFills(scan[t], dead'))
    BY <1>0, <1>h, <1>1, MoreTombstones
  <2> QED BY <1>0, <1>1, <2>1 DEF ScanInv, FullInv
<1>2. CASE CallWrite \/ Compact \/ Checkpoint \/ UNCHANGED vars
  <2>1. UNCHANGED <<scan, replay>> /\ dead' = dead
    BY <1>2 DEF CallWrite, Compact, Checkpoint, vars
  <2> QED BY <1>1, <2>1
<1>3. CASE DoWrite
  <2>1. UNCHANGED <<scan, replay>> BY <1>3 DEF DoWrite
  <2>2. dead \subseteq dead' BY <1>3, OnceStep
  <2> QED BY <1>1, <2>1, <2>2
<1>4. CASE Restart
  <2>1. scan' = [t \in Readers |-> Idle] BY <1>4 DEF Restart
  <2> QED BY <1>i, <2>1, IdleIsSound DEF ScanInv, FullInv
<1>5. CASE Replay
  <2>1. scan' = scan /\ \A t \in Readers : scan[t] = Idle
    BY <1>0, <1>5 DEF Replay
  <2> QED BY <1>0, <2>1, IdleIsSound DEF ScanInv, FullInv
(* A step of one scan.                                                     *)
<1>6. ASSUME NEW t \in Readers, NEW s \in ScanStates,
             scan' = [scan EXCEPT ![t] = s],
             replay = <<>>, UNCHANGED <<mem, replay>>, ScanSound(s, dead),
             ScanFills(scan[t], dead) => ScanFills(s, dead)
      PROVE  ScanInv' /\ (FullInv => FullInv')
  <2>1. /\ scan' \in [Readers -> ScanStates]
        /\ \A u \in Readers : scan'[u] = IF u = t THEN s ELSE scan[u]
    BY <1>0, <1>6
  <2>2. ScanInv' BY <1>0, <1>6, <2>1 DEF ScanInv
  <2>3. FullInv => FullInv' BY <1>6, <2>1 DEF FullInv
  <2> QED BY <2>2, <2>3
<1>7. ASSUME NEW t \in Readers, InitializeScan(t)
      PROVE  ScanInv' /\ (FullInv => FullInv')
  <2>1. replay = <<>> /\ UNCHANGED <<mem, replay>> BY <1>7 DEF InitializeScan
  <2>p. PICK q \in Vecs, limit \in 1..MaxLimit :
          \E cands \in CoreSearch(mem.core, q, Oversample(limit)) :
            scan' = [scan EXCEPT ![t] =
                       [at |-> "scanned", cands |-> cands, limit |-> limit,
                        hits |-> Hits(cands, limit),
                        live |-> LiveRows, owed |-> Owed(cands, limit)]]
    BY <1>7 DEF InitializeScan
  <2>2. PICK cands \in CoreSearch(mem.core, q, Oversample(limit)) :
          scan' = [scan EXCEPT ![t] =
                     [at |-> "scanned", cands |-> cands, limit |-> limit,
                      hits |-> Hits(cands, limit),
                      live |-> LiveRows, owed |-> Owed(cands, limit)]]
    BY <2>p
  <2>3. /\ cands \in Seq(Rows) /\ NoneTwice(cands) /\ limit \in Nat
        /\ RowsIn(cands) \subseteq LiveRows \cup dead
        /\ IsFiniteSet(LiveRows) /\ IsFiniteSet(dead)
        /\ LiveRows \cap dead = {}
        /\ Owed(cands, limit) \subseteq LiveRows
        /\ \/ /\ Len(cands) >= Oversample(limit)
              /\ Owed(cands, limit) = LiveRows
           \/ Owed(cands, limit) \subseteq RowsIn(cands)
    BY <2>1, SearchAnswers
  <2> DEFINE s == [at |-> "scanned", cands |-> cands, limit |-> limit,
                   hits |-> Hits(cands, limit),
                   live |-> LiveRows, owed |-> Owed(cands, limit)]
  <2>4. s \in ScanStates
    <3>1. Hits(cands, limit) \in Seq(Rows) BY <2>3, HitsFacts
    <3>2. LiveRows \in SUBSET Rows /\ Owed(cands, limit) \in SUBSET Rows
      BY <2>3 DEF LiveRows
    <3> QED BY <2>3, <3>1, <3>2 DEF ScanStates
  <2>5. ScanSound(s, dead) BY <2>3, ScannedSound
  <2>6. AtLeast(Len(Hits(cands, limit)), limit, Owed(cands, limit))
    <3>1. /\ Owed(cands, limit) \in SUBSET LiveRows
          /\ Owed(cands, limit) \cap dead = {}
      BY <2>3
    <3>2. IsFiniteSet(Owed(cands, limit)) BY <2>3, <3>1, FS_Subset
    <3> QED BY <2>3, <3>1, <3>2, FilterLeavesEnough
  <2>7. ScanFills(s, dead) BY <2>6 DEF ScanFills
  <2> HIDE DEF s
  <2>8. scan' = [scan EXCEPT ![t] = s] BY <2>2 DEF s
  <2> QED BY <1>6, <2>1, <2>4, <2>5, <2>7, <2>8
<1>8. ASSUME NEW t \in Readers, ExecuteMultiScan(t)
      PROVE  ScanInv' /\ (FullInv => FullInv')
  <2>1. replay = <<>> /\ UNCHANGED <<mem, replay>> BY <1>8 DEF ExecuteMultiScan
  <2>p. PICK q \in Vecs, limit \in 1..MaxLimit :
          \E cands \in CoreSearch(mem.core, q, Oversample(limit)) :
            scan' = [scan EXCEPT ![t] =
                       [at |-> "filter", cands |-> cands, limit |-> limit,
                        hits |-> <<>>,
                        live |-> LiveRows, owed |-> Owed(cands, limit)]]
    BY <1>8 DEF ExecuteMultiScan
  <2>2. PICK cands \in CoreSearch(mem.core, q, Oversample(limit)) :
          scan' = [scan EXCEPT ![t] =
                     [at |-> "filter", cands |-> cands, limit |-> limit,
                      hits |-> <<>>,
                      live |-> LiveRows, owed |-> Owed(cands, limit)]]
    BY <2>p
  <2>3. /\ cands \in Seq(Rows) /\ NoneTwice(cands) /\ limit \in Nat
        /\ RowsIn(cands) \subseteq LiveRows \cup dead
        /\ IsFiniteSet(LiveRows) /\ IsFiniteSet(dead)
        /\ LiveRows \cap dead = {}
        /\ Owed(cands, limit) \subseteq LiveRows
        /\ \/ /\ Len(cands) >= Oversample(limit)
              /\ Owed(cands, limit) = LiveRows
           \/ Owed(cands, limit) \subseteq RowsIn(cands)
    BY <2>1, SearchAnswers
  <2> DEFINE s == [at |-> "filter", cands |-> cands, limit |-> limit,
                   hits |-> <<>>,
                   live |-> LiveRows, owed |-> Owed(cands, limit)]
  <2>4. s \in ScanStates
    <3>1. <<>> \in Seq(Rows) OBVIOUS
    <3>2. LiveRows \in SUBSET Rows /\ Owed(cands, limit) \in SUBSET Rows
      BY <2>3 DEF LiveRows
    <3> QED BY <2>3, <3>1, <3>2 DEF ScanStates
  <2>5. /\ ScanSound(s, dead)
        /\ ScanFills(s, dead)
    <3>1. Owed(cands, limit) \in SUBSET LiveRows BY <2>3
    <3> QED BY <2>3, <3>1, SearchedSound
  <2> HIDE DEF s
  <2>6. scan' = [scan EXCEPT ![t] = s] BY <2>2 DEF s
  <2> QED BY <1>6, <2>1, <2>4, <2>5, <2>6
<1>9. ASSUME NEW t \in Readers, FilterOne(t)
      PROVE  ScanInv' /\ (FullInv => FullInv')
  <2> DEFINE s == scan[t]
  <2>1. UNCHANGED <<mem, replay>> /\ s.at = "filter" BY <1>9 DEF FilterOne
  <2>2. replay = <<>>
    <3>1. Idle.at # "filter" BY DEF Idle
    <3> QED BY <1>0, <2>1, <3>1
  <2>3. s \in ScanStates /\ ScanSound(s, dead) BY <1>0
  <2>4. ASSUME s.cands = <<>> \/ Len(s.hits) >= s.limit,
               scan' = [scan EXCEPT ![t].at = "filtered"]
        PROVE  ScanInv' /\ (FullInv => FullInv')
    <3> DEFINE u == [s EXCEPT !.at = "filtered"]
    <3>1. u \in ScanStates BY <2>3 DEF ScanStates
    <3>2. /\ u.at = "filtered" /\ u.hits = s.hits /\ u.limit = s.limit
          /\ u.live = s.live /\ u.owed = s.owed
      BY <2>3 DEF ScanStates
    <3>3. ScanSound(u, dead) BY <2>3, <3>2 DEF ScanSound
    <3>4. ScanFills(s, dead) => ScanFills(u, dead)
      BY <2>1, <2>3, <2>4, <3>2, FilterEnds DEF ScanFills
    <3>5. scan' = [scan EXCEPT ![t] = u] BY <2>4
    <3> HIDE DEF u
    <3> QED BY <1>6, <2>1, <2>2, <3>1, <3>3, <3>4, <3>5
  <2>5. ASSUME s.cands # <<>>,
               scan' = [scan EXCEPT
                          ![t].cands = Tail(@),
                          ![t].hits = IF Tombstoned(Head(s.cands)) THEN @
                                      ELSE Append(@, Head(s.cands))]
        PROVE  ScanInv' /\ (FullInv => FullInv')
    <3> DEFINE hits == IF Head(s.cands) \in dead THEN s.hits
                       ELSE Append(s.hits, Head(s.cands))
               u == [s EXCEPT !.cands = Tail(s.cands), !.hits = hits]
    <3>1. s.cands \in Seq(Rows) /\ s.hits \in Seq(Rows)
      BY <2>3 DEF ScanStates
    <3>2. Tail(s.cands) \in Seq(Rows) /\ Head(s.cands) \in Rows BY <2>5, <3>1
    <3>3. hits \in Seq(Rows) BY <3>1, <3>2
    <3>4. /\ u.at = "filter" /\ u.cands = Tail(s.cands) /\ u.hits = hits
          /\ u.limit = s.limit /\ u.live = s.live /\ u.owed = s.owed
      BY <2>1, <2>3 DEF ScanStates
    <3>5. u \in ScanStates BY <2>3, <3>2, <3>3 DEF ScanStates
    <3>6. /\ ScanSound(u, dead)
          /\ ScanFills(s, dead) => ScanFills(u, dead)
      BY <2>1, <2>3, <2>5, <3>4, LookedUp
    <3>7. scan' = [scan EXCEPT ![t] = u]
      BY <1>0, <2>5 DEF Tombstoned, ScanStates
    <3> HIDE DEF u
    <3> QED BY <1>6, <2>1, <2>2, <3>5, <3>6, <3>7
  <2> QED BY <1>9, <2>4, <2>5 DEF FilterOne
<1>10. ASSUME NEW t \in Readers, EndScan(t)
       PROVE  ScanInv' /\ (FullInv => FullInv')
  <2>1. UNCHANGED <<mem, replay>> /\ scan' = [scan EXCEPT ![t] = Idle]
    BY <1>10 DEF EndScan
  <2>2. replay = <<>>
    <3>1. Idle.at \notin {"scanned", "filtered"} BY DEF Idle
    <3> QED BY <1>0, <1>10, <3>1 DEF EndScan
  <2> QED BY <1>6, <1>i, <2>1, <2>2, IdleIsSound
<1> QED
  BY <1>2, <1>3, <1>4, <1>5, <1>7, <1>8, <1>9, <1>10 DEF Next

(* What the scans rest on, of every reachable state.                       *)
ScansInv(Cores, Simple) == CoverInv(Cores) /\ OnceInv(Simple) /\ ScanInv

LEMMA ScansInvariant ==
    ASSUME ~ReuseRowIds, NEW Cores, NEW Simple, SearchContract(Cores, Simple)
    PROVE  Spec => []ScansInv(Cores, Simple)
<1>0. CoreContract(Cores) BY DEF SearchContract
<1>1. Init => ScansInv(Cores, Simple)
  BY <1>0, CoverInit, OnceInit, ScansInit DEF ScansInv
<1>2. ScansInv(Cores, Simple) /\ [Next]_vars => ScansInv(Cores, Simple)'
  BY <1>0, CoverStep, CoverMeans, OnceStep, ScansStep DEF ScansInv
<1> QED BY <1>1, <1>2, PTL DEF Spec

(* Whatever a core finds, no scan returns a row that was deleted before    *)
(* its search: the tombstones it filters by, even those it looks up after  *)
(* it has released the lock, cover every dead row the core still holds.    *)
THEOREM DeletedRowsStayHidden ==
    ASSUME ~ReuseRowIds, NEW Cores, NEW Simple, SearchContract(Cores, Simple)
    PROVE  Spec => []HitsWereLive
<1>1. Spec => []ScansInv(Cores, Simple) BY ScansInvariant
<1>2. ScansInv(Cores, Simple) => HitsWereLive
  BY DEF ScansInv, ScanInv, ScanSound, RowsIn, HitsWereLive
<1> QED BY <1>1, <1>2, PTL

(* No scan returns a row twice: a row enters the core once, whatever       *)
(* checkpoints, crashes and replays insert it again into a loaded copy.    *)
THEOREM RowsComeOnce ==
    ASSUME ~ReuseRowIds, NEW Cores, NEW Simple, SearchContract(Cores, Simple)
    PROVE  Spec => []RowReturnedOnce
<1>1. Spec => []ScansInv(Cores, Simple) BY ScansInvariant
<1>2. ScansInv(Cores, Simple) => RowReturnedOnce
  BY DEF ScansInv, ScanInv, ScanSound, NoneTwice, RowReturnedOnce
<1> QED BY <1>1, <1>2, PTL

LEMMA FullInvariant ==
    ASSUME ~ReuseRowIds, NEW Cores, NEW Simple, SearchContract(Cores, Simple)
    PROVE  Spec => [](ScansInv(Cores, Simple) /\ FullInv)
<1>1. Spec => []ScansInv(Cores, Simple) BY ScansInvariant
<1>2. Init => FullInv BY ScansInit
<1>3. ScansInv(Cores, Simple) /\ FullInv /\ [Next]_vars => FullInv'
  BY CoverMeans, ScansStep DEF ScansInv
<1> QED BY <1>1, <1>2, <1>3, PTL DEF Spec

(* Over-fetching by the number of tombstones is enough: a scan returns     *)
(* `limit` rows or, of a search that came back with fewer candidates than  *)
(* it was asked for, every live one.                                       *)
THEOREM ScansAreFull ==
    ASSUME ~ReuseRowIds, NEW Cores, NEW Simple, SearchContract(Cores, Simple)
    PROVE  Spec => []ScanIsFull
<1>1. Spec => [](ScansInv(Cores, Simple) /\ FullInv) BY FullInvariant
<1>2. FullInv => ScanIsFull BY DEF FullInv, ScanFills, ScanIsFull
<1> QED BY <1>1, <1>2, PTL

(* A multi-scan falls short of that by at most the rows deleted between    *)
(* its search and its filter.                                              *)
THEOREM MultiScansLoseOnlyDeleted ==
    ASSUME ~ReuseRowIds, NEW Cores, NEW Simple, SearchContract(Cores, Simple)
    PROVE  Spec => []MultiScanShortOnlyOfDeleted
<1>1. Spec => [](ScansInv(Cores, Simple) /\ FullInv) BY FullInvariant
<1>2. FullInv => MultiScanShortOnlyOfDeleted
  BY DEF FullInv, ScanFills, MultiScanShortOnlyOfDeleted
<1> QED BY <1>1, <1>2, PTL

-----------------------------------------------------------------------------
(* The contracts can be met: by a core that lists its entries and finds    *)
(* some different ones, as a graph core does that need not reach them all. *)

(* Up to k places in c that a search names, no place twice.                *)
IsChoice(s, c, k) ==
    \E m \in 0..k : /\ s \in [1..m -> 1..Len(c)]
                   /\ \A i, j \in 1..m : i # j => s[i] # s[j]

ListCore ==
    /\ EmptyCore = <<>>
    /\ \A c, r, v : CoreInsert(c, r, v) = Append(c, <<r, v>>)
    /\ \A c : CoreEntries(c) = {c[i] : i \in 1..Len(c)}
    /\ \A c, q, k : \A list \in CoreSearch(c, q, k) :
         \E s : IsChoice(s, c, k) /\ list = [i \in DOMAIN s |-> c[s[i]][1]]

Lists == Seq(Rows \X Vecs)
ListsOnce == {c \in Lists : \A i, j \in 1..Len(c) : i # j => c[i][1] # c[j][1]}

LEMMA ListCoresFit ==
    ASSUME ListCore
    PROVE  SearchContract(Lists, ListsOnce)
<1>1. ASSUME NEW c \in Lists, NEW r \in Rows, NEW v \in Vecs
      PROVE  /\ CoreInsert(c, r, v) \in Lists
             /\ Len(CoreInsert(c, r, v)) = Len(c) + 1 /\ Len(c) \in Nat
             /\ \A i \in 1..Len(c) : CoreInsert(c, r, v)[i] = c[i]
             /\ CoreInsert(c, r, v)[Len(c) + 1] = <<r, v>>
  <2>1. <<r, v>> \in Rows \X Vecs OBVIOUS
  <2>2. ASSUME NEW E, NEW l \in Seq(E), NEW e \in E
        PROVE  /\ Append(l, e) \in Seq(E) /\ Len(Append(l, e)) = Len(l) + 1 /\ Len(l) \in Nat
               /\ \A i \in 1..Len(l) : Append(l, e)[i] = l[i]
               /\ Append(l, e)[Len(l) + 1] = e
    OBVIOUS
  <2>3. CoreInsert(c, r, v) = Append(c, <<r, v>>) BY DEF ListCore
  <2>4. c \in Seq(Rows \X Vecs) BY DEF Lists
  <2> QED BY <2>1, <2>2, <2>3, <2>4 DEF Lists
<1>2. ASSUME NEW c \in Lists, NEW r \in Rows, NEW v \in Vecs
      PROVE  CoreEntries(CoreInsert(c, r, v)) = CoreEntries(c) \cup {<<r, v>>}
  <2> DEFINE n == Len(c)
             d == CoreInsert(c, r, v)
  <2>1. n \in Nat /\ Len(d) = n + 1 /\ d[n + 1] = <<r, v>> /\ \A i \in 1..n : d[i] = c[i]
    BY <1>1
  <2>2. CoreEntries(c) = {c[i] : i \in 1..n} /\ CoreEntries(d) = {d[i] : i \in 1..n + 1}
    BY <2>1 DEF ListCore
  <2> HIDE DEF n, d
  <2>3. /\ \A i \in 1..n + 1 : i \in 1..n \/ i = n + 1
        /\ \A i \in 1..n : i \in 1..n + 1
        /\ n + 1 \in 1..n + 1
    BY <2>1
  <2>4. CoreEntries(d) = CoreEntries(c) \cup {<<r, v>>} BY <2>1, <2>2, <2>3
  <2> QED BY <2>4 DEF d
<1>3. EmptyCore \in Lists /\ EmptyCore \in ListsOnce /\ CoreEntries(EmptyCore) = {}
  <2>1. <<>> \in Lists /\ \A i : ~(i \in 1..Len(<<>>)) BY DEF Lists
  <2> QED BY <2>1 DEF ListCore, ListsOnce
<1>4. ASSUME NEW c \in ListsOnce, NEW r \in Rows, NEW v \in Vecs, r \notin RowsOf(c)
      PROVE  CoreInsert(c, r, v) \in ListsOnce
  <2> DEFINE n == Len(c)
             d == CoreInsert(c, r, v)
  <2>0. c \in Lists /\ \A i, j \in 1..n : i # j => c[i][1] # c[j][1] BY DEF ListsOnce
  <2>1. /\ n \in Nat /\ Len(d) = n + 1 /\ d[n + 1] = <<r, v>> /\ d \in Lists
        /\ \A i \in 1..n : d[i] = c[i]
    BY <1>1, <2>0
  <2>2. \A i \in 1..n : c[i][1] # r
    <3>1. \A i \in 1..n : c[i] \in CoreEntries(c) BY DEF ListCore
    <3> QED BY <1>4, <3>1 DEF RowsOf
  <2> HIDE DEF n, d
  <2>3. \A i \in 1..n + 1 : i \in 1..n \/ i = n + 1 BY <2>1
  <2>4. \A i, j \in 1..n + 1 : i # j => d[i][1] # d[j][1]
    <3> TAKE i, j \in 1..n + 1
    <3>1. CASE i \in 1..n /\ j \in 1..n BY <2>0, <2>1, <3>1
    <3>2. CASE i = n + 1 /\ j \in 1..n BY <2>1, <2>2, <3>2
    <3>3. CASE j = n + 1 /\ i \in 1..n BY <2>1, <2>2, <3>3
    <3> QED BY <2>3, <3>1, <3>2, <3>3
  <2> QED BY <2>1, <2>4 DEF ListsOnce, d
<1>5. ASSUME NEW c \in ListsOnce, NEW q, NEW k \in Nat, NEW list \in CoreSearch(c, q, k)
      PROVE  list \in Seq(RowsOf(c)) /\ NoneTwice(list)
  <2> DEFINE n == Len(c)
  <2>0. c \in Lists /\ n \in Nat /\ \A i, j \in 1..n : i # j => c[i][1] # c[j][1]
    BY DEF ListsOnce, Lists
  <2>1. PICK s : IsChoice(s, c, k) /\ list = [i \in DOMAIN s |-> c[s[i]][1]]
    BY DEF ListCore
  <2>2. PICK m \in 0..k : /\ s \in [1..m -> 1..n]
                         /\ \A i, j \in 1..m : i # j => s[i] # s[j]
    BY <2>1 DEF IsChoice
  <2>3. m \in Nat /\ list = [i \in 1..m |-> c[s[i]][1]] BY <2>1, <2>2
  <2>4. \A i \in 1..n : c[i][1] \in RowsOf(c) BY DEF RowsOf, ListCore
  <2> HIDE DEF n
  <2>5. list \in Seq(RowsOf(c)) /\ Len(list) = m /\ \A i \in 1..m : list[i] = c[s[i]][1]
    <3>1. list \in [1..m -> RowsOf(c)] BY <2>2, <2>3, <2>4
    <3>2. ASSUME NEW E, NEW l \in [1..m -> E] PROVE l \in Seq(E) /\ Len(l) = m BY <2>3
    <3> QED BY <2>3, <3>1, <3>2
  <2>6. \A i, j \in 1..m : i # j => list[i] # list[j]
    <3> TAKE i, j \in 1..m
    <3>1. HAVE i # j
    <3>2. s[i] \in 1..n /\ s[j] \in 1..n /\ s[i] # s[j] BY <2>2, <3>1
    <3>3. c[s[i]][1] # c[s[j]][1] BY <2>0, <3>2
    <3> QED BY <2>5, <3>3
  <2> QED BY <2>5, <2>6 DEF NoneTwice
<1>6. CoreContract(Lists) BY <1>1, <1>2, <1>3 DEF CoreContract
<1>7. ListsOnce \subseteq Lists BY DEF ListsOnce
<1>8. SearchContract(Lists, ListsOnce)
  BY <1>3, <1>4, <1>5, <1>6, <1>7 DEF SearchContract
<1> QED BY <1>8

-----------------------------------------------------------------------------
(* Queries: what the rewrite, the index's search and the scan leave out of *)
(* an answer, and the pairs of a join.                                     *)
(*                                                                         *)
(* None of QueryPlans' properties is inductive: an answer speaks of what   *)
(* the search returned when the scan was opened.  QueryInv keeps, for the  *)
(* stages of a query, what is true of the hits that were taken (every row  *)
(* of the view that the filter admits is a hit or is crowded out by as     *)
(* many nearer ones) and of the matches a join has made (each outer row's  *)
(* are one run of the output), and of the table what makes searches find   *)
(* what the index holds.  OtherInsert and OtherDelete change that under a  *)
(* query, in the direction the properties allow.                           *)

LEMMA SmallestNumber ==
    ASSUME NEW N \in SUBSET Nat, N # {}
    PROVE  \E n \in N : \A m \in N : n <= m
<1> DEFINE Below == {p \in Nat \X Nat : p[1] < p[2]}
<1>1. Below = OpToRel(<, Nat) BY DEF OpToRel
<1>2. IsWellFoundedOn(Below, Nat) BY <1>1, NatLessThanWellFounded
<1> HIDE DEF Below
<1>3. PICK n \in N : \A m \in N : <<m, n>> \notin Below BY <1>2, WFMin
<1>4. \A m \in N : ~(m < n) BY <1>3 DEF Below
<1> QED BY <1>4

(* Induction up to n, over a set of numbers and over the values of a list. *)
LEMMA CountUp ==
    ASSUME NEW n \in Nat, NEW G, 0 \in G, \A i \in 1..n : i - 1 \in G => i \in G
    PROVE  0..n \subseteq G
<1> DEFINE N == {i \in 0..n : i \notin G}
<1>1. SUFFICES ASSUME N # {} PROVE FALSE OBVIOUS
<1>2. N \in SUBSET Nat OBVIOUS
<1> HIDE DEF N
<1>3. PICK i \in N : \A j \in N : i <= j BY <1>1, <1>2, SmallestNumber
<1>4. i \in 0..n /\ i \notin G BY DEF N
<1>5. i \in 1..n /\ i - 1 \in 0..n BY <1>4
<1>6. i - 1 \notin N BY <1>3, <1>5
<1>7. i - 1 \in G BY <1>5, <1>6 DEF N
<1> QED BY <1>4, <1>5, <1>7

LEMMA ValuesStay ==
    ASSUME NEW n \in Nat, NEW f, NEW Good, f[0] \in Good,
           \A i \in 1..n : f[i - 1] \in Good => f[i] \in Good
    PROVE  \A i \in 0..n : f[i] \in Good
<1> DEFINE G == {i \in Nat : f[i] \in Good}
<1>1. 0 \in G OBVIOUS
<1>2. \A i \in 1..n : i - 1 \in G => i \in G OBVIOUS
<1> HIDE DEF G
<1>3. 0..n \subseteq G BY <1>1, <1>2, CountUp
<1> QED BY <1>3 DEF G

(* A list may be defined from each value by the next step.                 *)
Steps(step, b, n, f) ==
    /\ f = [i \in 0..n |-> f[i]] /\ f[0] = b /\ \A i \in 1..n : f[i] = step[i][f[i - 1]]

LEMMA StepsExist ==
    ASSUME NEW n \in Nat, NEW step, NEW b
    PROVE  \E f : Steps(step, b, n, f)
<1> DEFINE G == {i \in Nat : \E f : Steps(step, b, i, f)}
<1>1. 0 \in G
  <2> DEFINE f == [i \in 0..0 |-> b]
  <2>1. Steps(step, b, 0, f) BY DEF Steps
  <2> QED BY <2>1
<1>2. ASSUME NEW i \in 1..n, i - 1 \in G PROVE i \in G
  <2>1. PICK f : Steps(step, b, i - 1, f) BY <1>2
  <2> DEFINE g == [j \in 0..i |-> IF j = i THEN step[i][f[i - 1]] ELSE f[j]]
  <2>a. i \in Nat /\ i # 0 /\ 0 \in 0..(i - 1) /\ i - 1 \in 0..(i - 1) /\ i \in 0..i
        /\ \A j \in 0..(i - 1) : j \in 0..i /\ j # i
    OBVIOUS
  <2>b. g = [j \in 0..i |-> g[j]] OBVIOUS
  <2>c. \A j \in 0..i : g[j] = IF j = i THEN step[i][f[i - 1]] ELSE f[j] OBVIOUS
  <2> HIDE DEF g
  <2>3. \A j \in 0..(i - 1) : g[j] = f[j] BY <2>a, <2>c
  <2>2. g = [j \in 0..i |-> g[j]] /\ g[0] = b /\ g[i] = step[i][f[i - 1]] /\ g[i - 1] = f[i - 1]
    <3>1. g[i] = step[i][f[i - 1]] BY <2>a, <2>c
    <3>2. g[0] = f[0] /\ f[0] = b BY <2>1, <2>3, <2>a DEF Steps
    <3>3. g[i - 1] = f[i - 1] BY <2>3, <2>a
    <3> QED BY <2>b, <3>1, <3>2, <3>3
  <2>4. ASSUME NEW j \in 1..i PROVE g[j] = step[j][g[j - 1]]
    <3>1. CASE j = i BY <2>2, <3>1
    <3>2. CASE j # i
      <4>1. j \in 1..(i - 1) /\ j \in 0..(i - 1) /\ j - 1 \in 0..(i - 1) BY <3>2
      <4>2. f[j] = step[j][f[j - 1]] BY <2>1, <4>1 DEF Steps
      <4> QED BY <2>3, <4>1, <4>2
    <3> QED BY <3>1, <3>2
  <2>5. Steps(step, b, i, g) BY <2>2, <2>4 DEF Steps
  <2> QED BY <2>5
<1> HIDE DEF G
<1>3. 0..n \subseteq G BY <1>1, <1>2, CountUp
<1>4. n \in G BY <1>3
<1> QED BY <1>4 DEF G

(* A finite set has a member of least and one of greatest key.             *)
LEMMA SmallestKey ==
    ASSUME NEW S, IsFiniteSet(S), S # {}, NEW key, \A x \in S : key[x] \in Int
    PROVE  \E x \in S : \A y \in S : key[x] <= key[y]
<1> DEFINE Ahead(x) == {y \in S : key[y] < key[x]}
           N == {Cardinality(Ahead(x)) : x \in S}
<1>1. \A x \in S : IsFiniteSet(Ahead(x)) /\ Cardinality(Ahead(x)) \in Nat
  <2> TAKE x \in S
  <2>1. Ahead(x) \in SUBSET S OBVIOUS
  <2> HIDE DEF Ahead
  <2> QED BY <2>1, FS_Subset, FS_CardinalityType
<1>2. N \in SUBSET Nat /\ N # {} BY <1>1
<1>3. PICK n \in N : \A m \in N : n <= m
  <2> HIDE DEF N
  <2> QED BY <1>2, SmallestNumber
<1>4. PICK x \in S : n = Cardinality(Ahead(x)) OBVIOUS
<1>5. ASSUME NEW y \in S, key[y] < key[x] PROVE FALSE
  <2>1. Ahead(y) \subseteq Ahead(x) /\ y \in Ahead(x) /\ y \notin Ahead(y) BY <1>5
  <2>2. n <= Cardinality(Ahead(y)) BY <1>3
  <2>3. /\ IsFiniteSet(Ahead(x)) /\ Cardinality(Ahead(x)) \in Nat
        /\ IsFiniteSet(Ahead(y)) /\ Cardinality(Ahead(y)) \in Nat
    BY <1>1
  <2> HIDE DEF Ahead, N
  <2>4. /\ Cardinality(Ahead(y)) <= Cardinality(Ahead(x))
        /\ (Cardinality(Ahead(x)) = Cardinality(Ahead(y)) => Ahead(x) = Ahead(y))
    BY <2>1, <2>3, FS_Subset
  <2> QED BY <1>4, <2>1, <2>2, <2>3, <2>4
<1> QED BY <1>5

LEMMA GreatestKey ==
    ASSUME NEW S, IsFiniteSet(S), S # {}, NEW key, \A x \in S : key[x] \in Int
    PROVE  \E x \in S : \A y \in S : key[x] >= key[y]
<1> DEFINE back == [x \in S |-> -key[x]]
<1>1. \A x \in S : back[x] \in Int /\ back[x] = -key[x] OBVIOUS
<1> HIDE DEF back
<1>2. PICK x \in S : \A y \in S : back[x] <= back[y] BY <1>1, SmallestKey
<1>3. \A y \in S : key[x] >= key[y] BY <1>1, <1>2
<1> QED BY <1>3

-----------------------------------------------------------------------------
(* Sorted lists.                                                           *)

InKeyOrder(s, n, key) == \A i, j \in 1..n : i < j => key[s[i]] <= key[s[j]]
OnceEach(s, n) == \A i, j \in 1..n : i # j => s[i] # s[j]
Sorts(S, key, s) ==
    s \in [1..Cardinality(S) -> S] /\ OnceEach(s, Cardinality(S)) /\ InKeyOrder(s, Cardinality(S), key)

LEMMA SortExists ==
    ASSUME NEW S, IsFiniteSet(S), NEW key, \A x \in S : key[x] \in Int
    PROVE  \E s : Sorts(S, key, s)
<1> DEFINE G == {n \in Nat : \A T \in SUBSET S : Cardinality(T) = n => \E s : Sorts(T, key, s)}
<1>1. 0 \in G
  <2>1. ASSUME NEW T \in SUBSET S, Cardinality(T) = 0 PROVE \E s : Sorts(T, key, s)
    <3> DEFINE s == [i \in 1..0 |-> {}]
    <3>1. Sorts(T, key, s) BY <2>1 DEF Sorts, OnceEach, InKeyOrder
    <3> QED BY <3>1
  <2> QED BY <2>1
<1>2. ASSUME NEW n \in 1..Cardinality(S), n - 1 \in G PROVE n \in G
  <2>1. ASSUME NEW T \in SUBSET S, Cardinality(T) = n PROVE \E s : Sorts(T, key, s)
    <3>0. n \in Nat /\ n # 0 /\ n - 1 \in Nat /\ IsFiniteSet(T) BY FS_Subset
    <3>1. T # {} BY <2>1, <3>0, FS_EmptySet
    <3>2. PICK x \in T : \A y \in T : key[x] >= key[y] BY <3>0, <3>1, GreatestKey
    <3> DEFINE U == T \ {x}
    <3>3. U \in SUBSET S /\ U \subseteq T /\ x \notin U OBVIOUS
    <3>4. Cardinality(U) = n - 1 BY <2>1, <3>0, <3>2, FS_RemoveElement
    <3> HIDE DEF U
    <3>5. PICK s : Sorts(U, key, s) BY <1>2, <3>3, <3>4
    <3> DEFINE g == [i \in 1..n |-> IF i = n THEN x ELSE s[i]]
    <3>6. \A i \in 1..n : i # n => i \in 1..(n - 1) BY <3>0
    <3>7. \A i \in 1..(n - 1) : s[i] \in U BY <3>4, <3>5 DEF Sorts
    <3>8. g \in [1..n -> T]
      <4>1. \A i \in 1..n : (IF i = n THEN x ELSE s[i]) \in T BY <3>2, <3>3, <3>6, <3>7
      <4> QED BY <4>1
    <3>9. \A i \in 1..n : g[i] = IF i = n THEN x ELSE s[i] OBVIOUS
    <3> HIDE DEF g
    <3>10. OnceEach(g, n)
      <4>1. \A i, j \in 1..(n - 1) : i # j => s[i] # s[j] BY <3>4, <3>5 DEF Sorts, OnceEach
      <4> QED BY <3>3, <3>6, <3>7, <3>9, <4>1 DEF OnceEach
    <3>11. InKeyOrder(g, n, key)
      <4>1. \A i, j \in 1..(n - 1) : i < j => key[s[i]] <= key[s[j]]
        BY <3>4, <3>5 DEF Sorts, InKeyOrder
      <4>2. \A i \in 1..(n - 1) : key[s[i]] <= key[x] BY <3>2, <3>3, <3>7
      <4>3. ASSUME NEW i \in 1..n, NEW j \in 1..n, i < j PROVE key[g[i]] <= key[g[j]]
        <5>1. i # n /\ i \in 1..(n - 1) BY <3>0, <3>6, <4>3
        <5>2. CASE j = n BY <3>9, <4>2, <5>1, <5>2
        <5>3. CASE j # n
          <6>1. j \in 1..(n - 1) BY <3>6, <5>3
          <6> QED BY <3>9, <4>1, <4>3, <5>1, <5>3, <6>1
        <5> QED BY <5>2, <5>3
      <4> QED BY <4>3 DEF InKeyOrder
    <3>12. Sorts(T, key, g) BY <2>1, <3>8, <3>10, <3>11 DEF Sorts
    <3> QED BY <3>12
  <2> QED BY <2>1
<1>3. Cardinality(S) \in Nat BY FS_CardinalityType
<1> HIDE DEF G
<1>4. 0..Cardinality(S) \subseteq G BY <1>1, <1>2, <1>3, CountUp
<1>5. Cardinality(S) \in G /\ S \in SUBSET S BY <1>3, <1>4
<1> QED BY <1>5 DEF G

(* Every member once, in the order of the keys.                            *)
IsSorting(S, key, s, n) ==
    /\ n = Cardinality(S) /\ n \in Nat /\ Len(s) = n /\ s \in [1..n -> S]
    /\ OnceEach(s, n) /\ InKeyOrder(s, n, key)
    /\ \A x \in S : \E i \in 1..n : s[i] = x

LEMMA SortedFacts ==
    ASSUME NEW S, IsFiniteSet(S), NEW key, \A x \in S : key[x] \in Int
    PROVE  IsSorting(S, key, Sorted(S, key), Cardinality(S))
<1> DEFINE n == Cardinality(S)
           s == Sorted(S, key)
<1>1. n \in Nat BY FS_CardinalityType
<1>2. \A f \in [1..n -> S] : Len(f) = n BY <1>1
<1>3. PICK g : Sorts(S, key, g) BY SortExists
<1>4. g \in SetToSeqs(S) /\ \A i, j \in 1..Len(g) : i < j => key[g[i]] <= key[g[j]]
  <2>1. g \in [1..n -> S] /\ OnceEach(g, n) /\ InKeyOrder(g, n, key) BY <1>3 DEF Sorts
  <2>2. Len(g) = n BY <1>2, <2>1
  <2>3. g \in SetToSeqs(S) BY <2>1 DEF SetToSeqs, OnceEach
  <2> HIDE DEF n
  <2> QED BY <2>1, <2>2, <2>3 DEF InKeyOrder
<1>5. s \in SetToSeqs(S) /\ \A i, j \in 1..Len(s) : i < j => key[s[i]] <= key[s[j]]
  BY <1>4 DEF Sorted
<1>6. s \in [1..n -> S] /\ OnceEach(s, n)
  <2> HIDE DEF s
  <2> QED BY <1>5 DEF SetToSeqs, OnceEach
<1> HIDE DEF s
<1>7. Len(s) = n BY <1>2, <1>6
<1>8. InKeyOrder(s, n, key) BY <1>5, <1>7 DEF InKeyOrder
<1>9. \A x \in S : \E i \in 1..n : s[i] = x
  <2>1. s \in Injection(1..n, S) BY <1>6 DEF OnceEach, Injection, IsInjective
  <2>2. IsFiniteSet(1..n) /\ Cardinality(1..n) = n
    <3> HIDE DEF n
    <3> QED BY <1>1, FS_Interval
  <2>3. s \in Surjection(1..n, S) BY <2>1, <2>2, FS_Injection
  <2> QED BY <2>3 DEF Surjection
<1> QED BY <1>1, <1>6, <1>7, <1>8, <1>9 DEF s, IsSorting

Ascends(S, s, n) ==
    /\ n = Cardinality(S) /\ n \in Nat /\ Len(s) = n /\ s \in [1..n -> S]
    /\ \A i, j \in 1..n : i < j => s[i] < s[j]
    /\ \A x \in S : \E i \in 1..n : s[i] = x

LEMMA InOrderFacts ==
    ASSUME NEW S, IsFiniteSet(S), S \subseteq Int
    PROVE  Ascends(S, InOrder(S), Cardinality(S))
<1> DEFINE n == Cardinality(S)
           key == [x \in S |-> x]
           s == Sorted(S, key)
<1>1. \A x \in S : key[x] = x /\ key[x] \in Int OBVIOUS
<1> HIDE DEF key
<1>2. /\ n \in Nat /\ Len(s) = n /\ s \in [1..n -> S] /\ OnceEach(s, n) /\ InKeyOrder(s, n, key)
      /\ \A x \in S : \E i \in 1..n : s[i] = x
  <2>1. \A x \in S : key[x] \in Int BY <1>1
  <2>2. IsSorting(S, key, s, n) BY <2>1, SortedFacts
  <2> HIDE DEF n, s
  <2> QED BY <2>2 DEF IsSorting
<1> HIDE DEF s, n
<1>3. ASSUME NEW i \in 1..n, NEW j \in 1..n, i < j PROVE s[i] < s[j]
  <2>1. s[i] \in Int /\ s[j] \in Int /\ key[s[i]] = s[i] /\ key[s[j]] = s[j] BY <1>1, <1>2
  <2>2. s[i] # s[j] BY <1>2, <1>3 DEF OnceEach
  <2>3. key[s[i]] <= key[s[j]] BY <1>2, <1>3 DEF InKeyOrder
  <2> QED BY <2>1, <2>2, <2>3
<1>4. s = InOrder(S) BY DEF InOrder, s, key
<1> QED BY <1>2, <1>3, <1>4 DEF n, Ascends

(* What a filter leaves, in its old order.                                 *)
Places(list, wanted) == InOrder({i \in 1..Len(list) : list[i] \in wanted})

Filters(list, wanted, f, at, n) ==
    /\ n = Cardinality({i \in 1..Len(list) : list[i] \in wanted})
    /\ n \in Nat /\ Len(f) = n /\ f \in Seq(wanted)
    /\ \A j \in 1..n : at[j] \in 1..Len(list) /\ list[at[j]] \in wanted /\ f[j] = list[at[j]]
    /\ \A i, j \in 1..n : i < j => at[i] < at[j]
    /\ \A i \in 1..Len(list) : list[i] \in wanted => \E j \in 1..n : at[j] = i

LEMMA FilteredFacts ==
    ASSUME NEW list, Len(list) \in Nat, NEW wanted
    PROVE  Filters(list, wanted, Filtered(list, wanted), Places(list, wanted),
                   Cardinality({i \in 1..Len(list) : list[i] \in wanted}))
<1> DEFINE S == {i \in 1..Len(list) : list[i] \in wanted}
           n == Cardinality(S)
           at == InOrder(S)
           f == [j \in 1..Len(at) |-> list[at[j]]]
<1>1. IsFiniteSet(S) /\ S \subseteq Int
  <2>1. IsFiniteSet(1..Len(list)) BY FS_Interval
  <2>2. S \in SUBSET (1..Len(list)) OBVIOUS
  <2>3. IsFiniteSet(S)
    <3> HIDE DEF S
    <3> QED BY <2>1, <2>2, FS_Subset
  <2>4. 1..Len(list) \subseteq Int OBVIOUS
  <2> HIDE DEF S
  <2> QED BY <2>2, <2>3, <2>4
<1>2. \A i \in S : i \in 1..Len(list) /\ list[i] \in wanted OBVIOUS
<1>3. \A i \in 1..Len(list) : list[i] \in wanted => i \in S OBVIOUS
<1>4. Places(list, wanted) = at /\ Filtered(list, wanted) = f BY DEF Places, Filtered
<1> HIDE DEF S
<1>5. /\ n \in Nat /\ Len(at) = n /\ at \in [1..n -> S]
      /\ \A i, j \in 1..n : i < j => at[i] < at[j]
      /\ \A x \in S : \E i \in 1..n : at[i] = x
  <2>1. Ascends(S, at, n) BY <1>1, InOrderFacts
  <2> HIDE DEF at, n
  <2> QED BY <2>1 DEF Ascends
<1> HIDE DEF at, n
<1>6. f = [j \in 1..n |-> list[at[j]]] BY <1>5
<1> HIDE DEF f
<1>7. \A j \in 1..n : at[j] \in 1..Len(list) /\ list[at[j]] \in wanted /\ f[j] = list[at[j]]
  BY <1>2, <1>5, <1>6
<1>8. f \in [1..n -> wanted] BY <1>6, <1>7
<1>9. f \in Seq(wanted) /\ Len(f) = n BY <1>5, <1>8
<1>10. \A i \in 1..Len(list) : list[i] \in wanted => \E j \in 1..n : at[j] = i BY <1>3, <1>5
<1> QED BY <1>4, <1>5, <1>7, <1>9, <1>10 DEF n, S, Filters

(* The members a filter leaves are those of the list that are wanted.      *)
LEMMA FilteredMembers ==
    ASSUME NEW list, Len(list) \in Nat, DOMAIN list = 1..Len(list), NEW wanted
    PROVE  ToSet(Filtered(list, wanted)) = ToSet(list) \cap wanted
<1> DEFINE f == Filtered(list, wanted)
           at == Places(list, wanted)
<1>0. PICK n : Filters(list, wanted, f, at, n) BY FilteredFacts
<1> HIDE DEF f, at
<1>1. /\ n \in Nat /\ Len(f) = n /\ f \in Seq(wanted)
      /\ \A j \in 1..n : at[j] \in 1..Len(list) /\ list[at[j]] \in wanted /\ f[j] = list[at[j]]
      /\ \A i \in 1..Len(list) : list[i] \in wanted => \E j \in 1..n : at[j] = i
  BY <1>0 DEF Filters
<1>2. DOMAIN f = 1..n BY <1>1
<1>3. ASSUME NEW x \in ToSet(f) PROVE x \in ToSet(list) \cap wanted
  <2>1. PICK j \in 1..n : f[j] = x BY <1>2 DEF ToSet
  <2> QED BY <1>1, <2>1 DEF ToSet
<1>4. ASSUME NEW x \in ToSet(list), x \in wanted PROVE x \in ToSet(f)
  <2>1. PICK i \in 1..Len(list) : list[i] = x BY DEF ToSet
  <2>2. PICK j \in 1..n : at[j] = i BY <1>1, <1>4, <2>1
  <2>3. f[j] = x BY <1>1, <2>1, <2>2
  <2> QED BY <1>2, <2>3 DEF ToSet
<1> QED BY <1>3, <1>4 DEF f

-----------------------------------------------------------------------------
(* The label filter lets every row through that the predicates let through.*)

Meets(v, p) ==
    CASE p.op = "=" -> v = p.v
      [] p.op = ">" -> v > p.v
      [] p.op = ">=" -> v >= p.v
      [] p.op = "<" -> v < p.v
      [] p.op = "<=" -> v <= p.v
      [] p.op = "in" -> v \in p.v
IsPredicate(p) == p.op = "in" \/ (p.op \in {"=", ">", ">=", "<", "<="} /\ p.v \in Int)
IsFilter(f) ==
    \/ f = NoFilter
    \/ f = Equals(f.value) /\ f.value \in Int
    \/ f = Between(f.lo, f.hi) /\ f.lo \in Int /\ f.hi \in Int

LEMMA PredicateFilter ==
    ASSUME NEW p, IsPredicate(p)
    PROVE  /\ IsFilter(ConstantFilterToLabel(p))
           /\ \A v \in MinLabel..MaxLabel : Meets(v, p) => Matches(ConstantFilterToLabel(p), v)
<1> USE LabelAssumption
<1>1. CASE p.op = "in" BY <1>1 DEF ConstantFilterToLabel, IsFilter, Matches, NoFilter
<1>2. CASE p.op = "=" /\ p.v \in Int
  BY <1>2 DEF ConstantFilterToLabel, IsFilter, Matches, Equals, Meets
<1>3. CASE p.op = ">" /\ p.v \in Int
  <2>1. \A v \in MinLabel..MaxLabel : Meets(v, p) => v > p.v /\ p.v # MaxLabel BY <1>3 DEF Meets
  <2> QED BY <1>3, <2>1 DEF ConstantFilterToLabel, IsFilter, Matches, Between
<1>4. CASE p.op = ">=" /\ p.v \in Int
  BY <1>4 DEF ConstantFilterToLabel, IsFilter, Matches, Between, Meets
<1>5. CASE p.op = "<" /\ p.v \in Int
  <2>1. \A v \in MinLabel..MaxLabel : Meets(v, p) => v < p.v /\ p.v # MinLabel BY <1>5 DEF Meets
  <2> QED BY <1>5, <2>1 DEF ConstantFilterToLabel, IsFilter, Matches, Between
<1>6. CASE p.op = "<=" /\ p.v \in Int
  BY <1>6 DEF ConstantFilterToLabel, IsFilter, Matches, Between, Meets
<1> QED BY <1>1, <1>2, <1>3, <1>4, <1>5, <1>6 DEF IsPredicate

(* The bounds of a finite set of integers are members of it.               *)
LEMMA Bounds ==
    ASSUME NEW S, IsFiniteSet(S), S # {}, S \subseteq Int
    PROVE  /\ Max(S) \in S /\ \A x \in S : x <= Max(S)
           /\ Min(S) \in S /\ \A x \in S : Min(S) <= x
<1> DEFINE key == [x \in S |-> x]
<1>1. \A x \in S : key[x] = x /\ key[x] \in Int OBVIOUS
<1> HIDE DEF key
<1>2. PICK a \in S : \A y \in S : key[a] >= key[y] BY <1>1, GreatestKey
<1>3. PICK b \in S : \A y \in S : key[b] <= key[y] BY <1>1, SmallestKey
<1>4. Max(S) \in S /\ \A x \in S : Max(S) >= x BY <1>1, <1>2 DEF Max
<1>5. Min(S) \in S /\ \A x \in S : Min(S) <= x BY <1>1, <1>3 DEF Min
<1> QED BY <1>4, <1>5

LEMMA ImageFinite ==
    ASSUME NEW S, IsFiniteSet(S), NEW f
    PROVE  IsFiniteSet({f[x] : x \in S})
<1> DEFINE T == {f[x] : x \in S}
           g == [x \in S |-> f[x]]
<1>1. g \in Surjection(S, T) BY DEF Surjection
<1> HIDE DEF g, T
<1>2. IsFiniteSet(T) BY <1>1, FS_Surjection
<1> QED BY <1>2 DEF T

LEMMA FoldedFilter ==
    ASSUME NEW partials, Len(partials) \in Nat \ {0},
           \A i \in 1..Len(partials) : IsFilter(partials[i]) /\ Active(partials[i])
    PROVE  /\ IsFilter(FoldLabelFilters(partials))
           /\ \A v \in MinLabel..MaxLabel :
                (\A i \in 1..Len(partials) : Matches(partials[i], v))
                   => Matches(FoldLabelFilters(partials), v)
<1> USE LabelAssumption
<1> DEFINE n == Len(partials)
           equal == {i \in 1..n : partials[i].kind = "equals"}
           first == partials[Min(equal)]
           los == {partials[i].lo : i \in (1..n) \ equal}
           his == {partials[i].hi : i \in (1..n) \ equal}
           lo == Max({MinLabel} \cup los)
           hi == Min({MaxLabel} \cup his)
           F == FoldLabelFilters(partials)
<1>1. F = IF n = 1 THEN partials[1]
          ELSE IF equal # {}
               THEN IF \A i \in (1..n) \ {Min(equal)} : Matches(partials[i], first.value)
                    THEN first ELSE NoFilter
               ELSE IF lo > hi THEN NoFilter ELSE Between(lo, hi)
  BY DEF FoldLabelFilters
<1>2. IsFilter(NoFilter) /\ \A v : Matches(NoFilter, v) BY DEF IsFilter, Matches, NoFilter
<1>3. IsFiniteSet(1..n) /\ IsFiniteSet(equal) /\ IsFiniteSet((1..n) \ equal) /\ equal \subseteq 1..n
  <2>1. IsFiniteSet(1..n) BY FS_Interval
  <2>2. equal \in SUBSET (1..n) /\ (1..n) \ equal \in SUBSET (1..n) OBVIOUS
  <2> HIDE DEF equal, n
  <2> QED BY <2>1, <2>2, FS_Subset
<1>4. CASE n = 1
  <2>1. F = partials[1] /\ 1 \in 1..n BY <1>1, <1>4
  <2>2. IsFilter(partials[1]) BY <2>1
  <2>3. \A v : (\A i \in 1..n : Matches(partials[i], v)) => Matches(partials[1], v) BY <2>1
  <2> QED BY <2>1, <2>2, <2>3
<1>5. CASE n # 1 /\ equal # {}
  <2>1. Min(equal) \in 1..n
    <3>1. equal \subseteq Int OBVIOUS
    <3> HIDE DEF equal, n
    <3> QED BY <1>3, <1>5, <3>1, Bounds
  <2>2. F = first \/ F = NoFilter
    <3> HIDE DEF F, equal, first, n, lo, hi
    <3> QED BY <1>1, <1>5
  <2> QED BY <1>2, <2>1, <2>2
<1>6. CASE n # 1 /\ equal = {}
  <2>1. \A i \in 1..n : /\ partials[i].lo \in Int /\ partials[i].hi \in Int
                        /\ \A v : Matches(partials[i], v) => v \in partials[i].lo .. partials[i].hi
    <3> TAKE i \in 1..n
    <3>1. partials[i].kind # "equals" BY <1>6
    <3>2. /\ partials[i] = Between(partials[i].lo, partials[i].hi)
          /\ partials[i].lo \in Int /\ partials[i].hi \in Int
      <4>1. IsFilter(partials[i]) /\ partials[i].kind # "none" BY DEF Active
      <4>2. partials[i] # NoFilter /\ partials[i] # Equals(partials[i].value)
        <5>1. NoFilter.kind = "none" /\ Equals(partials[i].value).kind = "equals"
          BY DEF NoFilter, Equals
        <5> QED BY <3>1, <4>1, <5>1
      <4> QED BY <4>1, <4>2 DEF IsFilter
    <3>3. partials[i].kind = "range" BY <3>2 DEF Between
    <3> QED BY <3>2, <3>3 DEF Matches
  <2>2. (1..n) \ equal = 1..n BY <1>6
  <2>3. IsFiniteSet(los) /\ IsFiniteSet(his)
    <3> DEFINE f == [i \in 1..n |-> partials[i].lo]
               g == [i \in 1..n |-> partials[i].hi]
    <3>1. los = {f[i] : i \in 1..n} /\ his = {g[i] : i \in 1..n} BY <2>2
    <3>2. IsFiniteSet(1..n) BY <1>3
    <3> HIDE DEF f, g, los, his, n
    <3>3. IsFiniteSet({f[i] : i \in 1..n}) BY <3>2, ImageFinite
    <3>4. IsFiniteSet({g[i] : i \in 1..n}) BY <3>2, ImageFinite
    <3> QED BY <3>1, <3>3, <3>4
  <2>4. {MinLabel} \cup los \subseteq Int /\ {MaxLabel} \cup his \subseteq Int BY <2>1, <2>2
  <2>5. ASSUME NEW v \in MinLabel..MaxLabel, \A i \in 1..n : Matches(partials[i], v)
        PROVE  (\A x \in los : x <= v) /\ (\A x \in his : v <= x)
    <3>1. \A i \in 1..n : partials[i].lo <= v /\ v <= partials[i].hi BY <2>1, <2>5
    <3> QED BY <2>2, <3>1
  <2> HIDE DEF los, his
  <2>6. IsFiniteSet({MinLabel} \cup los) /\ IsFiniteSet({MaxLabel} \cup his)
    BY <2>3, FS_Singleton, FS_Union
  <2>7. lo \in {MinLabel} \cup los /\ hi \in {MaxLabel} \cup his BY <2>4, <2>6, Bounds
  <2> HIDE DEF lo, hi
  <2>8. lo \in Int /\ hi \in Int BY <2>4, <2>7
  <2>9. F = IF lo > hi THEN NoFilter ELSE Between(lo, hi)
    <3> HIDE DEF F, equal, first, n
    <3> QED BY <1>1, <1>6
  <2>10. IsFilter(F)
    <3> HIDE DEF F
    <3> QED BY <1>2, <2>8, <2>9 DEF Between, IsFilter
  <2>11. ASSUME NEW v \in MinLabel..MaxLabel, \A i \in 1..n : Matches(partials[i], v)
         PROVE  Matches(F, v)
    <3>1. lo <= v /\ v <= hi BY <2>5, <2>7, <2>11
    <3>2. F = Between(lo, hi)
      <4> HIDE DEF F
      <4> QED BY <2>8, <2>9, <3>1
    <3> HIDE DEF F
    <3> QED BY <2>8, <3>1, <3>2 DEF Between, Matches
  <2> QED BY <2>10, <2>11
<1> QED BY <1>4, <1>5, <1>6

(* Every label that meets the predicates on labels passes the filter.      *)
LEMMA ExtractedFilter ==
    ASSUME NEW withLabels \in BOOLEAN, NEW where, where \in Seq(ToSet(where)),
           \A p \in ToSet(where) : IsPredicate(p)
    PROVE  /\ IsFilter(TryExtractLabelFilter(withLabels, where))
           /\ \A v \in MinLabel..MaxLabel :
                (\A i \in 1..Len(where) : where[i].col = "label" => Meets(v, where[i]))
                   => Matches(TryExtractLabelFilter(withLabels, where), v)
<1> DEFINE wanted == {p \in ToSet(where) : p.col = "label" /\ Active(ConstantFilterToLabel(p))}
           usable == Filtered(where, wanted)
           partials == [i \in 1..Len(usable) |-> ConstantFilterToLabel(usable[i])]
<1>1. TryExtractLabelFilter(withLabels, where) =
        IF withLabels /\ partials # <<>> THEN FoldLabelFilters(partials) ELSE NoFilter
  BY DEF TryExtractLabelFilter
<1>2. Len(where) \in Nat OBVIOUS
<1>3. \A p \in wanted : p.col = "label" /\ Active(ConstantFilterToLabel(p)) /\ IsPredicate(p) OBVIOUS
<1> HIDE DEF wanted
<1>4. PICK at, n : Filters(where, wanted, usable, at, n) BY <1>2, FilteredFacts
<1> HIDE DEF usable
<1>5. n \in Nat /\ Len(usable) = n
      /\ \A j \in 1..n : at[j] \in 1..Len(where) /\ where[at[j]] \in wanted /\ usable[j] = where[at[j]]
  BY <1>4 DEF Filters
<1>6. Len(partials) = n /\ (n = 0 => partials = <<>>) BY <1>5
<1>7. ASSUME NEW i \in 1..n
      PROVE  /\ IsFilter(partials[i]) /\ Active(partials[i])
             /\ \A v \in MinLabel..MaxLabel : Meets(v, usable[i]) => Matches(partials[i], v)
  <2>1. partials[i] = ConstantFilterToLabel(usable[i]) BY <1>5
  <2>2. IsPredicate(usable[i]) /\ Active(ConstantFilterToLabel(usable[i])) BY <1>3, <1>5
  <2> HIDE DEF partials
  <2> QED BY <2>1, <2>2, PredicateFilter
<1> HIDE DEF partials
<1>8. IsFilter(NoFilter) /\ \A v : Matches(NoFilter, v) BY DEF IsFilter, Matches, NoFilter
<1>9. CASE withLabels /\ partials # <<>>
  <2>1. Len(partials) \in Nat \ {0} BY <1>5, <1>6, <1>9
  <2>2. TryExtractLabelFilter(withLabels, where) = FoldLabelFilters(partials) BY <1>1, <1>9
  <2>3. /\ IsFilter(FoldLabelFilters(partials))
        /\ \A v \in MinLabel..MaxLabel :
             (\A i \in 1..n : Matches(partials[i], v)) => Matches(FoldLabelFilters(partials), v)
    BY <1>6, <1>7, <2>1, FoldedFilter
  <2>4. ASSUME NEW v \in MinLabel..MaxLabel,
               \A i \in 1..Len(where) : where[i].col = "label" => Meets(v, where[i])
        PROVE  \A i \in 1..n : Matches(partials[i], v)
    <3> TAKE i \in 1..n
    <3>1. Meets(v, usable[i]) BY <1>3, <1>5, <2>4
    <3> QED BY <1>7, <3>1
  <2> QED BY <2>2, <2>3, <2>4
<1>10. CASE ~(withLabels /\ partials # <<>>) BY <1>1, <1>8, <1>10
<1> QED BY <1>9, <1>10

-----------------------------------------------------------------------------
(* The beam search.                                                        *)

(* A graph whose nodes are all neighbours of each other, with the          *)
(* distances of a query to them.                                           *)
Searchable(c, q) ==
    /\ Len(c.rows) \in Nat
    /\ \A n \in Nodes(c) : DistanceToCode(c, q, n) \in Int
    /\ \A n \in Nodes(c) : /\ Len(c.nbrs[n + 1]) \in Nat
                           /\ \A i \in 1..Len(c.nbrs[n + 1]) : c.nbrs[n + 1][i] \in Nodes(c)
                           /\ \A m \in Nodes(c) \ {n} :
                                 \E i \in 1..Len(c.nbrs[n + 1]) : c.nbrs[n + 1][i] = m

LEMMA NodesFinite ==
    ASSUME NEW c, Len(c.rows) \in Nat, NEW S \in SUBSET Nodes(c)
    PROVE  IsFiniteSet(Nodes(c)) /\ IsFiniteSet(S) /\ Cardinality(S) \in Nat
<1>1. IsFiniteSet(Nodes(c)) BY FS_Interval DEF Nodes
<1>2. IsFiniteSet(S) BY <1>1, FS_Subset
<1> QED BY <1>1, <1>2, FS_CardinalityType

LEMMA Extremes ==
    ASSUME NEW c, NEW q, Searchable(c, q), NEW S \in SUBSET Nodes(c), S # {}
    PROVE  /\ Farthest(c, q, S) \in S
           /\ \A m \in S : DistanceToCode(c, q, m) <= DistanceToCode(c, q, Farthest(c, q, S))
           /\ Nearest(c, q, S) \in S
           /\ \A m \in S : DistanceToCode(c, q, Nearest(c, q, S)) <= DistanceToCode(c, q, m)
<1> DEFINE key == [n \in S |-> DistanceToCode(c, q, n)]
<1>1. \A n \in S : key[n] = DistanceToCode(c, q, n) /\ key[n] \in Int BY DEF Searchable
<1>2. IsFiniteSet(S) BY NodesFinite DEF Searchable
<1> HIDE DEF key
<1>3. PICK a \in S : \A y \in S : key[a] >= key[y] BY <1>1, <1>2, GreatestKey
<1>4. PICK b \in S : \A y \in S : key[b] <= key[y] BY <1>1, <1>2, SmallestKey
<1>5. /\ Farthest(c, q, S) \in S
      /\ \A m \in S : DistanceToCode(c, q, Farthest(c, q, S)) >= DistanceToCode(c, q, m)
  <2>1. \A m \in S : DistanceToCode(c, q, a) >= DistanceToCode(c, q, m) BY <1>1, <1>3
  <2> QED BY <2>1 DEF Farthest
<1>6. /\ Nearest(c, q, S) \in S
      /\ \A m \in S : DistanceToCode(c, q, Nearest(c, q, S)) <= DistanceToCode(c, q, m)
  <2>1. \A m \in S : DistanceToCode(c, q, b) <= DistanceToCode(c, q, m) BY <1>1, <1>4
  <2> QED BY <2>1 DEF Nearest
<1>7. \A m \in S : key[m] \in Int /\ key[Farthest(c, q, S)] \in Int BY <1>1, <1>5
<1> QED BY <1>1, <1>5, <1>6, <1>7

(* A full working set lets go of its farthest, and only of that.           *)
Closer(c, q, w, m) == \A x \in w : DistanceToCode(c, q, x) <= DistanceToCode(c, q, m)

LEMMA PushedFacts ==
    ASSUME NEW c, NEW q, Searchable(c, q), NEW L \in Nat \ {0}, NEW w \in SUBSET Nodes(c),
           Cardinality(w) <= L, NEW n \in Nodes(c) \ w
    PROVE  LET v == Pushed(c, q, w, n, L)
           IN  /\ v \subseteq w \cup {n} /\ Cardinality(v) <= L
               /\ \A m \in (w \cup {n}) \ v : Cardinality(v) = L /\ Closer(c, q, v, m)
               /\ \A m \in Nodes(c) : Cardinality(w) = L /\ Closer(c, q, w, m) =>
                                       Cardinality(v) = L /\ Closer(c, q, v, m)
<1> DEFINE v == Pushed(c, q, w, n, L)
           u == w \cup {n}
           far == Farthest(c, q, u)
<1>1. /\ IsFiniteSet(w) /\ Cardinality(w) \in Nat /\ u \in SUBSET Nodes(c) /\ u # {}
      /\ Cardinality(u) = Cardinality(w) + 1 /\ IsFiniteSet(u)
  <2>1. IsFiniteSet(w) /\ Cardinality(w) \in Nat BY NodesFinite DEF Searchable
  <2> QED BY <2>1, FS_AddElement
<1>2. far \in u /\ Closer(c, q, u, far) BY <1>1, Extremes DEF Closer
<1>3. v = IF Cardinality(w) < L THEN u ELSE u \ {far} BY DEF Pushed
<1>4. \A m \in Nodes(c) : DistanceToCode(c, q, m) \in Int BY DEF Searchable
<1> HIDE DEF v, far
<1>5. CASE Cardinality(w) < L
  <2>1. v = u /\ Cardinality(v) <= L BY <1>1, <1>3, <1>5
  <2> QED BY <1>1, <1>5, <2>1 DEF v
<1>6. CASE ~(Cardinality(w) < L)
  <2>1. v = u \ {far} /\ Cardinality(w) = L BY <1>1, <1>3, <1>6
  <2>2. Cardinality(v) = L
    <3>1. IsFiniteSet(u) /\ Cardinality(u) = L + 1 BY <1>1, <2>1
    <3> HIDE DEF u
    <3>2. Cardinality(u \ {far}) = Cardinality(u) - 1 BY <1>2, <3>1, FS_RemoveElement
    <3> QED BY <2>1, <3>1, <3>2
  <2>3. Closer(c, q, v, far) BY <1>2, <2>1 DEF Closer
  <2>4. ASSUME NEW m \in Nodes(c), Closer(c, q, w, m) PROVE Closer(c, q, v, m)
    <3>1. CASE far = n
      <4>1. v \subseteq w BY <2>1, <3>1
      <4> QED BY <2>4, <4>1 DEF Closer
    <3>2. CASE far # n
      <4>1. far \in w BY <1>2, <3>2
      <4>2. DistanceToCode(c, q, far) <= DistanceToCode(c, q, m) BY <2>4, <4>1 DEF Closer
      <4>3. \A x \in v : x \in Nodes(c) /\ DistanceToCode(c, q, x) <= DistanceToCode(c, q, far)
        BY <2>1, <2>3 DEF Closer
      <4>4. far \in Nodes(c) BY <4>1
      <4> QED BY <1>4, <4>2, <4>3, <4>4 DEF Closer
    <3> QED BY <3>1, <3>2
  <2>5. v \subseteq w \cup {n} /\ Cardinality(v) <= L BY <2>1, <2>2
  <2>6. \A m \in u \ v : m = far BY <2>1
  <2>7. \A m \in u \ v : Cardinality(v) = L /\ Closer(c, q, v, m) BY <2>2, <2>3, <2>6
  <2> HIDE DEF u
  <2> QED BY <2>2, <2>4, <2>5, <2>7 DEF v, u
<1> QED BY <1>5, <1>6

(* What a search has found of the nodes it has seen.                       *)
BeamStates(c, q, L, f) ==
    {b \in [seen : SUBSET Nodes(c), io : Nat, frontier : SUBSET Nodes(c), w : SUBSET Nodes(c)] :
        /\ Cardinality(b.w) <= L /\ b.frontier \subseteq b.seen /\ b.w \subseteq b.seen
        /\ \A n \in b.seen : \/ Hidden(c, f, n) \/ n \in b.w
                             \/ Cardinality(b.w) = L /\ Closer(c, q, b.w, n)}

(* One more node, put into the working set.                                *)
LEMMA PushKeeps ==
    ASSUME NEW c, NEW q, Searchable(c, q), NEW L \in Nat \ {0}, NEW f,
           NEW b \in BeamStates(c, q, L, f), NEW n \in Nodes(c), n \notin b.seen
    PROVE  LET d == [seen |-> b.seen \cup {n}, io |-> b.io + 1,
                     frontier |-> b.frontier \cup {n}, w |-> Pushed(c, q, b.w, n, L)]
           IN  d \in BeamStates(c, q, L, f)
<1> DEFINE d == [seen |-> b.seen \cup {n}, io |-> b.io + 1,
                 frontier |-> b.frontier \cup {n}, w |-> Pushed(c, q, b.w, n, L)]
           v == Pushed(c, q, b.w, n, L)
<1>1. /\ b.seen \subseteq Nodes(c) /\ b.io \in Nat /\ b.frontier \subseteq b.seen
      /\ b.w \subseteq b.seen /\ Cardinality(b.w) <= L
      /\ \A m \in b.seen : \/ Hidden(c, f, m) \/ m \in b.w
                           \/ Cardinality(b.w) = L /\ Closer(c, q, b.w, m)
  BY DEF BeamStates
<1>2. b.w \in SUBSET Nodes(c) /\ n \in Nodes(c) \ b.w BY <1>1
<1>3. /\ v \subseteq b.w \cup {n} /\ Cardinality(v) <= L
      /\ \A m \in (b.w \cup {n}) \ v : Cardinality(v) = L /\ Closer(c, q, v, m)
      /\ \A m \in Nodes(c) : Cardinality(b.w) = L /\ Closer(c, q, b.w, m) =>
                              Cardinality(v) = L /\ Closer(c, q, v, m)
  BY <1>1, <1>2, PushedFacts
<1>4. d.seen = b.seen \cup {n} /\ d.io = b.io + 1 /\ d.frontier = b.frontier \cup {n} /\ d.w = v
      /\ d \in [seen : {d.seen}, io : {d.io}, frontier : {d.frontier}, w : {d.w}]
  OBVIOUS
<1> HIDE DEF d, v
<1>5. d \in [seen : SUBSET Nodes(c), io : Nat, frontier : SUBSET Nodes(c), w : SUBSET Nodes(c)]
  <2>1. d.seen \in SUBSET Nodes(c) /\ d.io \in Nat /\ d.frontier \in SUBSET Nodes(c)
        /\ d.w \in SUBSET Nodes(c)
    BY <1>1, <1>2, <1>3, <1>4
  <2> QED BY <1>4, <2>1
<1>6. \A m \in d.seen : \/ Hidden(c, f, m) \/ m \in d.w
                        \/ Cardinality(d.w) = L /\ Closer(c, q, d.w, m)
  <2>1. ASSUME NEW m \in d.seen, m \notin v, ~Hidden(c, f, m)
        PROVE  Cardinality(v) = L /\ Closer(c, q, v, m)
    <3>1. CASE m \in b.w \cup {n} BY <1>3, <2>1, <3>1
    <3>2. CASE m \notin b.w \cup {n}
      <4>1. m \in b.seen /\ m \in Nodes(c) BY <1>1, <1>4, <3>2
      <4>2. Cardinality(b.w) = L /\ Closer(c, q, b.w, m) BY <1>1, <2>1, <3>2, <4>1
      <4> QED BY <1>3, <4>1, <4>2
    <3> QED BY <3>1, <3>2
  <2>2. \A m \in d.seen : Hidden(c, f, m) \/ m \in v \/ (Cardinality(v) = L /\ Closer(c, q, v, m))
    BY <2>1
  <2>3. d.w = v BY <1>4
  <2> QED BY <2>2, <2>3, Zenon
<1>7. Cardinality(d.w) <= L /\ d.frontier \subseteq d.seen /\ d.w \subseteq d.seen
  BY <1>1, <1>3, <1>4
<1>8. d \in BeamStates(c, q, L, f) BY <1>5, <1>6, <1>7 DEF BeamStates
<1> QED BY <1>8 DEF d

LEMMA SeedKeeps ==
    ASSUME NEW c, NEW q, Searchable(c, q), NEW L \in Nat \ {0}, NEW f,
           NEW b \in BeamStates(c, q, L, f), NEW n \in Nodes(c)
    PROVE  /\ Seed(c, q, L, b, n) \in BeamStates(c, q, L, f)
           /\ Seed(c, q, L, b, n).seen = b.seen \cup {n}
           /\ b.frontier = b.seen => Seed(c, q, L, b, n).frontier = Seed(c, q, L, b, n).seen
<1>1. CASE n \in b.seen
  <2>1. Seed(c, q, L, b, n) = b BY <1>1 DEF Seed
  <2> QED BY <1>1, <2>1
<1>2. CASE n \notin b.seen
  <2>1. Seed(c, q, L, b, n) = [seen |-> b.seen \cup {n}, io |-> b.io + 1,
                               frontier |-> b.frontier \cup {n}, w |-> Pushed(c, q, b.w, n, L)]
    BY <1>2 DEF Seed
  <2>2. Seed(c, q, L, b, n) \in BeamStates(c, q, L, f) BY <1>2, <2>1, PushKeeps
  <2> QED BY <2>1, <2>2
<1> QED BY <1>1, <1>2

LEMMA VisitKeeps ==
    ASSUME NEW c, NEW q, Searchable(c, q), NEW L \in Nat \ {0}, NEW f,
           NEW b \in BeamStates(c, q, L, f), NEW n \in Nodes(c)
    PROVE  /\ Visit(c, q, L, 0, f, b, n) \in BeamStates(c, q, L, f)
           /\ Visit(c, q, L, 0, f, b, n).seen = b.seen \cup {n}
<1> DEFINE d == Visit(c, q, L, 0, f, b, n)
           marked == [b EXCEPT !.seen = @ \cup {n}]
           passed == [marked EXCEPT !.io = @ + 1]
<1>1. /\ b \in [seen : SUBSET Nodes(c), io : Nat, frontier : SUBSET Nodes(c), w : SUBSET Nodes(c)]
      /\ b.frontier \subseteq b.seen /\ b.w \subseteq b.seen /\ Cardinality(b.w) <= L
      /\ \A m \in b.seen : \/ Hidden(c, f, m) \/ m \in b.w
                           \/ Cardinality(b.w) = L /\ Closer(c, q, b.w, m)
  BY DEF BeamStates
<1>2. CASE n \in b.seen
  <2>1. d = b BY <1>2 DEF Visit
  <2> QED BY <1>2, <2>1
<1>3. CASE n \notin b.seen /\ Hidden(c, f, n)
  <2>1. d = marked BY <1>3 DEF Visit
  <2>2. d = [seen |-> b.seen \cup {n}, io |-> b.io, frontier |-> b.frontier, w |-> b.w] BY <1>1, <2>1
  <2> HIDE DEF d
  <2>3. d.seen = b.seen \cup {n} /\ d.w = b.w /\ d.frontier = b.frontier BY <2>2
  <2>4. d \in [seen : SUBSET Nodes(c), io : Nat, frontier : SUBSET Nodes(c), w : SUBSET Nodes(c)]
    BY <1>1, <2>2
  <2>5. d \in BeamStates(c, q, L, f) BY <1>1, <1>3, <2>3, <2>4 DEF BeamStates
  <2> QED BY <2>3, <2>5 DEF d
<1>4. CASE /\ n \notin b.seen /\ ~Hidden(c, f, n) /\ Cardinality(b.w) >= L
           /\ DistanceToCode(c, q, n) >= DistanceToCode(c, q, Farthest(c, q, b.w))
  <2>1. d = passed BY <1>4 DEF Visit
  <2>2. d = [seen |-> b.seen \cup {n}, io |-> b.io + 1, frontier |-> b.frontier, w |-> b.w] BY <1>1, <2>1
  <2> HIDE DEF d
  <2>3. d.seen = b.seen \cup {n} /\ d.w = b.w /\ d.frontier = b.frontier BY <2>2
  <2>4. d \in [seen : SUBSET Nodes(c), io : Nat, frontier : SUBSET Nodes(c), w : SUBSET Nodes(c)]
    BY <1>1, <2>2
  <2>5. Cardinality(b.w) = L /\ Closer(c, q, b.w, n)
    <3>1. b.w \in SUBSET Nodes(c) /\ IsFiniteSet(b.w) /\ Cardinality(b.w) \in Nat
      BY <1>1, NodesFinite DEF Searchable
    <3>2. Cardinality(b.w) = L BY <1>1, <1>4, <3>1
    <3>3. b.w # {} BY <3>1, <3>2, FS_EmptySet
    <3>4. /\ Farthest(c, q, b.w) \in b.w
          /\ \A m \in b.w : DistanceToCode(c, q, m) <= DistanceToCode(c, q, Farthest(c, q, b.w))
      BY <3>1, <3>3, Extremes
    <3>5. \A m \in b.w \cup {n} : DistanceToCode(c, q, m) \in Int BY <3>1 DEF Searchable
    <3>6. \A m \in b.w : DistanceToCode(c, q, m) <= DistanceToCode(c, q, n) BY <1>4, <3>4, <3>5
    <3> QED BY <3>2, <3>6 DEF Closer
  <2>6. d \in BeamStates(c, q, L, f) BY <1>1, <2>3, <2>4, <2>5 DEF BeamStates
  <2> QED BY <2>3, <2>6 DEF d
<1>5. CASE /\ n \notin b.seen /\ ~Hidden(c, f, n)
           /\ ~(/\ Cardinality(b.w) >= L
                /\ DistanceToCode(c, q, n) >= DistanceToCode(c, q, Farthest(c, q, b.w)))
  <2>1. d = [marked EXCEPT !.io = @ + 1, !.frontier = @ \cup {n}, !.w = Pushed(c, q, @, n, L)]
    BY <1>5 DEF Visit
  <2>2. d = [seen |-> b.seen \cup {n}, io |-> b.io + 1,
             frontier |-> b.frontier \cup {n}, w |-> Pushed(c, q, b.w, n, L)]
    BY <1>1, <2>1
  <2> HIDE DEF d
  <2>3. d \in BeamStates(c, q, L, f) BY <1>5, <2>2, PushKeeps
  <2> QED BY <2>2, <2>3 DEF d
<1> QED BY <1>2, <1>3, <1>4, <1>5

(* The seeds.                                                              *)
NoSeeds == [seen |-> {}, io |-> 0, frontier |-> {}, w |-> {}]
SeedSteps(c, q, eps, L, after) ==
    after = [i \in 0..Len(eps) |-> IF i = 0 THEN NoSeeds ELSE Seed(c, q, L, after[i - 1], eps[i])]

LEMMA SeededIs ==
    ASSUME NEW c, NEW q, NEW eps, NEW L
    PROVE  Seeded(c, q, eps, L) = (CHOOSE after : SeedSteps(c, q, eps, L, after))[Len(eps)]
BY DEF Seeded, SeedSteps, NoSeeds

LEMMA NoSeedsState ==
    ASSUME NEW c, NEW q, NEW L \in Nat, NEW f
    PROVE  NoSeeds \in BeamStates(c, q, L, f)
BY FS_EmptySet DEF NoSeeds, BeamStates

LEMMA SeedStepsExist ==
    ASSUME NEW c, NEW q, Searchable(c, q), NEW L \in Nat \ {0},
           NEW eps, Len(eps) \in Nat, \A i \in 1..Len(eps) : eps[i] \in Nodes(c)
    PROVE  \E after : SeedSteps(c, q, eps, L, after)
<1> DEFINE X == BeamStates(c, q, L, NoFilter)
           n == Len(eps)
           step == [i \in 1..n |-> [b \in X |-> Seed(c, q, L, b, eps[i])]]
<1>1. PICK g : Steps(step, NoSeeds, n, g) BY StepsExist
<1>2. \A i \in 1..n, b \in X : step[i][b] = Seed(c, q, L, b, eps[i]) /\ step[i][b] \in X
  <2> TAKE i \in 1..n, b \in X
  <2>1. step[i][b] = Seed(c, q, L, b, eps[i]) OBVIOUS
  <2>2. eps[i] \in Nodes(c) OBVIOUS
  <2>3. Seed(c, q, L, b, eps[i]) \in X BY <2>2, SeedKeeps
  <2> QED BY <2>1, <2>3
<1> HIDE DEF step
<1>3. NoSeeds \in X BY NoSeedsState
<1> HIDE DEF X
<1>4. g = [i \in 0..n |-> g[i]] /\ g[0] = NoSeeds /\ \A i \in 1..n : g[i] = step[i][g[i - 1]]
  BY <1>1 DEF Steps
<1>5. \A i \in 1..n : g[i - 1] \in X => g[i] \in X BY <1>2, <1>4
<1>6. \A i \in 0..n : g[i] \in X BY <1>3, <1>4, <1>5, ValuesStay
<1> DEFINE value(i) == IF i = 0 THEN NoSeeds ELSE Seed(c, q, L, g[i - 1], eps[i])
<1>7. \A i \in 0..n : g[i] = value(i)
  <2> TAKE i \in 0..n
  <2>1. CASE i = 0 BY <1>4, <2>1
  <2>2. CASE i # 0
    <3>1. i \in 1..n /\ i - 1 \in 0..n BY <2>2
    <3> QED BY <1>2, <1>4, <1>6, <2>2, <3>1
  <2> QED BY <2>1, <2>2
<1>8. g = [i \in 0..n |-> value(i)] BY <1>4, <1>7
<1> QED BY <1>8 DEF SeedSteps

LEMMA SeededFacts ==
    ASSUME NEW c, NEW q, Searchable(c, q), NEW L \in Nat \ {0}, NEW f,
           NEW eps, Len(eps) \in Nat \ {0}, \A i \in 1..Len(eps) : eps[i] \in Nodes(c)
    PROVE  LET b == Seeded(c, q, eps, L)
           IN  b \in BeamStates(c, q, L, f) /\ b.frontier = b.seen /\ b.seen # {}
<1> DEFINE n == Len(eps)
           g == CHOOSE after : SeedSteps(c, q, eps, L, after)
           X == BeamStates(c, q, L, f)
           G == {i \in 0..n : g[i] \in X /\ g[i].frontier = g[i].seen /\ (i # 0 => g[i].seen # {})}
<1>1. SeedSteps(c, q, eps, L, g) BY SeedStepsExist
<1>2. Seeded(c, q, eps, L) = g[n] BY SeededIs
<1> HIDE DEF g
<1>3. \A i \in 0..n : g[i] = IF i = 0 THEN NoSeeds ELSE Seed(c, q, L, g[i - 1], eps[i])
  BY <1>1 DEF SeedSteps
<1>4. 0 \in G
  <2>1. 0 \in 0..n /\ g[0] = NoSeeds BY <1>3
  <2> QED BY <2>1, NoSeedsState DEF NoSeeds
<1>5. ASSUME NEW i \in 1..n, i - 1 \in G PROVE i \in G
  <2>1. i \in 0..n /\ i # 0 BY <1>5
  <2>2. g[i] = Seed(c, q, L, g[i - 1], eps[i]) /\ eps[i] \in Nodes(c) BY <1>3, <2>1
  <2>3. g[i - 1] \in X /\ g[i - 1].frontier = g[i - 1].seen BY <1>5
  <2> HIDE DEF X
  <2>4. g[i] \in X /\ g[i].seen = g[i - 1].seen \cup {eps[i]} /\ g[i].frontier = g[i].seen
    BY <2>2, <2>3, SeedKeeps DEF X
  <2> QED BY <2>1, <2>4
<1> HIDE DEF G
<1>6. 0..n \subseteq G BY <1>4, <1>5, CountUp
<1>7. n \in G /\ n # 0 BY <1>6
<1> QED BY <1>2, <1>7 DEF G

(* A list of neighbours.                                                   *)
VisitSteps(c, q, L, f, b, list, after) ==
    after = [i \in 0..Len(list) |->
                IF i = 0 THEN b ELSE Visit(c, q, L, 0, f, after[i - 1], list[i])]

LEMMA VisitAllIs ==
    ASSUME NEW c, NEW q, NEW L, NEW f, NEW b, NEW list
    PROVE  VisitAll(c, q, L, 0, f, b, list)
             = (CHOOSE after : VisitSteps(c, q, L, f, b, list, after))[Len(list)]
BY DEF VisitAll, VisitSteps

LEMMA VisitStepsExist ==
    ASSUME NEW c, NEW q, Searchable(c, q), NEW L \in Nat \ {0}, NEW f,
           NEW b \in BeamStates(c, q, L, f),
           NEW list, Len(list) \in Nat, \A i \in 1..Len(list) : list[i] \in Nodes(c)
    PROVE  \E after : VisitSteps(c, q, L, f, b, list, after)
<1> DEFINE X == BeamStates(c, q, L, f)
           n == Len(list)
           step == [i \in 1..n |-> [a \in X |-> Visit(c, q, L, 0, f, a, list[i])]]
<1>1. PICK g : Steps(step, b, n, g) BY StepsExist
<1>2. \A i \in 1..n, a \in X : step[i][a] = Visit(c, q, L, 0, f, a, list[i]) /\ step[i][a] \in X
  <2> TAKE i \in 1..n, a \in X
  <2>1. step[i][a] = Visit(c, q, L, 0, f, a, list[i]) OBVIOUS
  <2>2. list[i] \in Nodes(c) OBVIOUS
  <2>3. Visit(c, q, L, 0, f, a, list[i]) \in X BY <2>2, VisitKeeps
  <2> QED BY <2>1, <2>3
<1> HIDE DEF step
<1>3. b \in X OBVIOUS
<1> HIDE DEF X
<1>4. g = [i \in 0..n |-> g[i]] /\ g[0] = b /\ \A i \in 1..n : g[i] = step[i][g[i - 1]]
  BY <1>1 DEF Steps
<1>5. \A i \in 1..n : g[i - 1] \in X => g[i] \in X BY <1>2, <1>4
<1>6. \A i \in 0..n : g[i] \in X BY <1>3, <1>4, <1>5, ValuesStay
<1> DEFINE value(i) == IF i = 0 THEN b ELSE Visit(c, q, L, 0, f, g[i - 1], list[i])
<1>7. \A i \in 0..n : g[i] = value(i)
  <2> TAKE i \in 0..n
  <2>1. CASE i = 0 BY <1>4, <2>1
  <2>2. CASE i # 0
    <3>1. i \in 1..n /\ i - 1 \in 0..n BY <2>2
    <3> QED BY <1>2, <1>4, <1>6, <2>2, <3>1
  <2> QED BY <2>1, <2>2
<1>8. g = [i \in 0..n |-> value(i)] BY <1>4, <1>7
<1> QED BY <1>8 DEF VisitSteps

LEMMA VisitAllFacts ==
    ASSUME NEW c, NEW q, Searchable(c, q), NEW L \in Nat \ {0}, NEW f,
           NEW b \in BeamStates(c, q, L, f),
           NEW list, Len(list) \in Nat, \A i \in 1..Len(list) : list[i] \in Nodes(c)
    PROVE  LET d == VisitAll(c, q, L, 0, f, b, list)
           IN  /\ d \in BeamStates(c, q, L, f) /\ b.seen \subseteq d.seen
               /\ \A i \in 1..Len(list) : list[i] \in d.seen
<1> DEFINE n == Len(list)
           g == CHOOSE after : VisitSteps(c, q, L, f, b, list, after)
           X == BeamStates(c, q, L, f)
           G == {i \in 0..n : g[i] \in X /\ b.seen \subseteq g[i].seen
                              /\ \A j \in 1..i : list[j] \in g[i].seen}
<1>1. VisitSteps(c, q, L, f, b, list, g) BY VisitStepsExist
<1>2. VisitAll(c, q, L, 0, f, b, list) = g[n] BY VisitAllIs
<1> HIDE DEF g
<1>3. \A i \in 0..n : g[i] = IF i = 0 THEN b ELSE Visit(c, q, L, 0, f, g[i - 1], list[i])
  BY <1>1 DEF VisitSteps
<1>4. 0 \in G
  <2>1. 0 \in 0..n /\ g[0] = b BY <1>3
  <2> QED BY <2>1
<1>5. ASSUME NEW i \in 1..n, i - 1 \in G PROVE i \in G
  <2>1. i \in 0..n /\ i # 0 BY <1>5
  <2>2. g[i] = Visit(c, q, L, 0, f, g[i - 1], list[i]) /\ list[i] \in Nodes(c) BY <1>3, <2>1
  <2>3. /\ g[i - 1] \in X /\ b.seen \subseteq g[i - 1].seen
        /\ \A j \in 1..(i - 1) : list[j] \in g[i - 1].seen
    BY <1>5
  <2> HIDE DEF X
  <2>4. g[i] \in X /\ g[i].seen = g[i - 1].seen \cup {list[i]} BY <2>2, <2>3, VisitKeeps DEF X
  <2>5. \A j \in 1..i : j = i \/ j \in 1..(i - 1) OBVIOUS
  <2> QED BY <2>1, <2>3, <2>4, <2>5
<1> HIDE DEF G
<1>6. 0..n \subseteq G BY <1>4, <1>5, CountUp
<1>7. n \in G BY <1>6
<1> QED BY <1>2, <1>7 DEF G

(* One round of the loop: nothing seen is forgotten, and from the seeds    *)
(* the nearest is expanded, whose neighbours are all other nodes.          *)
LEMMA ExpandKeeps ==
    ASSUME NEW c, NEW q, Searchable(c, q), NEW L \in Nat \ {0}, NEW f,
           NEW b \in BeamStates(c, q, L, f)
    PROVE  LET d == Expand(c, q, L, 0, f, b)
           IN  /\ d \in BeamStates(c, q, L, f) /\ b.seen \subseteq d.seen
               /\ b.frontier = b.seen /\ b.seen # {} => d.seen = Nodes(c)
<1> DEFINE d == Expand(c, q, L, 0, f, b)
           best == Nearest(c, q, b.frontier)
           done == \/ b.frontier = {}
                   \/ /\ Cardinality(b.w) >= L
                      /\ DistanceToCode(c, q, best) > DistanceToCode(c, q, Farthest(c, q, b.w))
           less == [b EXCEPT !.frontier = @ \ {best}]
           list == c.nbrs[best + 1]
           rest == VisitAll(c, q, L, 0, f, less, list)
<1>1. /\ b \in [seen : SUBSET Nodes(c), io : Nat, frontier : SUBSET Nodes(c), w : SUBSET Nodes(c)]
      /\ b.frontier \subseteq b.seen /\ b.w \subseteq b.seen /\ Cardinality(b.w) <= L
      /\ \A m \in b.seen : \/ Hidden(c, f, m) \/ m \in b.w
                           \/ Cardinality(b.w) = L /\ Closer(c, q, b.w, m)
  BY DEF BeamStates
<1>2. d = IF done THEN b ELSE rest BY DEF Expand
<1>3. /\ less = [seen |-> b.seen, io |-> b.io, frontier |-> b.frontier \ {best}, w |-> b.w]
      /\ less \in BeamStates(c, q, L, f)
  <2>1. less = [seen |-> b.seen, io |-> b.io, frontier |-> b.frontier \ {best}, w |-> b.w] BY <1>1
  <2> HIDE DEF less, best
  <2>2. less.seen = b.seen /\ less.w = b.w /\ less.frontier \subseteq b.frontier BY <2>1
  <2>3. less \in [seen : SUBSET Nodes(c), io : Nat, frontier : SUBSET Nodes(c), w : SUBSET Nodes(c)]
    BY <1>1, <2>1
  <2> QED BY <1>1, <2>1, <2>2, <2>3 DEF BeamStates
<1> HIDE DEF d, rest
<1>4. CASE b.frontier # {}
  <2>1. /\ best \in b.frontier /\ best \in Nodes(c)
        /\ \A m \in b.frontier : DistanceToCode(c, q, best) <= DistanceToCode(c, q, m)
    BY <1>1, <1>4, Extremes
  <2>2. /\ Len(list) \in Nat /\ \A i \in 1..Len(list) : list[i] \in Nodes(c)
        /\ \A m \in Nodes(c) \ {best} : \E i \in 1..Len(list) : list[i] = m
    BY <2>1 DEF Searchable
  <2> HIDE DEF list, less, best
  <2>3. /\ rest \in BeamStates(c, q, L, f) /\ less.seen \subseteq rest.seen
        /\ \A i \in 1..Len(list) : list[i] \in rest.seen
    BY <1>3, <2>2, VisitAllFacts DEF rest
  <2>4. less.seen = b.seen BY <1>3
  <2>5. d \in BeamStates(c, q, L, f) /\ b.seen \subseteq d.seen BY <1>2, <2>3, <2>4
  <2>6. ASSUME b.frontier = b.seen PROVE d.seen = Nodes(c)
    <3>1. ~done
      <4>1. SUFFICES ASSUME /\ Cardinality(b.w) >= L
                            /\ DistanceToCode(c, q, best) > DistanceToCode(c, q, Farthest(c, q, b.w))
                     PROVE  FALSE
        BY <1>4
      <4>2. b.w \in SUBSET Nodes(c) /\ IsFiniteSet(b.w) /\ Cardinality(b.w) \in Nat
        BY <1>1, NodesFinite DEF Searchable
      <4>3. b.w # {} BY <4>1, <4>2, FS_EmptySet
      <4>4. Farthest(c, q, b.w) \in b.w BY <4>2, <4>3, Extremes
      <4>5. DistanceToCode(c, q, best) <= DistanceToCode(c, q, Farthest(c, q, b.w))
        BY <1>1, <2>1, <2>6, <4>4
      <4>6. /\ DistanceToCode(c, q, best) \in Int
            /\ DistanceToCode(c, q, Farthest(c, q, b.w)) \in Int
        BY <2>1, <4>2, <4>4 DEF Searchable
      <4> QED BY <4>1, <4>5, <4>6
    <3>2. d = rest BY <1>2, <3>1
    <3>3. \A m \in Nodes(c) : m \in rest.seen
      <4> TAKE m \in Nodes(c)
      <4>1. CASE m = best BY <1>1, <2>1, <2>3, <2>4, <4>1
      <4>2. CASE m # best BY <2>2, <2>3, <4>2
      <4> QED BY <4>1, <4>2
    <3>4. rest.seen \subseteq Nodes(c) BY <2>3 DEF BeamStates
    <3> QED BY <3>2, <3>3, <3>4
  <2> QED BY <2>5, <2>6 DEF d
<1>5. CASE b.frontier = {}
  <2>1. d = b BY <1>2, <1>5
  <2> QED BY <1>5, <2>1 DEF d
<1> QED BY <1>4, <1>5

BeamSteps(c, q, L, f, b, after) ==
    after = [round \in 0..Len(c.rows) |->
                IF round = 0 THEN b ELSE Expand(c, q, L, 0, f, after[round - 1])]

LEMMA BeamIs ==
    ASSUME NEW c, NEW q, NEW L, NEW f, NEW b
    PROVE  Beam(c, q, L, 0, f, b) = (CHOOSE after : BeamSteps(c, q, L, f, b, after))[Len(c.rows)].w
BY DEF Beam, BeamSteps

LEMMA BeamStepsExist ==
    ASSUME NEW c, NEW q, Searchable(c, q), NEW L \in Nat \ {0}, NEW f,
           NEW b \in BeamStates(c, q, L, f)
    PROVE  \E after : BeamSteps(c, q, L, f, b, after)
<1> DEFINE X == BeamStates(c, q, L, f)
           n == Len(c.rows)
           step == [i \in 1..n |-> [a \in X |-> Expand(c, q, L, 0, f, a)]]
<1>0. n \in Nat BY DEF Searchable
<1>1. PICK g : Steps(step, b, n, g) BY <1>0, StepsExist
<1>2. \A i \in 1..n, a \in X : step[i][a] = Expand(c, q, L, 0, f, a) /\ step[i][a] \in X
  <2> TAKE i \in 1..n, a \in X
  <2>1. step[i][a] = Expand(c, q, L, 0, f, a) OBVIOUS
  <2>2. Expand(c, q, L, 0, f, a) \in X BY ExpandKeeps
  <2> QED BY <2>1, <2>2
<1> HIDE DEF step
<1>3. b \in X OBVIOUS
<1> HIDE DEF X
<1>4. g = [i \in 0..n |-> g[i]] /\ g[0] = b /\ \A i \in 1..n : g[i] = step[i][g[i - 1]]
  BY <1>1 DEF Steps
<1>5. \A i \in 1..n : g[i - 1] \in X => g[i] \in X BY <1>2, <1>4
<1> HIDE DEF n
<1>6. \A i \in 0..n : g[i] \in X BY <1>0, <1>3, <1>4, <1>5, ValuesStay
<1> DEFINE value(i) == IF i = 0 THEN b ELSE Expand(c, q, L, 0, f, g[i - 1])
<1>7. \A i \in 0..n : g[i] = value(i)
  <2> TAKE i \in 0..n
  <2>1. CASE i = 0 BY <1>4, <2>1
  <2>2. CASE i # 0
    <3>1. i \in 1..n /\ i - 1 \in 0..n BY <1>0, <2>2
    <3> QED BY <1>2, <1>4, <1>6, <2>2, <3>1
  <2> QED BY <2>1, <2>2
<1>8. g = [i \in 0..n |-> value(i)] BY <1>4, <1>7
<1> QED BY <1>8 DEF BeamSteps, n

(* The L nearest, but for those the filter hides.                          *)
NearestFound(c, q, L, f, w) ==
    /\ w \subseteq Nodes(c) /\ Cardinality(w) <= L
    /\ \A n \in Nodes(c) : \/ Hidden(c, f, n) \/ n \in w
                           \/ Cardinality(w) = L /\ Closer(c, q, w, n)

LEMMA BeamFacts ==
    ASSUME NEW c, NEW q, Searchable(c, q), Nodes(c) # {}, NEW L \in Nat \ {0}, NEW f,
           NEW eps, Len(eps) \in Nat \ {0}, \A i \in 1..Len(eps) : eps[i] \in Nodes(c)
    PROVE  NearestFound(c, q, L, f, Beam(c, q, L, 0, f, Seeded(c, q, eps, L)))
<1> DEFINE n == Len(c.rows)
           b == Seeded(c, q, eps, L)
           g == CHOOSE after : BeamSteps(c, q, L, f, b, after)
           X == BeamStates(c, q, L, f)
           G == {i \in 0..n : g[i] \in X /\ (i # 0 => g[i].seen = Nodes(c))}
<1>0. n \in Nat /\ n # 0 BY DEF Searchable, Nodes
<1>1. b \in X /\ b.frontier = b.seen /\ b.seen # {} BY SeededFacts
<1> HIDE DEF b
<1>2. BeamSteps(c, q, L, f, b, g) BY <1>1, BeamStepsExist
<1>3. Beam(c, q, L, 0, f, b) = g[n].w BY BeamIs
<1> HIDE DEF g, n
<1>4. \A i \in 0..n : g[i] = IF i = 0 THEN b ELSE Expand(c, q, L, 0, f, g[i - 1])
  BY <1>2 DEF BeamSteps, n
<1>5. 0 \in G
  <2>1. 0 \in 0..n /\ g[0] = b BY <1>0, <1>4
  <2> QED BY <1>1, <2>1
<1>6. ASSUME NEW i \in 1..n, i - 1 \in G PROVE i \in G
  <2>1. i \in 0..n /\ i # 0 /\ g[i] = Expand(c, q, L, 0, f, g[i - 1]) BY <1>0, <1>4, <1>6
  <2>2. g[i - 1] \in X /\ (i - 1 # 0 => g[i - 1].seen = Nodes(c)) BY <1>6
  <2>3. /\ g[i] \in X /\ g[i - 1].seen \subseteq g[i].seen
        /\ g[i - 1].frontier = g[i - 1].seen /\ g[i - 1].seen # {} => g[i].seen = Nodes(c)
    BY <2>1, <2>2, ExpandKeeps
  <2>4. g[i].seen \subseteq Nodes(c) BY <2>3 DEF BeamStates
  <2>5. CASE i = 1
    <3>1. i - 1 = 0 /\ 0 \in 0..n BY <1>0, <2>5
    <3>2. g[i - 1] = b BY <1>4, <3>1
    <3> QED BY <1>1, <2>1, <2>3, <3>2
  <2>6. CASE i # 1
    <3>1. i - 1 # 0 BY <2>6
    <3> QED BY <2>1, <2>2, <2>3, <2>4, <3>1
  <2> QED BY <2>5, <2>6
<1> HIDE DEF G
<1>7. 0..n \subseteq G BY <1>0, <1>5, <1>6, CountUp
<1>8. n \in G BY <1>0, <1>7
<1>9. g[n] \in X /\ g[n].seen = Nodes(c) BY <1>0, <1>8 DEF G
<1>10. NearestFound(c, q, L, f, g[n].w) BY <1>9 DEF BeamStates, NearestFound
<1> QED BY <1>3, <1>10 DEF b

-----------------------------------------------------------------------------
(* The search of an index.                                                 *)

(* What a build and the inserts after it make: each row once, with its     *)
(* code; labels, entry points and medoids of nodes.                        *)
CoreShape(c) ==
    c = [rows |-> c.rows, codes |-> c.codes, nbrs |-> c.nbrs, label |-> c.label,
         entries |-> c.entries, medoids |-> c.medoids]
WellBuilt(c, codes) ==
    /\ CoreShape(c)
    /\ c.rows \in Seq(RowIds) /\ OnceEach(c.rows, Len(c.rows))
    /\ c.codes \in Seq(Nat) /\ Len(c.codes) = Len(c.rows)
    /\ \A i \in 1..Len(c.rows) : c.codes[i] = codes[c.rows[i]]
    /\ c.nbrs = Linked(Len(c.rows))
    /\ DOMAIN c.label \subseteq Nodes(c)
    /\ \A n \in DOMAIN c.label : c.label[n] \in MinLabel..MaxLabel
    /\ c.entries \in Seq(Nodes(c))
    /\ DOMAIN c.medoids = Labels(c) /\ \A l \in Labels(c) : c.medoids[l] \in Nodes(c)

LEMMA NodeRows ==
    ASSUME NEW c, NEW codes, WellBuilt(c, codes), NEW n \in Nodes(c)
    PROVE  /\ n + 1 \in 1..Len(c.rows) /\ RowOf(c, n) \in RowIds /\ CodeOf(c, n) = codes[RowOf(c, n)]
           /\ \A m \in Nodes(c) : RowOf(c, m) = RowOf(c, n) => m = n
<1>1. Len(c.rows) \in Nat /\ n \in 0 .. Len(c.rows) - 1 BY DEF WellBuilt, Nodes
<1>2. n + 1 \in 1..Len(c.rows) BY <1>1
<1>3. c.rows[n + 1] \in RowIds
  <2> HIDE DEF RowIds
  <2> QED BY <1>2 DEF WellBuilt
<1>4. ASSUME NEW m \in Nodes(c), m # n PROVE RowOf(c, m) # RowOf(c, n)
  <2>1. m + 1 \in 1..Len(c.rows) /\ m + 1 # n + 1 BY <1>1, <1>4 DEF Nodes
  <2> QED BY <1>2, <2>1 DEF WellBuilt, OnceEach, RowOf
<1> QED BY <1>2, <1>3, <1>4 DEF WellBuilt, RowOf, CodeOf

LEMMA LinkedFacts ==
    ASSUME NEW n \in Nat, NEW k \in 0 .. n - 1
    PROVE  /\ Len(Linked(n)[k + 1]) \in Nat
           /\ \A i \in 1..Len(Linked(n)[k + 1]) : Linked(n)[k + 1][i] \in 0 .. n - 1
           /\ \A m \in (0 .. n - 1) \ {k} : \E i \in 1..Len(Linked(n)[k + 1]) : Linked(n)[k + 1][i] = m
<1> DEFINE S == (0 .. n - 1) \ {k}
           s == InOrder(S)
<1>1. Linked(n)[k + 1] = s
  <2>1. k + 1 \in 1..n /\ k + 1 - 1 = k OBVIOUS
  <2>2. Linked(n)[k + 1] = InOrder((0 .. n - 1) \ {k + 1 - 1}) BY <2>1 DEF Linked
  <2> QED BY <2>1, <2>2
<1>2. IsFiniteSet(S) /\ S \subseteq Int
  <2>1. IsFiniteSet(0 .. n - 1) BY FS_Interval
  <2>2. S \in SUBSET (0 .. n - 1) /\ 0 .. n - 1 \subseteq Int OBVIOUS
  <2> HIDE DEF S
  <2> QED BY <2>1, <2>2, FS_Subset
<1>3. \A x \in S : x \in 0 .. n - 1 OBVIOUS
<1>4. \A m \in (0 .. n - 1) \ {k} : m \in S OBVIOUS
<1> HIDE DEF S
<1>5. Ascends(S, s, Cardinality(S)) BY <1>2, InOrderFacts
<1> HIDE DEF s
<1>6. /\ Len(s) \in Nat /\ \A i \in 1..Len(s) : s[i] \in S
      /\ \A x \in S : \E i \in 1..Len(s) : s[i] = x
  BY <1>5 DEF Ascends
<1> QED BY <1>1, <1>3, <1>4, <1>6

LEMMA BuiltSearchable ==
    ASSUME NEW c, NEW codes, WellBuilt(c, codes), NEW q, \A r \in RowIds : Lut(q, codes[r]) \in Int
    PROVE  Searchable(c, q)
<1>1. Len(c.rows) \in Nat BY DEF WellBuilt
<1>2. \A n \in Nodes(c) : DistanceToCode(c, q, n) \in Int
  <2> TAKE n \in Nodes(c)
  <2>1. RowOf(c, n) \in RowIds /\ CodeOf(c, n) = codes[RowOf(c, n)] BY NodeRows
  <2> QED BY <2>1 DEF DistanceToCode
<1>3. ASSUME NEW n \in Nodes(c)
      PROVE  /\ Len(c.nbrs[n + 1]) \in Nat
             /\ \A i \in 1..Len(c.nbrs[n + 1]) : c.nbrs[n + 1][i] \in Nodes(c)
             /\ \A m \in Nodes(c) \ {n} : \E i \in 1..Len(c.nbrs[n + 1]) : c.nbrs[n + 1][i] = m
  <2> DEFINE N == Len(c.rows)
  <2>1. c.nbrs = Linked(N) BY DEF WellBuilt
  <2>2. Nodes(c) = 0 .. N - 1 BY DEF Nodes
  <2>3. N \in Nat /\ n \in 0 .. N - 1 BY <1>1, <2>2
  <2> HIDE DEF Nodes, N
  <2>4. /\ Len(Linked(N)[n + 1]) \in Nat
        /\ \A i \in 1..Len(Linked(N)[n + 1]) : Linked(N)[n + 1][i] \in 0 .. N - 1
        /\ \A m \in (0 .. N - 1) \ {n} : \E i \in 1..Len(Linked(N)[n + 1]) : Linked(N)[n + 1][i] = m
    BY <2>3, LinkedFacts
  <2> QED BY <2>1, <2>2, <2>4
<1> QED BY <1>1, <1>2, <1>3 DEF Searchable

(* Where a search may start.                                               *)
LEMMA LabelsFinite ==
    ASSUME NEW c, NEW codes, WellBuilt(c, codes)
    PROVE  IsFiniteSet(Labels(c)) /\ Labels(c) \subseteq Int
<1>1. Len(c.rows) \in Nat /\ DOMAIN c.label \in SUBSET Nodes(c) BY DEF WellBuilt
<1>2. IsFiniteSet(DOMAIN c.label) BY <1>1, NodesFinite
<1>3. IsFiniteSet({c.label[n] : n \in DOMAIN c.label}) BY <1>2, ImageFinite
<1>4. \A n \in DOMAIN c.label : c.label[n] \in Int BY LabelAssumption DEF WellBuilt
<1> QED BY <1>3, <1>4 DEF Labels

StartList(c, q, f) == IF StartsAt(c, f) # <<>> THEN StartsAt(c, f) ELSE <<PickEntryPoint(c, q)>>

LEMMA StartFacts ==
    ASSUME NEW c, NEW codes, WellBuilt(c, codes), NEW q, Searchable(c, q), Nodes(c) # {},
           NEW f, IsFilter(f), f.kind = "equals" => f.value \in DOMAIN c.medoids
    PROVE  /\ Len(StartList(c, q, f)) \in Nat \ {0}
           /\ \A i \in 1..Len(StartList(c, q, f)) : StartList(c, q, f)[i] \in Nodes(c)
<1>1. PickEntryPoint(c, q) \in Nodes(c)
  <2>1. CASE c.entries = <<>>
    <3>1. 0 \in Nodes(c) BY DEF Nodes, Searchable
    <3> QED BY <2>1, <3>1 DEF PickEntryPoint
  <2>2. CASE c.entries # <<>>
    <3> DEFINE S == {c.entries[i] : i \in DOMAIN c.entries}
    <3>0. c.entries \in Seq(Nodes(c)) BY DEF WellBuilt
    <3>1. S \in SUBSET Nodes(c)
      <4> HIDE DEF Nodes
      <4> QED BY <3>0
    <3>2. S # {}
      <4>1. Len(c.entries) \in Nat /\ Len(c.entries) # 0 /\ DOMAIN c.entries = 1..Len(c.entries)
        BY <2>2, <3>0
      <4>2. 1 \in DOMAIN c.entries BY <4>1
      <4> QED BY <4>2
    <3>3. PickEntryPoint(c, q) = Nearest(c, q, S) BY <2>2 DEF PickEntryPoint
    <3> HIDE DEF S
    <3> QED BY <3>1, <3>2, <3>3, Extremes
  <2> QED BY <2>1, <2>2
<1>2. DOMAIN c.medoids = Labels(c) /\ \A l \in Labels(c) : c.medoids[l] \in Nodes(c) BY DEF WellBuilt
<1>3. CASE f.kind = "equals"
  <2>1. StartsAt(c, f) = <<c.medoids[f.value]>> BY <1>3 DEF StartsAt
  <2>2. StartList(c, q, f) = <<c.medoids[f.value]>> BY <2>1 DEF StartList
  <2> QED BY <1>2, <1>3, <2>2
<1>4. CASE f.kind = "range" /\ StartsAt(c, f) = GetMedoidsInRange(c, f.lo, f.hi, EntryPoints)
  <2> DEFINE found == {l \in Labels(c) \cap (f.lo..f.hi) : l \in DOMAIN c.medoids}
             sorted == InOrder(found)
             m == Lesser(EntryPoints, Len(sorted))
             list == [i \in 1..m |-> c.medoids[sorted[i]]]
  <2>1. StartsAt(c, f) = list BY <1>4 DEF GetMedoidsInRange
  <2>2. found \in SUBSET Labels(c) OBVIOUS
  <2> HIDE DEF found
  <2>3. IsFiniteSet(found) /\ found \subseteq Int BY <2>2, LabelsFinite, FS_Subset
  <2>4. Ascends(found, sorted, Cardinality(found)) BY <2>3, InOrderFacts
  <2> HIDE DEF sorted
  <2>5. Len(sorted) \in Nat /\ \A i \in 1..Len(sorted) : sorted[i] \in found BY <2>4 DEF Ascends
  <2>6. m \in Nat /\ m <= Len(sorted) BY <2>5, LabelAssumption DEF Lesser
  <2> HIDE DEF m
  <2>7. /\ Len(list) = m /\ \A i \in 1..m : list[i] \in Nodes(c)
        /\ m = 0 => list = <<>>
    <3>1. \A i \in 1..m : c.medoids[sorted[i]] \in Nodes(c) BY <1>2, <2>2, <2>5, <2>6
    <3> QED BY <2>6, <3>1
  <2> HIDE DEF list
  <2>8. CASE list = <<>>
    <3>1. StartList(c, q, f) = <<PickEntryPoint(c, q)>> BY <2>1, <2>8 DEF StartList
    <3> QED BY <1>1, <3>1
  <2>9. CASE list # <<>>
    <3>1. StartList(c, q, f) = list BY <2>1, <2>9 DEF StartList
    <3> QED BY <2>6, <2>7, <2>9, <3>1
  <2> QED BY <2>8, <2>9
<1>5. CASE f.kind # "equals" /\ StartsAt(c, f) = <<>>
  <2>1. StartList(c, q, f) = <<PickEntryPoint(c, q)>> BY <1>5 DEF StartList
  <2> QED BY <1>1, <2>1
<1> QED BY <1>3, <1>4, <1>5 DEF StartsAt

(* The k nearest the filter lets through, nearest first.                   *)
Eligible(c, f, n) == ~Active(f) \/ (n \in DOMAIN c.label /\ Matches(f, c.label[n]))
Answers(c, q, k, f, res, ns) ==
    /\ Len(res) \in Nat /\ Len(res) <= k /\ res \in Seq(RowIds)
    /\ \A i \in 1..Len(res) : ns[i] \in Nodes(c) /\ res[i] = RowOf(c, ns[i])
    /\ OnceEach(ns, Len(res))
    /\ \A i, j \in 1..Len(res) : i < j => DistanceToCode(c, q, ns[i]) <= DistanceToCode(c, q, ns[j])
    /\ \A n \in Nodes(c) : Eligible(c, f, n) =>
          \/ \E i \in 1..Len(res) : ns[i] = n
          \/ Len(res) = k /\ \A i \in 1..k : DistanceToCode(c, q, ns[i]) <= DistanceToCode(c, q, n)

LEMMA EligibleShown ==
    ASSUME NEW c, NEW f, IsFilter(f), NEW n, Eligible(c, f, n)
    PROVE  ~Hidden(c, f, n)
<1>1. CASE Active(f) BY <1>1 DEF Eligible, Hidden
<1>2. CASE ~Active(f)
  <2>1. f.kind = "none" BY <1>2 DEF Active
  <2> QED BY <2>1 DEF Hidden, Matches
<1> QED BY <1>1, <1>2

LEMMA SearchAnswersQuery ==
    ASSUME NEW c, NEW codes, WellBuilt(c, codes), NEW q,
           \A r \in RowIds : Lut(q, codes[r]) \in Int, NEW k \in Nat, NEW f, IsFilter(f)
    PROVE  \E ns : Answers(c, q, k, f, Search(c, q, k, LSearch, 0, f), ns)
<1> DEFINE res == Search(c, q, k, LSearch, 0, f)
           L == Greater(LSearch, k)
           eps == StartList(c, q, f)
           found == Beam(c, q, L, 0, f, Seeded(c, q, eps, L))
           key == [n \in found |-> DistanceToCode(c, q, n)]
           ns == Sorted(found, key)
           m == Lesser(k, Len(ns))
           empty == Nodes(c) = {} \/ k = 0 \/ (f.kind = "equals" /\ f.value \notin DOMAIN c.medoids)
<1>1. Searchable(c, q) BY BuiltSearchable
<1>2. res = IF empty THEN <<>> ELSE [i \in 1..m |-> RowOf(c, ns[i])]
  BY DEF Search, ByDistance, TopRows, BeamSearch, StartList
<1> HIDE DEF res
<1>3. CASE empty
  <2>1. res = <<>> BY <1>2, <1>3
  <2>2. Len(res) = 0 /\ res \in Seq(RowIds) BY <2>1
  <2>3. ASSUME NEW n \in Nodes(c), k # 0, Eligible(c, f, n) PROVE FALSE
    <3>1. f.kind = "equals" /\ f.value \notin Labels(c) BY <1>3, <2>3 DEF WellBuilt
    <3>2. n \in DOMAIN c.label /\ c.label[n] = f.value BY <2>3, <3>1 DEF Eligible, Active, Matches
    <3> QED BY <3>1, <3>2 DEF Labels
  <2>4. Answers(c, q, k, f, res, <<>>) BY <2>2, <2>3 DEF Answers, OnceEach
  <2> QED BY <2>4 DEF res
<1>4. CASE ~empty
  <2>1. Nodes(c) # {} /\ k # 0 /\ (f.kind = "equals" => f.value \in DOMAIN c.medoids) BY <1>4
  <2>2. L \in Nat \ {0} /\ k <= L BY <2>1, PlanAssumption DEF Greater
  <2>3. Len(eps) \in Nat \ {0} /\ \A i \in 1..Len(eps) : eps[i] \in Nodes(c) BY <1>1, <2>1, StartFacts
  <2> HIDE DEF eps, L
  <2>4. NearestFound(c, q, L, f, found) BY <1>1, <2>1, <2>2, <2>3, BeamFacts
  <2> HIDE DEF found
  <2>5. /\ found \in SUBSET Nodes(c) /\ IsFiniteSet(found)
        /\ \A n \in found : key[n] = DistanceToCode(c, q, n) /\ key[n] \in Int
    <3>1. found \in SUBSET Nodes(c) BY <2>4 DEF NearestFound
    <3>2. \A n \in found : DistanceToCode(c, q, n) \in Int BY <1>1, <3>1 DEF Searchable
    <3> QED BY <1>1, <3>1, <3>2, NodesFinite DEF Searchable
  <2> HIDE DEF key
  <2>6. IsSorting(found, key, ns, Cardinality(found)) BY <2>5, SortedFacts
  <2> DEFINE N == Cardinality(found)
  <2> HIDE DEF ns
  <2>7. /\ N \in Nat /\ Len(ns) = N /\ \A i \in 1..N : ns[i] \in found
        /\ OnceEach(ns, N) /\ \A i, j \in 1..N : i < j => key[ns[i]] <= key[ns[j]]
        /\ \A x \in found : \E i \in 1..N : ns[i] = x
    BY <2>6 DEF IsSorting, InKeyOrder
  <2> HIDE DEF N
  <2>8. m \in Nat /\ m <= N /\ m <= k /\ (m < N => m = k) /\ (k <= N => m = k) BY <2>7 DEF Lesser
  <2>9. res = [i \in 1..m |-> RowOf(c, ns[i])] BY <1>2, <1>4
  <2> HIDE DEF m
  <2>10. \A i \in 1..m : i \in 1..N BY <2>7, <2>8
  <2>11. \A i \in 1..m : ns[i] \in Nodes(c) /\ RowOf(c, ns[i]) \in RowIds
    <3> TAKE i \in 1..m
    <3>1. ns[i] \in Nodes(c) BY <2>5, <2>7, <2>10
    <3> QED BY <3>1, NodeRows
  <2>12. /\ Len(res) = m /\ res \in Seq(RowIds) /\ \A i \in 1..m : res[i] = RowOf(c, ns[i])
    <3> HIDE DEF RowIds
    <3> QED BY <2>8, <2>9, <2>11
  <2>13. OnceEach(ns, m) BY <2>7, <2>10 DEF OnceEach
  <2>14. \A i, j \in 1..m : i < j => DistanceToCode(c, q, ns[i]) <= DistanceToCode(c, q, ns[j])
    BY <2>5, <2>7, <2>10
  <2>15. ASSUME NEW n \in Nodes(c), Eligible(c, f, n), \A i \in 1..m : ns[i] # n
         PROVE  m = k /\ \A i \in 1..k : DistanceToCode(c, q, ns[i]) <= DistanceToCode(c, q, n)
    <3>1. ~Hidden(c, f, n) BY <2>15, EligibleShown
    <3>2. CASE n \in found
      <4>1. PICK j \in 1..N : ns[j] = n BY <2>7, <3>2
      <4>2. j \notin 1..m BY <2>15, <4>1
      <4>3. m < j /\ m = k BY <2>7, <2>8, <4>2
      <4>4. \A i \in 1..m : i < j BY <2>7, <2>8, <4>3
      <4> QED BY <2>5, <2>7, <2>10, <4>1, <4>3, <4>4
    <3>3. CASE n \notin found
      <4>1. N = L /\ Closer(c, q, found, n) BY <2>4, <3>1, <3>3 DEF NearestFound, N
      <4>2. m = k BY <2>2, <2>8, <4>1
      <4> QED BY <2>7, <2>10, <4>1, <4>2 DEF Closer
    <3> QED BY <3>2, <3>3
  <2>16. Answers(c, q, k, f, res, ns) BY <2>8, <2>11, <2>12, <2>13, <2>14, <2>15 DEF Answers
  <2> QED BY <2>16 DEF res
<1> QED BY <1>3, <1>4

-----------------------------------------------------------------------------
(* The hits: the candidates without the tombstones, as many as the limit.  *)

EligibleRow(f, r) == \E n \in Nodes(core) : RowOf(core, n) = r /\ Eligible(core, f, n)
HitsOf(lut, limit, f, hits) ==
    /\ hits \in Seq(RowIds) /\ Len(hits) <= limit /\ OnceEach(hits, Len(hits))
    /\ \A i \in 1..Len(hits) : InIndex(hits[i])
    /\ \A i, j \in 1..Len(hits) : i < j => Lut(lut, code[hits[i]]) <= Lut(lut, code[hits[j]])
    /\ \A r \in RowIds : InIndex(r) /\ EligibleRow(f, r) =>
          \/ \E i \in 1..Len(hits) : hits[i] = r
          \/ /\ Len(hits) = limit
             /\ \A i \in 1..Len(hits) : Lut(lut, code[hits[i]]) <= Lut(lut, code[r])

(* However many tombstones a full list of candidates holds, those that     *)
(* are left fill the limit.                                                *)
LEMMA TombstonesLeaveRoom ==
    ASSUME NEW T, IsFiniteSet(T), NEW W, NEW limit \in Nat,
           NEW res, Len(res) = limit + Cardinality(T), OnceEach(res, Len(res)),
           \A i \in 1..Len(res) : res[i] \in W \/ res[i] \in T
    PROVE  Cardinality({i \in 1..Len(res) : res[i] \in W}) >= limit
<1> DEFINE k == Len(res)
           P == {i \in 1..k : res[i] \in W}
           R == {i \in 1..k : res[i] \notin W}
           g == [i \in R |-> res[i]]
<1>1. Cardinality(T) \in Nat /\ k \in Nat BY FS_CardinalityType
<1>2. \A i \in R : i \in 1..k /\ res[i] \in T OBVIOUS
<1>3. P = (1..k) \ R /\ (1..k) \cap R = R OBVIOUS
<1>4. IsFiniteSet(1..k) /\ Cardinality(1..k) = k
  <2> HIDE DEF k
  <2>1. Cardinality(1..k) = IF 1 > k THEN 0 ELSE k - 1 + 1 BY <1>1, FS_Interval
  <2> QED BY <1>1, <2>1, FS_Interval
<1> HIDE DEF R, P
<1>5. g \in Injection(R, T)
  <2>1. g \in [R -> T] BY <1>2
  <2>2. \A i, j \in R : g[i] = g[j] => i = j BY <1>2 DEF OnceEach
  <2> HIDE DEF g
  <2> QED BY <2>1, <2>2 DEF Injection, IsInjective
<1> HIDE DEF g, k
<1>6. IsFiniteSet(R) /\ Cardinality(R) <= Cardinality(T) BY <1>5, FS_Injection
<1>7. Cardinality(R) \in Nat BY <1>6, FS_CardinalityType
<1>8. Cardinality((1..k) \ R) = Cardinality(1..k) - Cardinality((1..k) \cap R) BY <1>4, FS_Difference
<1>9. Cardinality(P) = k - Cardinality(R) BY <1>3, <1>4, <1>8
<1>10. k = limit + Cardinality(T) BY DEF k
<1> QED BY <1>1, <1>6, <1>7, <1>9, <1>10 DEF k, P

LEMMA IndexHitsFacts ==
    ASSUME WellBuilt(core, code), tombstones \subseteq RowIds, IsFiniteSet(tombstones),
           NEW lut, \A r \in RowIds : Lut(lut, code[r]) \in Int, NEW limit \in Nat,
           NEW f, IsFilter(f)
    PROVE  HitsOf(lut, limit, f, IndexHits(lut, limit, f))
<1> DEFINE k == limit + Cardinality(tombstones)
           res == Search(core, lut, k, LSearch, 0, f)
           W == RowIds \ tombstones
           live == Filtered(res, W)
           at == Places(res, W)
           N == Cardinality({i \in 1..Len(res) : res[i] \in W})
           m == Lesser(limit, Len(live))
           hits == SubSeq(live, 1, m)
           d(r) == Lut(lut, code[r])
<1>1. Cardinality(tombstones) \in Nat /\ k \in Nat BY FS_CardinalityType
<1>2. IndexHits(lut, limit, f) = hits BY DEF IndexHits, FirstOf
<1>3. PICK ns : Answers(core, lut, k, f, res, ns)
  <2> HIDE DEF k
  <2> QED BY <1>1, SearchAnswersQuery
<1> HIDE DEF res
<1>4. /\ Len(res) \in Nat /\ Len(res) <= k /\ res \in Seq(RowIds)
      /\ \A i \in 1..Len(res) : ns[i] \in Nodes(core) /\ res[i] = RowOf(core, ns[i])
      /\ OnceEach(ns, Len(res))
      /\ \A i, j \in 1..Len(res) : i < j =>
            DistanceToCode(core, lut, ns[i]) <= DistanceToCode(core, lut, ns[j])
      /\ \A n \in Nodes(core) : Eligible(core, f, n) =>
            \/ \E i \in 1..Len(res) : ns[i] = n
            \/ /\ Len(res) = k
               /\ \A i \in 1..k : DistanceToCode(core, lut, ns[i]) <= DistanceToCode(core, lut, n)
  BY <1>3 DEF Answers
<1>5. \A n \in Nodes(core) : /\ RowOf(core, n) \in RowIds
                             /\ DistanceToCode(core, lut, n) = d(RowOf(core, n))
                             /\ RowOf(core, n) \in ToSet(core.rows)
  <2> TAKE n \in Nodes(core)
  <2>1. n + 1 \in 1..Len(core.rows) /\ RowOf(core, n) \in RowIds /\ CodeOf(core, n) = code[RowOf(core, n)]
    BY NodeRows
  <2>2. DOMAIN core.rows = 1..Len(core.rows)
    <3> HIDE DEF RowIds
    <3> QED BY DEF WellBuilt
  <2>3. RowOf(core, n) \in ToSet(core.rows) BY <2>1, <2>2 DEF RowOf, ToSet
  <2> QED BY <2>1, <2>3 DEF DistanceToCode
<1>6. OnceEach(res, Len(res))
  <2> SUFFICES ASSUME NEW i \in 1..Len(res), NEW j \in 1..Len(res), i # j PROVE res[i] # res[j]
    BY DEF OnceEach
  <2>1. ns[i] # ns[j] /\ ns[i] \in Nodes(core) /\ ns[j] \in Nodes(core) BY <1>4 DEF OnceEach
  <2>2. RowOf(core, ns[i]) # RowOf(core, ns[j]) BY <2>1, NodeRows
  <2> QED BY <1>4, <2>2
<1>7. Filters(res, W, live, at, N)
  <2> HIDE DEF W
  <2> QED BY <1>4, FilteredFacts
<1> HIDE DEF live, at, N
<1>8. /\ N \in Nat /\ Len(live) = N /\ live \in Seq(W)
      /\ \A j \in 1..N : at[j] \in 1..Len(res) /\ res[at[j]] \in W /\ live[j] = res[at[j]]
      /\ \A i, j \in 1..N : i < j => at[i] < at[j]
      /\ \A i \in 1..Len(res) : res[i] \in W => \E j \in 1..N : at[j] = i
  <2> HIDE DEF W
  <2> QED BY <1>7 DEF Filters
<1>9. m \in Nat /\ m <= limit /\ m <= N /\ (limit <= N => m = limit) /\ (m < N => m = limit)
  BY <1>8 DEF Lesser
<1> HIDE DEF m
<1>10. \A i \in 1..m : i \in 1..N BY <1>8, <1>9
<1>11. /\ hits \in Seq(W) /\ Len(hits) = m /\ \A i \in 1..m : hits[i] = live[i]
  <2> HIDE DEF W
  <2>1. \A i \in 1..m : live[i] \in W BY <1>8, <1>10
  <2>2. /\ hits \in Seq(W) /\ Len(hits) = IF 1 <= m THEN m - 1 + 1 ELSE 0
        /\ \A i \in 1..(m - 1 + 1) : hits[i] = live[1 + i - 1]
    BY <1>9, <2>1, SubSeqProperties
  <2>3. \A i \in 1..m : i \in 1..(m - 1 + 1) /\ 1 + i - 1 = i BY <1>9
  <2>4. Len(hits) = m BY <1>9, <2>2
  <2> HIDE DEF hits
  <2> QED BY <2>2, <2>3, <2>4
<1> HIDE DEF hits
<1>12. \A i \in 1..m : /\ at[i] \in 1..Len(res) /\ hits[i] = res[at[i]] /\ hits[i] \in W
                       /\ ns[at[i]] \in Nodes(core) /\ hits[i] = RowOf(core, ns[at[i]])
  BY <1>4, <1>8, <1>10, <1>11
<1>13. hits \in Seq(RowIds)
  <2>1. W \subseteq RowIds OBVIOUS
  <2> HIDE DEF W, RowIds
  <2> QED BY <1>11, <2>1
<1>14. OnceEach(hits, m)
  <2> SUFFICES ASSUME NEW i \in 1..m, NEW j \in 1..m, i # j PROVE hits[i] # hits[j]
    BY DEF OnceEach
  <2>1. i < j \/ j < i BY <1>9
  <2>2. at[i] \in Int /\ at[j] \in Int BY <1>12
  <2>3. at[i] # at[j] BY <1>8, <1>10, <2>1, <2>2
  <2> QED BY <1>6, <1>12, <2>3 DEF OnceEach
<1>15. \A i \in 1..m : InIndex(hits[i]) BY <1>5, <1>12 DEF InIndex
<1>16. \A i \in 1..m : DistanceToCode(core, lut, ns[at[i]]) = d(hits[i]) BY <1>5, <1>12
<1>17. \A i, j \in 1..m : i < j => d(hits[i]) <= d(hits[j])
  <2> TAKE i, j \in 1..m
  <2>1. i < j => at[i] < at[j] BY <1>8, <1>10
  <2>2. at[i] \in 1..Len(res) /\ at[j] \in 1..Len(res) BY <1>12
  <2>3. i < j => DistanceToCode(core, lut, ns[at[i]]) <= DistanceToCode(core, lut, ns[at[j]])
    BY <1>4, <2>1, <2>2
  <2> QED BY <1>16, <2>3
<1>18. ASSUME NEW r \in RowIds, InIndex(r), EligibleRow(f, r), \A i \in 1..m : hits[i] # r
       PROVE  m = limit /\ \A i \in 1..m : d(hits[i]) <= d(r)
  <2>1. PICK n \in Nodes(core) : RowOf(core, n) = r /\ Eligible(core, f, n) BY <1>18 DEF EligibleRow
  <2>2. DistanceToCode(core, lut, n) = d(r) BY <1>5, <2>1
  <2>3. CASE \E i \in 1..Len(res) : ns[i] = n
    <3>1. PICK i \in 1..Len(res) : ns[i] = n BY <2>3
    <3>2. res[i] = r /\ res[i] \in W BY <1>4, <1>18, <2>1, <3>1 DEF InIndex
    <3>3. PICK j \in 1..N : at[j] = i BY <1>8, <3>2
    <3>4. live[j] = r BY <1>8, <3>2, <3>3
    <3>5. j \notin 1..m BY <1>11, <1>18, <3>4
    <3>6. m < j /\ m < N BY <1>8, <1>9, <3>5
    <3>7. ASSUME NEW l \in 1..m PROVE d(hits[l]) <= d(r)
      <4>1. l < j /\ l \in 1..N BY <1>9, <1>10, <3>6
      <4>2. at[l] < i BY <1>8, <3>3, <4>1
      <4> QED BY <1>4, <1>12, <1>16, <2>2, <3>1, <4>2
    <3> QED BY <1>9, <3>6, <3>7
  <2>4. CASE ~ \E i \in 1..Len(res) : ns[i] = n
    <3>1. /\ Len(res) = k
          /\ \A i \in 1..k : DistanceToCode(core, lut, ns[i]) <= DistanceToCode(core, lut, n)
      BY <1>4, <2>1, <2>4
    <3>2. \A i \in 1..Len(res) : res[i] \in W \/ res[i] \in tombstones BY <1>4, <1>5
    <3>3. N >= limit
      <4> HIDE DEF W
      <4> QED BY <1>6, <3>1, <3>2, TombstonesLeaveRoom DEF N
    <3>4. m = limit BY <1>8, <1>9, <3>3
    <3>5. \A i \in 1..m : at[i] \in 1..k BY <1>12, <3>1
    <3> QED BY <1>16, <2>2, <3>1, <3>4, <3>5
  <2> QED BY <2>3, <2>4
<1>19. HitsOf(lut, limit, f, hits) BY <1>9, <1>11, <1>13, <1>14, <1>15, <1>17, <1>18 DEF HitsOf
<1> QED BY <1>2, <1>19

-----------------------------------------------------------------------------
(* What CREATE INDEX builds.                                               *)

TotalSteps(list, upTo) ==
    upTo = [i \in 0..Len(list) |-> IF i = 0 THEN 0 ELSE upTo[i - 1] + list[i]]

LEMMA TotalInt ==
    ASSUME NEW list, Len(list) \in Nat, \A i \in 1..Len(list) : list[i] \in Int
    PROVE  Total(list) \in Int
<1> DEFINE n == Len(list)
           step == [i \in 1..n |-> [b \in Int |-> b + list[i]]]
           upTo == CHOOSE f : TotalSteps(list, f)
<1>1. PICK g : Steps(step, 0, n, g) BY StepsExist
<1>2. \A i \in 1..n, b \in Int : step[i][b] = b + list[i] /\ step[i][b] \in Int OBVIOUS
<1> HIDE DEF step
<1>3. g = [i \in 0..n |-> g[i]] /\ g[0] = 0 /\ \A i \in 1..n : g[i] = step[i][g[i - 1]]
  BY <1>1 DEF Steps
<1>4. \A i \in 1..n : g[i - 1] \in Int => g[i] \in Int BY <1>2, <1>3
<1>a. g[0] \in Int BY <1>3
<1>5. \A i \in 0..n : g[i] \in Int BY <1>a, <1>4, ValuesStay
<1> DEFINE value(i) == IF i = 0 THEN 0 ELSE g[i - 1] + list[i]
<1>6. \A i \in 0..n : g[i] = value(i)
  <2> TAKE i \in 0..n
  <2>1. CASE i = 0 BY <1>3, <2>1
  <2>2. CASE i # 0
    <3>1. i \in 1..n /\ i - 1 \in 0..n BY <2>2
    <3> QED BY <1>2, <1>3, <1>5, <2>2, <3>1
  <2> QED BY <2>1, <2>2
<1>7. g = [i \in 0..n |-> value(i)] BY <1>3, <1>6
<1>8. TotalSteps(list, g) BY <1>7 DEF TotalSteps
<1>9. TotalSteps(list, upTo) BY <1>8
<1>10. Total(list) = upTo[n] BY DEF Total, TotalSteps
<1> HIDE DEF upTo
<1>11. \A i \in 0..n : upTo[i] = IF i = 0 THEN 0 ELSE upTo[i - 1] + list[i] BY <1>9 DEF TotalSteps
<1>12. upTo[0] \in Int BY <1>11
<1>13. ASSUME NEW i \in 1..n, upTo[i - 1] \in Int PROVE upTo[i] \in Int
  <2>1. i \in 0..n /\ i # 0 OBVIOUS
  <2>2. upTo[i] = upTo[i - 1] + list[i] BY <1>11, <2>1
  <2> QED BY <1>13, <2>2
<1>14. \A i \in 0..n : upTo[i] \in Int BY <1>12, <1>13, ValuesStay
<1> QED BY <1>10, <1>14

LEMMA EntriesFit ==
    ASSUME NEW size \in Nat
    PROVE  ComputeEntryPoints(size) \in Seq(0 .. size - 1)
<1> DEFINE want == Lesser(EntryPoints, size)
<1>1. want \in Nat /\ want <= size /\ ComputeEntryPoints(size) = [i \in 1..want |-> ((i - 1) * size) \div want]
  BY LabelAssumption DEF ComputeEntryPoints, Lesser
<1> HIDE DEF want
<1>2. ASSUME NEW i \in 1..want PROVE ((i - 1) * size) \div want \in 0 .. size - 1
  <2>1. want \in Nat \ {0} /\ i - 1 \in Nat /\ i - 1 <= want - 1 BY <1>1
  <2> DEFINE x == (i - 1) * size
  <2>2. x \in Nat
    BY <2>1
  <2>3. x <= (want - 1) * size BY <2>1
  <2>4. (want - 1) * size = want * size - size /\ size > 0 BY <1>1, <2>1
  <2>5. x < want * size
    <3>1. (want - 1) * size \in Int /\ want * size \in Int BY <2>1
    <3> HIDE DEF x
    <3> QED BY <2>2, <2>3, <2>4, <3>1
  <2> HIDE DEF x
  <2> DEFINE y == x \div want
  <2>6. y \in Nat /\ want * y <= x BY <2>1, <2>2
  <2> HIDE DEF y
  <2>7. ~(y >= size)
    <3> SUFFICES ASSUME y >= size PROVE FALSE OBVIOUS
    <3>1. want * y >= want * size BY <2>1, <2>6
    <3>2. want * y \in Int /\ want * size \in Int BY <2>1, <2>6
    <3> QED BY <2>2, <2>5, <2>6, <3>1, <3>2
  <2>8. y \in 0 .. size - 1 BY <2>6, <2>7
  <2> QED BY <2>8 DEF x, y
<1> QED BY <1>1, <1>2

LEMMA MedoidsFit ==
    ASSUME NEW c, Len(c.rows) \in Nat, DOMAIN c.label \subseteq Nodes(c),
           \A n \in Nodes(c) : CodeOf(c, n) \in Int, NEW l \in Labels(c)
    PROVE  ComputeLabelMedoids(c)[l] \in Nodes(c)
<1> DEFINE mine == Members(c, l)
           nodes == InOrder(mine)
           sum == Total([i \in 1..Len(nodes) |-> CodeOf(c, nodes[i])])
           Off(n) == Cardinality(mine) * CodeOf(c, n) - sum
           med == CHOOSE n \in mine : \A other \in mine : Off(n) * Off(n) <= Off(other) * Off(other)
           key == [n \in mine |-> Off(n) * Off(n)]
<1>1. ComputeLabelMedoids(c)[l] = med BY DEF ComputeLabelMedoids
<1>2. mine \in SUBSET Nodes(c) /\ mine # {} BY DEF Members, Labels
<1> HIDE DEF mine
<1>3. IsFiniteSet(mine) /\ Cardinality(mine) \in Nat BY <1>2, NodesFinite
<1>4. mine \subseteq Int BY <1>2 DEF Nodes
<1>5. Ascends(mine, nodes, Cardinality(mine)) BY <1>3, <1>4, InOrderFacts
<1> HIDE DEF nodes
<1>6. Len(nodes) \in Nat /\ \A i \in 1..Len(nodes) : CodeOf(c, nodes[i]) \in Int
  BY <1>2, <1>5 DEF Ascends
<1> DEFINE list == [i \in 1..Len(nodes) |-> CodeOf(c, nodes[i])]
<1>7. Len(list) \in Nat /\ \A i \in 1..Len(list) : list[i] \in Int BY <1>6
<1>8. sum \in Int
  <2> HIDE DEF list
  <2>1. Total(list) \in Int BY <1>7, TotalInt
  <2> QED BY <2>1 DEF list
<1> HIDE DEF sum
<1>9. \A n \in mine : Off(n) \in Int BY <1>2, <1>3, <1>8
<1> HIDE DEF Off
<1>10. \A n \in mine : key[n] = Off(n) * Off(n) /\ key[n] \in Int BY <1>9
<1> HIDE DEF key
<1>11. PICK x \in mine : \A y \in mine : key[x] <= key[y] BY <1>2, <1>3, <1>10, SmallestKey
<1>12. \A y \in mine : Off(x) * Off(x) <= Off(y) * Off(y) BY <1>10, <1>11
<1>13. med \in mine BY <1>12
<1> QED BY <1>1, <1>2, <1>13

LEMMA BuiltWell ==
    ASSUME NEW withLabels \in BOOLEAN, NEW lab \in [RowIds -> SomeLabels \cup {Null}],
           NEW codes \in [RowIds -> Nat]
    PROVE  WellBuilt(BuiltCore(withLabels, lab, codes), codes)
<1> DEFINE S == {r \in Built : withLabels => lab[r] # Null}
           rows == InOrder(S)
           n == Len(rows)
           known == {i \in 0 .. n - 1 : withLabels /\ lab[rows[i + 1]] # MinLabel}
           core0 == [rows |-> rows, codes |-> [i \in 1..n |-> codes[rows[i]]], nbrs |-> Linked(n),
                     label |-> [i \in known |-> lab[rows[i + 1]]], entries |-> ComputeEntryPoints(n)]
           c == BuiltCore(withLabels, lab, codes)
<1>1. /\ c.rows = core0.rows /\ c.codes = core0.codes /\ c.nbrs = core0.nbrs /\ c.label = core0.label
      /\ c.entries = core0.entries /\ c.medoids = ComputeLabelMedoids(core0)
      /\ CoreShape(c)
  BY Zenon DEF BuiltCore, CoreShape
<1>2. /\ core0.rows = rows /\ core0.codes = [i \in 1..n |-> codes[rows[i]]] /\ core0.nbrs = Linked(n)
      /\ core0.label = [i \in known |-> lab[rows[i + 1]]] /\ core0.entries = ComputeEntryPoints(n)
  OBVIOUS
<1> HIDE DEF c, core0
<1>3. IsFiniteSet(S) /\ S \subseteq Int /\ S \subseteq RowIds /\ \A r \in S : withLabels => lab[r] # Null
  <2>1. S \in SUBSET Built /\ Built \subseteq Nat /\ IsFiniteSet(Built) BY PlanAssumption
  <2>2. IsFiniteSet(S)
    <3> HIDE DEF S
    <3> QED BY <2>1, FS_Subset
  <2>3. S \subseteq Int /\ S \subseteq RowIds
    <3>1. Built \subseteq RowIds BY DEF RowIds
    <3> HIDE DEF S, RowIds
    <3> QED BY <2>1, <3>1
  <2>4. \A r \in S : withLabels => lab[r] # Null OBVIOUS
  <2> QED BY <2>2, <2>3, <2>4
<1> HIDE DEF S
<1>4. Ascends(S, rows, Cardinality(S)) BY <1>3, InOrderFacts
<1> HIDE DEF rows
<1>5. /\ n \in Nat /\ rows \in [1..n -> S] /\ \A i, j \in 1..n : i < j => rows[i] < rows[j]
  BY <1>4 DEF Ascends
<1>6. rows \in Seq(RowIds) /\ OnceEach(rows, n)
  <2>1. rows \in [1..n -> RowIds] BY <1>3, <1>5
  <2>2. OnceEach(rows, n)
    <3> SUFFICES ASSUME NEW i \in 1..n, NEW j \in 1..n, i # j PROVE rows[i] # rows[j] BY DEF OnceEach
    <3>1. i < j \/ j < i BY <1>5
    <3>2. rows[i] \in Int /\ rows[j] \in Int BY <1>3, <1>5
    <3> QED BY <1>5, <3>1, <3>2
  <2> HIDE DEF RowIds
  <2> QED BY <1>5, <2>1, <2>2
<1> HIDE DEF n
<1>7. Nodes(c) = 0 .. n - 1 /\ Nodes(core0) = 0 .. n - 1 BY <1>1, <1>2 DEF Nodes, n
<1>8. \A i \in 0 .. n - 1 : i + 1 \in 1..n /\ rows[i + 1] \in S /\ rows[i + 1] \in RowIds
  <2> TAKE i \in 0 .. n - 1
  <2>1. i + 1 \in 1..n BY <1>5
  <2>2. rows[i + 1] \in S BY <1>5, <2>1
  <2> HIDE DEF RowIds
  <2> QED BY <1>3, <2>1, <2>2
<1>9. DOMAIN c.label = known /\ known \subseteq 0 .. n - 1 BY <1>1, <1>2
<1>10. \A i \in known : c.label[i] \in MinLabel..MaxLabel
  <2> TAKE i \in known
  <2>1. c.label[i] = lab[rows[i + 1]] BY <1>1, <1>2
  <2>2. rows[i + 1] \in S /\ withLabels /\ rows[i + 1] \in RowIds BY <1>8
  <2>3. lab[rows[i + 1]] \in SomeLabels BY <1>3, <2>2
  <2> QED BY <2>1, <2>3, PlanAssumption
<1> HIDE DEF known
<1>11. c.entries \in Seq(Nodes(c)) BY <1>1, <1>2, <1>5, <1>7, EntriesFit DEF n
<1>12. Labels(c) = Labels(core0) BY <1>1 DEF Labels
<1>13. DOMAIN c.medoids = Labels(c) BY <1>1, <1>12 DEF ComputeLabelMedoids
<1>14. \A i \in Nodes(core0) : CodeOf(core0, i) \in Int
  <2> TAKE i \in Nodes(core0)
  <2>1. CodeOf(core0, i) = codes[rows[i + 1]] BY <1>2, <1>7, <1>8 DEF CodeOf
  <2>2. rows[i + 1] \in RowIds BY <1>7, <1>8
  <2> QED BY <2>1, <2>2
<1>15. \A l \in Labels(c) : c.medoids[l] \in Nodes(c)
  <2> TAKE l \in Labels(c)
  <2>1. Len(core0.rows) \in Nat /\ DOMAIN core0.label \subseteq Nodes(core0) /\ l \in Labels(core0)
    BY <1>1, <1>2, <1>5, <1>7, <1>9, <1>12 DEF n
  <2>2. ComputeLabelMedoids(core0)[l] \in Nodes(core0) BY <1>14, <2>1, MedoidsFit
  <2> QED BY <1>1, <1>7, <2>2
<1>16. Len(c.rows) = n /\ c.rows = rows /\ n \in Nat BY <1>1, <1>2, <1>5 DEF n
<1>17. c.codes \in Seq(Nat) /\ Len(c.codes) = n /\ \A i \in 1..n : c.codes[i] = codes[c.rows[i]]
  <2>1. c.codes = [i \in 1..n |-> codes[rows[i]]] BY <1>1, <1>2
  <2>2. \A i \in 1..n : codes[rows[i]] \in Nat
    <3> TAKE i \in 1..n
    <3>1. rows[i] \in RowIds BY <1>3, <1>5
    <3> QED BY <3>1
  <2> QED BY <1>16, <2>1, <2>2
<1>18. c.nbrs = Linked(n) BY <1>1, <1>2
<1> HIDE DEF Nodes, RowIds
<1>19. WellBuilt(c, codes)
  <2>1. c.rows \in Seq(RowIds) /\ OnceEach(c.rows, n) BY <1>6, <1>16 DEF n
  <2>2. DOMAIN c.label \subseteq Nodes(c) /\ \A i \in DOMAIN c.label : c.label[i] \in MinLabel..MaxLabel
    BY <1>7, <1>9, <1>10
  <2> QED BY <1>1, <1>11, <1>13, <1>15, <1>16, <1>17, <1>18, <2>1, <2>2 DEF WellBuilt
<1> QED BY <1>19 DEF c

(* A row that is appended.                                                 *)
LEMMA AppendedWell ==
    ASSUME NEW c, NEW codes, WellBuilt(c, codes), NEW r \in RowIds, r \notin ToSet(c.rows),
           NEW d, d.rows = Append(c.rows, r), d.codes = Append(c.codes, codes[r]),
           codes[r] \in Nat,
           d.nbrs = Linked(Len(c.rows) + 1), d.label = c.label, d.entries = c.entries,
           d.medoids = c.medoids, CoreShape(d)
    PROVE  WellBuilt(d, codes)
<1> DEFINE n == Len(c.rows)
<1>1. /\ c.rows \in Seq(RowIds) /\ OnceEach(c.rows, n) /\ n \in Nat
      /\ c.codes \in Seq(Nat) /\ Len(c.codes) = n
      /\ \A i \in 1..n : c.codes[i] = codes[c.rows[i]] /\ c.rows[i] # r
  <2> HIDE DEF RowIds
  <2>1. c.rows \in Seq(RowIds) BY DEF WellBuilt
  <2>2. \A i \in 1..n : c.rows[i] # r BY <2>1 DEF ToSet
  <2> QED BY <2>1, <2>2 DEF WellBuilt
<1>2. d.rows \in Seq(RowIds) /\ Len(d.rows) = n + 1
      /\ \A i \in 1..(n + 1) : d.rows[i] = IF i = n + 1 THEN r ELSE c.rows[i]
  <2> HIDE DEF RowIds
  <2> QED BY <1>1
<1>3. d.codes \in Seq(Nat) /\ Len(d.codes) = n + 1
      /\ \A i \in 1..(n + 1) : d.codes[i] = IF i = n + 1 THEN codes[r] ELSE c.codes[i]
  BY <1>1
<1> HIDE DEF n
<1>4. \A i \in 1..(n + 1) : i # n + 1 => i \in 1..n BY <1>1
<1>5. OnceEach(d.rows, n + 1) BY <1>1, <1>2, <1>4 DEF OnceEach
<1>6. \A i \in 1..(n + 1) : d.codes[i] = codes[d.rows[i]] BY <1>1, <1>2, <1>3, <1>4
<1>7. Nodes(c) \subseteq Nodes(d) /\ Labels(d) = Labels(c) BY <1>1, <1>2 DEF Nodes, Labels, n
<1>8. d.entries \in Seq(Nodes(d))
  <2>1. c.entries \in Seq(Nodes(c)) BY DEF WellBuilt
  <2> HIDE DEF Nodes
  <2> QED BY <1>7, <2>1
<1>9. /\ DOMAIN d.label \subseteq Nodes(d) /\ \A i \in DOMAIN d.label : d.label[i] \in MinLabel..MaxLabel
      /\ DOMAIN d.medoids = Labels(d) /\ \A l \in Labels(d) : d.medoids[l] \in Nodes(d)
  BY <1>7 DEF WellBuilt
<1> HIDE DEF Nodes, RowIds
<1>10. d.nbrs = Linked(n + 1) BY DEF n
<1>11. WellBuilt(d, codes) BY <1>2, <1>3, <1>5, <1>6, <1>8, <1>9, <1>10 DEF WellBuilt
<1> QED BY <1>11

-----------------------------------------------------------------------------
(* The invariant of a query that is answered by a scan.                    *)

TableInv ==
    /\ label \in [RowIds -> SomeLabels \cup {Null}] /\ code \in [RowIds -> Nat]
    /\ \A o \in 0..Outers, r \in RowIds : Lut(o, code[r]) \in Int
    /\ labelled \in BOOLEAN /\ view \subseteq RowIds
    /\ tombstones \subseteq RowIds /\ IsFiniteSet(tombstones) /\ WellBuilt(core, code)
    /\ events \in Nat
    /\ events = 0 => view = Built /\ ToSet(core.rows) \subseteq Built /\ tombstones = {}

(* What the rewrite fixes.                                                 *)
Rewritten(x) ==
    /\ x.q \in Queries /\ x.limit \in Nat /\ x.q.k <= x.limit /\ x.q.ascending
    /\ x.filter = NoFilter \/ x.filter = TryExtractLabelFilter(labelled, x.q.where)

(* What the scan has of the index, and has given of it.                    *)
HitByScan(x, r) == \E i \in 1..Len(x.hits) : x.hits[i] = r
CrowdedOut(x, r) ==
    /\ Len(x.hits) = x.limit
    /\ \A i \in 1..Len(x.hits) : Lut(0, code[x.hits[i]]) <= Lut(0, code[r])
Covered(x) ==
    \A r \in view : /\ InIndex(r) /\ PulledUp(x.q, r)
                    /\ Active(x.filter) => IndexLabel(r) = {label[r]}
                    => HitByScan(x, r) \/ CrowdedOut(x, r)
ScanShape(x) ==
    x = [at |-> x.at, plan |-> "index", q |-> x.q, limit |-> x.limit, filter |-> x.filter,
         hits |-> x.hits, pos |-> x.pos, found |-> x.found, cut |-> x.cut]
ScanOf(x) ==
    /\ ScanShape(x) /\ Rewritten(x)
    /\ x.hits \in Seq(RowIds) /\ Len(x.hits) <= x.limit /\ OnceEach(x.hits, Len(x.hits))
    /\ \A i \in 1..Len(x.hits) : x.hits[i] \in ToSet(core.rows)
    /\ x.pos \in 0..Len(x.hits)
    /\ x.found = {x.hits[i] : i \in 1..x.pos} \cap view
    /\ Covered(x)
ScanEnd(x) ==
    /\ x.cut => \E i \in 1..Len(x.hits) : x.hits[i] \notin view
    /\ ~x.cut => \A i \in 1..Len(x.hits) : x.hits[i] \in view => x.hits[i] \in x.found

(* A join's matches of the row o, one after the other and numbered.        *)
Matched(o, k, out, base, n) ==
    /\ base + n <= Len(out) /\ n <= k
    /\ \A p \in 1..Len(out) : out[p][2] = o <=> p \in (base + 1)..(base + n)
    /\ \A i \in 1..n : out[base + i][3] = i
    /\ n = k \/ \A r \in view : InIndex(r) => \E i \in 1..n : out[base + i][1] = r
    /\ \A r \in view, i \in 1..n :
          InIndex(r) /\ (\A j \in 1..i : out[base + j][1] # r) =>
              Lut(o, code[out[base + i][1]]) <= Lut(o, code[r])
MatchRows == RowIds \X Nat \X Nat
MatchedUpTo(m, k, out) ==
    /\ out \in Seq(MatchRows)
    /\ \A p \in 1..Len(out) : out[p][2] \in 1..m
    /\ \A o \in 1..m : \E base, n \in Nat : Matched(o, k, out, base, n)
AllSeen(out) == \A p \in 1..Len(out) : out[p][1] \in view

JoinShape(x) ==
    x = [at |-> x.at, plan |-> "join", q |-> x.q, limit |-> x.limit,
         input |-> x.input, out |-> x.out, dropped |-> x.dropped]
JoinOf(x) ==
    /\ JoinShape(x) /\ x.q \in Queries /\ x.limit = x.q.k /\ x.q.k # 0
    /\ x.dropped \in BOOLEAN
    /\ x.input \in 0..Outers /\ (x.at = "joined" => x.input = Outers)
    /\ ~x.dropped => MatchedUpTo(x.input, x.q.k, x.out) /\ AllSeen(x.out)

StageInv ==
    \/ query.at = "idle"
    \/ /\ query.at = "planned" /\ query.plan = "join"
       /\ query.q \in Queries /\ query.limit = query.q.k /\ query.q.k # 0
    \/ query.at = "planned" /\ query.plan = "index" /\ Rewritten(query)
    \/ query.at = "planned" /\ query.plan = "table" /\ query.q \in Queries
    \/ query.at = "open" /\ query.cut = FALSE /\ ScanOf(query)
    \/ query.at = "done" /\ query.plan = "index" /\ ScanOf(query) /\ ScanEnd(query)
    \/ query.at = "done" /\ query.plan = "table" /\ query.found = view
    \/ query.at \in {"join", "joined"} /\ JoinOf(query)

QueryInv == TableInv /\ StageInv

LEMMA InsertedWell ==
    ASSUME NEW codes \in [RowIds -> Nat], NEW c, WellBuilt(c, codes),
           NEW r \in RowIds, r \notin ToSet(c.rows)
    PROVE  WellBuilt([c EXCEPT !.rows = Append(@, r), !.codes = Append(@, codes[r]),
                               !.nbrs = Linked(Len(c.rows) + 1)], codes)
<1> DEFINE d == [c EXCEPT !.rows = Append(@, r), !.codes = Append(@, codes[r]),
                          !.nbrs = Linked(Len(c.rows) + 1)]
           D == {"rows", "codes", "nbrs", "label", "entries", "medoids"}
           value(x) == IF x = "rows" THEN Append(c.rows, r)
                       ELSE IF x = "codes" THEN Append(c.codes, codes[r])
                       ELSE IF x = "nbrs" THEN Linked(Len(c.rows) + 1) ELSE c[x]
<1>1. CoreShape(c) BY DEF WellBuilt
<1>2. DOMAIN c = D BY <1>1 DEF CoreShape
<1>3. d = [x \in D |-> value(x)] BY <1>2, Zenon
<1> HIDE DEF d
<1>4. /\ d.rows = Append(c.rows, r) /\ d.codes = Append(c.codes, codes[r])
      /\ d.nbrs = Linked(Len(c.rows) + 1) /\ d.label = c.label /\ d.entries = c.entries
      /\ d.medoids = c.medoids
  BY <1>3
<1>5. d = [x \in D |-> d[x]] BY <1>3
<1>6. CoreShape(d) BY <1>5 DEF CoreShape
<1>7. codes[r] \in Nat OBVIOUS
<1>8. WellBuilt(d, codes) BY <1>4, <1>6, <1>7, AppendedWell
<1> QED BY <1>8 DEF d

LEMMA InitQueryInv == QueryInit => QueryInv
<1> SUFFICES ASSUME QueryInit PROVE QueryInv OBVIOUS
<1>1. PICK t \in Tables : label = t.label /\ code = t.code BY DEF QueryInit
<1>2. /\ label \in [RowIds -> SomeLabels \cup {Null}] /\ code \in [RowIds -> Nat]
      /\ \A o \in 0..Outers, r \in RowIds : Lut(o, code[r]) \in Int
  BY <1>1, PlanAssumption DEF RowIds
<1>3. labelled \in BOOLEAN /\ view = Built /\ tombstones = {} /\ events = 0
      /\ core = BuiltCore(labelled, label, code) /\ query = NoQuery
  BY DEF QueryInit
<1>4. WellBuilt(core, code) BY <1>2, <1>3, BuiltWell
<1>5. ToSet(core.rows) \subseteq Built
  <2> DEFINE S == {r \in Built : labelled => label[r] # Null}
  <2>1. core.rows = InOrder(S) BY <1>3 DEF BuiltCore
  <2>2. S \in SUBSET Built /\ Built \subseteq Nat /\ IsFiniteSet(Built) BY PlanAssumption
  <2> HIDE DEF S
  <2>3. IsFiniteSet(S) /\ S \subseteq Int
    <3>1. IsFiniteSet(S) BY <2>2, FS_Subset
    <3>2. S \subseteq Int BY <2>2
    <3> QED BY <3>1, <3>2
  <2>4. Ascends(S, core.rows, Cardinality(S)) BY <2>1, <2>3, InOrderFacts
  <2>5. core.rows \in [1..Cardinality(S) -> S] BY <2>4 DEF Ascends
  <2> QED BY <2>2, <2>5 DEF ToSet
<1>6. IsFiniteSet(tombstones) BY <1>3, FS_EmptySet
<1>7. TableInv
  <2>1. view \subseteq RowIds BY <1>3 DEF RowIds
  <2> QED BY <1>2, <1>3, <1>4, <1>5, <1>6, <2>1 DEF TableInv
<1>8. StageInv BY <1>3 DEF NoQuery, StageInv
<1> QED BY <1>7, <1>8 DEF QueryInv

LEMMA StepTableInv == TableInv /\ [QueryNext]_queryVars => TableInv'
<1> SUFFICES ASSUME TableInv, [QueryNext]_queryVars PROVE TableInv' OBVIOUS
<1> USE DEF TableInv
<1>1. ASSUME NEW r \in RowIds, OwnInsert(r) \/ OwnDelete(r) PROVE TableInv'
  <2>1. /\ UNCHANGED <<label, code, labelled, core, tombstones>> /\ events' = events + 1
        /\ view' \subseteq view \cup {r}
    BY <1>1 DEF OwnInsert, OwnDelete, Change
  <2> QED BY <2>1
<1>2. ASSUME NEW r \in RowIds, NEW l \in SomeLabels, OwnUpdate(r, l) PROVE TableInv'
  <2>1. /\ UNCHANGED <<view, code, labelled, core, tombstones>> /\ events' = events + 1
        /\ label' = [label EXCEPT ![r] = l]
    BY <1>2 DEF OwnUpdate, Change
  <2>2. label' \in [RowIds -> SomeLabels \cup {Null}] BY <2>1
  <2> QED BY <2>1, <2>2
<1>3. ASSUME NEW r \in RowIds, OtherInsert(r) PROVE TableInv'
  <2>1. /\ UNCHANGED <<label, view, code, labelled, tombstones>> /\ events' = events + 1
        /\ r \notin ToSet(core.rows)
        /\ core' = [core EXCEPT !.rows = Append(@, r), !.codes = Append(@, code[r]),
                                !.nbrs = Linked(Len(core.rows) + 1)]
    BY <1>3 DEF OtherInsert, Change
  <2>2. WellBuilt(core', code) BY <1>3, <2>1, InsertedWell
  <2> QED BY <2>1, <2>2
<1>4. ASSUME NEW r \in RowIds, OtherDelete(r) PROVE TableInv'
  <2>1. /\ UNCHANGED <<label, view, code, labelled, core>> /\ events' = events + 1
        /\ tombstones' = tombstones \cup {r}
    BY <1>4 DEF OtherDelete, Change
  <2>2. IsFiniteSet(tombstones') BY <2>1, FS_AddElement
  <2> QED BY <2>1, <2>2
<1>5. ASSUME UNCHANGED <<label, code, view, labelled, core, tombstones, events>> PROVE TableInv'
  BY <1>5
<1>6. ASSUME NEW q \in Queries, NEW s \in Sessions, Plan(q, s) PROVE TableInv' BY <1>5, <1>6 DEF Plan
<1>7. CASE Open BY <1>5, <1>7, Zenon DEF Open
<1>8. CASE Execute BY <1>5, <1>8, Zenon DEF Execute
<1>9. CASE JoinExecute BY <1>5, <1>9, Zenon DEF JoinExecute
<1>10. CASE EndQuery BY <1>5, <1>10, Zenon DEF EndQuery
<1>11. CASE UNCHANGED queryVars BY <1>5, <1>11 DEF queryVars
<1> HIDE DEF TableInv
<1> QED BY <1>1, <1>2, <1>3, <1>4, <1>6, <1>7, <1>8, <1>9, <1>10, <1>11 DEF QueryNext

(* What others commit adds nothing to the index that the view has, and     *)
(* takes no label from it.                                                 *)
IndexKept ==
    /\ ToSet(core.rows) \subseteq ToSet(core.rows)'
    /\ \A r \in view : InIndex(r)' => InIndex(r)
    /\ \A r \in view : IndexLabel(r)' = IndexLabel(r)

LEMMA OtherInsertKept ==
    ASSUME TableInv, NEW r \in RowIds, OtherInsert(r)
    PROVE  IndexKept
<1> DEFINE n == Len(core.rows)
<1>1. /\ r \notin view /\ UNCHANGED <<view, tombstones>>
      /\ core' = [core EXCEPT !.rows = Append(@, r), !.codes = Append(@, code[r]),
                              !.nbrs = Linked(Len(core.rows) + 1)]
  BY DEF OtherInsert, Change
<1>2. /\ core.rows \in Seq(RowIds) /\ DOMAIN core.label \subseteq Nodes(core) /\ CoreShape(core)
  BY DEF TableInv, WellBuilt
<1>3. core'.rows = Append(core.rows, r) /\ core'.label = core.label
  <2>1. DOMAIN core = {"rows", "codes", "nbrs", "label", "entries", "medoids"} BY <1>2 DEF CoreShape
  <2> QED BY <1>1, <2>1
<1>4. /\ Len(core'.rows) = n + 1 /\ DOMAIN core'.rows = 1..(n + 1) /\ DOMAIN core.rows = 1..n
      /\ \A i \in 1..(n + 1) : core'.rows[i] = IF i = n + 1 THEN r ELSE core.rows[i]
      /\ n \in Nat
  <2> HIDE DEF RowIds
  <2> QED BY <1>2, <1>3
<1> HIDE DEF n
<1>5. \A i \in 1..n : i \in 1..(n + 1) /\ i # n + 1 BY <1>4
<1>6. ToSet(core.rows) \subseteq ToSet(core'.rows) BY <1>4, <1>5 DEF ToSet
<1>7. \A s \in ToSet(core'.rows) : s = r \/ s \in ToSet(core.rows)
  <2>1. \A i \in 1..(n + 1) : i = n + 1 \/ i \in 1..n BY <1>4
  <2> QED BY <1>4, <2>1 DEF ToSet
<1>8. \A i \in DOMAIN core.label : core'.rows[i + 1] = core.rows[i + 1]
  <2> TAKE i \in DOMAIN core.label
  <2>1. i \in 0 .. n - 1 BY <1>2 DEF Nodes, n
  <2>2. i + 1 \in 1..n BY <1>4, <2>1
  <2> QED BY <1>4, <1>5, <2>2
<1>9. \A s : IndexLabel(s)' = IndexLabel(s)
  <2> TAKE s
  <2>1. {m \in DOMAIN core.label : core'.rows[m + 1] = s} = {m \in DOMAIN core.label : core.rows[m + 1] = s}
    BY <1>8
  <2>2. IndexLabel(s)' = {core.label[m] : m \in {m \in DOMAIN core.label : core'.rows[m + 1] = s}}
    BY <1>3 DEF IndexLabel, RowOf
  <2>3. IndexLabel(s) = {core.label[m] : m \in {m \in DOMAIN core.label : core.rows[m + 1] = s}}
    BY DEF IndexLabel, RowOf
  <2> QED BY <2>1, <2>2, <2>3
<1>10. \A s \in view : InIndex(s)' => InIndex(s) BY <1>1, <1>7 DEF InIndex
<1> QED BY <1>6, <1>9, <1>10 DEF IndexKept

LEMMA OtherDeleteKept ==
    ASSUME NEW r \in RowIds, OtherDelete(r)
    PROVE  IndexKept
<1>1. tombstones' = tombstones \cup {r} /\ UNCHANGED core BY DEF OtherDelete, Change
<1> QED BY <1>1 DEF IndexKept, InIndex, IndexLabel, RowOf

LEMMA ScanStays ==
    ASSUME IndexKept, UNCHANGED <<label, code, view, labelled, query>>
    PROVE  /\ ScanOf(query) => ScanOf(query)'
           /\ ScanEnd(query) => ScanEnd(query)'
           /\ Rewritten(query) => Rewritten(query)'
<1>1. Rewritten(query)' = Rewritten(query) /\ ScanEnd(query)' = ScanEnd(query) BY DEF Rewritten, ScanEnd
<1>2. ASSUME Covered(query) PROVE Covered(query)'
  <2>1. \A r : PulledUp(query.q, r)' = PulledUp(query.q, r) BY DEF PulledUp, Passes
  <2>2. \A r : HitByScan(query, r)' = HitByScan(query, r) /\ CrowdedOut(query, r)' = CrowdedOut(query, r)
    BY DEF HitByScan, CrowdedOut
  <2> QED BY <1>2, <2>1, <2>2 DEF Covered, IndexKept
<1>3. ASSUME \A i \in 1..Len(query.hits) : query.hits[i] \in ToSet(core.rows)
      PROVE  (\A i \in 1..Len(query.hits) : query.hits[i] \in ToSet(core.rows))'
  BY <1>3 DEF IndexKept
<1>4. ScanShape(query)' = ScanShape(query) BY DEF ScanShape
<1>5. ASSUME ScanOf(query) PROVE ScanOf(query)'
  <2>1. Covered(query)' BY <1>2, <1>5 DEF ScanOf
  <2>2. (\A i \in 1..Len(query.hits) : query.hits[i] \in ToSet(core.rows))' BY <1>3, <1>5 DEF ScanOf
  <2> QED BY <1>1, <1>4, <1>5, <2>1, <2>2 DEF ScanOf
<1> QED BY <1>1, <1>5

LEMMA IndexedNode ==
    ASSUME TableInv, NEW r, InIndex(r)
    PROVE  \E n \in Nodes(core) : RowOf(core, n) = r
<1>1. core.rows \in Seq(RowIds) BY DEF TableInv, WellBuilt
<1>2. PICK i \in 1..Len(core.rows) : core.rows[i] = r
  <2> HIDE DEF RowIds
  <2> QED BY <1>1 DEF InIndex, ToSet
<1>3. i - 1 \in Nodes(core) /\ i - 1 + 1 = i
  <2>1. Len(core.rows) \in Nat
    <3> HIDE DEF RowIds
    <3> QED BY <1>1
  <2> QED BY <2>1 DEF Nodes
<1> QED BY <1>2, <1>3 DEF RowOf

(* The filter lets a wanted row through that the index has under its label.*)
LEMMA WantedEligible ==
    ASSUME TableInv, Rewritten(query), NEW r \in view, InIndex(r), PulledUp(query.q, r),
           Active(query.filter) => IndexLabel(r) = {label[r]}
    PROVE  EligibleRow(query.filter, r)
<1> DEFINE where == query.q.where
<1>1. PICK n \in Nodes(core) : RowOf(core, n) = r BY IndexedNode
<1>2. CASE ~Active(query.filter) BY <1>1, <1>2 DEF EligibleRow, Eligible
<1>3. CASE Active(query.filter)
  <2>1. query.filter = TryExtractLabelFilter(labelled, where)
    BY <1>3 DEF Rewritten, Active, NoFilter
  <2>2. label[r] \in IndexLabel(r) BY <1>3
  <2>3. PICK m \in DOMAIN core.label : RowOf(core, m) = r /\ core.label[m] = label[r]
    BY <2>2 DEF IndexLabel
  <2>4. m \in Nodes(core) /\ label[r] \in MinLabel..MaxLabel BY <2>3 DEF TableInv, WellBuilt
  <2>5. \A i \in 1..Len(where) : where[i].col = "label" => Meets(label[r], where[i])
    BY DEF PulledUp, Passes, Meets
  <2>6. where \in Seq(ToSet(where)) /\ (\A p \in ToSet(where) : IsPredicate(p)) /\ labelled \in BOOLEAN
    BY QueryAssumption DEF Rewritten, TableInv, IsPredicate
  <2>7. Matches(query.filter, label[r])
    <3> HIDE DEF where
    <3> QED BY <2>1, <2>4, <2>5, <2>6, ExtractedFilter
  <2> QED BY <2>3, <2>4, <2>7 DEF EligibleRow, Eligible
<1> QED BY <1>2, <1>3

LEMMA RewrittenFilter ==
    ASSUME TableInv, Rewritten(query)
    PROVE  IsFilter(query.filter)
<1>1. CASE query.filter = NoFilter BY <1>1 DEF IsFilter
<1>2. CASE query.filter = TryExtractLabelFilter(labelled, query.q.where)
  <2> DEFINE where == query.q.where
  <2>1. where \in Seq(ToSet(where)) /\ (\A p \in ToSet(where) : IsPredicate(p)) /\ labelled \in BOOLEAN
    BY QueryAssumption DEF Rewritten, TableInv, IsPredicate
  <2> HIDE DEF where
  <2>2. IsFilter(TryExtractLabelFilter(labelled, where)) BY <2>1, ExtractedFilter
  <2> QED BY <1>2, <2>2 DEF where
<1> QED BY <1>1, <1>2 DEF Rewritten

LEMMA PlanStage ==
    ASSUME TableInv, NEW q \in Queries, NEW s \in Sessions, Plan(q, s)
    PROVE  StageInv'
<1>1. /\ UNCHANGED <<label, code, view, labelled, core, tombstones, events>>
      /\ query' = IF MatchesJoin(q)
                  THEN [at |-> "planned", plan |-> "join", q |-> q, limit |-> q.k, filter |-> NoFilter]
                  ELSE IF MatchesTopN(q) \/ MatchesMinBy(q)
                  THEN [at |-> "planned", plan |-> "index", q |-> q, limit |-> CandLimit(q, s),
                        filter |-> IF q.shape = "topn" THEN TryExtractLabelFilter(labelled, q.where)
                                   ELSE NoFilter]
                  ELSE [at |-> "planned", plan |-> "table", q |-> q]
  BY DEF Plan
<1>2. CASE MatchesJoin(q)
  <2>1. query' = [at |-> "planned", plan |-> "join", q |-> q, limit |-> q.k, filter |-> NoFilter]
    BY <1>1, <1>2
  <2>2. /\ query'.at = "planned" /\ query'.plan = "join" /\ query'.q \in Queries
        /\ query'.limit = query'.q.k /\ query'.q.k # 0
    BY <1>2, <2>1, QueryAssumption DEF MatchesJoin
  <2> QED BY <2>2 DEF StageInv
<1>3. CASE ~MatchesJoin(q) /\ (MatchesTopN(q) \/ MatchesMinBy(q))
  <2> DEFINE f == IF q.shape = "topn" THEN TryExtractLabelFilter(labelled, q.where) ELSE NoFilter
  <2>1. query' = [at |-> "planned", plan |-> "index", q |-> q, limit |-> CandLimit(q, s), filter |-> f]
    BY <1>1, <1>3
  <2>2. f = NoFilter \/ f = TryExtractLabelFilter(labelled', q.where) BY <1>1
  <2>3. q.ascending
    <3>1. MatchesTopN(q) => q.ascending BY DEF MatchesTopN, Ascending
    <3>2. MatchesMinBy(q) => q.ascending BY QueryAssumption DEF MatchesMinBy
    <3> QED BY <1>3, <3>1, <3>2
  <2>4. CandLimit(q, s) \in Nat /\ q.k <= CandLimit(q, s)
    <3> DEFINE m == GetRerankMultiple(s)
    <3>1. m \in Nat /\ m >= 1 BY PlanAssumption DEF GetRerankMultiple
    <3>2. q.k \in Nat BY QueryAssumption
    <3>3. CandLimit(q, s) = q.k * m BY DEF CandLimit
    <3> HIDE DEF m
    <3>4. q.k * m \in Nat /\ q.k * 1 <= q.k * m BY <3>1, <3>2
    <3> QED BY <3>2, <3>3, <3>4
  <2> HIDE DEF f
  <2>5. /\ query'.at = "planned" /\ query'.plan = "index" /\ query'.q = q
        /\ query'.limit = CandLimit(q, s) /\ query'.filter = f
    BY <2>1
  <2>6. Rewritten(query)' BY <2>2, <2>3, <2>4, <2>5 DEF Rewritten
  <2> QED BY <2>5, <2>6 DEF StageInv
<1>4. CASE ~MatchesJoin(q) /\ ~(MatchesTopN(q) \/ MatchesMinBy(q))
  <2>1. query' = [at |-> "planned", plan |-> "table", q |-> q] BY <1>1, <1>4
  <2>2. query'.at = "planned" /\ query'.plan = "table" /\ query'.q \in Queries BY <2>1
  <2> QED BY <2>2 DEF StageInv
<1> QED BY <1>2, <1>3, <1>4

LEMMA OpenStage ==
    ASSUME TableInv, StageInv, Open
    PROVE  StageInv'
<1>1. UNCHANGED <<label, code, view, labelled, core, tombstones, events>> /\ query.at = "planned"
  BY DEF Open
<1>2. CASE query.plan = "index"
  <2> DEFINE hits == IndexHits(0, query.limit, query.filter)
  <2>1. query' = [at |-> "open", plan |-> "index", q |-> query.q, limit |-> query.limit,
                  filter |-> query.filter, hits |-> hits, pos |-> 0, found |-> {}, cut |-> FALSE]
    BY <1>2 DEF Open
  <2>2. Rewritten(query) BY <1>1, <1>2 DEF StageInv
  <2>3. HitsOf(0, query.limit, query.filter, hits)
    <3>1. \A r \in RowIds : Lut(0, code[r]) \in Int BY PlanAssumption DEF TableInv
    <3>2. query.limit \in Nat BY <2>2 DEF Rewritten
    <3>3. IsFilter(query.filter) BY <2>2, RewrittenFilter
    <3>4. WellBuilt(core, code) /\ tombstones \subseteq RowIds /\ IsFiniteSet(tombstones)
      BY DEF TableInv
    <3> QED BY <3>1, <3>2, <3>3, <3>4, IndexHitsFacts
  <2> HIDE DEF hits
  <2>4. /\ query'.at = "open" /\ query'.plan = "index" /\ query'.q = query.q
        /\ query'.limit = query.limit /\ query'.filter = query.filter /\ query'.hits = hits
        /\ query'.pos = 0 /\ query'.found = {} /\ query'.cut = FALSE
    BY <2>1
  <2>5. Rewritten(query)' BY <1>1, <2>2, <2>4 DEF Rewritten
  <2>6. /\ hits \in Seq(RowIds) /\ Len(hits) <= query.limit /\ OnceEach(hits, Len(hits))
        /\ \A i \in 1..Len(hits) : hits[i] \in ToSet(core.rows)
    BY <2>3 DEF HitsOf, InIndex
  <2>7. Covered(query)'
    <3> SUFFICES ASSUME NEW r \in view, InIndex(r), PulledUp(query.q, r),
                        Active(query.filter) => IndexLabel(r) = {label[r]}
                 PROVE  \/ \E i \in 1..Len(hits) : hits[i] = r
                        \/ /\ Len(hits) = query.limit
                           /\ \A i \in 1..Len(hits) : Lut(0, code[hits[i]]) <= Lut(0, code[r])
      <4>1. \A r : /\ InIndex(r)' = InIndex(r) /\ IndexLabel(r)' = IndexLabel(r)
                   /\ PulledUp(query.q, r)' = PulledUp(query.q, r)
        BY <1>1, <2>4 DEF InIndex, IndexLabel, RowOf, PulledUp, Passes
      <4>2. \A r : /\ HitByScan(query, r)' = (\E i \in 1..Len(hits) : hits[i] = r)
                   /\ CrowdedOut(query, r)' =
                        (/\ Len(hits) = query.limit
                         /\ \A i \in 1..Len(hits) : Lut(0, code[hits[i]]) <= Lut(0, code[r]))
        BY <1>1, <2>4 DEF HitByScan, CrowdedOut
      <4> QED BY <1>1, <2>4, <4>1, <4>2 DEF Covered
    <3>1. EligibleRow(query.filter, r) BY <2>2, WantedEligible
    <3>2. r \in RowIds BY DEF TableInv
    <3> QED BY <2>3, <3>1, <3>2 DEF HitsOf
  <2>8. query'.found = {query'.hits[i] : i \in 1..query'.pos} \cap view' BY <2>4
  <2>9. ScanShape(query)' BY <2>1 DEF ScanShape
  <2>10. query'.pos \in 0..Len(query'.hits)
    <3>1. Len(hits) \in Nat
      <4> HIDE DEF RowIds
      <4> QED BY <2>6
    <3> QED BY <2>4, <3>1
  <2>11. ScanOf(query)'
    <3>1. /\ query'.hits \in Seq(RowIds) /\ Len(query'.hits) <= query'.limit
          /\ OnceEach(query'.hits, Len(query'.hits))
          /\ \A i \in 1..Len(query'.hits) : query'.hits[i] \in ToSet(core'.rows)
      BY <1>1, <2>4, <2>6
    <3> QED BY <2>5, <2>7, <2>8, <2>9, <2>10, <3>1 DEF ScanOf
  <2> QED BY <2>4, <2>11 DEF StageInv
<1>3. CASE query.plan = "join"
  <2>1. query' = [at |-> "join", plan |-> "join", q |-> query.q, limit |-> query.limit,
                  input |-> 0, out |-> <<>>, dropped |-> FALSE]
    BY <1>3 DEF Open
  <2>2. query.q \in Queries /\ query.limit = query.q.k /\ query.q.k # 0 BY <1>1, <1>3 DEF StageInv
  <2>3. query'.at = "join" /\ JoinShape(query)' BY <2>1 DEF JoinShape
  <2>4. query'.q = query.q /\ query'.limit = query.limit /\ query'.input = 0 /\ query'.out = <<>>
        /\ query'.input \in 0..Outers /\ query'.dropped \in BOOLEAN
    BY <2>1, PlanAssumption
  <2>5. MatchedUpTo(0, query.q.k, <<>>)' /\ AllSeen(<<>>)' BY DEF MatchedUpTo, AllSeen
  <2>6. JoinOf(query)' BY <2>2, <2>3, <2>4, <2>5 DEF JoinOf
  <2> QED BY <2>3, <2>6 DEF StageInv
<1>4. CASE query.plan = "table"
  <2>1. query' = [at |-> "done", plan |-> "table", q |-> query.q, found |-> view] BY <1>4 DEF Open
  <2>2. query'.at = "done" /\ query'.plan = "table" /\ query'.found = view' BY <1>1, <2>1
  <2> QED BY <2>2 DEF StageInv
<1> QED BY <1>2, <1>3, <1>4 DEF Open

LEMMA ExecuteStage ==
    ASSUME TableInv, StageInv, Execute
    PROVE  StageInv'
<1> DEFINE n == Len(query.hits)
           next == Lesser(query.pos + VectorSize, n)
           batch == SubSeq(query.hits, query.pos + 1, next)
           rows == ToSet(Fetch(batch))
<1>1. /\ UNCHANGED <<label, code, view, labelled, core, tombstones, events>> /\ query.at = "open"
      /\ query' = IF rows = {}
                  THEN [query EXCEPT !.at = "done", !.cut = query.pos + Len(batch) < n]
                  ELSE [query EXCEPT !.pos = @ + Len(batch), !.found = @ \cup rows]
  BY DEF Execute
<1>2. query.cut = FALSE /\ ScanOf(query) BY <1>1 DEF StageInv
<1>3. /\ ScanShape(query) /\ Rewritten(query) /\ Covered(query)
      /\ query.hits \in Seq(RowIds) /\ Len(query.hits) <= query.limit /\ OnceEach(query.hits, n)
      /\ \A i \in 1..n : query.hits[i] \in ToSet(core.rows)
      /\ query.pos \in 0..n /\ query.found = {query.hits[i] : i \in 1..query.pos} \cap view
  BY <1>2 DEF ScanOf
<1>4. n \in Nat
  <2> HIDE DEF RowIds
  <2> QED BY <1>3
<1>5. next \in Nat /\ query.pos <= next /\ next <= n /\ (query.pos < n => query.pos < next)
  BY <1>3, <1>4, PlanAssumption DEF Lesser
<1>6. /\ Len(batch) = next - query.pos /\ DOMAIN batch = 1..Len(batch)
      /\ \A i \in 1..Len(batch) : batch[i] = query.hits[query.pos + i]
  <2> HIDE DEF next, RowIds, n
  <2>1. \A i \in (query.pos + 1)..next : query.hits[i] \in RowIds
    <3>1. \A i \in (query.pos + 1)..next : i \in 1..n BY <1>3, <1>4, <1>5
    <3> QED BY <1>3, <3>1 DEF n
  <2>2. /\ batch \in Seq(RowIds)
        /\ Len(batch) = IF query.pos + 1 <= next THEN next - (query.pos + 1) + 1 ELSE 0
        /\ \A i \in 1..(next - (query.pos + 1) + 1) : batch[i] = query.hits[query.pos + 1 + i - 1]
    <3>1. query.pos + 1 \in Int /\ next \in Int BY <1>3, <1>5
    <3> QED BY <2>1, <3>1, SubSeqProperties
  <2>3. Len(batch) = next - query.pos BY <1>3, <1>5, <2>2
  <2>4. \A i \in 1..Len(batch) : i \in 1..(next - (query.pos + 1) + 1)
                                 /\ query.pos + 1 + i - 1 = query.pos + i
    BY <1>3, <1>5, <2>3
  <2> HIDE DEF batch
  <2> QED BY <2>2, <2>3, <2>4
<1> HIDE DEF batch, next
<1>7. rows = ToSet(batch) \cap view
  <2>1. Len(batch) \in Nat BY <1>3, <1>5, <1>6
  <2> QED BY <1>6, <2>1, FilteredMembers DEF Fetch
<1> HIDE DEF rows, n
<1>8. ToSet(batch) = {query.hits[i] : i \in (query.pos + 1)..next}
  <2>1. \A i \in 1..Len(batch) : query.pos + i \in (query.pos + 1)..next BY <1>3, <1>5, <1>6
  <2>2. \A i \in (query.pos + 1)..next : i - query.pos \in 1..Len(batch) /\ query.pos + (i - query.pos) = i
    BY <1>3, <1>5, <1>6
  <2>3. ASSUME NEW x \in ToSet(batch) PROVE x \in {query.hits[i] : i \in (query.pos + 1)..next}
    <3>1. PICK i \in 1..Len(batch) : batch[i] = x BY <1>6 DEF ToSet
    <3> QED BY <1>6, <2>1, <3>1
  <2>4. ASSUME NEW i \in (query.pos + 1)..next PROVE query.hits[i] \in ToSet(batch)
    <3>1. batch[i - query.pos] = query.hits[i] /\ i - query.pos \in DOMAIN batch BY <1>6, <2>2
    <3> QED BY <3>1 DEF ToSet
  <2> QED BY <2>3, <2>4
<1>9. DOMAIN query = {"at", "plan", "q", "limit", "filter", "hits", "pos", "found", "cut"}
      /\ query.plan = "index"
  BY <1>3 DEF ScanShape
<1>10. ASSUME query'.q = query.q, query'.limit = query.limit, query'.filter = query.filter,
              query'.hits = query.hits
       PROVE  Rewritten(query)' /\ Covered(query)'
  <2>1. \A r : /\ InIndex(r)' = InIndex(r) /\ IndexLabel(r)' = IndexLabel(r)
               /\ PulledUp(query.q, r)' = PulledUp(query.q, r)
               /\ HitByScan(query, r)' = HitByScan(query, r)
               /\ CrowdedOut(query, r)' = CrowdedOut(query, r)
    <3>1. \A r : InIndex(r)' = InIndex(r) BY <1>1 DEF InIndex
    <3>2. \A r : IndexLabel(r)' = IndexLabel(r) BY <1>1 DEF IndexLabel, RowOf
    <3>3. \A r : PulledUp(query.q, r)' = PulledUp(query.q, r)
      <4>1. label' = label /\ query'.q = query.q BY <1>1, <1>10
      <4> QED BY <4>1 DEF PulledUp, Passes
    <3>4. \A r : HitByScan(query, r)' = HitByScan(query, r) BY <1>10 DEF HitByScan
    <3>5. \A r : CrowdedOut(query, r)' = CrowdedOut(query, r) BY <1>1, <1>10 DEF CrowdedOut
    <3> QED BY <3>1, <3>2, <3>3, <3>4, <3>5
  <2>2. Covered(query)' BY <1>1, <1>3, <1>10, <2>1 DEF Covered
  <2>3. Rewritten(query)' BY <1>1, <1>3, <1>10 DEF Rewritten
  <2> QED BY <2>2, <2>3
<1>11. CASE rows = {}
  <2> DEFINE cut == query.pos + Len(batch) < n
  <2>1. query' = [query EXCEPT !.at = "done", !.cut = cut] BY <1>1, <1>11
  <2> HIDE DEF cut
  <2>2. /\ query'.at = "done" /\ query'.plan = "index" /\ query'.q = query.q
        /\ query'.limit = query.limit /\ query'.filter = query.filter /\ query'.hits = query.hits
        /\ query'.pos = query.pos /\ query'.found = query.found /\ query'.cut = cut
        /\ DOMAIN query' = DOMAIN query
        /\ query' = [x \in DOMAIN query |-> query'[x]]
    BY <1>9, <2>1
  <2>3. ScanShape(query)' BY <1>9, <2>2 DEF ScanShape
  <2>4. Rewritten(query)' /\ Covered(query)' BY <1>10, <2>2
  <2>5. ScanOf(query)'
    <3>1. /\ query'.hits \in Seq(RowIds) /\ Len(query'.hits) <= query'.limit
          /\ OnceEach(query'.hits, Len(query'.hits))
          /\ \A i \in 1..Len(query'.hits) : query'.hits[i] \in ToSet(core'.rows)
      BY <1>1, <1>3, <2>2 DEF n
    <3>2. query'.pos \in 0..Len(query'.hits) BY <1>3, <2>2 DEF n
    <3>3. query'.found = {query'.hits[i] : i \in 1..query'.pos} \cap view'
      <4>1. /\ query'.found = query.found /\ query'.hits = query.hits /\ query'.pos = query.pos
            /\ view' = view
        BY <1>1, <2>2
      <4> QED BY <1>3, <4>1
    <3> QED BY <2>3, <2>4, <3>1, <3>2, <3>3 DEF ScanOf
  <2>6. \A i \in (query.pos + 1)..next : query.hits[i] \notin view BY <1>7, <1>8, <1>11
  <2>7. ScanEnd(query)'
    <3>1. ASSUME cut PROVE \E i \in 1..n : query.hits[i] \notin view
      <4>1. next < n BY <1>3, <1>5, <1>6, <3>1 DEF cut
      <4>2. query.pos + 1 \in (query.pos + 1)..next /\ query.pos + 1 \in 1..n
        BY <1>3, <1>4, <1>5, <4>1
      <4> QED BY <2>6, <4>2
    <3>2. ASSUME ~cut, NEW i \in 1..n, query.hits[i] \in view PROVE query.hits[i] \in query.found
      <4>1. next = n BY <1>3, <1>4, <1>5, <1>6, <3>2 DEF cut
      <4>2. i \in 1..query.pos BY <1>3, <1>4, <2>6, <3>2, <4>1
      <4> QED BY <1>3, <3>2, <4>2
    <3> QED BY <1>1, <2>2, <3>1, <3>2 DEF ScanEnd, n
  <2> QED BY <2>2, <2>5, <2>7 DEF StageInv
<1>12. CASE rows # {}
  <2>1. query' = [query EXCEPT !.pos = @ + Len(batch), !.found = @ \cup rows] BY <1>1, <1>12
  <2>2. /\ query'.at = "open" /\ query'.plan = "index" /\ query'.q = query.q
        /\ query'.limit = query.limit /\ query'.filter = query.filter /\ query'.hits = query.hits
        /\ query'.pos = query.pos + Len(batch) /\ query'.found = query.found \cup rows
        /\ query'.cut = FALSE
        /\ DOMAIN query' = DOMAIN query
        /\ query' = [x \in DOMAIN query |-> query'[x]]
    BY <1>1, <1>2, <1>9, <2>1
  <2>3. ScanShape(query)' BY <1>9, <2>2 DEF ScanShape
  <2>4. Rewritten(query)' /\ Covered(query)' BY <1>10, <2>2
  <2>5. query'.pos = next /\ query'.pos \in 0..n BY <1>3, <1>5, <1>6, <2>2
  <2>6. query'.found = {query.hits[i] : i \in 1..next} \cap view
    <3>1. 1..next = (1..query.pos) \cup ((query.pos + 1)..next) BY <1>3, <1>5
    <3> HIDE DEF StageInv
    <3> QED BY <1>3, <1>7, <1>8, <2>2, <3>1
  <2>7. ScanOf(query)'
    <3>1. /\ query'.hits \in Seq(RowIds) /\ Len(query'.hits) <= query'.limit
          /\ OnceEach(query'.hits, Len(query'.hits))
          /\ \A i \in 1..Len(query'.hits) : query'.hits[i] \in ToSet(core'.rows)
      BY <1>1, <1>3, <2>2 DEF n
    <3>2. query'.pos \in 0..Len(query'.hits) BY <2>2, <2>5 DEF n
    <3>3. query'.found = {query'.hits[i] : i \in 1..query'.pos} \cap view' BY <1>1, <2>2, <2>5, <2>6
    <3> QED BY <2>3, <2>4, <3>1, <3>2, <3>3 DEF ScanOf
  <2> QED BY <2>2, <2>7 DEF StageInv
<1> QED BY <1>11, <1>12

LEMMA JoinStays ==
    ASSUME IndexKept, UNCHANGED <<label, code, view, labelled, query>>, JoinOf(query)
    PROVE  JoinOf(query)'
<1>1. \A o, k, out, base, n : Matched(o, k, out, base, n) => Matched(o, k, out, base, n)'
  BY DEF Matched, IndexKept
<1>2. \A m, k, out : MatchedUpTo(m, k, out) => MatchedUpTo(m, k, out)' BY <1>1 DEF MatchedUpTo
<1>3. \A out : AllSeen(out) => AllSeen(out)' BY DEF AllSeen
<1>4. JoinShape(query)' = JoinShape(query) /\ query' = query BY DEF JoinShape
<1> QED BY <1>2, <1>3, <1>4 DEF JoinOf

(* An interval in its order.                                               *)
LEMMA IntervalInOrder ==
    ASSUME NEW a \in Nat, NEW n \in Nat
    PROVE  /\ Len(InOrder((a + 1)..(a + n))) = n
           /\ \A i \in 1..n : InOrder((a + 1)..(a + n))[i] = a + i
<1> DEFINE S == (a + 1)..(a + n)
           s == InOrder(S)
<1>1. IsFiniteSet(S) /\ Cardinality(S) = n
  <2>1. Cardinality(S) = IF a + 1 > a + n THEN 0 ELSE a + n - (a + 1) + 1 BY FS_Interval
  <2>2. IsFiniteSet(S) BY FS_Interval
  <2> HIDE DEF S
  <2> QED BY <2>1, <2>2
<1>2. S \subseteq Int OBVIOUS
<1>3. Ascends(S, s, n)
  <2> HIDE DEF S
  <2> QED BY <1>1, <1>2, InOrderFacts
<1> HIDE DEF s
<1>4. /\ Len(s) = n /\ \A i \in 1..n : s[i] \in S
      /\ \A i, j \in 1..n : i < j => s[i] < s[j]
      /\ \A x \in S : \E i \in 1..n : s[i] = x
  <2> HIDE DEF S
  <2> QED BY <1>3 DEF Ascends
<1> DEFINE N == {i \in 1..n : s[i] # a + i}
<1>5. ASSUME N # {} PROVE FALSE
  <2>1. N \in SUBSET Nat OBVIOUS
  <2> HIDE DEF N
  <2>2. PICK i \in N : \A j \in N : i <= j BY <1>5, <2>1, SmallestNumber
  <2>3. i \in 1..n /\ s[i] # a + i BY DEF N
  <2>4. \A j \in 1..n : j < i => s[j] = a + j BY <2>2, <2>3 DEF N
  <2>5. s[i] >= a + i
    <3>1. CASE i = 1 BY <1>4, <2>3, <3>1
    <3>2. CASE i # 1
      <4>1. i - 1 \in 1..n /\ i - 1 < i BY <2>3, <3>2
      <4>2. s[i - 1] = a + (i - 1) BY <2>4, <4>1
      <4>3. s[i - 1] < s[i] /\ s[i] \in Int BY <1>2, <1>4, <2>3, <4>1
      <4> QED BY <2>3, <4>2, <4>3
    <3> QED BY <3>1, <3>2
  <2>6. a + i \in S BY <2>3
  <2>7. PICK l \in 1..n : s[l] = a + i BY <1>4, <2>6
  <2>8. ~(l < i) BY <2>3, <2>4, <2>7
  <2>9. l # i BY <2>3, <2>7
  <2>10. i < l BY <2>3, <2>8, <2>9
  <2>11. s[i] < s[l] /\ s[i] \in Int BY <1>2, <1>4, <2>3, <2>10
  <2> QED BY <2>3, <2>5, <2>7, <2>11
<1> QED BY <1>4, <1>5 DEF s

(* A filter that leaves as many as there were leaves them as they were.    *)
LEMMA AllLeft ==
    ASSUME NEW list, Len(list) \in Nat, NEW wanted, ~(Len(Filtered(list, wanted)) < Len(list))
    PROVE  \A i \in 1..Len(list) : list[i] \in wanted /\ Filtered(list, wanted)[i] = list[i]
<1> DEFINE n == Len(list)
           S == {i \in 1..n : list[i] \in wanted}
           f == Filtered(list, wanted)
           at == Places(list, wanted)
<1>1. Filters(list, wanted, f, at, Cardinality(S)) BY FilteredFacts
<1>2. at = InOrder(S) BY DEF Places
<1>3. S \in SUBSET (1..n) OBVIOUS
<1>4. \A i \in S : list[i] \in wanted OBVIOUS
<1> HIDE DEF f, at, S
<1>5. /\ Cardinality(S) \in Nat /\ Len(f) = Cardinality(S)
      /\ \A j \in 1..Cardinality(S) : f[j] = list[at[j]]
  BY <1>1 DEF Filters, S
<1>6. IsFiniteSet(1..n) /\ Cardinality(1..n) = n
  <2> HIDE DEF n
  <2>1. n \in Nat BY DEF n
  <2>2. Cardinality(1..n) = IF 1 > n THEN 0 ELSE n - 1 + 1 BY <2>1, FS_Interval
  <2> QED BY <2>1, <2>2, FS_Interval
<1>7. Cardinality(S) <= n /\ (Cardinality(S) = n => S = 1..n)
  <2>1. /\ Cardinality(S) <= Cardinality(1..n)
        /\ Cardinality(1..n) = Cardinality(S) => 1..n = S
    BY <1>3, <1>6, FS_Subset
  <2> QED BY <1>6, <2>1
<1>8. ~(Len(f) < n) BY DEF f
<1>9. n \in Nat OBVIOUS
<1> HIDE DEF n
<1>10. Cardinality(S) = n /\ S = 1..n BY <1>5, <1>7, <1>8, <1>9
<1>11. S = (0 + 1)..(0 + n) BY <1>9, <1>10
<1>12. \A i \in 1..n : at[i] = i
  <2>1. \A i \in 1..n : InOrder((0 + 1)..(0 + n))[i] = 0 + i BY <1>9, IntervalInOrder
  <2> HIDE DEF at
  <2>2. at = InOrder((0 + 1)..(0 + n)) BY <1>2, <1>11
  <2> QED BY <1>9, <2>1, <2>2
<1>13. \A i \in 1..n : list[i] \in wanted /\ f[i] = list[i] BY <1>4, <1>5, <1>10, <1>12
<1> QED BY <1>13 DEF n, f

(* One list after the other.                                               *)
LEMMA MatchesFlattened ==
    ASSUME NEW seqs, NEW n \in Nat, seqs = [i \in 1..n |-> seqs[i]],
           \A i \in 1..n : seqs[i] \in Seq(MatchRows)
    PROVE  \E g : /\ g[0] = <<>> /\ \A i \in 0..n : g[i] \in Seq(MatchRows)
                  /\ \A i \in 1..n : g[i] = g[i - 1] \o seqs[i]
                  /\ FlattenSeq(seqs) = g[n]
<1> DEFINE S == MatchRows
<1>12. \A i \in 1..n : seqs[i] \in Seq(S) OBVIOUS
<1>13. SUFFICES \E e : /\ e[0] = <<>> /\ \A i \in 0..n : e[i] \in Seq(S)
                       /\ \A i \in 1..n : e[i] = e[i - 1] \o seqs[i]
                       /\ FlattenSeq(seqs) = e[n]
  OBVIOUS
<1> HIDE DEF S
<1> DEFINE X == Seq(S)
           step == [i \in 1..n |-> [b \in X |-> b \o seqs[i]]]
           F(f) == f = [i \in 1..n |-> IF i = 1 THEN seqs[i] ELSE f[i - 1] \o seqs[i]]
<1>0. Len(seqs) = n OBVIOUS
<1>1. PICK g : Steps(step, <<>>, n, g) BY StepsExist
<1>2. \A i \in 1..n, b \in X : step[i][b] = b \o seqs[i] /\ step[i][b] \in X
  <2> TAKE i \in 1..n, b \in X
  <2>1. step[i][b] = b \o seqs[i] OBVIOUS
  <2>2. b \in Seq(S) /\ seqs[i] \in Seq(S) BY <1>12
  <2>3. b \o seqs[i] \in Seq(S) BY <2>2, ConcatProperties
  <2> QED BY <2>1, <2>3
<1> HIDE DEF step
<1>3. <<>> \in X OBVIOUS
<1> HIDE DEF X
<1>4. g[0] = <<>> /\ \A i \in 1..n : g[i] = step[i][g[i - 1]] BY <1>1 DEF Steps
<1>5. \A i \in 1..n : g[i - 1] \in X => g[i] \in X BY <1>2, <1>4
<1>6. \A i \in 0..n : g[i] \in X BY <1>3, <1>4, <1>5, ValuesStay
<1>7. \A i \in 1..n : g[i] = g[i - 1] \o seqs[i]
  <2> TAKE i \in 1..n
  <2>1. i - 1 \in 0..n OBVIOUS
  <2> QED BY <1>2, <1>4, <1>6, <2>1
<1>8. CASE n = 0
  <2>1. FlattenSeq(seqs) = seqs /\ seqs = <<>> BY <1>0, <1>8 DEF FlattenSeq
  <2> QED BY <1>4, <1>6, <1>7, <1>8, <2>1 DEF X
<1>9. CASE n # 0
  <2> DEFINE h == [i \in 1..n |-> g[i]]
  <2>1. \A i \in 1..n : h[i] = IF i = 1 THEN seqs[i] ELSE h[i - 1] \o seqs[i]
    <3> TAKE i \in 1..n
    <3>1. CASE i = 1
      <4>1. i - 1 = 0 BY <3>1
      <4>2. g[i] = <<>> \o seqs[i] BY <1>4, <1>7, <4>1
      <4>3. seqs[i] \in Seq(S) BY <1>12
      <4>4. <<>> \o seqs[i] = seqs[i] BY <4>3, ConcatEmptySeq
      <4> QED BY <3>1, <4>2, <4>4
    <3>2. CASE i # 1
      <4>1. i - 1 \in 1..n BY <3>2
      <4> QED BY <1>7, <3>2, <4>1
    <3> QED BY <3>1, <3>2
  <2>2. h = [i \in 1..n |-> h[i]] OBVIOUS
  <2> HIDE DEF h
  <2>3. F(h) BY <2>1, <2>2, Zenon
  <2> DEFINE flat == CHOOSE f : F(f)
  <2>4. F(flat) BY <2>3, Zenon
  <2>5. FlattenSeq(seqs) = flat[n] BY <1>0, <1>9 DEF FlattenSeq
  <2> HIDE DEF flat
  <2>6. \A i \in 1..n : flat[i] = IF i = 1 THEN seqs[i] ELSE flat[i - 1] \o seqs[i] BY <2>4
  <2> HIDE DEF F
  <2> DEFINE k == [i \in 0..n |-> IF i = 0 THEN <<>> ELSE flat[i]]
  <2>7. k[0] = <<>> /\ \A i \in 1..n : k[i] = flat[i] OBVIOUS
  <2> HIDE DEF k
  <2>8. \A i \in 1..n : k[i] = k[i - 1] \o seqs[i]
    <3> TAKE i \in 1..n
    <3>1. CASE i = 1
      <4>1. i - 1 = 0 BY <3>1
      <4>2. k[i] = seqs[i] BY <2>6, <2>7, <3>1
      <4>3. seqs[i] \in Seq(S) BY <1>12
      <4>4. <<>> \o seqs[i] = seqs[i] BY <4>3, ConcatEmptySeq
      <4> QED BY <2>7, <4>1, <4>2, <4>4
    <3>2. CASE i # 1
      <4>1. i - 1 \in 1..n BY <3>2
      <4> QED BY <2>6, <2>7, <3>2, <4>1
    <3> QED BY <3>1, <3>2
  <2>9. k[0] \in Seq(S) BY <2>7
  <2>10. \A i \in 1..n : k[i - 1] \in Seq(S) => k[i] \in Seq(S)
    <3> SUFFICES ASSUME NEW i \in 1..n, k[i - 1] \in Seq(S) PROVE k[i] \in Seq(S) OBVIOUS
    <3>1. seqs[i] \in Seq(S) BY <1>12
    <3>2. k[i - 1] \o seqs[i] \in Seq(S) BY <3>1, ConcatProperties
    <3> QED BY <2>8, <3>2
  <2>11. \A i \in 0..n : k[i] \in Seq(S)
    <3> HIDE DEF X
    <3> QED BY <2>9, <2>10, ValuesStay
  <2>12. FlattenSeq(seqs) = k[n] BY <1>9, <2>5, <2>7
  <2> QED BY <2>7, <2>8, <2>11, <2>12
<1> QED BY <1>8, <1>9

IsConcat(a, b, c) ==
    /\ Len(c) = Len(a) + Len(b) /\ Len(a) \in Nat /\ Len(b) \in Nat
    /\ \A i \in 1..(Len(a) + Len(b)) : c[i] = IF i <= Len(a) THEN a[i] ELSE b[i - Len(a)]

LEMMA Concatenated ==
    \A a, b \in Seq(MatchRows) : a \o b \in Seq(MatchRows) /\ IsConcat(a, b, a \o b)
<1> HIDE DEF MatchRows
<1> TAKE a, b \in Seq(MatchRows)
<1> QED BY ConcatProperties DEF IsConcat

LEMMA MatchedExtends ==
    ASSUME NEW o, NEW k, NEW out \in Seq(MatchRows), NEW s \in Seq(MatchRows),
           NEW base \in Nat, NEW n \in Nat, Matched(o, k, out, base, n),
           \A p \in 1..Len(s) : s[p][2] # o
    PROVE  Matched(o, k, out \o s, base, n)
<1> HIDE DEF MatchRows
<1> DEFINE all == out \o s
<1>1. /\ Len(all) = Len(out) + Len(s) /\ Len(out) \in Nat /\ Len(s) \in Nat
      /\ \A i \in 1..(Len(out) + Len(s)) : all[i] = IF i <= Len(out) THEN out[i] ELSE s[i - Len(out)]
  BY ConcatProperties
<1>2. base + n <= Len(out) BY DEF Matched
<1>3. \A i \in 1..n : all[base + i] = out[base + i]
  <2> TAKE i \in 1..n
  <2>1. base + i \in 1..(Len(out) + Len(s)) /\ base + i <= Len(out) BY <1>1, <1>2
  <2> QED BY <1>1, <2>1
<1> HIDE DEF all
<1>4. \A p \in 1..Len(all) : all[p][2] = o <=> p \in (base + 1)..(base + n)
  <2> TAKE p \in 1..Len(all)
  <2>1. CASE p <= Len(out)
    <3>1. all[p] = out[p] /\ p \in 1..Len(out) BY <1>1, <2>1
    <3> QED BY <3>1 DEF Matched
  <2>2. CASE ~(p <= Len(out))
    <3>1. all[p] = s[p - Len(out)] /\ p - Len(out) \in 1..Len(s) BY <1>1, <2>2
    <3> QED BY <1>1, <1>2, <2>2, <3>1
  <2> QED BY <2>1, <2>2
<1>5. base + n <= Len(all) BY <1>1, <1>2
<1>6. \A i \in 1..n : \A j \in 1..i : all[base + j] = out[base + j]
  <2> TAKE i \in 1..n
  <2> TAKE j \in 1..i
  <2>1. j \in 1..n OBVIOUS
  <2> QED BY <1>3, <2>1
<1>7. Matched(o, k, all, base, n)
  <2>1. n <= k /\ (n = k \/ \A r \in view : InIndex(r) => \E i \in 1..n : all[base + i][1] = r)
    BY <1>3 DEF Matched
  <2>2. \A i \in 1..n : all[base + i][3] = i BY <1>3 DEF Matched
  <2>3. \A r \in view, i \in 1..n :
           InIndex(r) /\ (\A j \in 1..i : all[base + j][1] # r) =>
               Lut(o, code[all[base + i][1]]) <= Lut(o, code[r])
    <3> SUFFICES ASSUME NEW r \in view, NEW i \in 1..n, InIndex(r),
                        \A j \in 1..i : all[base + j][1] # r
                 PROVE  Lut(o, code[all[base + i][1]]) <= Lut(o, code[r])
      OBVIOUS
    <3>1. \A j \in 1..i : out[base + j][1] # r BY <1>6
    <3>2. Lut(o, code[out[base + i][1]]) <= Lut(o, code[r]) BY <3>1 DEF Matched
    <3> QED BY <1>3, <3>2
  <2> QED BY <1>4, <1>5, <2>1, <2>2, <2>3 DEF Matched
<1> QED BY <1>7 DEF all

LEMMA MatchedNew ==
    ASSUME TableInv, NEW o \in 1..Outers, NEW k, NEW out \in Seq(MatchRows), NEW s \in Seq(MatchRows),
           \A p \in 1..Len(out) : out[p][2] # o, NEW hits, HitsOf(o, k, NoFilter, hits),
           Len(s) = Len(hits), \A i \in 1..Len(s) : s[i] = <<hits[i], o, i>>
    PROVE  Matched(o, k, out \o s, Len(out), Len(s))
<1> HIDE DEF MatchRows
<1> DEFINE all == out \o s
           base == Len(out)
           n == Len(s)
<1>1. /\ Len(all) = base + n /\ base \in Nat /\ n \in Nat
      /\ \A i \in 1..(base + n) : all[i] = IF i <= base THEN out[i] ELSE s[i - base]
  <2>1. IsConcat(out, s, out \o s) BY Concatenated
  <2> QED BY <2>1 DEF IsConcat
<1> HIDE DEF all, base, n
<1>2. \A i \in 1..n : all[base + i] = <<hits[i], o, i>>
  <2> TAKE i \in 1..n
  <2>1. base + i \in 1..(base + n) /\ ~(base + i <= base) /\ base + i - base = i BY <1>1
  <2>2. all[base + i] = s[i] BY <1>1, <2>1
  <2> QED BY <2>2 DEF n
<1>3. \A i \in 1..n : all[base + i][1] = hits[i] /\ all[base + i][2] = o /\ all[base + i][3] = i
  BY <1>2
<1>4. \A p \in 1..(base + n) : all[p][2] = o <=> p \in (base + 1)..(base + n)
  <2> TAKE p \in 1..(base + n)
  <2>1. CASE p <= base
    <3>1. all[p] = out[p] /\ p \in 1..base BY <1>1, <2>1
    <3> QED BY <1>1, <2>1, <3>1 DEF base
  <2>2. CASE ~(p <= base)
    <3>1. p - base \in 1..n /\ base + (p - base) = p BY <1>1, <2>2
    <3>2. all[p][2] = o BY <1>3, <3>1
    <3> QED BY <1>1, <2>2, <3>2
  <2> QED BY <2>1, <2>2
<1>5. \A r \in view : InIndex(r) => r \in RowIds /\ EligibleRow(NoFilter, r)
  <2> SUFFICES ASSUME NEW r \in view, InIndex(r) PROVE r \in RowIds /\ EligibleRow(NoFilter, r) OBVIOUS
  <2>1. PICK m \in Nodes(core) : RowOf(core, m) = r BY IndexedNode
  <2>2. ~Active(NoFilter) BY DEF Active, NoFilter
  <2> QED BY <2>1, <2>2 DEF TableInv, EligibleRow, Eligible
<1>6. n <= k BY DEF HitsOf, n
<1>7. \A r \in view : InIndex(r) => \/ \E i \in 1..n : hits[i] = r
                                    \/ n = k /\ \A i \in 1..n : Lut(o, code[hits[i]]) <= Lut(o, code[r])
  BY <1>5 DEF HitsOf, n
<1>8. n = k \/ \A r \in view : InIndex(r) => \E i \in 1..n : all[base + i][1] = r BY <1>3, <1>7
<1>9. ASSUME NEW r \in view, NEW i \in 1..n, InIndex(r), \A j \in 1..i : all[base + j][1] # r
      PROVE  Lut(o, code[all[base + i][1]]) <= Lut(o, code[r])
  <2>1. CASE \E j \in 1..n : hits[j] = r
    <3>1. PICK j \in 1..n : hits[j] = r BY <2>1
    <3>2. ~(j <= i)
      <4>1. j \in 1..i => all[base + j][1] = r BY <1>3, <3>1
      <4> QED BY <1>9, <4>1
    <3>3. i < j BY <1>1, <3>2
    <3>4. Lut(o, code[hits[i]]) <= Lut(o, code[hits[j]]) BY <3>3 DEF HitsOf, n
    <3> QED BY <1>3, <3>1, <3>4
  <2>2. CASE ~ \E j \in 1..n : hits[j] = r
    <3>1. Lut(o, code[hits[i]]) <= Lut(o, code[r]) BY <1>7, <1>9, <2>2
    <3> QED BY <1>3, <3>1
  <2> QED BY <2>1, <2>2
<1>10. Matched(o, k, all, base, n) BY <1>1, <1>3, <1>4, <1>6, <1>8, <1>9 DEF Matched
<1> QED BY <1>10 DEF all, base, n

LEMMA MatchedNext ==
    ASSUME TableInv, NEW m \in Nat, m + 1 \in 1..Outers, NEW k, NEW out, MatchedUpTo(m, k, out),
           NEW hits, HitsOf(m + 1, k, NoFilter, hits),
           NEW s, s \in Seq(MatchRows), Len(s) = Len(hits),
           \A i \in 1..Len(s) : s[i] = <<hits[i], m + 1, i>>
    PROVE  MatchedUpTo(m + 1, k, out \o s)
<1> HIDE DEF MatchRows
<1>1. out \in Seq(MatchRows) /\ \A p \in 1..Len(out) : out[p][2] \in 1..m BY DEF MatchedUpTo
<1>2. /\ out \o s \in Seq(MatchRows) /\ Len(out \o s) = Len(out) + Len(s)
      /\ \A i \in 1..(Len(out) + Len(s)) : (out \o s)[i] = IF i <= Len(out) THEN out[i] ELSE s[i - Len(out)]
      /\ Len(out) \in Nat /\ Len(s) \in Nat
  <2>1. out \o s \in Seq(MatchRows) /\ IsConcat(out, s, out \o s) BY <1>1, Concatenated
  <2> QED BY <2>1, Zenon DEF IsConcat
<1>3. \A i \in 1..Len(s) : s[i][2] = m + 1 OBVIOUS
<1>4. \A p \in 1..Len(out \o s) : (out \o s)[p][2] \in 1..(m + 1)
  <2> DEFINE all == out \o s
  <2> TAKE p \in 1..Len(all)
  <2>1. CASE p <= Len(out)
    <3>1. all[p] = out[p] /\ p \in 1..Len(out) BY <1>2, <2>1
    <3> HIDE DEF all
    <3> QED BY <1>1, <3>1
  <2>2. CASE ~(p <= Len(out))
    <3>1. all[p] = s[p - Len(out)] /\ p - Len(out) \in 1..Len(s) BY <1>2, <2>2
    <3> HIDE DEF all
    <3> QED BY <1>3, <3>1
  <2> QED BY <2>1, <2>2
<1>5. ASSUME NEW o \in 1..(m + 1) PROVE \E base, n \in Nat : Matched(o, k, out \o s, base, n)
  <2>1. CASE o = m + 1
    <3>1. \A p \in 1..Len(out) : out[p][2] # o BY <1>1, <2>1
    <3>2. o \in 1..Outers BY <2>1
    <3>3. HitsOf(o, k, NoFilter, hits) /\ \A i \in 1..Len(s) : s[i] = <<hits[i], o, i>> BY <2>1
    <3>4. Matched(o, k, out \o s, Len(out), Len(s)) BY <1>1, <3>1, <3>2, <3>3, MatchedNew
    <3> QED BY <1>2, <3>4
  <2>2. CASE o # m + 1
    <3>1. o \in 1..m BY <2>2
    <3>2. PICK base, n \in Nat : Matched(o, k, out, base, n) BY <3>1 DEF MatchedUpTo
    <3>3. \A p \in 1..Len(s) : s[p][2] # o BY <1>3, <2>2
    <3>4. Matched(o, k, out \o s, base, n) BY <1>1, <3>2, <3>3, MatchedExtends
    <3> QED BY <3>4
  <2> QED BY <2>1, <2>2
<1> QED BY <1>2, <1>4, <1>5 DEF MatchedUpTo

LEMMA MatchesRegrouped ==
    \A s, t, u \in Seq(MatchRows) : (s \o t) \o u = s \o (t \o u)
<1> HIDE DEF MatchRows
<1> TAKE s, t, u \in Seq(MatchRows)
<1> QED BY ConcatAssociative

LEMMA JoinStage ==
    ASSUME TableInv, StageInv, JoinExecute
    PROVE  StageInv'
<1> DEFINE k == query.limit
           in == query.input
           count == Lesser(Outers - in, VectorSize \div k)
           Of(b) == IndexHits(in + b, k, NoFilter)
           piece(b) == [i \in 1..Len(Of(b)) |-> <<Of(b)[i], in + b, i>>]
           pieces == [b \in 1..count |-> piece(b)]
           matches == FlattenSeq(pieces)
           ids == ResetMultiScan(query.out) \o [i \in 1..Len(matches) |-> matches[i][1]]
           fetched == Fetch(SubSeq(ids, 1, Len(matches)))
           chunk == [i \in 1..Len(matches) |->
                       <<IF i <= Len(fetched) THEN fetched[i] ELSE Null, matches[i][2], matches[i][3]>>]
           done == in + count = Outers
           short == Len(fetched) < Len(matches)
<1>1. /\ query.at = "join" /\ UNCHANGED <<label, code, view, labelled, core, tombstones, events>>
      /\ query' = [query EXCEPT !.at = IF done THEN "joined" ELSE "join",
                                !.input = @ + count, !.out = @ \o chunk, !.dropped = @ \/ short]
  BY Zenon DEF JoinExecute, Numbered
<1>2. JoinOf(query) BY <1>1, Zenon DEF StageInv
<1>3. /\ JoinShape(query) /\ query.q \in Queries /\ k = query.q.k /\ k # 0 /\ in \in 0..Outers
      /\ query.dropped \in BOOLEAN
      /\ ~query.dropped => MatchedUpTo(in, k, query.out) /\ AllSeen(query.out)
  BY <1>2 DEF JoinOf
<1>4. k \in Nat \ {0}
  <2>1. query.q.k \in Nat BY <1>3, QueryAssumption
  <2> QED BY <1>3, <2>1
<1>5. count \in Nat /\ in + count \in 0..Outers
  <2>1. VectorSize \div k \in Nat BY <1>4, PlanAssumption
  <2>2. Outers \in Nat BY PlanAssumption
  <2> QED BY <1>3, <2>1, <2>2 DEF Lesser
<1>6. \A b \in 1..count : in + b \in 1..Outers /\ in + b - 1 \in Nat /\ in + b - 1 = in + (b - 1)
  <2>1. in \in Nat /\ Outers \in Nat /\ in + count <= Outers BY <1>3, <1>5, PlanAssumption
  <2> HIDE DEF in
  <2> QED BY <1>5, <2>1
<1>7. DOMAIN query = {"at", "plan", "q", "limit", "input", "out", "dropped"} /\ query.plan = "join"
  BY <1>3 DEF JoinShape
<1> HIDE DEF chunk, done, short, count
<1>8. /\ query'.at = (IF done THEN "joined" ELSE "join") /\ query'.plan = "join" /\ query'.q = query.q
      /\ query'.limit = k /\ query'.input = in + count /\ query'.out = query.out \o chunk
      /\ query'.dropped = (query.dropped \/ short)
      /\ DOMAIN query' = DOMAIN query /\ query' = [x \in DOMAIN query |-> query'[x]]
  BY <1>1, <1>7
<1>9. JoinShape(query)' BY <1>7, <1>8 DEF JoinShape
<1>10. query'.dropped \in BOOLEAN /\ (~query'.dropped => ~query.dropped /\ ~short)
  BY <1>3, <1>8, Zenon
<1>11. query'.at \in {"join", "joined"} /\ (query'.at = "joined" => in + count = Outers)
  BY <1>8 DEF done
<1>12. ASSUME ~query.dropped, ~short
       PROVE  MatchedUpTo(in + count, k, query.out \o chunk) /\ AllSeen(query.out \o chunk)
  <2>1. \A b \in 1..count : HitsOf(in + b, k, NoFilter, Of(b))
    <3> TAKE b \in 1..count
    <3>1. \A r \in RowIds : Lut(in + b, code[r]) \in Int
      <4>1. in + b \in 0..Outers BY <1>6
      <4> QED BY <4>1 DEF TableInv
    <3>2. WellBuilt(core, code) /\ tombstones \subseteq RowIds /\ IsFiniteSet(tombstones) BY DEF TableInv
    <3>3. IsFilter(NoFilter) /\ k \in Nat BY <1>4 DEF IsFilter
    <3> HIDE DEF k, in
    <3> QED BY <3>1, <3>2, <3>3, IndexHitsFacts
  <2> HIDE DEF Of
  <2>2. \A b \in 1..count : /\ piece(b) \in Seq(MatchRows) /\ Len(piece(b)) = Len(Of(b))
                            /\ \A i \in 1..Len(piece(b)) : piece(b)[i] = <<Of(b)[i], in + b, i>>
    <3> TAKE b \in 1..count
    <3> DEFINE n == Len(Of(b))
    <3>1. n \in Nat /\ \A i \in 1..n : Of(b)[i] \in RowIds
      <4>1. Of(b) \in Seq(RowIds) BY <2>1 DEF HitsOf
      <4> HIDE DEF RowIds
      <4> QED BY <4>1
    <3>2. in + b \in Nat BY <1>6
    <3>3. \A i \in 1..n : <<Of(b)[i], in + b, i>> \in MatchRows BY <3>1, <3>2 DEF MatchRows
    <3> HIDE DEF n, MatchRows
    <3>4. piece(b) = [i \in 1..n |-> <<Of(b)[i], in + b, i>>] BY DEF n
    <3>5. piece(b) \in [1..n -> MatchRows] BY <3>3, <3>4
    <3>6. piece(b) \in Seq(MatchRows) /\ Len(piece(b)) = n BY <3>1, <3>5
    <3>7. \A i \in 1..n : piece(b)[i] = <<Of(b)[i], in + b, i>> BY <3>4
    <3> QED BY <3>6, <3>7 DEF n
  <2> HIDE DEF piece
  <2>3. pieces = [b \in 1..count |-> pieces[b]] /\ \A b \in 1..count : pieces[b] = piece(b) OBVIOUS
  <2> HIDE DEF pieces, MatchRows
  <2>4. PICK g : /\ g[0] = <<>> /\ \A b \in 0..count : g[b] \in Seq(MatchRows)
                 /\ \A b \in 1..count : g[b] = g[b - 1] \o pieces[b]
                 /\ matches = g[count]
    <3>1. \A b \in 1..count : pieces[b] \in Seq(MatchRows) BY <2>2, <2>3
    <3>2. \E g : /\ g[0] = <<>> /\ \A i \in 0..count : g[i] \in Seq(MatchRows)
                 /\ \A i \in 1..count : g[i] = g[i - 1] \o pieces[i]
                 /\ FlattenSeq(pieces) = g[count]
      <4>1. pieces = [b \in 1..count |-> pieces[b]] BY <2>3
      <4> QED BY <1>5, <3>1, <4>1, MatchesFlattened
    <3> QED BY <3>2
  <2> HIDE DEF matches
  <2> DEFINE out == query.out
             G == {b \in 0..count : MatchedUpTo(in + b, k, out \o g[b])}
  <2>5. out \in Seq(MatchRows) /\ MatchedUpTo(in, k, out) /\ AllSeen(out)
    BY <1>3, <1>12 DEF MatchedUpTo
  <2> HIDE DEF out
  <2>6. 0 \in G
    <3>1. out \o g[0] = out BY <2>4, <2>5, ConcatEmptySeq
    <3>2. in + 0 = in /\ 0 \in 0..count BY <1>3, <1>5
    <3> QED BY <2>5, <3>1, <3>2
  <2>7. ASSUME NEW b \in 1..count, b - 1 \in G PROVE b \in G
    <3>1. MatchedUpTo(in + b - 1, k, out \o g[b - 1]) BY <1>6, <2>7
    <3>2. b - 1 \in 0..count /\ in + b - 1 \in Nat /\ in + b - 1 + 1 = in + b /\ in + b \in 1..Outers
          /\ b \in 0..count
      BY <1>3, <1>5, <1>6
    <3> DEFINE m == in + b - 1
    <3>3. m \in Nat /\ m + 1 = in + b /\ m + 1 \in 1..Outers BY <3>2
    <3>4. /\ HitsOf(m + 1, k, NoFilter, Of(b)) /\ piece(b) \in Seq(MatchRows)
          /\ Len(piece(b)) = Len(Of(b))
          /\ \A i \in 1..Len(piece(b)) : piece(b)[i] = <<Of(b)[i], m + 1, i>>
      BY <2>1, <2>2, <3>3
    <3>5. MatchedUpTo(m, k, out \o g[b - 1]) BY <3>1
    <3> HIDE DEF m, k, G
    <3>6. MatchedUpTo(m + 1, k, (out \o g[b - 1]) \o piece(b)) BY <3>3, <3>4, <3>5, MatchedNext
    <3>7. (out \o g[b - 1]) \o piece(b) = out \o g[b]
      <4>1. g[b] = g[b - 1] \o piece(b) /\ g[b - 1] \in Seq(MatchRows) /\ piece(b) \in Seq(MatchRows)
        BY <2>2, <2>3, <2>4, <3>2
      <4>2. out \in Seq(MatchRows) BY <2>5
      <4>3. (out \o g[b - 1]) \o piece(b) = out \o (g[b - 1] \o piece(b))
        BY <4>1, <4>2, MatchesRegrouped
      <4> QED BY <4>1, <4>3
    <3> QED BY <3>2, <3>3, <3>6, <3>7 DEF G
  <2> HIDE DEF G
  <2>8. 0..count \subseteq G BY <1>5, <2>6, <2>7, CountUp
  <2>9. count \in 0..count BY <1>5
  <2>10. MatchedUpTo(in + count, k, out \o matches) BY <2>4, <2>8, <2>9 DEF G
  <2>11. matches \in Seq(MatchRows) BY <2>4, <2>9
  <2> DEFINE n == Len(matches)
             rows == [i \in 1..n |-> matches[i][1]]
  <2>12. n \in Nat /\ \A i \in 1..n : matches[i] \in MatchRows BY <2>11
  <2>13. ids = rows /\ SubSeq(ids, 1, n) = rows /\ Len(rows) = n
    <3>1. \A i \in 1..n : matches[i][1] \in RowIds BY <2>12 DEF MatchRows
    <3>2. rows \in Seq(RowIds) /\ Len(rows) = n
      <4> HIDE DEF RowIds
      <4> QED BY <2>12, <3>1
    <3>3. ids = <<>> \o rows BY DEF ResetMultiScan
    <3> HIDE DEF rows, n, ids
    <3>4. ids = rows BY <3>2, <3>3, ConcatEmptySeq
    <3>5. SubSeq(rows, 1, Len(rows)) = rows BY <3>2, SubSeqFull
    <3> QED BY <3>2, <3>4, <3>5
  <2>14. fetched = Filtered(rows, view) BY <2>13 DEF Fetch
  <2>15. \A i \in 1..n : rows[i] = matches[i][1] OBVIOUS
  <2>16. chunk = [i \in 1..n |-> <<IF i <= Len(fetched) THEN fetched[i] ELSE Null, matches[i][2], matches[i][3]>>]
    BY DEF chunk
  <2>17. ~(Len(fetched) < n) BY <1>12 DEF short
  <2>18. Len(fetched) \in Nat
    <3>1. Len(rows) \in Nat BY <2>12, <2>13
    <3> HIDE DEF rows
    <3>2. PICK p, c : Filters(rows, view, Filtered(rows, view), p, c) BY <3>1, FilteredFacts
    <3>3. Len(Filtered(rows, view)) \in Nat BY <3>2 DEF Filters
    <3> QED BY <2>14, <3>3
  <2> HIDE DEF fetched, rows, ids, n
  <2>19. \A i \in 1..n : rows[i] \in view /\ fetched[i] = rows[i]
    BY <2>12, <2>13, <2>14, <2>17, AllLeft
  <2>20. \A i \in 1..n : <<IF i <= Len(fetched) THEN fetched[i] ELSE Null, matches[i][2], matches[i][3]>>
                         = matches[i]
    <3> TAKE i \in 1..n
    <3>1. i <= Len(fetched) BY <2>12, <2>17, <2>18
    <3>2. fetched[i] = matches[i][1] BY <2>15, <2>19
    <3>3. matches[i] = <<matches[i][1], matches[i][2], matches[i][3]>> BY <2>12 DEF MatchRows
    <3> QED BY <3>1, <3>2, <3>3
  <2>21. chunk = matches
    <3>1. matches = [i \in 1..n |-> matches[i]] BY <2>11 DEF n
    <3> QED BY <2>16, <2>20, <3>1
  <2>22. AllSeen(out \o chunk)
    <3>1. \A i \in 1..Len(matches) : matches[i][1] \in view BY <2>15, <2>19 DEF n
    <3>2. /\ Len(out \o matches) = Len(out) + Len(matches)
          /\ Len(out) \in Nat /\ Len(matches) \in Nat
          /\ \A i \in 1..(Len(out) + Len(matches)) :
                (out \o matches)[i] = IF i <= Len(out) THEN out[i] ELSE matches[i - Len(out)]
      <4>1. IsConcat(out, matches, out \o matches) BY <2>5, <2>11, Concatenated
      <4> QED BY <4>1, Zenon DEF IsConcat
    <3> DEFINE all == out \o matches
    <3>3. ASSUME NEW p \in 1..Len(all) PROVE all[p][1] \in view
      <4>1. CASE p <= Len(out)
        <5>1. all[p] = out[p] /\ p \in 1..Len(out) BY <3>2, <4>1
        <5> QED BY <2>5, <5>1 DEF AllSeen
      <4>2. CASE ~(p <= Len(out))
        <5>1. all[p] = matches[p - Len(out)] /\ p - Len(out) \in 1..Len(matches) BY <3>2, <4>2
        <5> QED BY <3>1, <5>1
      <4> QED BY <4>1, <4>2
    <3> QED BY <2>21, <3>3 DEF AllSeen
  <2> QED BY <2>10, <2>21, <2>22 DEF out
<1>13. ~query'.dropped => (MatchedUpTo(query.input, query.q.k, query.out) /\ AllSeen(query.out))'
  <2> SUFFICES ASSUME ~query'.dropped
               PROVE  (MatchedUpTo(query.input, query.q.k, query.out) /\ AllSeen(query.out))'
    OBVIOUS
  <2>1. label' = label /\ code' = code /\ view' = view /\ core' = core /\ tombstones' = tombstones
    BY <1>1
  <2>2. query'.input = in + count /\ query'.q.k = k /\ query'.out = query.out \o chunk BY <1>3, <1>8
  <2>3. MatchedUpTo(in + count, k, query.out \o chunk) /\ AllSeen(query.out \o chunk) BY <1>10, <1>12
  <2>4. MatchedUpTo(query'.input, query'.q.k, query'.out) /\ AllSeen(query'.out) BY <2>2, <2>3
  <2> HIDE DEF k, in
  <2>5. MatchedUpTo(query.input, query.q.k, query.out)'
    <3>1. \A o, l, s, base, n : Matched(o, l, s, base, n) => Matched(o, l, s, base, n)'
      BY <2>1 DEF Matched, InIndex
    <3>2. \A m, l, s : MatchedUpTo(m, l, s) => MatchedUpTo(m, l, s)' BY <3>1 DEF MatchedUpTo
    <3> QED BY <2>4, <3>2
  <2>6. AllSeen(query.out)' BY <2>1, <2>4 DEF AllSeen
  <2> QED BY <2>5, <2>6
<1>14. JoinOf(query)'
  <2>1. query'.q \in Queries /\ query'.limit = query'.q.k /\ query'.q.k # 0 BY <1>3, <1>8
  <2>2. query'.input \in 0..Outers /\ (query'.at = "joined" => query'.input = Outers)
    BY <1>5, <1>8, <1>11
  <2> QED BY <1>9, <1>10, <1>13, <2>1, <2>2 DEF JoinOf
<1> QED BY <1>11, <1>14, Zenon DEF StageInv

LEMMA OwnStage ==
    ASSUME StageInv, NotStarted, UNCHANGED <<labelled, query>>
    PROVE  StageInv'
<1>1. Rewritten(query)' = Rewritten(query) BY DEF Rewritten
<1>2. query' = query /\ query.at \in {"idle", "planned"} BY DEF NotStarted
<1>3. \/ query.at = "idle"
      \/ /\ query.at = "planned" /\ query.plan = "join"
         /\ query.q \in Queries /\ query.limit = query.q.k /\ query.q.k # 0
      \/ query.at = "planned" /\ query.plan = "index" /\ Rewritten(query)
      \/ query.at = "planned" /\ query.plan = "table" /\ query.q \in Queries
  BY <1>2 DEF StageInv
<1> QED BY <1>1, <1>2, <1>3 DEF StageInv

LEMMA OtherStage ==
    ASSUME StageInv, IndexKept, UNCHANGED <<label, code, view, labelled, query>>
    PROVE  StageInv'
<1>1. /\ ScanOf(query) => ScanOf(query)'
      /\ ScanEnd(query) => ScanEnd(query)'
      /\ Rewritten(query) => Rewritten(query)'
  BY ScanStays
<1>2. JoinOf(query) => JoinOf(query)' BY JoinStays
<1>3. query' = query /\ view' = view OBVIOUS
<1> QED BY <1>1, <1>2, <1>3 DEF StageInv

LEMMA StepStageInv == QueryInv /\ [QueryNext]_queryVars => StageInv'
<1> SUFFICES ASSUME TableInv, StageInv, [QueryNext]_queryVars PROVE StageInv' BY DEF QueryInv
<1>1. ASSUME NEW r \in RowIds, OwnInsert(r) PROVE StageInv'
  BY <1>1, OwnStage DEF OwnInsert, Change
<1>2. ASSUME NEW r \in RowIds, OwnDelete(r) PROVE StageInv'
  BY <1>2, OwnStage DEF OwnDelete, Change
<1>3. ASSUME NEW r \in RowIds, NEW l \in SomeLabels, OwnUpdate(r, l) PROVE StageInv'
  BY <1>3, OwnStage DEF OwnUpdate, Change
<1>4. ASSUME NEW r \in RowIds, OtherInsert(r) PROVE StageInv'
  <2>1. IndexKept BY <1>4, OtherInsertKept
  <2>2. UNCHANGED <<label, code, view, labelled, query>> BY <1>4 DEF OtherInsert, Change
  <2> QED BY <2>1, <2>2, OtherStage
<1>5. ASSUME NEW r \in RowIds, OtherDelete(r) PROVE StageInv'
  <2>1. IndexKept BY <1>5, OtherDeleteKept
  <2>2. UNCHANGED <<label, code, view, labelled, query>> BY <1>5 DEF OtherDelete, Change
  <2> QED BY <2>1, <2>2, OtherStage
<1>6. ASSUME NEW q \in Queries, NEW s \in Sessions, Plan(q, s) PROVE StageInv' BY <1>6, PlanStage
<1>7. CASE Open BY <1>7, OpenStage
<1>8. CASE Execute BY <1>8, ExecuteStage
<1>9. CASE JoinExecute BY <1>9, JoinStage
<1>10. CASE EndQuery
  <2>1. query' = NoQuery BY <1>10 DEF EndQuery
  <2> QED BY <2>1 DEF NoQuery, StageInv
<1>11. CASE UNCHANGED queryVars
  <2>1. IndexKept BY <1>11 DEF queryVars, IndexKept, InIndex, IndexLabel, RowOf
  <2>2. UNCHANGED <<label, code, view, labelled, query>> BY <1>11 DEF queryVars
  <2> QED BY <2>1, <2>2, OtherStage
<1> QED BY <1>1, <1>2, <1>3, <1>4, <1>5, <1>6, <1>7, <1>8, <1>9, <1>10, <1>11 DEF QueryNext

LEMMA QueryInvStays == QuerySpec => []QueryInv
<1>1. QueryInv /\ [QueryNext]_queryVars => QueryInv' BY StepTableInv, StepStageInv DEF QueryInv
<1> QED BY InitQueryInv, <1>1, PTL DEF QuerySpec

LEMMA ExplainedNow == QueryInv => AnswerIsExplained
<1> DEFINE kept == Kept(query.q, query.found)
<1> SUFFICES ASSUME TableInv, StageInv, query.at = "done"
             PROVE  /\ kept \subseteq Wanted(query.q)
                    /\ query.plan = "index" => \A r \in Wanted(query.q) \ kept : Excused(r)
                    /\ query.plan = "table" => Answer = TopN(query.q, Wanted(query.q))
  BY DEF AnswerIsExplained, QueryInv
<1>1. Wanted(query.q) = {r \in view : PulledUp(query.q, r)} BY DEF Wanted, PulledUp
<1>2. kept = {r \in query.found : PulledUp(query.q, r)} BY DEF Kept
<1>3. CASE query.plan = "table" /\ query.found = view
  <2>1. kept = Wanted(query.q) BY <1>1, <1>2, <1>3
  <2>2. query.plan # "index" BY <1>3
  <2> QED BY <2>1, <2>2 DEF Answer
<1>4. CASE query.plan = "index" /\ ScanOf(query) /\ ScanEnd(query)
  <2>1. query.found \subseteq view BY <1>4 DEF ScanOf
  <2>2. kept \subseteq Wanted(query.q) BY <1>1, <1>2, <2>1
  <2>3. ASSUME NEW r \in Wanted(query.q) \ kept, ~Excused(r) PROVE FALSE
    <3>1. r \in view /\ PulledUp(query.q, r) /\ r \notin query.found BY <1>1, <1>2, <2>3
    <3>2. /\ InIndex(r) /\ (Active(query.filter) => IndexLabel(r) = {label[r]}) /\ ~query.cut
          /\ ~(/\ Len(query.hits) = query.limit
               /\ \A i \in DOMAIN query.hits : Lut(0, code[query.hits[i]]) <= Lut(0, code[r]))
      BY <2>3 DEF Excused
    <3>3. DOMAIN query.hits = 1..Len(query.hits)
      <4>1. query.hits \in Seq(RowIds) BY <1>4 DEF ScanOf
      <4> HIDE DEF RowIds
      <4> QED BY <4>1
    <3>4. ~CrowdedOut(query, r) BY <3>2, <3>3 DEF CrowdedOut
    <3>5. HitByScan(query, r) BY <1>4, <3>1, <3>2, <3>4 DEF ScanOf, Covered
    <3> QED BY <1>4, <3>1, <3>2, <3>5 DEF HitByScan, ScanEnd
  <2>4. query.plan # "table" BY <1>4
  <2> QED BY <2>2, <2>3, <2>4
<1> QED BY <1>3, <1>4 DEF StageInv

\* A query that is answered through the index answers with rows that satisfy it,
\* and leaves out a wanted row only for one of Excused's reasons, for any table,
\* labels, predicates, limits, multiples and commits of others (IndexHits, Open
\* and Execute).
THEOREM AnswerExplained == QuerySpec => []AnswerIsExplained
BY QueryInvStays, ExplainedNow, PTL

-----------------------------------------------------------------------------
(* A row's matches are where they were put, so the filter that picks them  *)
(* out leaves them in their order.                                         *)

MatchesOf(out, o) == {t \in ToSet(out) : t[2] = o}

IsRun(out, o, base, n) ==
    base + n <= Len(out) /\ \A p \in 1..Len(out) : out[p][2] = o <=> p \in (base + 1)..(base + n)

LEMMA OwnMatches ==
    ASSUME NEW out \in Seq(MatchRows), NEW o, NEW base \in Nat, NEW n \in Nat, IsRun(out, o, base, n)
    PROVE  /\ Len(Filtered(out, MatchesOf(out, o))) = n
           /\ \A i \in 1..n : Filtered(out, MatchesOf(out, o))[i] = out[base + i]
<1> DEFINE W == MatchesOf(out, o)
           N == Len(out)
           S == {p \in 1..N : out[p] \in W}
           at == InOrder(S)
<1>0. N \in Nat /\ DOMAIN out = 1..N
  <2> HIDE DEF MatchRows
  <2> QED OBVIOUS
<1>1. \A p \in 1..N : out[p] \in W <=> out[p][2] = o BY <1>0 DEF ToSet, MatchesOf
<1>2. \A p \in (base + 1)..(base + n) : p \in 1..N
  <2> HIDE DEF MatchRows
  <2> QED BY <1>0 DEF IsRun
<1> HIDE DEF W
<1>3. S = (base + 1)..(base + n) BY <1>1, <1>2 DEF IsRun
<1>4. Filtered(out, W) = [j \in 1..Len(at) |-> out[at[j]]] BY DEF Filtered
<1> HIDE DEF S
<1>5. Len(at) = n /\ \A i \in 1..n : at[i] = base + i BY <1>3, IntervalInOrder
<1> HIDE DEF at
<1>6. Filtered(out, W) = [j \in 1..n |-> out[at[j]]] BY <1>4, <1>5
<1>7. Len(Filtered(out, W)) = n BY <1>6
<1>8. \A i \in 1..n : Filtered(out, W)[i] = out[base + i] BY <1>5, <1>6
<1> QED BY <1>7, <1>8 DEF W

LEMMA PairsNow == QueryInv => JoinPairs
<1> DEFINE mine(o) == Filtered(query.out, MatchesOf(query.out, o))
           T == {r \in view : InIndex(r)}
           k == query.q.k
<1> SUFFICES ASSUME TableInv, StageInv, query.at = "joined", ~query.dropped, NEW o \in 1..Outers
             PROVE  /\ Len(mine(o)) <= k
                    /\ Len(mine(o)) >= Lesser(k, Cardinality(T))
                    /\ \A i \in 1..Len(mine(o)) : mine(o)[i][1] \in view /\ mine(o)[i][3] = i
                    /\ \A r \in view, i \in 1..Len(mine(o)) :
                          InIndex(r) /\ (\A j \in 1..i : mine(o)[j][1] # r) =>
                              Lut(o, code[mine(o)[i][1]]) <= Lut(o, code[r])
  BY DEF JoinPairs, QueryInv, MatchesOf
<1>1. JoinOf(query) BY DEF StageInv
<1>2. query.input = Outers /\ MatchedUpTo(Outers, k, query.out) /\ AllSeen(query.out) /\ k \in Nat
  <2>1. query.q \in Queries BY <1>1 DEF JoinOf
  <2>2. query.q.k \in Nat BY <2>1, QueryAssumption
  <2>3. query.input = Outers BY <1>1 DEF JoinOf
  <2>4. MatchedUpTo(query.input, query.q.k, query.out) /\ AllSeen(query.out) BY <1>1 DEF JoinOf
  <2> QED BY <2>2, <2>3, <2>4
<1> DEFINE out == query.out
<1>3. out \in Seq(MatchRows) BY <1>2 DEF MatchedUpTo
<1>4. PICK base, n \in Nat : Matched(o, k, out, base, n) BY <1>2 DEF MatchedUpTo
<1>5. /\ base + n <= Len(out) /\ n <= k
      /\ \A p \in 1..Len(out) : out[p][2] = o <=> p \in (base + 1)..(base + n)
      /\ \A i \in 1..n : out[base + i][3] = i
      /\ n = k \/ \A r \in view : InIndex(r) => \E i \in 1..n : out[base + i][1] = r
      /\ \A r \in view, i \in 1..n :
            InIndex(r) /\ (\A j \in 1..i : out[base + j][1] # r) =>
                Lut(o, code[out[base + i][1]]) <= Lut(o, code[r])
  BY <1>4 DEF Matched
<1>6. Len(mine(o)) = n /\ \A i \in 1..n : mine(o)[i] = out[base + i]
  <2> DEFINE theirs == Filtered(out, MatchesOf(out, o))
  <2>1. Len(theirs) = n /\ \A i \in 1..n : theirs[i] = out[base + i]
    <3>1. IsRun(out, o, base, n) BY <1>5 DEF IsRun
    <3> HIDE DEF out, MatchRows
    <3> QED BY <1>3, <1>4, <3>1, OwnMatches
  <2> QED BY <2>1
<1>7. Len(out) \in Nat
  <2> HIDE DEF MatchRows
  <2> QED BY <1>3
<1>8. \A i \in 1..n : out[base + i][1] \in view
  <2> TAKE i \in 1..n
  <2>1. base + i \in 1..Len(out)
    <3> HIDE DEF out
    <3> QED BY <1>5, <1>7
  <2> QED BY <1>2, <2>1 DEF AllSeen
<1> HIDE DEF out, k
<1>9. n >= Lesser(k, Cardinality(T))
  <2>1. CASE n = k
    <3>1. Lesser(k, Cardinality(T)) = k \/ (Lesser(k, Cardinality(T)) = Cardinality(T) /\ ~(k <= Cardinality(T)))
      BY DEF Lesser
    <3>2. Cardinality(T) \in Nat
      <4> DEFINE rows == core.rows
                 R == {rows[i] : i \in 1..Len(rows)}
      <4>1. rows \in Seq(RowIds) BY DEF TableInv, WellBuilt
      <4>2. Len(rows) \in Nat /\ DOMAIN rows = 1..Len(rows)
        <5> HIDE DEF rows, RowIds
        <5> QED BY <4>1
      <4>3. T \subseteq R BY <4>2 DEF InIndex, ToSet
      <4> HIDE DEF rows
      <4>4. IsFiniteSet(1..Len(rows)) BY <4>2, FS_Interval
      <4>5. IsFiniteSet(R) BY <4>4, ImageFinite
      <4> HIDE DEF R, T
      <4>6. IsFiniteSet(T) BY <4>3, <4>5, FS_Subset
      <4> QED BY <4>6, FS_CardinalityType
    <3> HIDE DEF T
    <3> QED BY <1>2, <2>1, <3>1, <3>2
  <2>2. CASE \A r \in view : InIndex(r) => \E i \in 1..n : out[base + i][1] = r
    <3> DEFINE first == [i \in 1..n |-> out[base + i][1]]
               I == {first[i] : i \in 1..n}
    <3>1. IsFiniteSet(1..n) /\ Cardinality(1..n) = n
      <4>1. Cardinality(1..n) = IF 1 > n THEN 0 ELSE n - 1 + 1 BY FS_Interval
      <4> QED BY <4>1, FS_Interval
    <3>2. T \subseteq I BY <2>2
    <3>3. IsFiniteSet(I) /\ Cardinality(I) <= Cardinality(1..n)
      <4>1. first \in Surjection(1..n, I) BY DEF Surjection
      <4> HIDE DEF first, I
      <4> QED BY <3>1, <4>1, FS_Surjection
    <3> HIDE DEF I, T
    <3>4. IsFiniteSet(T) /\ Cardinality(T) <= Cardinality(I) BY <3>2, <3>3, FS_Subset
    <3>5. Cardinality(T) \in Nat /\ Cardinality(I) \in Nat BY <3>3, <3>4, FS_CardinalityType
    <3> QED BY <1>2, <3>1, <3>3, <3>4, <3>5 DEF Lesser
  <2> QED BY <1>5, <2>1, <2>2
<1>10. \A i \in 1..n : mine(o)[i][1] = out[base + i][1] /\ mine(o)[i][3] = i BY <1>5, <1>6
<1> DEFINE m == mine(o)
<1>11. Len(m) = n /\ \A i \in 1..n : m[i][1] = out[base + i][1] /\ m[i][3] = i BY <1>6, <1>10
<1> HIDE DEF m
<1>12. \A r \in view, i \in 1..n :
          InIndex(r) /\ (\A j \in 1..i : m[j][1] # r) => Lut(o, code[m[i][1]]) <= Lut(o, code[r])
  <2> SUFFICES ASSUME NEW r \in view, NEW i \in 1..n, InIndex(r), \A j \in 1..i : m[j][1] # r
               PROVE  Lut(o, code[m[i][1]]) <= Lut(o, code[r])
    OBVIOUS
  <2>1. \A j \in 1..i : j \in 1..n OBVIOUS
  <2>2. ASSUME NEW j \in 1..i PROVE out[base + j][1] # r
    <3>1. m[j][1] = out[base + j][1] BY <1>11, <2>1
    <3> QED BY <3>1
  <2>3. Lut(o, code[out[base + i][1]]) <= Lut(o, code[r]) BY <1>5, <2>2
  <2> QED BY <1>11, <2>3
<1>13. \A i \in 1..n : m[i][1] \in view /\ m[i][3] = i BY <1>8, <1>11
<1>14. Len(m) <= k /\ Len(m) >= Lesser(k, Cardinality(T)) BY <1>5, <1>9, <1>11
<1> QED BY <1>11, <1>12, <1>13, <1>14 DEF m

\* A join that dropped no row has given every row of the other side its own
\* nearest rows, nearest first and numbered from 1, for any number of rows, any
\* size of the chunk and any k that divides it or not (JoinExecute).
THEOREM EveryOuterRowPaired == QuerySpec => []JoinPairs
BY QueryInvStays, PairsNow, PTL

-----------------------------------------------------------------------------
(* The nearest rows in their order are the first of all rows in theirs, but *)
(* for rows at the same distance.                                           *)

Behind(b, n, x, i) == \A l \in 1..n : b[l] = x => i <= l

LEMMA OneIsBehind ==
    ASSUME NEW i \in Nat, i # 0, NEW a, OnceEach(a, i), NEW n \in Nat, NEW b
    PROVE  \E j \in 1..i : Behind(b, n, a[j], i)
<1> SUFFICES ASSUME \A j \in 1..i : \E l \in 1..n : b[l] = a[j] /\ l < i PROVE FALSE
  BY DEF Behind
<1> DEFINE at == [j \in 1..i |-> CHOOSE l \in 1..n : b[l] = a[j] /\ l < i]
<1>1. \A j \in 1..i : at[j] \in 1..n /\ b[at[j]] = a[j] /\ at[j] < i OBVIOUS
<1>2. \A j \in 1..i : at[j] \in 1..(i - 1)
  <2> HIDE DEF at
  <2> QED BY <1>1
<1>3. at \in [1..i -> 1..(i - 1)] BY <1>2
<1> HIDE DEF at
<1>4. \A j, l \in 1..i : at[j] = at[l] => j = l BY <1>1 DEF OnceEach
<1>5. at \in Injection(1..i, 1..(i - 1)) BY <1>3, <1>4 DEF Injection, IsInjective
<1>6. /\ IsFiniteSet(1..(i - 1))
      /\ Cardinality(1..i) = IF 1 > i THEN 0 ELSE i - 1 + 1
      /\ Cardinality(1..(i - 1)) = IF 1 > i - 1 THEN 0 ELSE i - 1 - 1 + 1
  BY FS_Interval
<1>7. Cardinality(1..i) = i /\ Cardinality(1..(i - 1)) = i - 1 BY <1>6
<1>8. Cardinality(1..i) <= Cardinality(1..(i - 1)) BY <1>5, <1>6, FS_Injection
<1> QED BY <1>7, <1>8

LEMMA NearestComeFirst ==
    ASSUME NEW S, NEW key, \A x \in S : key[x] \in Int, NEW n \in Nat, NEW s, IsSorting(S, key, s, n),
           NEW T \in SUBSET S, \A x \in T, y \in S \ T : key[x] <= key[y],
           NEW own, \A x \in T : own[x] = key[x], NEW m \in Nat, NEW t, IsSorting(T, own, t, m),
           NEW i \in 1..m, m <= n
    PROVE  key[t[i]] = key[s[i]]
<1>1. /\ s \in [1..n -> S] /\ OnceEach(s, n) /\ InKeyOrder(s, n, key)
      /\ \A x \in S : \E l \in 1..n : s[l] = x
  BY DEF IsSorting
<1>2. /\ t \in [1..m -> T] /\ OnceEach(t, m) /\ InKeyOrder(t, m, own)
      /\ \A x \in T : \E l \in 1..m : t[l] = x
  BY DEF IsSorting
<1>3. i \in 1..n /\ i \in Nat /\ i # 0 /\ \A j \in 1..i : j \in 1..m /\ j \in 1..n OBVIOUS
<1>4. \A l \in 1..n : s[l] \in S /\ key[s[l]] \in Int BY <1>1
<1>5. \A l \in 1..m : t[l] \in T /\ own[t[l]] = key[t[l]] /\ key[t[l]] \in Int BY <1>2
<1>6. \A j, l \in 1..n : j <= l => key[s[j]] <= key[s[l]]
  <2> TAKE j, l \in 1..n
  <2>1. CASE j = l BY <1>4, <2>1
  <2>2. CASE j # l BY <1>1, <2>2 DEF InKeyOrder
  <2> QED BY <2>1, <2>2
<1>7. \A j, l \in 1..m : j <= l => key[t[j]] <= key[t[l]]
  <2> TAKE j, l \in 1..m
  <2>1. CASE j = l BY <1>5, <2>1
  <2>2. CASE j # l BY <1>2, <1>5, <2>2 DEF InKeyOrder
  <2> QED BY <2>1, <2>2
<1>8. ASSUME key[t[i]] < key[s[i]] PROVE FALSE
  <2>1. OnceEach(t, i) BY <1>2, <1>3 DEF OnceEach
  <2>2. PICK j \in 1..i : Behind(s, n, t[j], i) BY <1>3, <2>1, OneIsBehind
  <2>3. j \in 1..m /\ j <= i /\ t[j] \in S BY <1>3, <1>5
  <2>4. PICK l \in 1..n : s[l] = t[j] BY <1>1, <2>3
  <2>5. key[t[j]] <= key[t[i]] BY <1>7, <2>3
  <2>6. key[s[i]] <= key[s[l]] BY <1>3, <1>6, <2>2, <2>4 DEF Behind
  <2>7. key[s[i]] <= key[t[j]] BY <2>4, <2>6
  <2>8. key[s[i]] \in Int /\ key[t[i]] \in Int /\ key[t[j]] \in Int BY <1>3, <1>4, <1>5, <2>3
  <2> QED BY <1>8, <2>5, <2>7, <2>8
<1>9. ASSUME key[s[i]] < key[t[i]] PROVE FALSE
  <2>1. OnceEach(s, i) BY <1>1, <1>3 DEF OnceEach
  <2>2. PICK j \in 1..i : Behind(t, m, s[j], i) BY <1>3, <2>1, OneIsBehind
  <2>3. j \in 1..n /\ j <= i /\ s[j] \in S BY <1>3, <1>4
  <2>4. key[s[j]] <= key[s[i]] BY <1>3, <1>6, <2>3
  <2>5. key[s[i]] \in Int /\ key[t[i]] \in Int /\ key[s[j]] \in Int BY <1>3, <1>4, <1>5, <2>3
  <2>6. key[s[j]] < key[t[i]] BY <1>9, <2>4, <2>5
  <2>7. s[j] \in T
    <3>1. s[j] \notin T => key[t[i]] <= key[s[j]] BY <1>5, <2>3
    <3> QED BY <2>5, <2>6, <3>1
  <2>8. PICK l \in 1..m : t[l] = s[j] BY <1>2, <2>7
  <2>9. key[t[i]] <= key[t[l]] BY <1>7, <2>2, <2>8 DEF Behind
  <2>10. key[t[i]] <= key[s[j]] BY <2>8, <2>9
  <2> QED BY <2>5, <2>6, <2>10
<1>10. key[t[i]] \in Int /\ key[s[i]] \in Int BY <1>3, <1>4, <1>5
<1> QED BY <1>8, <1>9, <1>10

LEMMA NoWhereNoFilter ==
    ASSUME NEW l
    PROVE  ~Active(NoFilter) /\ TryExtractLabelFilter(l, <<>>) = NoFilter
<1> DEFINE U == {p \in ToSet(<<>>) : p.col = "label" /\ Active(ConstantFilterToLabel(p))}
           usable == Filtered(<<>>, U)
           partials == [i \in 1..Len(usable) |-> ConstantFilterToLabel(usable[i])]
<1>1. \A W : Len(Filtered(<<>>, W)) = 0
  <2> TAKE W
  <2> DEFINE S == {i \in 1..Len(<<>>) : <<>>[i] \in W}
             at == InOrder(S)
  <2>1. S = {} OBVIOUS
  <2> HIDE DEF S
  <2>2. IsFiniteSet(S) /\ Cardinality(S) = 0 /\ S \subseteq Int BY <2>1, FS_EmptySet
  <2>3. Ascends(S, at, Cardinality(S)) BY <2>2, InOrderFacts
  <2>4. Len(at) = 0 BY <2>2, <2>3 DEF Ascends
  <2> HIDE DEF at
  <2>5. Filtered(<<>>, W) = [j \in 1..Len(at) |-> <<>>[at[j]]] BY DEF Filtered, at, S
  <2>6. Filtered(<<>>, W) = <<>> BY <2>4, <2>5
  <2> QED BY <2>6
<1>2. Len(usable) = 0 BY <1>1
<1> HIDE DEF usable
<1>3. partials = <<>> BY <1>2
<1>4. TryExtractLabelFilter(l, <<>>) = NoFilter BY <1>3 DEF TryExtractLabelFilter, usable
<1> QED BY <1>4 DEF Active, NoFilter

DistancesOf(q, rows) == [r \in rows |-> Exact(q.fn, r)]

LEMMA TopOfAll ==
    ASSUME NEW q \in Queries, q.ascending = TRUE, q.offset = 0, NEW S \in SUBSET RowIds, IsFiniteSet(S)
    PROVE  /\ IsSorting(S, DistancesOf(q, S), Ordered(q, S), Cardinality(S))
           /\ Len(TopN(q, S)) = Lesser(q.k, Cardinality(S))
           /\ \A i \in 1..Len(TopN(q, S)) : TopN(q, S)[i] = Ordered(q, S)[i]
<1> DEFINE key == DistancesOf(q, S)
           sorted == Ordered(q, S)
           n == Cardinality(S)
           m == Lesser(q.k, n)
<1>1. \A r \in S : key[r] \in Int BY QueryAssumption DEF DistancesOf, RowIds
<1>2. sorted = Sorted(S, key) BY DEF Ordered, DistancesOf
<1> HIDE DEF key
<1>3. IsSorting(S, key, sorted, n) BY <1>1, <1>2, SortedFacts
<1> HIDE DEF sorted
<1>4. n \in Nat /\ Len(sorted) = n /\ sorted \in [1..n -> S] BY <1>3 DEF IsSorting
<1>5. q.k \in Nat BY QueryAssumption
<1>6. m \in Nat /\ m <= n BY <1>4, <1>5 DEF Lesser
<1>7. TopN(q, S) = SubSeq(sorted, 1, m)
  <2>1. q.offset + 1 = 1 /\ q.offset + q.k = q.k BY <1>5
  <2> QED BY <1>4, <2>1 DEF TopN, sorted
<1> HIDE DEF n, m
<1>8. \A i \in 1..m : sorted[i] \in S BY <1>4, <1>6
<1>9. /\ Len(SubSeq(sorted, 1, m)) = IF 1 <= m THEN m - 1 + 1 ELSE 0
      /\ \A i \in 1..(m - 1 + 1) : SubSeq(sorted, 1, m)[i] = sorted[1 + i - 1]
  BY <1>6, <1>8, SubSeqProperties
<1>10. Len(SubSeq(sorted, 1, m)) = m BY <1>6, <1>9
<1>11. \A i \in 1..m : SubSeq(sorted, 1, m)[i] = sorted[i]
  <2>1. \A i \in 1..m : i \in 1..(m - 1 + 1) /\ 1 + i - 1 = i BY <1>6
  <2> QED BY <1>9, <2>1
<1> QED BY <1>3, <1>7, <1>10, <1>11 DEF key, sorted, n, m

LEMMA QuietNow == QueryInv => QuietAnswerIsExact
<1> DEFINE q == query.q
           exact == TopN(q, Wanted(q))
<1> SUFFICES ASSUME TableInv, StageInv, query.at = "done", events = 0, q.offset = 0,
                    view \subseteq ToSet(core.rows),
                    \A r, s \in view :
                       Exact(q.fn, r) < Exact(q.fn, s) => Lut(0, code[r]) < Lut(0, code[s]),
                    q.where = <<>> \/ query.plan = "table"
             PROVE  /\ Len(Answer) = Len(exact)
                    /\ \A i \in 1..Len(exact) : Exact(q.fn, Answer[i]) = Exact(q.fn, exact[i])
  BY DEF QuietAnswerIsExact, QueryInv
<1>1. Wanted(q) = {r \in view : PulledUp(q, r)} BY DEF Wanted, PulledUp
<1>2. CASE query.plan = "table" /\ query.found = view
  <2>1. Kept(q, query.found) = Wanted(q) BY <1>1, <1>2 DEF Kept
  <2>2. Answer = exact BY <2>1 DEF Answer
  <2> QED BY <2>2
<1>3. CASE query.plan = "index" /\ ScanOf(query) /\ ScanEnd(query)
  <2> DEFINE H == query.found
             hits == query.hits
             d(r) == Exact(q.fn, r)
  <2>1. q.where = <<>> BY <1>3
  <2>2. \A r : PulledUp(q, r) BY <2>1 DEF PulledUp
  <2>3. Wanted(q) = view /\ Answer = TopN(q, H) BY <1>1, <2>2 DEF Answer, Kept
  <2>4. view = Built /\ ToSet(core.rows) \subseteq Built /\ tombstones = {} BY DEF TableInv
  <2>5. /\ q \in Queries /\ query.limit \in Nat /\ q.k <= query.limit /\ q.ascending
        /\ query.filter = NoFilter \/ query.filter = TryExtractLabelFilter(labelled, q.where)
    BY <1>3 DEF ScanOf, Rewritten
  <2>6. ~Active(query.filter) BY <2>1, <2>5, NoWhereNoFilter
  <2>7. /\ hits \in Seq(RowIds) /\ Len(hits) <= query.limit /\ OnceEach(hits, Len(hits))
        /\ \A i \in 1..Len(hits) : hits[i] \in view
        /\ query.found = {hits[i] : i \in 1..query.pos} \cap view /\ query.pos \in 0..Len(hits)
        /\ Covered(query)
    BY <1>3, <2>4 DEF ScanOf
  <2>8. \A i \in 1..Len(hits) : hits[i] \in H BY <1>3, <2>7 DEF ScanEnd
  <2> DEFINE N == Len(hits)
  <2>9. N \in Nat
    <3> HIDE DEF RowIds
    <3> QED BY <2>7
  <2>10. H = {hits[i] : i \in 1..N}
    <3>1. \A i \in 1..query.pos : i \in 1..N BY <2>7, <2>9
    <3> QED BY <2>7, <2>8, <3>1
  <2> HIDE DEF hits, H
  <2>11. IsFiniteSet(H) /\ Cardinality(H) = N
    <3> DEFINE f == [i \in 1..N |-> hits[i]]
    <3>1. f \in Bijection(1..N, H) BY <2>7, <2>10 DEF OnceEach, Bijection, Injection, IsInjective, Surjection
    <3>2. IsFiniteSet(1..N) /\ Cardinality(1..N) = IF 1 > N THEN 0 ELSE N - 1 + 1 BY <2>9, FS_Interval
    <3> HIDE DEF f, N
    <3>3. IsFiniteSet(H) /\ Cardinality(H) = Cardinality(1..N) BY <3>1, <3>2, FS_Bijection DEF ExistsBijection
    <3> QED BY <2>9, <3>2, <3>3
  <2>12. H \subseteq view /\ view \subseteq RowIds /\ IsFiniteSet(view)
    BY <2>4, <2>7, <2>10, PlanAssumption DEF TableInv
  <2>13. Cardinality(H) <= Cardinality(view) /\ Cardinality(view) \in Nat
         /\ (Cardinality(H) = Cardinality(view) => H = view)
    BY <2>12, FS_Subset, FS_CardinalityType
  <2>14. q.k \in Nat /\ q.ascending = TRUE /\ \A r \in RowIds : d(r) \in Int
    BY <2>5, QueryAssumption DEF RowIds
  <2>15. \A r \in view \ H : /\ N = query.limit
                              /\ \A i \in 1..N : Lut(0, code[hits[i]]) <= Lut(0, code[r])
    <3> TAKE r \in view \ H
    <3>1. InIndex(r) BY <2>4 DEF InIndex
    <3>2. HitByScan(query, r) \/ CrowdedOut(query, r) BY <2>2, <2>6, <2>7, <3>1 DEF Covered
    <3>3. ~HitByScan(query, r) BY <2>10 DEF HitByScan, hits
    <3> QED BY <3>2, <3>3 DEF CrowdedOut, hits
  <2>16. \A x \in H, r \in view \ H : d(x) <= d(r)
    <3> TAKE x \in H, r \in view \ H
    <3>1. PICK i \in 1..N : hits[i] = x BY <2>10
    <3>2. Lut(0, code[x]) <= Lut(0, code[r]) BY <2>15, <3>1
    <3>3. Lut(0, code[x]) \in Int /\ Lut(0, code[r]) \in Int
      <4>1. 0 \in 0..Outers BY PlanAssumption
      <4> QED BY <2>12, <4>1 DEF TableInv
    <3>4. ~(d(r) < d(x)) BY <2>12, <3>2, <3>3
    <3> QED BY <2>12, <2>14, <3>4
  <2> HIDE DEF N
  <2>17. Lesser(q.k, Cardinality(H)) = Lesser(q.k, Cardinality(view))
    <3>1. CASE H = view BY <3>1
    <3>2. CASE \E r \in view \ H : TRUE
      <4>1. Cardinality(H) = query.limit BY <2>11, <2>15, <3>2
      <4> QED BY <2>5, <2>13, <2>14, <4>1 DEF Lesser
    <3> QED BY <2>12, <3>1, <3>2
  <2> DEFINE all == DistancesOf(q, view)
             own == DistancesOf(q, H)
  <2>18. (\A r \in view : all[r] = d(r)) /\ \A r \in H : own[r] = d(r) BY DEF DistancesOf
  <2>19. /\ IsSorting(H, own, Ordered(q, H), Cardinality(H))
         /\ Len(TopN(q, H)) = Lesser(q.k, Cardinality(H))
         /\ \A i \in 1..Len(TopN(q, H)) : TopN(q, H)[i] = Ordered(q, H)[i]
    BY <2>5, <2>11, <2>12, <2>14, TopOfAll
  <2>20. /\ IsSorting(view, all, Ordered(q, view), Cardinality(view))
         /\ Len(TopN(q, view)) = Lesser(q.k, Cardinality(view))
         /\ \A i \in 1..Len(TopN(q, view)) : TopN(q, view)[i] = Ordered(q, view)[i]
    BY <2>5, <2>12, <2>14, TopOfAll
  <2> HIDE DEF all, own
  <2> DEFINE m == Cardinality(H)
             n == Cardinality(view)
             t == Ordered(q, H)
             s == Ordered(q, view)
             top == Lesser(q.k, m)
  <2>21. m \in Nat /\ n \in Nat /\ m <= n BY <2>9, <2>11, <2>13
  <2>22. /\ \A r \in view : all[r] \in Int
         /\ \A r \in H : own[r] = all[r]
         /\ \A x \in H, r \in view \ H : all[x] <= all[r]
    BY <2>12, <2>14, <2>16, <2>18
  <2>23. top \in Nat /\ top <= m BY <2>14, <2>21 DEF Lesser
  <2>24. IsSorting(H, own, t, m) /\ IsSorting(view, all, s, n) BY <2>19, <2>20
  <2>25. \A i \in 1..m : t[i] \in H BY <2>24 DEF IsSorting
  <2>26. \A i \in 1..n : s[i] \in view BY <2>24 DEF IsSorting
  <2>27. Len(TopN(q, H)) = top /\ Len(TopN(q, view)) = top BY <2>17, <2>19, <2>20
  <2> HIDE DEF m, n, t, s, top
  <2>28. \A i \in 1..m : all[t[i]] = all[s[i]]
    <3> TAKE i \in 1..m
    <3> QED BY <2>12, <2>21, <2>22, <2>24, NearestComeFirst
  <2>29. \A i \in 1..top : d(TopN(q, H)[i]) = d(TopN(q, view)[i])
    <3> TAKE i \in 1..top
    <3>1. i \in 1..m /\ i \in 1..n BY <2>21, <2>23
    <3>2. TopN(q, H)[i] = t[i] /\ TopN(q, view)[i] = s[i] BY <2>19, <2>20, <2>27 DEF t, s
    <3>3. t[i] \in view /\ s[i] \in view BY <2>12, <2>25, <2>26, <3>1
    <3>4. all[t[i]] = all[s[i]] BY <2>28, <3>1
    <3> QED BY <2>18, <3>2, <3>3, <3>4
  <2> QED BY <2>3, <2>27, <2>29
<1> QED BY <1>2, <1>3 DEF StageInv

\* A quiet query answers exactly: with no change to the table and codes in the
\* order of the distances, the answer's distances are those of the table's own
\* top k, for any rows, k, rerank multiple, size of a chunk and ties (Plan, Open,
\* Execute, TopN).
THEOREM QuietAnswersExact == QuerySpec => []QuietAnswerIsExact
BY QueryInvStays, QuietNow, PTL

=============================================================================
