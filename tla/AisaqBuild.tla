----------------------------- MODULE AisaqBuild -----------------------------
(***************************************************************************)
(* Parallel construction of the AiSAQ Vamana graph during CREATE INDEX:    *)
(* AiSaqIndexConstructionEvent schedules one task per disjoint row range,  *)
(* and every task inserts its rows with AiSaqCore::InsertBuild.            *)
(*                                                                         *)
(* A task searches the graph WITHOUT a lock, reading neighbour lists word  *)
(* by word while other tasks rewrite them; it then writes the new node's   *)
(* own list, also without a lock, and finally adds the back-edges, one     *)
(* target at a time under that target's NodeSpinlock.  A list in memory is *)
(* a count and R slots; every store to one of them is a step of its own.   *)
(***************************************************************************)
EXTENDS Integers, Sequences, FiniteSets, RobustPrune

CONSTANTS N,              \* collection->Count(), the rows to index (the
                          \* plan's IS NOT NULL filter has dropped the others)
          NumThreads,     \* TaskScheduler::NumberOfThreads()
          L,              \* beam width of the build search (L_build, or R)
          LutDist(_, _),  \* LUT distance of a row's vector to a node's code
          NEntryPoints,   \* params_.n_entry_points
          AnyStoreOrder   \* FALSE: stores reach memory in program order.
                          \* TRUE: the compiler or the machine may reorder
                          \* the plain stores up to the next release store

Max2(a, b) == IF a >= b THEN a ELSE b
Min2(a, b) == IF a <= b THEN a ELSE b

Rows     == 0 .. N - 1      \* row ordinals, which are the internal ids
Entry    == 0               \* entry_internal_: the first row
NumTasks == Min2(NumThreads, Max2(1, N - 1))
Tasks    == 1 .. NumTasks
NoRow    == N
Unlocked == 0

ASSUME BuildAssumption ==
    /\ N \in Nat \ {0} /\ NumThreads \in Nat \ {0} /\ L \in Nat \ {0}
    /\ NEntryPoints \in Nat
    /\ AnyStoreOrder \in BOOLEAN
    /\ \A a, b \in Rows : CodeDist(a, b) \in Nat /\ LutDist(a, b) \in Nat

(* Task t's half-open row range: 1 + (t-1)*work_n/num_tasks, and so on.    *)
RangeStart_Off(t) == Max2(1, ((t - 1) * (N - 1)) \div NumTasks)
RangeStart(t) == 1 + ((t - 1) * (N - 1)) \div NumTasks
RangeEnd(t)   == 1 + (t * (N - 1)) \div NumTasks
RowRange(t)   == {r \in Rows : RangeStart(t) <= r /\ r < RangeEnd(t)}

VARIABLES
    phase,      \* "schedule", "build" (tasks run) or "finished"
    size,       \* size_
    cnt, slot,  \* per node: neighbour count and the R slots, in memory
    lock,       \* per node: the task inside its critical section, or Unlocked
    pc,         \* per task: where it stands
    row,        \* per task: the ordinal it is inserting
    srch,       \* per task: BeamSearch's locals
    sel, si,    \* per task: selected neighbours, and the next target's index
    fwd,        \* per task: fields of the new node still to be stored
    bck, want,  \* per task: fields of the target still to be stored, and the
                \*   list they spell
    built,      \* per task: rows it inserted (slot 0: the leader's)
    rowToInternal, entryPoints

task == <<pc, row, srch, sel, si, fwd, bck, want>>
vars == <<phase, size, cnt, slot, lock, task, built,
          rowToInternal, entryPoints>>

Fields == 0..R              \* field 0 is the count, field i is slot i
Locations == {"next", "search", "read", "connect", "append", "reprune",
              "pushed"}
SearchState == [marks : SUBSET Rows, frontier : SUBSET Rows, W : SUBSET Rows,
                at : Rows \cup {NoRow}, n : Fields, i : 0 .. R + 1]
NoSearch == [marks |-> {}, frontier |-> {}, W |-> {}, at |-> NoRow,
             n |-> 0, i |-> 0]

Init ==
    /\ phase = "schedule"
    /\ size = 0
    /\ cnt = [n \in Rows |-> 0]
    /\ slot = [n \in Rows |-> [i \in 1..R |-> 0]]
    /\ lock = [n \in Rows |-> Unlocked]
    /\ pc = [t \in Tasks |-> "next"]
    /\ row = [t \in Tasks |-> 0]
    /\ srch = [t \in Tasks |-> NoSearch]
    /\ sel = [t \in Tasks |-> <<>>]
    /\ si = [t \in Tasks |-> 1]
    /\ fwd = [t \in Tasks |-> {}]
    /\ bck = [t \in Tasks |-> {}]
    /\ want = [t \in Tasks |-> <<>>]
    /\ built = [t \in 0..NumTasks |-> {}]
    /\ rowToInternal = {}
    /\ entryPoints = {}

-----------------------------------------------------------------------------
(* Scheduling.                                                             *)

IsFirst(r, S) == r \in S /\ \A s \in S : r <= s

(* LeaderInsertEntry: the first row becomes the entry point, and the       *)
(* graph's only node, before any task starts.                              *)
LeaderInsertEntry ==
    /\ phase = "schedule"
    /\ phase' = "build"
    /\ size' = 1
    /\ built' = [built EXCEPT ![0] = {Entry}]
    /\ UNCHANGED <<cnt, slot, lock, task, rowToInternal, entryPoints>>

(* Rows InsertBuildRange still has to insert, in order.                    *)
RowsLeft(t) == {r \in RowRange(t) : r > row[t]}

(* BeamSearch's first candidate.                                           *)
Seeded(e) == [marks |-> {e}, frontier |-> {e}, W |-> {e},
              at |-> NoRow, n |-> 0, i |-> 0]

(* InsertBuild up to BeamSearch's loop: the node's header and list are     *)
(* zeroed, the epoch is bumped and the entry point seeded.  The entry is   *)
(* entry_internal_: entry_points_ is empty until the build has finished.   *)
StartInsert(t) ==
    /\ phase = "build" /\ pc[t] = "next"
    /\ \E r \in RowsLeft(t) :
         /\ IsFirst(r, RowsLeft(t))
         /\ row' = [row EXCEPT ![t] = r]
         /\ cnt' = [cnt EXCEPT ![r] = 0]
         /\ slot' = [slot EXCEPT ![r] = [i \in 1..R |-> 0]]
    /\ srch' = [srch EXCEPT ![t] = Seeded(Entry)]
    /\ pc' = [pc EXCEPT ![t] = "search"]
    /\ UNCHANGED <<phase, size, lock, sel, si, fwd, bck, want, built,
                   rowToInternal, entryPoints>>

(* PushParallelConstructResults: the range is exhausted.                   *)
PushResults(t) ==
    /\ phase = "build" /\ pc[t] = "next" /\ RowsLeft(t) = {}
    /\ pc' = [pc EXCEPT ![t] = "pushed"]
    /\ UNCHANGED <<phase, size, cnt, slot, lock, row, srch, sel, si,
                   fwd, bck, want, built, rowToInternal, entryPoints>>

-----------------------------------------------------------------------------
(* BeamSearch, without a lock.                                             *)

Near(t, n) == LutDist(row[t], n)
IsClosest(t, n, S) == n \in S /\ \A m \in S : Near(t, n) <= Near(t, m)
IsFarthest(t, n, S) == n \in S /\ \A m \in S : Near(t, m) <= Near(t, n)

(* The loop ends: the frontier is empty, or W is full and the popped node  *)
(* is farther than all of W.                                               *)
BeamDone(t) ==
    LET s == srch[t] IN
    \/ s.frontier = {}
    \/ /\ Cardinality(s.W) >= L
       /\ \A b \in s.frontier, w \in s.W : Near(t, b) > Near(t, w)

(* Pop the closest frontier node and load its neighbour count.             *)
Expand(t) ==
    /\ pc[t] = "search" /\ ~BeamDone(t)
    /\ \E best \in srch[t].frontier :
         /\ IsClosest(t, best, srch[t].frontier)
         /\ srch' = [srch EXCEPT ![t].frontier = @ \ {best}, ![t].at = best,
                                 ![t].n = cnt[best], ![t].i = 1]
    /\ pc' = [pc EXCEPT ![t] = "read"]
    /\ UNCHANGED <<phase, size, cnt, slot, lock, row, sel, si, fwd,
                   bck, want, built, rowToInternal, entryPoints>>

(* The working set after offering it node n: the L closest are kept.       *)
Offered(t, W, n) ==
    IF Cardinality(W) < L THEN {W \cup {n}}
    ELSE {(W \cup {n}) \ {w} : w \in {x \in W : IsFarthest(t, x, W)}}

(* Load slot i of the node being expanded; an unmarked neighbour is marked *)
(* and, if W has room or it beats W's farthest, pushed.                    *)
ReadSlot(t) ==
    LET s  == srch[t]
        nb == slot[s.at][s.i]
    IN  /\ pc[t] = "read" /\ s.i <= s.n
        /\ \/ /\ nb \in s.marks
              /\ srch' = [srch EXCEPT ![t].i = @ + 1]
           \/ /\ nb \notin s.marks
              /\ \/ Cardinality(s.W) < L
                 \/ \E w \in s.W : Near(t, nb) < Near(t, w)
              /\ \E W \in Offered(t, s.W, nb) :
                   srch' = [srch EXCEPT ![t].i = @ + 1, ![t].W = W,
                                        ![t].marks = @ \cup {nb},
                                        ![t].frontier = @ \cup {nb}]
           \/ /\ nb \notin s.marks
              /\ Cardinality(s.W) >= L
              /\ \A w \in s.W : Near(t, nb) >= Near(t, w)
              /\ srch' = [srch EXCEPT ![t].i = @ + 1,
                                      ![t].marks = @ \cup {nb}]
        /\ UNCHANGED <<phase, size, cnt, slot, lock, pc, row, sel, si,
                       fwd, bck, want, built, rowToInternal, entryPoints>>

EndExpand(t) ==
    /\ pc[t] = "read" /\ srch[t].i > srch[t].n
    /\ srch' = [srch EXCEPT ![t].at = NoRow, ![t].n = 0, ![t].i = 0]
    /\ pc' = [pc EXCEPT ![t] = "search"]
    /\ UNCHANGED <<phase, size, cnt, slot, lock, row, sel, si, fwd,
                   bck, want, built, rowToInternal, entryPoints>>

-----------------------------------------------------------------------------
(* ConnectAndPrune.                                                        *)

(* RobustPrune of the search's result; the forward list is ready to store. *)
SelectNeighbors(t) ==
    /\ pc[t] = "search" /\ BeamDone(t)
    /\ \E list \in KeptLists(srch[t].W, [c \in srch[t].W |-> Near(t, c)]) :
         /\ sel' = [sel EXCEPT ![t] = list]
         /\ fwd' = [fwd EXCEPT ![t] = 0..Len(list)]
    /\ si' = [si EXCEPT ![t] = 1]
    /\ srch' = [srch EXCEPT ![t] = NoSearch]
    /\ pc' = [pc EXCEPT ![t] = "connect"]
    /\ UNCHANGED <<phase, size, cnt, slot, lock, row, bck, want, built,
                   rowToInternal, entryPoints>>

(* Field f of node n receives its value from list.                         *)
StoreField(n, f, list) ==
    /\ cnt' = IF f = 0 THEN [cnt EXCEPT ![n] = Len(list)] ELSE cnt
    /\ slot' = IF f = 0 THEN slot ELSE [slot EXCEPT ![n][f] = list[f]]

(* The forward list: the count first, then the slots in order.  No lock.   *)
StoreForward(t) ==
    /\ \E f \in fwd[t] :
         /\ AnyStoreOrder \/ IsFirst(f, fwd[t])
         /\ StoreField(row[t], f, sel[t])
         /\ fwd' = [fwd EXCEPT ![t] = @ \ {f}]
    /\ UNCHANGED <<phase, size, lock, pc, row, srch, sel, si, bck,
                   want, built, rowToInternal, entryPoints>>

Target(t) == sel[t][si[t]]
InMemory(n) == SubSeq(slot[n], 1, cnt[n])

(* The forward stores precede the first back-edge.                         *)
ForwardDone_Swapped(t) == TRUE
ForwardDone(t) == AnyStoreOrder \/ fwd[t] = {}

(* NodeSpinlock: the exchange that finds the flag clear takes the lock.    *)
CanLock_Always(n) == TRUE
CanLock(n) == lock[n] = Unlocked
Released_Forgotten(n) == lock
Released(n) == [lock EXCEPT ![n] = Unlocked]

HasRoom_Off(c) == c <= R
HasRoom(c) == c < R

Spin(t) ==
    /\ pc[t] = "connect" /\ si[t] <= Len(sel[t])
    /\ ForwardDone(t) /\ ~CanLock(Target(t))
    /\ UNCHANGED vars

(* Take the target's spinlock and decide its new list: the back-edge is    *)
(* appended while there is room, otherwise the full list and the new node  *)
(* are pruned again.  Lists are read under the lock, where only this task  *)
(* may write them.                                                         *)
LockTarget(t) ==
    /\ pc[t] = "connect" /\ si[t] <= Len(sel[t])
    /\ ForwardDone(t)
    /\ CanLock(Target(t))
    /\ lock' = [lock EXCEPT ![Target(t)] = t]
    /\ LET s   == Target(t)
           old == InMemory(s)
           c   == cnt[s]
       IN  \/ /\ HasRoom(c)
              /\ want' = [want EXCEPT ![t] = Append(old, row[t])]
              /\ bck' = [bck EXCEPT ![t] = {0, c + 1}]
              /\ pc' = [pc EXCEPT ![t] = "append"]
           \/ /\ ~HasRoom(c)
              /\ LET cand == Listed(old) \cup {row[t]} IN
                 \E list \in KeptLists(cand, [x \in cand |-> CodeDist(s, x)]) :
                   /\ want' = [want EXCEPT ![t] = list]
                   /\ bck' = [bck EXCEPT ![t] = 0..Len(list)]
              /\ pc' = [pc EXCEPT ![t] = "reprune"]
    /\ UNCHANGED <<phase, size, cnt, slot, row, srch, sel, si, fwd,
                   built, rowToInternal, entryPoints>>

(* An append stores the slot and then the count; a re-prune stores the     *)
(* count and then the slots.                                               *)
NextStore(t, f) ==
    \/ AnyStoreOrder
    \/ pc[t] = "append" /\ (f = 0 => bck[t] = {0})
    \/ pc[t] = "reprune" /\ IsFirst(f, bck[t])

StoreBack(t) ==
    /\ \E f \in bck[t] :
         /\ NextStore(t, f)
         /\ StoreField(Target(t), f, want[t])
         /\ bck' = [bck EXCEPT ![t] = @ \ {f}]
    /\ UNCHANGED <<phase, size, lock, pc, row, srch, sel, si, fwd,
                   want, built, rowToInternal, entryPoints>>

(* NodeSpinlock::unlock is a release store: every earlier store is in      *)
(* memory before it.                                                       *)
UnlockTarget(t) ==
    /\ pc[t] \in {"append", "reprune"}
    /\ bck[t] = {} /\ fwd[t] = {}
    /\ lock' = Released(Target(t))
    /\ si' = [si EXCEPT ![t] = @ + 1]
    /\ want' = [want EXCEPT ![t] = <<>>]
    /\ pc' = [pc EXCEPT ![t] = "connect"]
    /\ UNCHANGED <<phase, size, cnt, slot, row, srch, sel, fwd, bck,
                   built, rowToInternal, entryPoints>>

(* InsertBuild returns and the row is recorded in the task's own map.      *)
EndInsert(t) ==
    /\ pc[t] = "connect" /\ si[t] > Len(sel[t])
    /\ fwd[t] = {}
    /\ built' = [built EXCEPT ![t] = @ \cup {row[t]}]
    /\ sel' = [sel EXCEPT ![t] = <<>>]
    /\ si' = [si EXCEPT ![t] = 1]
    /\ pc' = [pc EXCEPT ![t] = "next"]
    /\ UNCHANGED <<phase, size, cnt, slot, lock, row, srch, fwd, bck,
                   want, rowToInternal, entryPoints>>

-----------------------------------------------------------------------------
(* ComputeEntryPoints.                                                     *)
EvenlySpaced ==
    LET wanted == Min2(NEntryPoints, N) IN
    {(i * N) \div wanted : i \in 0 .. wanted - 1}

(* FinishEvent, once every task has pushed its results: the maps are       *)
(* merged, the size is set to the row count and the entry points are       *)
(* spread evenly over the ids.                                             *)
FinishEvent ==
    /\ phase = "build" /\ \A t \in Tasks : pc[t] = "pushed"
    /\ phase' = "finished"
    /\ rowToInternal' = UNION {built[t] : t \in 0..NumTasks}
    /\ size' = N
    /\ entryPoints' = EvenlySpaced
    /\ UNCHANGED <<cnt, slot, lock, task, built>>

Finished == phase = "finished" /\ UNCHANGED vars

TaskStep(t) ==
    \/ StartInsert(t) \/ PushResults(t)
    \/ Expand(t) \/ ReadSlot(t) \/ EndExpand(t) \/ SelectNeighbors(t)
    \/ StoreForward(t) \/ Spin(t) \/ LockTarget(t) \/ StoreBack(t) \/ UnlockTarget(t)
    \/ EndInsert(t)

Next == LeaderInsertEntry \/ (\E t \in Tasks : TaskStep(t)) \/ FinishEvent
            \/ Finished

Spec == Init /\ [][Next]_vars

(* The scheduler keeps running every task, and the event.                  *)
Fairness == /\ WF_vars(LeaderInsertEntry) /\ WF_vars(FinishEvent)
            /\ \A t \in Tasks : WF_vars(TaskStep(t))

FairSpec == Spec /\ Fairness

-----------------------------------------------------------------------------
(* Properties.                                                             *)

TypeOK ==
    /\ phase \in {"schedule", "build", "finished"}
    /\ size \in 0..N
    /\ cnt \in [Rows -> 0..R]
    /\ slot \in [Rows -> [1..R -> Rows]]
    /\ lock \in [Rows -> Tasks \cup {Unlocked}]
    /\ pc \in [Tasks -> Locations]
    /\ row \in [Tasks -> Rows]
    /\ srch \in [Tasks -> SearchState]
    /\ sel \in [Tasks -> Seq(Rows)] /\ want \in [Tasks -> Seq(Rows)]
    /\ si \in [Tasks -> 1 .. R + 1]
    /\ fwd \in [Tasks -> SUBSET Fields] /\ bck \in [Tasks -> SUBSET Fields]
    /\ built \in [0..NumTasks -> SUBSET Rows]
    /\ rowToInternal \subseteq Rows /\ entryPoints \subseteq Rows

(* A node whose own list is not completely in memory yet.                  *)
Unfinished(t) == pc[t] \in {"search", "read"} \/ fwd[t] # {}
BeingLinked(n) == \E t \in Tasks : row[t] = n /\ fwd[t] # {}
BeingStored(n) == BeingLinked(n) \/ lock[n] # Unlocked
Neighbors(n) == Listed(InMemory(n))

(* No list and no other task's search holds a node before the node's       *)
(* forward list is complete: ConnectAndPrune stores the forward edges      *)
(* before the first back-edge, and "BeamSearch ... only visits already-    *)
(* inserted nodes" (the comment at the range check of the targets).        *)
NoHalfBuiltNode ==
    \A t \in Tasks : Unfinished(t) =>
        /\ \A n \in Rows : ~BeingLinked(n) => row[t] \notin Neighbors(n)
        /\ \A u \in Tasks : row[t] \notin srch[u].marks

(* A list at rest names no node twice and never its own node, whatever     *)
(* order the tasks found each other in: a forward edge and a back-edge of  *)
(* the same pair would otherwise both be appended.  Once the build is over *)
(* no list of two or more rows is empty: a re-prune keeps the nearest.     *)
SoundLists ==
    /\ \A n \in Rows : ~BeingStored(n) =>
          /\ Cardinality(Neighbors(n)) = cnt[n]
          /\ n \notin Neighbors(n)
    /\ phase = "finished" /\ N >= 2 => \A n \in Rows : cnt[n] > 0

(* "At most ONE lock is held at a time per task": exactly the current      *)
(* target's, and only inside the critical section.                         *)
OneLockPerTask ==
    \A t \in Tasks : {n \in Rows : lock[n] = t} =
        IF pc[t] \in {"append", "reprune"} THEN {Target(t)} ELSE {}

(* A forward list is stored while nobody else can reach its node, which is *)
(* what lets ConnectAndPrune store it without the node's lock: "the write  *)
(* is race-free".  It is where stores keep their order, and is not where   *)
(* the first back-edge may overtake them.                                  *)
ForwardStoresArePrivate ==
    \A t, u \in Tasks : fwd[t] # {} /\ t # u =>
        /\ lock[row[t]] = Unlocked
        /\ pc[u] = "read" => srch[u].at # row[t]

(* An edge in memory disappears only in an overflow re-prune: two tasks    *)
(* appending to one list never lose a back-edge.                           *)
EdgesLostOnlyToReprune ==
    [][\A n \in Rows : ~BeingLinked(n) /\ ~(Neighbors(n) \subseteq Neighbors(n)')
          => lock[n] # Unlocked /\ pc[lock[n]] = "reprune"]_vars

(* Every task gets every lock it spins on and the build ends, with every   *)
(* row in the merged map: the task ranges leave none out.                  *)
BuildFinishes == <>(phase = "finished" /\ rowToInternal = Rows)
=============================================================================
