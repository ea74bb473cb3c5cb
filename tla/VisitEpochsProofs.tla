------------------------- MODULE VisitEpochsProofs -------------------------
(***************************************************************************)
(* Threads with a scratch instance of their own search as if the visited   *)
(* set were private, for every graph, beam width, number of threads and    *)
(* width of the epoch counter.                                             *)
(*                                                                         *)
(* The invariant the refinement rests on: an instance's marks never exceed *)
(* its counter, and a thread between LoadCounter and Return holds the      *)
(* instance's current counter.  A freshly taken epoch is therefore above   *)
(* every mark, so the table reads as empty without being cleared.          *)
(*                                                                         *)
(* On that rests what a search is worth: it ends at a local optimum of the *)
(* graph.                                                                  *)
(***************************************************************************)
EXTENDS VisitEpochs, FiniteSetTheorems, TLAPS

(* Each thread has an instance of its own.                                 *)
OwnInstances == \A t, u \in Threads : t # u => Scratch[t] # Scratch[u]

MarksInThePast ==
    \A s \in Instances, n \in Nodes : marks[s][n] <= counter[s]

HoldsEpoch ==
    \A t \in Threads :
        /\ pc[t] # "idle" => vc[t] = counter[Scratch[t]]
        /\ pc[t] \in {"seed", "search", "read"} => vc[t] # 0
        /\ pc[t] = "seed" => \A n \in Nodes : marks[Scratch[t]][n] < vc[t]

EpochInv == TypeOK /\ MarksInThePast /\ HoldsEpoch

(* The counter's successor, without the modulus.                           *)
LEMMA IncrementSteps ==
    ASSUME NEW e \in Epochs
    PROVE  /\ Increment(e) \in Epochs
           /\ Increment(e) # 0 => Increment(e) = e + 1
           /\ 1 \in Epochs /\ 0 \in Epochs
<1>0. EpochLimit \in Nat /\ EpochLimit > 1 BY ScratchAssumption
<1>1. CASE e + 1 < EpochLimit
  <2>1. (e + 1) % EpochLimit = e + 1 BY <1>0, <1>1 DEF Epochs
  <2> QED BY <1>0, <1>1, <2>1 DEF Epochs, Increment
<1>2. CASE e + 1 = EpochLimit
  <2>1. EpochLimit % EpochLimit = 0 BY <1>0
  <2> QED BY <1>0, <1>2, <2>1 DEF Epochs, Increment
<1> QED BY <1>0, <1>1, <1>2 DEF Epochs

(* A neighbour being read is a node.                                       *)
LEMMA NeighborIsNode ==
    ASSUME TypeOK, NEW t \in Threads, Reading(t)
    PROVE  Neighbor(t) \in Nodes
<1>1. Neighbors[at[t]] \in Seq(Nodes) BY GraphAssumption DEF TypeOK
<1>2. i[t] \in 1 .. Len(Neighbors[at[t]]) BY <1>1 DEF Reading, TypeOK
<1> QED BY <1>1, <1>2 DEF Neighbor

(* Bag operations stay inside Nodes.                                       *)
LEMMA BagsOfNodes ==
    /\ BagToSet(EmptyBag) = {}
    /\ \A n : BagToSet(Only(n)) = {n}
    /\ \A B, C : BagToSet(B (+) C) = BagToSet(B) \cup BagToSet(C)
    /\ \A B, C : BagToSet(B (-) C) \subseteq BagToSet(B)
BY DEF Only, BagToSet, SetToBag, EmptyBag, (+), (-), BagIn

(* Every step of a search keeps its places, slots and bags well formed and *)
(* leaves the other threads' alone.                                        *)
Places == {"idle", "bump", "seed", "search", "read"}
BeamTyped ==
    /\ pc \in [Threads -> Places] /\ query \in [Threads -> Queries]
    /\ at \in [Threads -> Nodes] /\ i \in [Threads -> Nat \ {0}]
    /\ DOMAIN frontier = Threads /\ DOMAIN W = Threads
    /\ \A t \in Threads : BagToSet(frontier[t]) \cup BagToSet(W[t]) \subseteq Nodes
ScratchTyped ==
    /\ counter \in [Instances -> Epochs]
    /\ marks \in [Instances -> [Nodes -> Epochs]]
    /\ vc \in [Threads -> Epochs]

LEMMA TypeParts == TypeOK <=> BeamTyped /\ ScratchTyped
BY DEF TypeOK, BeamTyped, ScratchTyped, Places

LEMMA BeamStepTyped ==
    ASSUME BeamTyped, NEW t \in Threads, NEW seen,
           \/ Seed(t) \/ Pop(t) \/ Skip(t, seen) \/ Visit(t, seen)
           \/ EndOfList(t) \/ Return(t)
    PROVE  BeamTyped'
<1> USE GraphAssumption, BagsOfNodes DEF BeamTyped, Places
<1>1. CASE Seed(t)
  <2>1. PICK q \in Queries : query' = [query EXCEPT ![t] = q] BY <1>1 DEF Seed
  <2>2. /\ frontier' = [frontier EXCEPT ![t] = Only(Entry)]
        /\ W' = [W EXCEPT ![t] = Only(Entry)]
        /\ pc' = [pc EXCEPT ![t] = "search"] /\ UNCHANGED <<at, i>>
    BY <1>1 DEF Seed
  <2>3. BagToSet(Only(Entry)) \subseteq Nodes OBVIOUS
  <2>4. \A u \in Threads : BagToSet(frontier'[u]) \cup BagToSet(W'[u]) \subseteq Nodes
    BY <2>2, <2>3
  <2> QED BY <2>1, <2>2, <2>4
<1>2. CASE Pop(t)
  <2>1. PICK b \in BagToSet(frontier[t]) :
          /\ frontier' = [frontier EXCEPT ![t] = frontier[t] (-) Only(b)]
          /\ at' = [at EXCEPT ![t] = b]
    BY <1>2 DEF Pop, Popped
  <2>2. BagToSet(frontier'[t]) \subseteq BagToSet(frontier[t]) BY <2>1
  <2>3. /\ pc' = [pc EXCEPT ![t] = "read"] /\ i' = [i EXCEPT ![t] = 1]
        /\ UNCHANGED <<query, W>>
    BY <1>2 DEF Pop
  <2>4. \A u \in Threads : BagToSet(frontier'[u]) \subseteq Nodes
    BY <2>1, <2>2
  <2>5. at' \in [Threads -> Nodes] BY <2>1
  <2> QED BY <2>1, <2>3, <2>4, <2>5
<1>3. CASE Skip(t, seen) BY <1>3 DEF Skip
<1>4. CASE Visit(t, seen)
  <2> DEFINE n == Neighbor(t)
  <2>1. n \in Nodes
    <3>1. Neighbors[at[t]] \in Seq(Nodes) OBVIOUS
    <3>2. i[t] \in 1 .. Len(Neighbors[at[t]]) BY <1>4, <3>1 DEF Visit, Reading
    <3> QED BY <3>1, <3>2 DEF Neighbor
  <2> HIDE DEF n
  <2>2. /\ i' = [i EXCEPT ![t] = @ + 1] /\ UNCHANGED <<pc, query, at>>
    BY <1>4 DEF Visit
  <2>3. /\ \/ frontier' = [frontier EXCEPT ![t] = @ (+) Only(n)]
           \/ frontier' = frontier
        /\ \/ W' = [W EXCEPT ![t] = W[t] (+) Only(n)]
           \/ \E far : W' = [W EXCEPT ![t] = (W[t] (+) Only(n)) (-) Only(far)]
           \/ W' = W
    BY <1>4 DEF Visit, n
  <2>4. BagToSet(frontier[t] (+) Only(n)) \subseteq Nodes BY <2>1
  <2>5. BagToSet(W[t] (+) Only(n)) \subseteq Nodes BY <2>1
  <2>6. \A far : BagToSet((W[t] (+) Only(n)) (-) Only(far)) \subseteq Nodes
    BY <2>5
  <2>7. DOMAIN frontier' = Threads /\ DOMAIN W' = Threads BY <2>3
  <2>8. \A u \in Threads : BagToSet(frontier'[u]) \subseteq Nodes
    <3>1. CASE frontier' = frontier BY <3>1
    <3>2. CASE frontier' = [frontier EXCEPT ![t] = @ (+) Only(n)] BY <2>4, <3>2
    <3> QED BY <2>3, <3>1, <3>2
  <2>a. ASSUME NEW far,
               W' = [W EXCEPT ![t] = (W[t] (+) Only(n)) (-) Only(far)]
        PROVE  \A u \in Threads : BagToSet(W'[u]) \subseteq Nodes
    <3> DEFINE B == (W[t] (+) Only(n)) (-) Only(far)
    <3>1. BagToSet(B) \subseteq Nodes BY <2>6
    <3>2. W' = [W EXCEPT ![t] = B] BY <2>a
    <3> HIDE DEF B
    <3>3. W'[t] = B BY <3>2
    <3>4. ASSUME NEW u \in Threads, u # t PROVE W'[u] = W[u] BY <3>2, <3>4
    <3>5. \A u \in Threads : BagToSet(W[u]) \subseteq Nodes OBVIOUS
    <3> QED BY <3>1, <3>3, <3>4, <3>5
  <2>b. ASSUME W' = [W EXCEPT ![t] = W[t] (+) Only(n)]
        PROVE  \A u \in Threads : BagToSet(W'[u]) \subseteq Nodes
    BY <2>b, <2>5
  <2>9. \A u \in Threads : BagToSet(W'[u]) \subseteq Nodes BY <2>3, <2>a, <2>b
  <2> QED BY <2>2, <2>7, <2>8, <2>9
<1>5. CASE EndOfList(t) BY <1>5 DEF EndOfList
<1>6. CASE Return(t)
  <2>1. /\ pc' = [pc EXCEPT ![t] = "idle"] /\ at' = [at EXCEPT ![t] = Entry]
        /\ i' = [i EXCEPT ![t] = 1] /\ UNCHANGED query
        /\ frontier' = [frontier EXCEPT ![t] = EmptyBag]
        /\ W' = [W EXCEPT ![t] = EmptyBag]
    BY <1>6 DEF Return
  <2>2. BagToSet(EmptyBag) = {} OBVIOUS
  <2>3. \A u \in Threads : BagToSet(frontier'[u]) \cup BagToSet(W'[u]) \subseteq Nodes
    BY <2>1, <2>2
  <2> QED BY <2>1, <2>3
<1> QED BY <1>1, <1>2, <1>3, <1>4, <1>5, <1>6


(* Init establishes the invariant.                                         *)
LEMMA EpochInit == Init => EpochInv
<1> SUFFICES ASSUME Init PROVE EpochInv OBVIOUS
<1> USE DEF Init, BeamInit, Unmarked
<1>1. 0 \in Epochs BY ScratchAssumption DEF Epochs
<1>2. TypeOK BY <1>1, GraphAssumption, BagsOfNodes DEF TypeOK
<1>3. MarksInThePast BY DEF MarksInThePast
<1>4. HoldsEpoch BY DEF HoldsEpoch
<1> QED BY <1>2, <1>3, <1>4 DEF EpochInv

(* Every step preserves it when no two threads share an instance.          *)
(* A step that marks a node for a thread holding its epoch.                *)
LEMMA MarkStep ==
    ASSUME OwnInstances, EpochInv, NEW t \in Threads, NEW n \in Nodes,
           pc[t] # "idle", vc[t] # 0, marks' = Marked(t, n),
           UNCHANGED <<counter, vc>>,
           BeamTyped', pc'[t] \in {"search", "read"},
           \A u \in Threads : u # t => pc'[u] = pc[u]
    PROVE  EpochInv'
<1> USE ScratchAssumption, TypeParts DEF EpochInv
<1>0. /\ marks' = [marks EXCEPT ![Scratch[t]][n] = vc[t]]
      /\ Scratch[t] \in Instances /\ vc[t] = counter[Scratch[t]]
  BY DEF Marked, HoldsEpoch
<1>1. ScratchTyped' BY <1>0 DEF ScratchTyped
<1>2. MarksInThePast' BY <1>0 DEF MarksInThePast, ScratchTyped, Epochs
<1>3. HoldsEpoch' BY <1>0 DEF HoldsEpoch, ScratchTyped, OwnInstances
<1>4. TypeOK'
  <2>1. BeamTyped' /\ ScratchTyped' BY <1>1
  <2> QED BY <2>1 DEF TypeOK, BeamTyped, ScratchTyped, Places
<1> QED BY <1>2, <1>3, <1>4

(* A step that touches no scratch memory and does not enter a search.      *)
LEMMA QuietStep ==
    ASSUME EpochInv, BeamTyped', UNCHANGED scratch,
           \A u \in Threads : pc'[u] # pc[u] =>
               /\ pc[u] \in {"search", "read"}
               /\ pc'[u] \in {"search", "read", "idle"}
    PROVE  EpochInv'
<1> USE DEF EpochInv, scratch
<1>1. TypeOK' BY TypeParts DEF TypeOK, BeamTyped, ScratchTyped, Places
<1>2. MarksInThePast' BY DEF MarksInThePast
<1>3. HoldsEpoch' BY DEF HoldsEpoch
<1> QED BY <1>1, <1>2, <1>3

LEMMA EpochStep ==
    ASSUME OwnInstances, EpochInv, [Next]_vars
    PROVE  EpochInv'
<1> USE ScratchAssumption
<1>0. TypeOK /\ MarksInThePast /\ HoldsEpoch /\ BeamTyped /\ ScratchTyped
  BY TypeParts DEF EpochInv
<1>s. \A t \in Threads : Scratch[t] \in Instances OBVIOUS
<1>1. ASSUME NEW t \in Threads, LoadCounter(t) PROVE EpochInv'
  <2> USE <1>0, <1>1, <1>s DEF LoadCounter
  <2>1. TypeOK' BY DEF TypeOK
  <2>2. MarksInThePast' BY DEF MarksInThePast
  <2>3. HoldsEpoch' BY DEF HoldsEpoch, TypeOK
  <2> QED BY <2>1, <2>2, <2>3 DEF EpochInv
<1>2. ASSUME NEW t \in Threads, StoreCounter(t) PROVE EpochInv'
  <2> DEFINE s == Scratch[t]
             e == Increment(vc[t])
  <2>0. s \in Instances /\ vc[t] \in Epochs /\ vc[t] = counter[s]
    BY <1>0, <1>2, <1>s DEF TypeOK, HoldsEpoch, StoreCounter
  <2>e. /\ e \in Epochs /\ (e # 0 => e = vc[t] + 1)
        /\ 1 \in Epochs /\ 0 \in Epochs
    BY <2>0, IncrementSteps
  <2>p. pc' = [pc EXCEPT ![t] = "seed"] /\ UNCHANGED <<query, frontier, W, at, i>>
    BY <1>2 DEF StoreCounter
  <2> HIDE DEF e
  <2>1. CASE e # 0
    <3>1. /\ vc' = [vc EXCEPT ![t] = e] /\ marks' = marks
          /\ counter' = [counter EXCEPT ![s] = e]
      BY <1>2, <2>1 DEF StoreCounter, e
    <3>2. TypeOK' BY <1>0, <2>0, <2>e, <2>p, <3>1 DEF TypeOK
    <3>3. \A n \in Nodes : marks[s][n] < e
      BY <1>0, <2>0, <2>1, <2>e DEF TypeOK, MarksInThePast, Epochs
    <3>4. MarksInThePast'
      BY <1>0, <2>0, <2>e, <3>1, <3>3 DEF TypeOK, MarksInThePast, Epochs
    <3>5. HoldsEpoch'
      BY <1>0, <1>s, <2>0, <2>1, <2>p, <3>1, <3>3
         DEF TypeOK, HoldsEpoch, OwnInstances
    <3> QED BY <3>2, <3>4, <3>5 DEF EpochInv
  <2>2. CASE e = 0
    <3>1. /\ vc' = [vc EXCEPT ![t] = 1]
          /\ marks' = [marks EXCEPT ![s] = Unmarked]
          /\ counter' = [counter EXCEPT ![s] = 1]
      BY <1>2, <2>2 DEF StoreCounter, AfterWrap, e
    <3>2. TypeOK'
      BY <1>0, <2>0, <2>e, <2>p, <3>1 DEF TypeOK, Unmarked
    <3>4. MarksInThePast'
      BY <1>0, <2>0, <3>1 DEF TypeOK, MarksInThePast, Unmarked
    <3>5. HoldsEpoch'
      BY <1>0, <1>s, <2>0, <2>p, <3>1
         DEF TypeOK, HoldsEpoch, OwnInstances, Unmarked
    <3> QED BY <3>2, <3>4, <3>5 DEF EpochInv
  <2> QED BY <2>1, <2>2
<1>4. ASSUME NEW t \in Threads, SeedSearch(t) PROVE EpochInv'
  <2>1. BeamTyped' BY <1>0, <1>4, BeamStepTyped DEF SeedSearch
  <2>2. /\ pc[t] = "seed" /\ pc' = [pc EXCEPT ![t] = "search"]
        /\ marks' = Marked(t, Entry) /\ UNCHANGED <<counter, vc>>
    BY <1>4 DEF SeedSearch, Seed
  <2>3. vc[t] # 0 BY <1>0, <2>2 DEF HoldsEpoch
  <2> QED BY <1>0, <2>1, <2>2, <2>3, MarkStep, GraphAssumption DEF BeamTyped
<1>5. ASSUME NEW t \in Threads, Search(t) PROVE EpochInv'
  <2>1. CASE Visit(t, Seen(t)) /\ marks' = Marked(t, Neighbor(t))
               /\ UNCHANGED <<counter, vc>>
    <3>1. BeamTyped' BY <1>0, <2>1, BeamStepTyped
    <3>2. Reading(t) /\ UNCHANGED pc BY <2>1 DEF Visit
    <3>3. Neighbor(t) \in Nodes BY <1>0, <3>2, NeighborIsNode
    <3>4. pc[t] = "read" /\ vc[t] # 0
      BY <1>0, <3>2 DEF Reading, HoldsEpoch
    <3> QED BY <2>1, <3>1, <3>2, <3>3, <3>4, MarkStep
  <2>2. CASE (Pop(t) \/ Skip(t, Seen(t)) \/ EndOfList(t) \/ Return(t))
               /\ UNCHANGED scratch
    <3>1. BeamTyped' BY <1>0, <2>2, BeamStepTyped
    <3>2. \A u \in Threads : pc'[u] # pc[u] =>
               /\ pc[u] \in {"search", "read"}
               /\ pc'[u] \in {"search", "read", "idle"}
      BY <1>0, <2>2 DEF Pop, Skip, EndOfList, Return, BeamTyped
    <3> QED BY <2>2, <3>1, <3>2, QuietStep
  <2> QED BY <1>5, <2>1, <2>2 DEF Search
<1>6. CASE UNCHANGED vars
  BY <1>0, <1>6
     DEF vars, beam, scratch, EpochInv, TypeOK, MarksInThePast, HoldsEpoch
<1> QED BY <1>1, <1>2, <1>4, <1>5, <1>6 DEF Next, ThreadStep

-----------------------------------------------------------------------------
(* The refinement.                                                         *)

AbstractPc == [t \in Threads |-> IF Searching(t) THEN pc[t] ELSE "idle"]
AbstractVisited == [t \in Threads |-> IF Searching(t) THEN Seen(t) ELSE {}]

(* The abstract specification's bags are the same bags.                    *)
LEMMA SameBags ==
    /\ \A n : Alone!Only(n) = Only(n)
    /\ \A B : Alone!BagToSet(B) = BagToSet(B)
    /\ \A B : Alone!Size(B) = Size(B)
    /\ \A B, C : Alone!(+)(B, C) = B (+) C
    /\ \A B, C : Alone!(-)(B, C) = B (-) C
    /\ Alone!EmptyBag = EmptyBag
    /\ \A t, n : Alone!Near(t, n) = Near(t, n)
<1>1. \A n : Alone!Only(n) = Only(n)
  BY DEF Alone!Only, Only, Alone!SetToBag, SetToBag
<1>2. \A B : Alone!BagToSet(B) = BagToSet(B)
  BY DEF Alone!BagToSet, BagToSet
<1>3. \A B : Alone!Size(B) = Size(B)
  BY DEF Alone!Size, Size
<1>4. \A B, C : Alone!(+)(B, C) = B (+) C
  BY DEF Alone!(+), (+)
<1>5. \A B, C : Alone!(-)(B, C) = B (-) C
  BY DEF Alone!(-), (-)
<1>6. Alone!EmptyBag = EmptyBag
  BY DEF Alone!EmptyBag, EmptyBag, Alone!SetToBag, SetToBag
<1>7. \A t, n : Alone!Near(t, n) = Near(t, n)
  BY DEF Alone!Near, Near
<1> QED BY <1>1, <1>2, <1>3, <1>4, <1>5, <1>6, <1>7

(* A thread sees other threads' visited sets unchanged when it writes      *)
(* only its own instance, epoch and place.                                 *)
LEMMA OthersUntouched ==
    ASSUME OwnInstances, EpochInv, NEW t \in Threads, NEW u \in Threads, u # t,
           pc'[u] = pc[u], vc'[u] = vc[u],
           \A s \in Instances : s # Scratch[t] => marks'[s] = marks[s]
    PROVE  AbstractPc'[u] = AbstractPc[u] /\ AbstractVisited'[u] = AbstractVisited[u]
<1>1. Scratch[u] \in Instances /\ Scratch[u] # Scratch[t]
  BY ScratchAssumption DEF OwnInstances
<1>2. Seen(u)' = Seen(u) BY <1>1 DEF Seen
<1>3. Searching(u)' = Searching(u) BY DEF Searching
<1> QED BY <1>2, <1>3 DEF AbstractPc, AbstractVisited

LEMMA StepRefines ==
    ASSUME OwnInstances, EpochInv, EpochInv', [Next]_vars
    PROVE  [Alone!Next]_(Alone!vars)
<1> USE ScratchAssumption
<1>0. BeamTyped /\ ScratchTyped /\ HoldsEpoch /\ BeamTyped' /\ ScratchTyped'
  BY TypeParts DEF EpochInv, TypeOK, BeamTyped, ScratchTyped, Places
<1>1. ASSUME AbstractPc' = AbstractPc, AbstractVisited' = AbstractVisited,
             UNCHANGED <<query, frontier, W, at, i>>
      PROVE  UNCHANGED Alone!vars
  BY <1>1 DEF Alone!vars, Alone!beam, AbstractPc, AbstractVisited
<1>2. ASSUME NEW t \in Threads, LoadCounter(t) PROVE UNCHANGED Alone!vars
  <2>1. /\ pc[t] = "idle" /\ pc'[t] = "bump" /\ marks' = marks
        /\ \A u \in Threads : u # t => pc'[u] = pc[u] /\ vc'[u] = vc[u]
        /\ UNCHANGED <<query, frontier, W, at, i>>
    BY <1>0, <1>2 DEF LoadCounter, BeamTyped, ScratchTyped
  <2>2. \A u \in Threads : AbstractPc'[u] = AbstractPc[u]
                            /\ AbstractVisited'[u] = AbstractVisited[u]
    <3>1. AbstractPc'[t] = AbstractPc[t] /\ AbstractVisited'[t] = AbstractVisited[t]
      BY <2>1 DEF AbstractPc, AbstractVisited, Searching
    <3> QED BY <2>1, <3>1, OthersUntouched
  <2>3. AbstractPc' = AbstractPc /\ AbstractVisited' = AbstractVisited
    BY <2>2 DEF AbstractPc, AbstractVisited
  <2> QED BY <1>1, <2>1, <2>3
<1>3. ASSUME NEW t \in Threads, StoreCounter(t) PROVE UNCHANGED Alone!vars
  <2>1. /\ pc[t] = "bump" /\ pc'[t] = "seed"
        /\ \A u \in Threads : u # t => pc'[u] = pc[u] /\ vc'[u] = vc[u]
        /\ \A s \in Instances : s # Scratch[t] => marks'[s] = marks[s]
        /\ UNCHANGED <<query, frontier, W, at, i>>
    BY <1>0, <1>3 DEF StoreCounter, BeamTyped, ScratchTyped
  <2>2. \A u \in Threads : AbstractPc'[u] = AbstractPc[u]
                            /\ AbstractVisited'[u] = AbstractVisited[u]
    <3>1. AbstractPc'[t] = AbstractPc[t] /\ AbstractVisited'[t] = AbstractVisited[t]
      BY <2>1 DEF AbstractPc, AbstractVisited, Searching
    <3> QED BY <2>1, <3>1, OthersUntouched
  <2>3. AbstractPc' = AbstractPc /\ AbstractVisited' = AbstractVisited
    BY <2>2 DEF AbstractPc, AbstractVisited
  <2> QED BY <1>1, <2>1, <2>3
<1>4. ASSUME NEW t \in Threads, SeedSearch(t) PROVE Alone!Start(t)
  <2>1. /\ pc[t] = "seed" /\ pc' = [pc EXCEPT ![t] = "search"]
        /\ vc' = vc /\ marks' = [marks EXCEPT ![Scratch[t]][Entry] = vc[t]]
        /\ frontier' = [frontier EXCEPT ![t] = Only(Entry)]
        /\ W' = [W EXCEPT ![t] = Only(Entry)] /\ UNCHANGED <<at, i>>
        /\ \E q \in Queries : query' = [query EXCEPT ![t] = q]
    BY <1>4 DEF SeedSearch, Seed, Marked
  <2>2. \A n \in Nodes : marks[Scratch[t]][n] # vc[t]
    BY <1>0, <2>1 DEF HoldsEpoch, ScratchTyped, Epochs
  <2>3. Seen(t)' = {Entry}
    BY <1>0, <2>1, <2>2, GraphAssumption DEF Seen, ScratchTyped
  <2>4. AbstractPc[t] = "idle" BY <2>1 DEF AbstractPc, Searching
  <2>5. AbstractPc' = [AbstractPc EXCEPT ![t] = "search"]
    BY <1>0, <2>1 DEF AbstractPc, Searching, BeamTyped
  <2>6. AbstractVisited' = [AbstractVisited EXCEPT ![t] = {Entry}]
    <3>1. AbstractVisited'[t] = {Entry}
      BY <1>0, <2>1, <2>3 DEF AbstractVisited, Searching, BeamTyped
    <3>2. \A u \in Threads : u # t => AbstractVisited'[u] = AbstractVisited[u]
      BY <1>0, <2>1, OthersUntouched DEF BeamTyped
    <3> QED BY <3>1, <3>2 DEF AbstractVisited
  <2> QED BY <2>1, <2>4, <2>5, <2>6, SameBags
          DEF Alone!Start, Alone!Seed, AbstractPc, AbstractVisited
<1>5. ASSUME NEW t \in Threads, Search(t) PROVE Alone!Step(t) \/ Alone!Finish(t)
  <2>s. Searching(t)
    BY <1>5 DEF Search, Pop, Skip, EndOfList, Return, Visit, Reading, Searching
  <2>a. AbstractPc[t] = pc[t] /\ AbstractVisited[t] = Seen(t)
    BY <2>s DEF AbstractPc, AbstractVisited
  <2>b. Alone!BeamDone(t) <=> BeamDone(t)
    BY SameBags DEF Alone!BeamDone, BeamDone, Alone!Full, Full
  <2>c. ASSUME UNCHANGED scratch, \A u \in Threads : u # t => pc'[u] = pc[u],
               pc'[t] \in {"search", "read"}
        PROVE  AbstractVisited' = AbstractVisited
    BY <2>s, <2>c DEF AbstractVisited, Searching, Seen, scratch
  <2>1. CASE Pop(t) /\ UNCHANGED scratch
    <3>1. PICK b \in BagToSet(frontier[t]) :
            /\ \A c \in BagToSet(frontier[t]) : Near(t, b) <= Near(t, c)
            /\ frontier' = [frontier EXCEPT ![t] = frontier[t] (-) Only(b)]
            /\ at' = [at EXCEPT ![t] = b]
      BY <2>1 DEF Pop, Popped
    <3>2. /\ pc[t] = "search" /\ pc' = [pc EXCEPT ![t] = "read"]
          /\ i' = [i EXCEPT ![t] = 1] /\ UNCHANGED <<query, W>> /\ ~BeamDone(t)
      BY <2>1 DEF Pop
    <3>3. AbstractPc' = [AbstractPc EXCEPT ![t] = "read"]
      BY <1>0, <3>2 DEF AbstractPc, Searching, BeamTyped
    <3>4. AbstractVisited' = AbstractVisited
      BY <1>0, <2>1, <2>c, <3>2 DEF BeamTyped
    <3>5. Alone!Pop(t)
      BY <2>a, <2>b, <3>1, <3>2, <3>3, SameBags
         DEF Alone!Pop, Alone!Popped, AbstractPc
    <3> QED BY <3>4, <3>5 DEF Alone!Step, AbstractVisited
  <2>2. CASE Skip(t, Seen(t)) /\ UNCHANGED scratch
    <3>1. UNCHANGED <<pc, query, frontier, W, at>> BY <2>2 DEF Skip
    <3>2. AbstractPc' = AbstractPc BY <3>1 DEF AbstractPc, Searching
    <3>3. AbstractVisited' = AbstractVisited BY <2>2, <2>c, <2>s, <3>1 DEF Searching
    <3>4. Alone!Skip(t, AbstractVisited[t])
      BY <2>2, <2>a, <3>1, <3>2
         DEF Alone!Skip, Skip, Alone!Reading, Reading, Alone!Neighbor, Neighbor,
             AbstractPc
    <3> QED BY <3>3, <3>4 DEF Alone!Step, AbstractVisited
  <2>3. CASE EndOfList(t) /\ UNCHANGED scratch
    <3>1. /\ pc[t] = "read" /\ pc' = [pc EXCEPT ![t] = "search"]
          /\ i[t] > Len(Neighbors[at[t]]) /\ UNCHANGED <<query, frontier, W, at, i>>
      BY <2>3 DEF EndOfList
    <3>2. AbstractPc' = [AbstractPc EXCEPT ![t] = "search"]
      BY <1>0, <3>1 DEF AbstractPc, Searching, BeamTyped
    <3>3. AbstractVisited' = AbstractVisited
      BY <1>0, <2>3, <2>c, <3>1 DEF BeamTyped
    <3>4. Alone!EndOfList(t)
      BY <2>a, <3>1, <3>2 DEF Alone!EndOfList, AbstractPc
    <3> QED BY <3>3, <3>4 DEF Alone!Step, AbstractVisited
  <2>4. CASE Return(t) /\ UNCHANGED scratch
    <3>1. /\ pc[t] = "search" /\ pc' = [pc EXCEPT ![t] = "idle"] /\ BeamDone(t)
          /\ frontier' = [frontier EXCEPT ![t] = EmptyBag]
          /\ W' = [W EXCEPT ![t] = EmptyBag]
          /\ at' = [at EXCEPT ![t] = Entry] /\ i' = [i EXCEPT ![t] = 1]
          /\ UNCHANGED query
      BY <2>4 DEF Return
    <3>2. AbstractPc' = [AbstractPc EXCEPT ![t] = "idle"]
      BY <1>0, <3>1 DEF AbstractPc, Searching, BeamTyped
    <3>3. AbstractVisited' = [AbstractVisited EXCEPT ![t] = {}]
      BY ZenonT(40), <1>0, <2>4, <3>1
         DEF AbstractVisited, Searching, Seen, scratch, BeamTyped
    <3>4. Alone!Return(t)
      BY <2>a, <2>b, <3>1, <3>2, SameBags DEF Alone!Return, AbstractPc
    <3> QED BY <3>3, <3>4 DEF Alone!Finish, AbstractVisited
  <2>5. CASE Visit(t, Seen(t)) /\ marks' = Marked(t, Neighbor(t))
               /\ UNCHANGED <<counter, vc>>
    <3>1. UNCHANGED <<pc, query, at>> /\ Reading(t) BY <2>5 DEF Visit
    <3>2. Neighbor(t) \in Nodes BY <3>1, NeighborIsNode DEF EpochInv
    <3>3. AbstractPc' = AbstractPc BY <3>1 DEF AbstractPc, Searching
    <3>4. /\ marks' = [marks EXCEPT ![Scratch[t]][Neighbor(t)] = vc[t]]
          /\ vc' = vc /\ Scratch[t] \in Instances
      BY <2>5 DEF Marked
    <3>5. Seen(t)' = Seen(t) \cup {Neighbor(t)}
      BY <1>0, <3>2, <3>4 DEF Seen, ScratchTyped
    <3>6. AbstractVisited' = [AbstractVisited EXCEPT ![t] = @ \cup {Neighbor(t)}]
      <4>1. AbstractVisited'[t] = AbstractVisited[t] \cup {Neighbor(t)}
        BY <2>s, <2>a, <3>1, <3>5 DEF AbstractVisited, Searching
      <4>2. \A u \in Threads : u # t => AbstractVisited'[u] = AbstractVisited[u]
        BY <1>0, <3>1, <3>4, OthersUntouched DEF ScratchTyped
      <4> QED BY <4>1, <4>2 DEF AbstractVisited
    <3>7. Alone!Visit(t, AbstractVisited[t])
      BY <2>5, <2>a, <3>3, SameBags
         DEF Alone!Visit, Visit, Alone!Reading, Reading, Alone!Neighbor, Neighbor,
             Alone!Full, Full, AbstractPc
    <3> QED BY <3>6, <3>7 DEF Alone!Step, Alone!Neighbor, Neighbor, AbstractVisited
  <2> QED BY <1>5, <2>1, <2>2, <2>3, <2>4, <2>5 DEF Search
<1>6. CASE UNCHANGED vars
  <2>1. UNCHANGED <<pc, marks, vc, query, frontier, W, at, i>>
    BY <1>6 DEF vars, beam, scratch
  <2>2. AbstractPc' = AbstractPc /\ AbstractVisited' = AbstractVisited
    BY <2>1 DEF AbstractPc, AbstractVisited, Searching, Seen
  <2> QED BY <1>1, <2>1, <2>2
<1> QED BY <1>2, <1>3, <1>4, <1>5, <1>6 DEF Next, ThreadStep, Alone!Next

(* The state stays well formed, however many threads share an instance:    *)
(* an epoch is always below the counter's modulus.                         *)
THEOREM ScratchTypeCorrect == Spec => []TypeOK
<1>1. Init => TypeOK
  <2> SUFFICES ASSUME Init PROVE TypeOK OBVIOUS
  <2>1. 0 \in Epochs BY ScratchAssumption DEF Epochs
  <2> QED BY <2>1, GraphAssumption, BagsOfNodes DEF Init, BeamInit, Unmarked, TypeOK
<1>2. ASSUME TypeOK, [Next]_vars PROVE TypeOK'
  <2>0. BeamTyped /\ ScratchTyped BY <1>2, TypeParts
  <2>t. ASSUME BeamTyped', ScratchTyped' PROVE TypeOK'
    BY <2>t DEF TypeOK, BeamTyped, ScratchTyped, Places
  <2>1. ASSUME NEW t \in Threads, LoadCounter(t) PROVE TypeOK'
    BY <2>0, <2>1, <2>t, ScratchAssumption
       DEF LoadCounter, BeamTyped, ScratchTyped, Places
  <2>2. ASSUME NEW t \in Threads, StoreCounter(t) PROVE TypeOK'
    <3>1. /\ Increment(vc[t]) \in Epochs /\ 1 \in Epochs /\ 0 \in Epochs
      BY <2>0, IncrementSteps DEF ScratchTyped
    <3>2. BeamTyped' BY <2>0, <2>2 DEF StoreCounter, BeamTyped, Places
    <3>3. ScratchTyped'
      <4> DEFINE e == Increment(vc[t])
      <4>1. /\ \E x \in {e, 1} : vc' = [vc EXCEPT ![t] = x]
            /\ \E x \in {e, 1} : counter' = [counter EXCEPT ![Scratch[t]] = x]
            /\ \/ marks' = marks
               \/ marks' = [marks EXCEPT ![Scratch[t]] = Unmarked]
        BY <2>2 DEF StoreCounter, AfterWrap
      <4>2. e \in Epochs BY <3>1
      <4> HIDE DEF e
      <4>3. vc' \in [Threads -> Epochs] BY <2>0, <3>1, <4>1, <4>2 DEF ScratchTyped
      <4>4. counter' \in [Instances -> Epochs]
        <5>1. PICK x \in {e, 1} : counter' = [counter EXCEPT ![Scratch[t]] = x]
          BY <4>1
        <5>2. x \in Epochs BY <3>1, <4>2
        <5> QED BY <2>0, <5>1, <5>2 DEF ScratchTyped
      <4>5. marks' \in [Instances -> [Nodes -> Epochs]]
        <5>1. Unmarked \in [Nodes -> Epochs] BY <3>1 DEF Unmarked
        <5> QED BY <2>0, <4>1, <5>1 DEF ScratchTyped
      <4> QED BY <4>3, <4>4, <4>5 DEF ScratchTyped
    <3> QED BY <2>t, <3>2, <3>3
  <2>3. ASSUME NEW t \in Threads, SeedSearch(t) PROVE TypeOK'
    <3>1. BeamTyped' BY <2>0, <2>3, BeamStepTyped DEF SeedSearch
    <3>2. ScratchTyped'
      BY <2>0, <2>3, ScratchAssumption DEF SeedSearch, Marked, ScratchTyped
    <3> QED BY <2>t, <3>1, <3>2
  <2>4. ASSUME NEW t \in Threads, Search(t) PROVE TypeOK'
    <3>1. BeamTyped' BY <2>0, <2>4, BeamStepTyped DEF Search
    <3>2. /\ UNCHANGED <<counter, vc>>
          /\ \/ marks' = marks
             \/ marks' = [marks EXCEPT ![Scratch[t]][Neighbor(t)] = vc[t]]
      BY <2>4 DEF Search, scratch, Marked
    <3>3. CASE marks' = marks BY <2>0, <2>t, <3>1, <3>2, <3>3 DEF ScratchTyped
    <3>4. CASE marks' = [marks EXCEPT ![Scratch[t]][Neighbor(t)] = vc[t]]
      <4>1. Scratch[t] \in Instances /\ vc[t] \in Epochs
        BY <2>0, ScratchAssumption DEF ScratchTyped
      <4>2. marks' \in [Instances -> [Nodes -> Epochs]]
        BY <2>0, <3>4, <4>1 DEF ScratchTyped
      <4> QED BY <2>0, <2>t, <3>1, <3>2, <4>2 DEF ScratchTyped
    <3> QED BY <3>2, <3>3, <3>4
  <2>5. CASE UNCHANGED vars
    BY <1>2, <2>5 DEF vars, beam, scratch, TypeOK
  <2> QED BY <1>2, <2>1, <2>2, <2>3, <2>4, <2>5 DEF Next, ThreadStep
<1> QED BY <1>1, <1>2, PTL DEF Spec

(* VamanaTLS keeps its promise to threads that do not share it: for every  *)
(* graph and every width of visit_counter, each search is the search of a  *)
(* thread alone with a set of its own, across any number of wraps.         *)
THEOREM OwnScratchIsPrivate ==
    ASSUME OwnInstances PROVE Spec => SearchesAreAlone
<1>1. ASSUME EpochInv, [Next]_vars PROVE EpochInv'
  BY <1>1, EpochStep
<1>2. Spec => []EpochInv
  BY <1>1, EpochInit, PTL DEF Spec
<1>3. Init => Alone!Init
  <2> SUFFICES ASSUME Init PROVE Alone!Init OBVIOUS
  <2> QED BY SameBags
          DEF Init, BeamInit, Alone!Init, Alone!BeamInit, Searching
<1>4. ASSUME EpochInv, EpochInv', [Next]_vars PROVE [Alone!Next]_(Alone!vars)
  BY <1>4, StepRefines
<1> QED BY <1>2, <1>3, <1>4, PTL DEF Spec, SearchesAreAlone, Alone!Spec

-----------------------------------------------------------------------------
(* Bags without copies.                                                    *)

(* The copies of a bag's members are counted by a function of the parts    *)
(* of its domain.                                                          *)
Counts(f, B) ==
    f = [S \in SUBSET DOMAIN B |->
           IF S = {} THEN 0
           ELSE B[CHOOSE n \in S : TRUE] + f[S \ {CHOOSE n \in S : TRUE}]]

LEMMA SizeCounts ==
    ASSUME NEW B, NEW g, Counts(g, B)
    PROVE  \E f : Counts(f, B) /\ Size(B) = f[DOMAIN B]
<1> DEFINE f == CHOOSE f : Counts(f, B)
<1>1. Counts(f, B)
  OBVIOUS
<1>2. Size(B) = f[DOMAIN B]
  BY DEF Size, Counts
<1> QED BY <1>1, <1>2

(* A bag without copies is as large as its set.                            *)
LEMMA SizeOfSet ==
    ASSUME NEW B, IsFiniteSet(DOMAIN B), \A n \in DOMAIN B : B[n] = 1
    PROVE  Size(B) = Cardinality(DOMAIN B)
<1> DEFINE D == DOMAIN B
<1>1. ASSUME NEW S \in SUBSET D, S # {}
      PROVE  LET n == CHOOSE n \in S : TRUE
             IN  /\ n \in S /\ S \ {n} \in SUBSET D
                 /\ IsFiniteSet(S) /\ Cardinality(S) = 1 + Cardinality(S \ {n})
  <2> DEFINE n == CHOOSE n \in S : TRUE
  <2>1. n \in S
    BY <1>1
  <2> HIDE DEF n
  <2>2. IsFiniteSet(S) /\ Cardinality(S) \in Nat
    BY FS_Subset, FS_CardinalityType
  <2>3. Cardinality(S \ {n}) = Cardinality(S) - 1
    BY <2>1, <2>2, FS_RemoveElement
  <2> QED BY <2>1, <2>2, <2>3 DEF n
<1>2. Counts([S \in SUBSET D |-> Cardinality(S)], B)
  <2> DEFINE g == [S \in SUBSET D |-> Cardinality(S)]
  <2>1. ASSUME NEW S \in SUBSET D
        PROVE  g[S] = IF S = {} THEN 0
                      ELSE B[CHOOSE n \in S : TRUE] + g[S \ {CHOOSE n \in S : TRUE}]
    <3>1. CASE S = {}
      BY <3>1, FS_EmptySet
    <3>2. CASE S # {}
      BY <1>1, <3>2
    <3> QED BY <3>1, <3>2
  <2> QED BY <2>1 DEF Counts
<1>3. PICK f : Counts(f, B) /\ Size(B) = f[D]
  BY <1>2, SizeCounts
<1> HIDE DEF D
<1> DEFINE Wrong == {S \in SUBSET D : f[S] # Cardinality(S)}
<1>4. SUFFICES ASSUME Wrong # {} PROVE FALSE
  BY <1>3 DEF D
<1>5. IsWellFoundedOn(StrictSubsetOrdering(D), FiniteSubsetsOf(D))
  BY FS_StrictSubsetOrderingWellFounded
<1>6. Wrong \subseteq FiniteSubsetsOf(D)
  BY FS_Subset DEF FiniteSubsetsOf, D
<1>7. PICK S \in Wrong : \A U \in Wrong : <<U, S>> \notin StrictSubsetOrdering(D)
  <2> HIDE DEF Wrong
  <2> QED BY <1>4, <1>5, <1>6, WFMin
<1>8. f[S] = IF S = {} THEN 0
             ELSE B[CHOOSE n \in S : TRUE] + f[S \ {CHOOSE n \in S : TRUE}]
  BY <1>3 DEF Counts, D
<1>9. S # {}
  BY <1>8, FS_EmptySet
<1>10. PICK n \in S : f[S] = B[n] + f[S \ {n}] /\ Cardinality(S) = 1 + Cardinality(S \ {n})
  BY <1>1, <1>8, <1>9
<1>11. f[S \ {n}] = Cardinality(S \ {n})
  <2>1. S \ {n} \in SUBSET D /\ S \ {n} # S /\ S \ {n} \subseteq S
    BY <1>10
  <2> QED BY <1>7, <2>1 DEF StrictSubsetOrdering
<1> QED BY <1>10, <1>11 DEF D

(* A bag of finitely many members, one copy of each.                       *)
OneEach(B) == IsFiniteSet(DOMAIN B) /\ B = [n \in DOMAIN B |-> 1]

LEMMA OneEachFacts ==
    ASSUME NEW B, OneEach(B)
    PROVE  /\ BagToSet(B) = DOMAIN B /\ IsFiniteSet(BagToSet(B))
           /\ Size(B) = Cardinality(BagToSet(B))
           /\ Size(B) \in Nat
           /\ \A n : n \notin BagToSet(B) =>
                OneEach(B (+) Only(n)) /\ BagToSet(B (+) Only(n)) = BagToSet(B) \cup {n}
           /\ \A n \in BagToSet(B) :
                OneEach(B (-) Only(n)) /\ BagToSet(B (-) Only(n)) = BagToSet(B) \ {n}
<1>1. BagToSet(B) = DOMAIN B /\ IsFiniteSet(DOMAIN B)
  BY DEF OneEach, BagToSet
<1>2. Size(B) = Cardinality(DOMAIN B) /\ Cardinality(DOMAIN B) \in Nat
  BY SizeOfSet, FS_CardinalityType DEF OneEach
<1>3. ASSUME NEW n, n \notin DOMAIN B
      PROVE  OneEach(B (+) Only(n)) /\ BagToSet(B (+) Only(n)) = DOMAIN B \cup {n}
  <2>1. B (+) Only(n) = [m \in DOMAIN B \cup {n} |-> 1]
    BY <1>3 DEF OneEach, Only, SetToBag, (+), BagIn
  <2>2. IsFiniteSet(DOMAIN B \cup {n})
    BY <1>1, FS_AddElement
  <2> QED BY <2>1, <2>2 DEF OneEach, BagToSet
<1>4. ASSUME NEW n \in DOMAIN B
      PROVE  OneEach(B (-) Only(n)) /\ BagToSet(B (-) Only(n)) = DOMAIN B \ {n}
  <2>1. B (-) Only(n) = [m \in DOMAIN B \ {n} |-> 1]
    BY <1>4 DEF OneEach, Only, SetToBag, (-), BagIn
  <2>2. IsFiniteSet(DOMAIN B \ {n})
    BY <1>1, FS_RemoveElement
  <2> QED BY <2>1, <2>2 DEF OneEach, BagToSet
<1> QED BY <1>1, <1>2, <1>3, <1>4

LEMMA OnlyFacts ==
    ASSUME NEW n
    PROVE  OneEach(Only(n)) /\ BagToSet(Only(n)) = {n}
BY FS_Singleton DEF OneEach, Only, SetToBag, BagToSet

-----------------------------------------------------------------------------
(* What a search ends with.                                                *)

Open(t) == BagToSet(frontier[t])
Kept(t) == BagToSet(W[t])
ListOf(n) == {Neighbors[n][s] : s \in 1..Len(Neighbors[n])}

(* A node that was met and is not kept: W is full, and as near.            *)
PassedOver(t, m) ==
    Cardinality(Kept(t)) = L /\ \A x \in Kept(t) : Near(t, x) <= Near(t, m)

(* No candidate is queued twice; what was met is kept or passed over; a    *)
(* kept node taken from the frontier has had its neighbours met, the one   *)
(* being read those before i.                                              *)
Found(t) ==
    /\ OneEach(frontier[t]) /\ OneEach(W[t])
    /\ Kept(t) # {} /\ Cardinality(Kept(t)) <= L
    /\ Open(t) \cup Kept(t) \subseteq Seen(t)
    /\ \A m \in Seen(t) \ Kept(t) : PassedOver(t, m)
    /\ \A w \in Kept(t) \ Open(t) :
         pc[t] = "search" \/ w # at[t] => ListOf(w) \subseteq Seen(t)
    /\ pc[t] = "read" =>
         \A j \in 1..Len(Neighbors[at[t]]) : j < i[t] => Neighbors[at[t]][j] \in Seen(t)

FoundInv == EpochInv /\ \A t \in Threads : Searching(t) => Found(t)

LEMMA NearInNat ==
    ASSUME BeamTyped, NEW t \in Threads
    PROVE  \A n \in Nodes : Near(t, n) \in Nat
BY GraphAssumption DEF BeamTyped, Near

(* A search depends on its own thread and instance only.                   *)
LEMMA FoundStands ==
    ASSUME NEW t \in Threads, UNCHANGED <<pc[t], query[t], frontier[t], W[t], at[t], i[t]>>,
           vc'[t] = vc[t], marks'[Scratch[t]] = marks[Scratch[t]]
    PROVE  (Searching(t) <=> Searching(t)') /\ (Found(t) <=> Found(t)')
<1>1. /\ Seen(t)' = Seen(t) /\ Kept(t)' = Kept(t) /\ Open(t)' = Open(t)
      /\ \A n : Near(t, n)' = Near(t, n)
  BY DEF Seen, Kept, Open, Near
<1>2. \A m : PassedOver(t, m)' <=> PassedOver(t, m)
  BY <1>1 DEF PassedOver
<1> QED BY <1>1, <1>2 DEF Found, Searching

LEMMA SeedFound ==
    ASSUME EpochInv, NEW t \in Threads, SeedSearch(t)
    PROVE  Found(t)'
<1>1. /\ frontier'[t] = Only(Entry) /\ W'[t] = Only(Entry) /\ pc'[t] = "search"
      /\ vc' = vc /\ marks' = [marks EXCEPT ![Scratch[t]][Entry] = vc[t]]
      /\ pc[t] = "seed"
  BY DEF SeedSearch, Seed, Marked, EpochInv, TypeOK
<1>2. Seen(t)' = {Entry}
  <2>1. \A n \in Nodes : marks[Scratch[t]][n] # vc[t]
    BY <1>1, ScratchAssumption DEF EpochInv, HoldsEpoch, TypeOK, Epochs
  <2> QED BY <1>1, <2>1, GraphAssumption, ScratchAssumption DEF Seen, EpochInv, TypeOK
<1>3. /\ Open(t)' = {Entry} /\ Kept(t)' = {Entry}
      /\ OneEach(frontier'[t]) /\ OneEach(W'[t])
  BY <1>1, OnlyFacts DEF Open, Kept
<1>4. Cardinality({Entry}) = 1 /\ 1 <= L
  <2>1. 1 <= L
    BY GraphAssumption
  <2> QED BY <2>1, FS_Singleton
<1> QED BY <1>1, <1>2, <1>3, <1>4 DEF Found

LEMMA PopFound ==
    ASSUME EpochInv, NEW t \in Threads, Found(t), Pop(t), UNCHANGED scratch
    PROVE  Found(t)'
<1>1. PICK b \in BagToSet(frontier[t]) :
        /\ frontier' = [frontier EXCEPT ![t] = frontier[t] (-) Only(b)]
        /\ at' = [at EXCEPT ![t] = b]
  BY DEF Pop, Popped
<1>2. /\ pc[t] = "search" /\ pc'[t] = "read" /\ i'[t] = 1 /\ UNCHANGED <<query, W>>
      /\ frontier'[t] = frontier[t] (-) Only(b) /\ at'[t] = b
  BY <1>1 DEF Pop, EpochInv, TypeOK
<1>3. /\ OneEach(frontier'[t]) /\ Open(t)' = Open(t) \ {b}
  BY <1>2, OneEachFacts DEF Open, Found
<1>4. /\ Seen(t)' = Seen(t) /\ Kept(t)' = Kept(t) /\ \A n : Near(t, n)' = Near(t, n)
  BY <1>2 DEF Seen, Kept, Near, scratch
<1>5. \A m : PassedOver(t, m)' <=> PassedOver(t, m)
  BY <1>4 DEF PassedOver
<1>6. \A j \in 1..Len(Neighbors[at'[t]]) : ~(j < i'[t])
  BY <1>2
<1>7. \A w \in Kept(t) \ Open(t)' : w # at'[t] => ListOf(w) \subseteq Seen(t)
  BY <1>2, <1>3 DEF Found
<1> QED BY <1>2, <1>3, <1>4, <1>5, <1>6, <1>7 DEF Found

LEMMA SkipFound ==
    ASSUME EpochInv, NEW t \in Threads, Found(t), Skip(t, Seen(t)), UNCHANGED scratch
    PROVE  Found(t)'
<1>1. /\ pc[t] = "read" /\ i'[t] = i[t] + 1 /\ i[t] \in Nat
      /\ UNCHANGED <<pc, query, frontier, W, at>>
      /\ Neighbors[at[t]][i[t]] \in Seen(t)
  BY DEF Skip, Reading, Neighbor, EpochInv, TypeOK
<1>2. /\ Seen(t)' = Seen(t) /\ Kept(t)' = Kept(t) /\ Open(t)' = Open(t)
      /\ \A n : Near(t, n)' = Near(t, n)
  BY <1>1 DEF Seen, Kept, Open, Near, scratch
<1>3. \A m : PassedOver(t, m)' <=> PassedOver(t, m)
  BY <1>2 DEF PassedOver
<1>4. \A j \in 1..Len(Neighbors[at[t]]) : j < i[t] + 1 => Neighbors[at[t]][j] \in Seen(t)
  <2>1. \A j \in 1..Len(Neighbors[at[t]]) : j < i[t] + 1 => j < i[t] \/ j = i[t]
    BY <1>1
  <2> QED BY <1>1, <2>1 DEF Found
<1> QED BY <1>1, <1>2, <1>3, <1>4 DEF Found

LEMMA EndOfListFound ==
    ASSUME EpochInv, NEW t \in Threads, Found(t), EndOfList(t), UNCHANGED scratch
    PROVE  Found(t)'
<1>1. /\ pc[t] = "read" /\ pc'[t] = "search" /\ i[t] > Len(Neighbors[at[t]])
      /\ UNCHANGED <<query, frontier, W, at, i>>
      /\ i[t] \in Nat /\ Neighbors[at[t]] \in Seq(Nodes)
  BY GraphAssumption DEF EndOfList, EpochInv, TypeOK
<1>2. /\ Seen(t)' = Seen(t) /\ Kept(t)' = Kept(t) /\ Open(t)' = Open(t)
      /\ \A n : Near(t, n)' = Near(t, n)
  BY <1>1 DEF Seen, Kept, Open, Near, scratch
<1>3. \A m : PassedOver(t, m)' <=> PassedOver(t, m)
  BY <1>2 DEF PassedOver
<1>4. ListOf(at[t]) \subseteq Seen(t)
  <2>1. \A j \in 1..Len(Neighbors[at[t]]) : j < i[t]
    BY <1>1
  <2> QED BY <1>1, <2>1 DEF Found, ListOf
<1>5. \A w \in Kept(t) \ Open(t) : ListOf(w) \subseteq Seen(t)
  BY <1>4 DEF Found
<1> QED BY <1>1, <1>2, <1>3, <1>5 DEF Found

LEMMA VisitFound ==
    ASSUME EpochInv, NEW t \in Threads, pc[t] = "read", Found(t), Visit(t, Seen(t)),
           marks' = Marked(t, Neighbor(t)), UNCHANGED <<counter, vc>>
    PROVE  Found(t)'
<1> DEFINE n == Neighbor(t)
<1>1. /\ i'[t] = i[t] + 1 /\ i[t] \in Nat /\ UNCHANGED <<pc, query, at>>
      /\ n \notin Seen(t) /\ n = Neighbors[at[t]][i[t]]
  BY DEF Visit, Neighbor, EpochInv, TypeOK
<1>2. n \in Nodes
  BY NeighborIsNode DEF EpochInv, Visit
<1>3. Seen(t)' = Seen(t) \cup {n}
  <2>1. marks' = [marks EXCEPT ![Scratch[t]][n] = vc[t]] /\ vc' = vc
    BY DEF Marked
  <2> HIDE DEF n
  <2> QED BY <1>2, <2>1, ScratchAssumption DEF Seen, EpochInv, TypeOK
<1> HIDE DEF n
<1>4. \A m : Near(t, m)' = Near(t, m)
  BY <1>1 DEF Near
<1>5. n \notin Kept(t) /\ n \notin Open(t)
  BY <1>1 DEF Found
<1>6. /\ Size(W[t]) = Cardinality(Kept(t)) /\ Cardinality(Kept(t)) \in Nat
      /\ IsFiniteSet(Kept(t)) /\ L \in Nat \ {0}
  BY OneEachFacts, GraphAssumption DEF Found, Kept
<1>7. \A j \in 1..Len(Neighbors[at[t]]) : j < i'[t] => Neighbors[at[t]][j] \in Seen(t)'
  <2>1. \A j \in 1..Len(Neighbors[at[t]]) : j < i[t] + 1 => j < i[t] \/ j = i[t]
    BY <1>1
  <2> QED BY <1>1, <1>3, <2>1 DEF Found
<1>8. \A w \in Kept(t) \ Open(t) : w # at[t] => ListOf(w) \subseteq Seen(t)'
  BY <1>3 DEF Found
<1>9. \A x \in Kept(t) \cup Seen(t) \cup {n} : Near(t, x) \in Nat
  BY <1>2, NearInNat, TypeParts DEF Found, Seen, EpochInv
<1>q. ASSUME OneEach(frontier'[t]), Open(t)' = Open(t) \cup {n},
             OneEach(W'[t]), Kept(t)' # {}, Cardinality(Kept(t)') <= L,
             Kept(t)' \subseteq Kept(t) \cup {n},
             \A m \in (Seen(t) \cup {n}) \ Kept(t)' : PassedOver(t, m)'
      PROVE  Found(t)'
  <2>1. Open(t)' \cup Kept(t)' \subseteq Seen(t)'
    BY <1>3, <1>q DEF Found
  <2>2. Kept(t)' \ Open(t)' \subseteq Kept(t) \ Open(t)
    BY <1>q
  <2> QED BY <1>1, <1>3, <1>7, <1>8, <1>q, <2>1, <2>2 DEF Found
<1>10. CASE /\ ~Full(t)
            /\ W' = [W EXCEPT ![t] = W[t] (+) Only(n)]
            /\ frontier' = [frontier EXCEPT ![t] = @ (+) Only(n)]
  <2>1. W'[t] = W[t] (+) Only(n) /\ frontier'[t] = frontier[t] (+) Only(n)
    BY <1>10 DEF EpochInv, TypeOK
  <2>2. /\ OneEach(W'[t]) /\ Kept(t)' = Kept(t) \cup {n}
        /\ OneEach(frontier'[t]) /\ Open(t)' = Open(t) \cup {n}
    <3>1. OneEach(W'[t]) /\ Kept(t)' = Kept(t) \cup {n}
      BY <1>5, <2>1, OneEachFacts DEF Found, Kept
    <3>2. OneEach(frontier'[t]) /\ Open(t)' = Open(t) \cup {n}
      BY <1>5, <2>1, OneEachFacts DEF Found, Open
    <3> QED BY <3>1, <3>2
  <2>3. Cardinality(Kept(t)) < L
    BY <1>6, <1>10 DEF Full
  <2>4. Seen(t) \subseteq Kept(t)
    BY <1>6, <2>3 DEF Found, PassedOver
  <2>5. Cardinality(Kept(t)') <= L
    <3>1. Cardinality(Kept(t) \cup {n}) = Cardinality(Kept(t)) + 1
      BY <1>5, <1>6, FS_AddElement
    <3> QED BY <1>6, <2>2, <2>3, <3>1
  <2> QED BY <1>q, <2>2, <2>4, <2>5
<1>11. ASSUME Full(t), NEW far \in Kept(t),
              \A w \in Kept(t) : Near(t, w) <= Near(t, far),
              Near(t, n) < Near(t, far),
              W' = [W EXCEPT ![t] = (W[t] (+) Only(n)) (-) Only(far)],
              frontier' = [frontier EXCEPT ![t] = @ (+) Only(n)]
       PROVE  Found(t)'
  <2>1. W'[t] = (W[t] (+) Only(n)) (-) Only(far) /\ frontier'[t] = frontier[t] (+) Only(n)
    BY <1>11 DEF EpochInv, TypeOK
  <2>2. /\ OneEach(frontier'[t]) /\ Open(t)' = Open(t) \cup {n}
    BY <1>5, <2>1, OneEachFacts DEF Found, Open
  <2>3. OneEach(W[t] (+) Only(n)) /\ BagToSet(W[t] (+) Only(n)) = Kept(t) \cup {n}
    BY <1>5, OneEachFacts DEF Found, Kept
  <2>4. OneEach(W'[t]) /\ Kept(t)' = (Kept(t) \cup {n}) \ {far}
    BY <1>11, <2>1, <2>3, OneEachFacts DEF Kept
  <2>5. Cardinality(Kept(t)) = L /\ far # n
    BY <1>5, <1>6, <1>11 DEF Full, Found
  <2>6. Cardinality(Kept(t)') = L
    <3>1. IsFiniteSet(Kept(t) \cup {n}) /\ Cardinality(Kept(t) \cup {n}) = L + 1
      BY <1>5, <1>6, <2>5, FS_AddElement
    <3>2. Cardinality(Kept(t)') = Cardinality(Kept(t) \cup {n}) - 1
      <4>1. far \in Kept(t) \cup {n}
        BY <1>11
      <4> QED BY <2>4, <3>1, <4>1, FS_RemoveElement
    <3> QED BY <1>6, <3>1, <3>2
  <2>7. ASSUME NEW m \in (Seen(t) \cup {n}) \ Kept(t)', NEW x \in Kept(t)'
        PROVE  Near(t, x) <= Near(t, m)
    <3>1. m = far \/ m \in Seen(t) \ Kept(t)
      BY <2>4, <2>5
    <3>2. \A w \in Kept(t) : Near(t, w) <= Near(t, m)
      BY <1>11, <3>1 DEF Found, PassedOver
    <3>3. CASE x \in Kept(t)
      BY <3>2, <3>3
    <3>4. CASE x = n
      <4>1. Near(t, n) < Near(t, far) /\ Near(t, far) <= Near(t, m)
        BY <1>11, <3>2
      <4>2. Near(t, n) \in Nat /\ Near(t, far) \in Nat /\ Near(t, m) \in Nat
        BY <1>9, <3>1
      <4> QED BY <3>4, <4>1, <4>2
    <3> QED BY <2>4, <3>3, <3>4
  <2>8. \A m \in (Seen(t) \cup {n}) \ Kept(t)' : PassedOver(t, m)'
    BY <1>4, <2>6, <2>7 DEF PassedOver
  <2>9. n \in Kept(t)' /\ L <= L
    BY <1>6, <2>4, <2>5
  <2> QED BY <1>q, <2>2, <2>4, <2>6, <2>8, <2>9
<1>12. CASE /\ Full(t)
            /\ \A w \in Kept(t) : Near(t, n) >= Near(t, w)
            /\ UNCHANGED <<frontier, W>>
  <2>1. Open(t)' = Open(t) /\ Kept(t)' = Kept(t)
    BY <1>12 DEF Open, Kept
  <2>2. PassedOver(t, n)
    <3>1. Cardinality(Kept(t)) = L
      BY <1>6, <1>12 DEF Full, Found
    <3>2. \A w \in Kept(t) : Near(t, w) <= Near(t, n)
      BY <1>9, <1>12
    <3> QED BY <3>1, <3>2 DEF PassedOver
  <2>3. \A m \in Seen(t)' \ Kept(t)' : PassedOver(t, m)'
    BY <1>3, <1>4, <2>1, <2>2 DEF Found, PassedOver
  <2>4. Open(t)' \cup Kept(t)' \subseteq Seen(t)'
    BY <1>3, <2>1 DEF Found
  <2> QED BY <1>1, <1>3, <1>7, <1>8, <1>12, <2>1, <2>3, <2>4 DEF Found
<1> QED BY <1>10, <1>11, <1>12 DEF Visit, Kept, n

(* Every step.                                                             *)
LEMMA FoundStep ==
    ASSUME OwnInstances, FoundInv, [Next]_vars
    PROVE  FoundInv'
<1> USE ScratchAssumption
<1>0. EpochInv /\ EpochInv'
  BY EpochStep DEF FoundInv
<1>1. ASSUME NEW t \in Threads, Searching(t)' => Found(t)',
             \A u \in Threads : u # t =>
               /\ UNCHANGED <<pc[u], query[u], frontier[u], W[u], at[u], i[u]>>
               /\ vc'[u] = vc[u],
             \A s \in Instances : s # Scratch[t] => marks'[s] = marks[s]
      PROVE  FoundInv'
  <2>1. ASSUME NEW u \in Threads, u # t PROVE Searching(u)' => Found(u)'
    <3>1. Scratch[u] # Scratch[t] /\ Scratch[u] \in Instances
      BY <2>1 DEF OwnInstances
    <3>2. (Searching(u) <=> Searching(u)') /\ (Found(u) <=> Found(u)')
      BY <1>1, <2>1, <3>1, FoundStands
    <3> QED BY <3>2 DEF FoundInv
  <2> QED BY <1>0, <1>1, <2>1 DEF FoundInv
<1>2. ASSUME NEW t \in Threads, LoadCounter(t) \/ StoreCounter(t) PROVE FoundInv'
  <2>1. ~Searching(t)'
    BY <1>0, <1>2 DEF LoadCounter, StoreCounter, Searching, EpochInv, TypeOK
  <2>2. \A u \in Threads : u # t =>
               /\ UNCHANGED <<pc[u], query[u], frontier[u], W[u], at[u], i[u]>>
               /\ vc'[u] = vc[u]
    BY <1>0, <1>2 DEF LoadCounter, StoreCounter, EpochInv, TypeOK
  <2>3. \A s \in Instances : s # Scratch[t] => marks'[s] = marks[s]
    BY <1>0, <1>2 DEF LoadCounter, StoreCounter, EpochInv, TypeOK
  <2> QED BY <1>1, <2>1, <2>2, <2>3
<1>3. ASSUME NEW t \in Threads, SeedSearch(t) PROVE FoundInv'
  <2>1. Found(t)'
    BY <1>0, <1>3, SeedFound
  <2>2. \A u \in Threads : u # t =>
               /\ UNCHANGED <<pc[u], query[u], frontier[u], W[u], at[u], i[u]>>
               /\ vc'[u] = vc[u]
    BY <1>0, <1>3 DEF SeedSearch, Seed, EpochInv, TypeOK
  <2>3. \A s \in Instances : s # Scratch[t] => marks'[s] = marks[s]
    BY <1>0, <1>3 DEF SeedSearch, Marked, EpochInv, TypeOK
  <2> QED BY <1>1, <2>1, <2>2, <2>3
<1>4. ASSUME NEW t \in Threads, Search(t) PROVE FoundInv'
  <2>1. Searching(t) /\ Found(t)
    BY <1>4 DEF Search, Pop, Skip, Visit, EndOfList, Return, Reading, Searching, FoundInv
  <2>2. Searching(t)' => Found(t)'
    <3>1. CASE Return(t)
      BY <1>0, <3>1 DEF Return, Searching, EpochInv, TypeOK
    <3>2. CASE Visit(t, Seen(t)) /\ marks' = Marked(t, Neighbor(t))
                 /\ UNCHANGED <<counter, vc>>
      <4>1. pc[t] = "read"
        BY <3>2 DEF Visit, Reading
      <4> QED BY <1>0, <2>1, <3>2, <4>1, VisitFound
    <3>3. CASE (Pop(t) \/ Skip(t, Seen(t)) \/ EndOfList(t)) /\ UNCHANGED scratch
      BY <1>0, <2>1, <3>3, PopFound, SkipFound, EndOfListFound
    <3> QED BY <1>4, <3>1, <3>2, <3>3 DEF Search
  <2>3. ASSUME NEW u \in Threads, u # t
        PROVE  /\ UNCHANGED <<pc[u], query[u], frontier[u], W[u], at[u], i[u]>>
               /\ vc'[u] = vc[u]
    BY <1>0, <1>4, <2>3
       DEF Search, Pop, Skip, Visit, EndOfList, Return, scratch, EpochInv, TypeOK
  <2>4. \A s \in Instances : s # Scratch[t] => marks'[s] = marks[s]
    BY <1>0, <1>4 DEF Search, Marked, scratch, EpochInv, TypeOK
  <2> QED BY <1>1, <2>2, <2>3, <2>4
<1>5. CASE UNCHANGED vars
  <2>1. \A t \in Threads :
          (Searching(t) <=> Searching(t)') /\ (Found(t) <=> Found(t)')
    BY <1>5, FoundStands DEF vars, beam, scratch
  <2> QED BY <1>0, <2>1 DEF FoundInv
<1> QED BY <1>2, <1>3, <1>4, <1>5 DEF Next, ThreadStep

(* A search with a scratch instance of its own ends at a local optimum of  *)
(* the graph, whatever other threads do and however often its counter      *)
(* wraps: a neighbour of a result is a result too, unless L results are at *)
(* least as near.                                                          *)
THEOREM OwnScratchSearchesFully ==
    ASSUME OwnInstances PROVE Spec => []LocallyOptimal
<1>1. Init => FoundInv
  BY EpochInit DEF Init, BeamInit, FoundInv, Searching
<1>2. ASSUME FoundInv, [Next]_vars PROVE FoundInv'
  BY <1>2, FoundStep
<1>3. FoundInv => LocallyOptimal
  <2> SUFFICES ASSUME FoundInv, NEW t \in Threads, pc[t] = "search", BeamDone(t),
                      NEW w \in Kept(t), NEW s \in 1..Len(Neighbors[w]),
                      Neighbors[w][s] \notin Kept(t)
               PROVE  /\ Size(W[t]) = L
                      /\ \A x \in Kept(t) : Near(t, x) <= Near(t, Neighbors[w][s])
    BY DEF LocallyOptimal, Kept
  <2>1. Found(t) /\ EpochInv
    BY DEF FoundInv, Searching
  <2>2. w \notin Open(t)
    <3>1. Near(t, w) \in Nat
      BY <2>1, NearInNat, TypeParts DEF Found, Seen, EpochInv
    <3> QED BY <3>1 DEF BeamDone, Open, Kept
  <2>3. Neighbors[w][s] \in Seen(t)
    BY <2>1, <2>2 DEF Found, ListOf
  <2>4. PassedOver(t, Neighbors[w][s])
    BY <2>1, <2>3 DEF Found
  <2>5. Size(W[t]) = Cardinality(Kept(t))
    BY <2>1, OneEachFacts DEF Found, Kept
  <2> QED BY <2>4, <2>5 DEF PassedOver
<1> QED BY <1>1, <1>2, <1>3, PTL DEF Spec
=============================================================================
