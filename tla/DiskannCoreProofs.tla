------------------------- MODULE DiskannCoreProofs --------------------------
(***************************************************************************)
(* Theorems about DiskannCore, for every number of nodes, every degree and *)
(* width and every distance.                                               *)
(***************************************************************************)
EXTENDS DiskannCore, FiniteSetTheorems, TLAPS

-----------------------------------------------------------------------------
(* The inductive invariant.                                                *)

Old == 0 .. size - 1            \* the nodes whose insert is complete
Injective(list) == \A a, b \in 1..Len(list) : list[a] = list[b] => a = b

(* While the new node is linked, lists may name it.                        *)
Linking == pc = "link" \/ (pc = "prune" /\ base # New)
Known == IF Linking THEN Old \cup {New} ELSE Old

Typed ==
    /\ size \in 0..MaxNodes /\ entry \in Nodes \cup {NoNode}
    /\ links \in [Nodes -> Seq(Nodes)]
    /\ pc \in {"idle", "search", "read", "prune", "link"}
    /\ op \in {"none", "insert", "search"}
    /\ i \in Nat \ {0} /\ si \in Nat \ {0}
    /\ kept \in Seq(Nodes) /\ sel \in Seq(Nodes)
    /\ todo \subseteq Nodes /\ base \in Nodes \cup {NoNode}

ListsSimple ==
    \A n \in Nodes :
        /\ Len(links[n]) <= R /\ Injective(links[n])
        /\ Listed(links[n]) \subseteq Known \ {n}

(* What a search holds was inserted before.                                *)
SearchHolds ==
    /\ op = "none" <=> pc = "idle"
    /\ op # "none" => size > 0
    /\ op = "insert" => size < MaxNodes
    /\ pc \in {"prune", "link"} => op = "insert"
    /\ size > 0 => entry \in Old
    /\ cand \subseteq Old /\ W \subseteq Old
    /\ pc = "read" => at \in Old

(* What the pruning loop has kept, and what it still may.                  *)
PruneHolds ==
    pc = "prune" =>
        /\ Injective(kept) /\ Len(kept) <= R
        /\ todo \cap Listed(kept) = {}
        /\ todo \cup Listed(kept) \subseteq Known \ {base}
        /\ base # New => si <= Len(sel) /\ base = sel[si]

(* The selected nodes are linked one after the other; those still to come  *)
(* do not name the new node yet.                                           *)
LinkHolds ==
    Linking =>
        /\ Injective(sel) /\ Listed(sel) \subseteq Old
        /\ \A j \in 1..Len(sel) : j >= si => New \notin Listed(links[sel[j]])

DInv == Typed /\ ListsSimple /\ SearchHolds /\ PruneHolds /\ LinkHolds

-----------------------------------------------------------------------------
(* Facts about lists and constants.                                        *)

LEMMA ConstantFacts ==
    /\ MaxNodes \in Nat /\ R \in Nat \ {0}
    /\ Nodes \subseteq Nat /\ NoNode \notin Nodes
BY DiskannAssumption DEF Nodes, NoNode

LEMMA ListedIsRange ==
    ASSUME NEW S, NEW list \in Seq(S)
    PROVE  Listed(list) \subseteq S
BY DEF Listed

LEMMA EmptyList ==
    /\ Listed(<<>>) = {} /\ Injective(<<>>) /\ Len(<<>>) = 0
    /\ <<>> \in Seq(Nodes)
BY DEF Listed, Injective

LEMMA AppendedList ==
    ASSUME NEW S, NEW list \in Seq(S), NEW e \in S,
           Injective(list), e \notin Listed(list)
    PROVE  /\ Append(list, e) \in Seq(S) /\ Len(Append(list, e)) = Len(list) + 1
           /\ Listed(Append(list, e)) = Listed(list) \cup {e}
           /\ Injective(Append(list, e))
<1> DEFINE n == Len(list)
           longer == Append(list, e)
<1>1. n \in Nat /\ longer \in Seq(S) /\ Len(longer) = n + 1 /\ longer[n + 1] = e
      /\ \A j \in 1..n : longer[j] = list[j]
  OBVIOUS
<1>2. \A j \in 1..n : list[j] \in Listed(list)
  BY DEF Listed
<1>3. Listed(longer) = Listed(list) \cup {e}
  <2>1. 1..(n + 1) = (1..n) \cup {n + 1}
    BY <1>1
  <2> QED BY <1>1, <2>1 DEF Listed
<1>4. Injective(longer)
  <2> SUFFICES ASSUME NEW a \in 1..(n + 1), NEW b \in 1..(n + 1), longer[a] = longer[b]
               PROVE  a = b
    BY <1>1 DEF Injective
  <2>1. CASE a \in 1..n /\ b \in 1..n
    BY <1>1, <2>1 DEF Injective
  <2>2. CASE a = n + 1 \/ b = n + 1
    <3>1. a \in 1..n => longer[a] # e
      BY <1>1, <1>2
    <3>2. b \in 1..n => longer[b] # e
      BY <1>1, <1>2
    <3> QED BY <1>1, <2>2, <3>1, <3>2
  <2> QED BY <1>1, <2>1, <2>2
<1> QED BY <1>1, <1>3, <1>4

(* A list without repetition names as many nodes as it is long.            *)
LEMMA InjectiveCardinality ==
    ASSUME NEW S, NEW list \in Seq(S), Injective(list)
    PROVE  Cardinality(Listed(list)) = Len(list)
<1> DEFINE n == Len(list)
<1>1. n \in Nat /\ list \in [1..n -> Listed(list)]
  BY DEF Listed
<1>2. list \in Bijection(1..n, Listed(list))
  BY <1>1 DEF Listed, Injective, Bijection, Injection, Surjection, IsInjective
<1>3. ExistsBijection(1..n, Listed(list))
  BY <1>2 DEF ExistsBijection
<1> QED BY <1>1, <1>3, FS_CountingElements

LEMMA NewIsNode == DInv /\ op = "insert" => New \in Nodes /\ Old \subseteq Nodes
BY ConstantFacts DEF DInv, Typed, SearchHolds, New, Old, Nodes

LEMMA NewIsNotOld == DInv => New \notin Old /\ size \in Nat
BY ConstantFacts DEF DInv, Typed, New, Old

(* While an operation only searches, nothing but what it holds changes.    *)
LEMMA SearchOnly ==
    ASSUME DInv, ~Linking, ~Linking', UNCHANGED <<graph, prune, sel, si>>,
           pc' # "prune", SearchHolds',
           pc' \in {"idle", "search", "read"},
           op' \in {"none", "insert", "search"}, i' \in Nat \ {0}
    PROVE  DInv'
<1>1. Typed'
  BY DEF DInv, Typed, graph, prune
<1>2. ListsSimple' /\ PruneHolds' /\ LinkHolds'
  BY DEF DInv, ListsSimple, PruneHolds, LinkHolds, Known, Old, New, graph, prune
<1> QED BY <1>1, <1>2 DEF DInv

-----------------------------------------------------------------------------
(* The steps that search.                                                  *)

LEMMA InitHolds == Init => DInv
<1> SUFFICES ASSUME Init PROVE DInv
  OBVIOUS
<1>1. Typed
  BY ConstantFacts, EmptyList DEF Init, Typed, NoNode
<1>2. ListsSimple /\ PruneHolds /\ LinkHolds
  BY ConstantFacts, EmptyList DEF Init, ListsSimple, PruneHolds, LinkHolds, Linking
<1>3. SearchHolds
  BY DEF Init, SearchHolds
<1> QED BY <1>1, <1>2, <1>3 DEF DInv

LEMMA SearchStep == DInv /\ Search => DInv'
<1> SUFFICES ASSUME DInv, Search PROVE DInv'
  OBVIOUS
<1>1. pc = "idle" /\ pc' = "search" /\ op' = "search" /\ size # 0 /\ i' = 1
      /\ cand' = {entry} /\ W' = {entry} /\ UNCHANGED <<graph, prune, sel, si>>
  BY DEF Search, Seed
<1>2. SearchHolds'
  BY <1>1 DEF DInv, Typed, SearchHolds, graph, Old
<1> QED BY <1>1, <1>2, SearchOnly DEF Linking

LEMMA ExpandStep == DInv /\ Expand => DInv'
<1> SUFFICES ASSUME DInv, Expand PROVE DInv'
  OBVIOUS
<1>1. pc = "search" /\ pc' = "read" /\ i' = 1 /\ at' \in cand /\ cand' \subseteq cand
      /\ UNCHANGED <<graph, op, W, prune, sel, si>>
  BY DEF Expand
<1>2. SearchHolds'
  BY <1>1 DEF DInv, SearchHolds, graph, Old
<1> QED BY <1>1, <1>2, SearchOnly DEF Linking, DInv, Typed

LEMMA VisitStep == DInv /\ Visit => DInv'
<1> SUFFICES ASSUME DInv, Visit PROVE DInv'
  OBVIOUS
<1> DEFINE n == links[at][i]
<1>1. pc = "read" /\ i <= Len(links[at]) /\ i' = i + 1
      /\ UNCHANGED <<graph, pc, op, at, prune, sel, si>>
  BY DEF Visit
<1>2. at \in Nodes /\ at \in Old /\ ~Linking
  BY <1>1, ConstantFacts DEF DInv, SearchHolds, Linking, Typed, Old, Nodes
<1>3. n \in Old
  <2>1. i \in 1..Len(links[at])
    BY <1>1, <1>2 DEF DInv, Typed
  <2>2. n \in Listed(links[at])
    BY <2>1 DEF Listed
  <2> QED BY <1>2, <2>2 DEF DInv, ListsSimple, Known
<1>4. cand' \subseteq cand \cup {n} /\ W' \subseteq W \cup {n}
  BY DEF Visit, Offered
<1>5. SearchHolds'
  BY <1>1, <1>3, <1>4 DEF DInv, SearchHolds, graph, Old
<1>6. ~Linking' /\ pc' = "read" /\ op' \in {"none", "insert", "search"} /\ i' \in Nat \ {0}
  BY <1>1 DEF Linking, DInv, Typed
<1> QED BY <1>1, <1>2, <1>5, <1>6, SearchOnly

LEMMA EndOfListStep == DInv /\ EndOfList => DInv'
<1> SUFFICES ASSUME DInv, EndOfList PROVE DInv'
  OBVIOUS
<1>1. pc = "read" /\ pc' = "search"
      /\ UNCHANGED <<graph, op, cand, W, i, prune, sel, si>>
  BY DEF EndOfList
<1>2. SearchHolds'
  BY <1>1 DEF DInv, SearchHolds, graph, Old
<1> QED BY <1>1, <1>2, SearchOnly DEF Linking, DInv, Typed

LEMMA EndSearchStep == DInv /\ EndSearch => DInv'
<1> SUFFICES ASSUME DInv, EndSearch PROVE DInv'
  OBVIOUS
<1>1. pc = "search" /\ pc' = "idle" /\ op' = "none" /\ i' = 1 /\ si' = 1
      /\ cand' = {} /\ W' = {} /\ kept' = <<>> /\ sel' = <<>> /\ todo' = {}
      /\ base' = NoNode /\ UNCHANGED graph
  BY DEF EndSearch, Rest
<1>2. Typed'
  BY <1>1, EmptyList DEF DInv, Typed, graph
<1>3. SearchHolds'
  BY <1>1 DEF DInv, SearchHolds, graph, Old
<1>4. ListsSimple' /\ PruneHolds' /\ LinkHolds'
  BY <1>1 DEF DInv, ListsSimple, PruneHolds, LinkHolds, Known, Linking, Old, New, graph
<1> QED BY <1>2, <1>3, <1>4 DEF DInv

-----------------------------------------------------------------------------
(* The steps that insert.                                                  *)

LEMMA InsertStep == DInv /\ Insert => DInv'
<1> SUFFICES ASSUME DInv, Insert PROVE DInv'
  OBVIOUS
<1>1. pc = "idle" /\ size < MaxNodes /\ New \in Nodes /\ size \in Nat
      /\ links' = [links EXCEPT ![New] = <<>>] /\ UNCHANGED <<prune, sel, si>>
  BY ConstantFacts DEF Insert, DInv, Typed, New, Nodes
<1>2. links' \in [Nodes -> Seq(Nodes)]
  BY <1>1, EmptyList DEF DInv, Typed
<1>3. ASSUME NEW n \in Nodes
      PROVE  Len(links'[n]) <= R /\ Injective(links'[n]) /\ Listed(links'[n]) \subseteq Old \ {n}
  <2>1. links \in [Nodes -> Seq(Nodes)] /\ ~Linking
    BY <1>1 DEF DInv, Typed, Linking
  <2>2. CASE n = New
    BY <1>1, <2>1, <2>2, EmptyList, ConstantFacts
  <2>3. CASE n # New
    BY <1>1, <2>1, <2>3 DEF DInv, ListsSimple, Known
  <2> QED BY <2>2, <2>3
<1>4. CASE size = 0 /\ entry' = New /\ size' = 1 /\ UNCHANGED <<pc, op, query, width, search>>
  <2>1. Old \subseteq Old' /\ Old' = {0} /\ New = 0
    BY <1>4 DEF Old, New
  <2>2. Typed'
    BY <1>1, <1>2, <1>4, ConstantFacts DEF DInv, Typed, prune, search
  <2>3. ListsSimple'
    BY <1>1, <1>3, <1>4, <2>1 DEF ListsSimple, Known, Linking
  <2>4. SearchHolds'
    BY <1>1, <1>4, <2>1 DEF DInv, SearchHolds, search
  <2>5. PruneHolds' /\ LinkHolds'
    BY <1>1, <1>4 DEF PruneHolds, LinkHolds, Linking
  <2> QED BY <2>2, <2>3, <2>4, <2>5 DEF DInv
<1>5. CASE size # 0 /\ (\E v \in Vectors : Seed("insert", v, L)) /\ UNCHANGED <<size, entry>>
  <2>1. op' = "insert" /\ pc' = "search" /\ cand' = {entry} /\ W' = {entry} /\ i' = 1
    BY <1>5 DEF Seed
  <2>2. Typed'
    BY <1>1, <1>2, <1>5, <2>1 DEF DInv, Typed, prune
  <2>3. ListsSimple' /\ PruneHolds' /\ LinkHolds'
    BY <1>3, <1>5, <2>1 DEF ListsSimple, PruneHolds, LinkHolds, Known, Linking, Old
  <2>4. SearchHolds'
    BY <1>1, <1>5, <2>1 DEF DInv, Typed, SearchHolds, Old
  <2> QED BY <2>2, <2>3, <2>4 DEF DInv
<1> QED BY <1>4, <1>5 DEF Insert

LEMMA SelectStep == DInv /\ Select => DInv'
<1> SUFFICES ASSUME DInv, Select PROVE DInv'
  OBVIOUS
<1>1. pc = "search" /\ op = "insert" /\ pc' = "prune" /\ base' = New /\ todo' = W
      /\ kept' = <<>> /\ cand' = {} /\ W' = {} /\ i' = 1
      /\ UNCHANGED <<graph, op, at, sel, si>>
  BY DEF Select, StartPrune
<1>2. W \subseteq Old /\ New \notin Old /\ New \in Nodes /\ Old \subseteq Nodes /\ New' = New /\ Old' = Old
  BY <1>1, NewIsNode, NewIsNotOld DEF DInv, SearchHolds, New, Old, graph
<1>3. ~Linking /\ ~Linking'
  BY <1>1, <1>2 DEF Linking
<1>4. Typed'
  BY <1>1, <1>2, EmptyList DEF DInv, Typed, graph
<1>5. ListsSimple' /\ LinkHolds'
  BY <1>1, <1>2, <1>3 DEF DInv, ListsSimple, LinkHolds, Known, graph
<1>6. SearchHolds'
  BY <1>1, <1>2 DEF DInv, SearchHolds, graph
<1>7. PruneHolds'
  <2>1. Injective(kept') /\ Len(kept') <= R /\ Listed(kept') = {}
    BY <1>1, EmptyList, ConstantFacts
  <2>2. todo' \subseteq Known' \ {base'} /\ base' = New'
    BY <1>1, <1>2, <1>3 DEF Known
  <2> QED BY <2>1, <2>2 DEF PruneHolds
<1> QED BY <1>4, <1>5, <1>6, <1>7 DEF DInv

LEMMA KeepStep == DInv /\ Keep => DInv'
<1> SUFFICES ASSUME DInv, Keep PROVE DInv'
  OBVIOUS
<1>1. pc = "prune" /\ Len(kept) # R
      /\ UNCHANGED <<graph, pc, op, search, base, sel, si>>
  BY DEF Keep, Pruned
<1>2. PICK p \in todo : kept' = Append(kept, p) /\ todo' \subseteq todo \ {p}
  BY DEF Keep, Remaining
<1>3. p \in Nodes /\ kept \in Seq(Nodes) /\ Injective(kept) /\ p \notin Listed(kept)
      /\ Len(kept) <= R /\ Len(kept) \in Nat
  BY <1>1, <1>2 DEF DInv, Typed, PruneHolds
<1>4. kept' \in Seq(Nodes) /\ Len(kept') = Len(kept) + 1 /\ Injective(kept')
      /\ Listed(kept') = Listed(kept) \cup {p}
  BY <1>2, <1>3, AppendedList
<1>5. Linking' = Linking /\ Known' = Known /\ New' = New /\ Old' = Old
  BY <1>1 DEF Linking, Known, Old, New, graph
<1>6. Typed'
  BY <1>1, <1>2, <1>4 DEF DInv, Typed, graph, search
<1>7. ListsSimple' /\ LinkHolds' /\ SearchHolds'
  BY <1>1, <1>5 DEF DInv, ListsSimple, LinkHolds, SearchHolds, graph, search
<1>8. PruneHolds'
  <2>1. Len(kept') <= R
    BY <1>1, <1>3, <1>4, ConstantFacts
  <2>2. todo' \cap Listed(kept') = {} /\ todo' \cup Listed(kept') \subseteq Known \ {base}
    BY <1>1, <1>2, <1>4 DEF DInv, PruneHolds
  <2> QED BY <1>1, <1>4, <1>5, <2>1, <2>2 DEF DInv, PruneHolds
<1> QED BY <1>6, <1>7, <1>8 DEF DInv

(* The forward edges: from now on the new node may be named.               *)
LEMMA ForwardStep == DInv /\ Forward => DInv'
<1> SUFFICES ASSUME DInv, Forward PROVE DInv'
  OBVIOUS
<1>1. pc = "prune" /\ base = New /\ pc' = "link" /\ sel' = kept /\ si' = 1
      /\ links' = [links EXCEPT ![New] = kept]
      /\ UNCHANGED <<size, entry, op, search, prune>>
  BY DEF Forward
<1>2. op = "insert" /\ New \in Nodes /\ New \notin Old /\ Old \subseteq Nodes
      /\ New' = New /\ Old' = Old
  BY <1>1, NewIsNode, NewIsNotOld DEF DInv, SearchHolds, New, Old
<1>3. ~Linking /\ Known = Old /\ Linking' /\ Known' = Old \cup {New}
  BY <1>1, <1>2 DEF Linking, Known
<1>4. kept \in Seq(Nodes) /\ Injective(kept) /\ Len(kept) <= R /\ Listed(kept) \subseteq Old
  BY <1>1, <1>3 DEF DInv, Typed, PruneHolds
<1>5. links \in [Nodes -> Seq(Nodes)] /\ links'[New] = kept
      /\ \A n \in Nodes \ {New} : links'[n] = links[n]
  BY <1>1, <1>2 DEF DInv, Typed
<1>6. Typed'
  BY <1>1, <1>2, <1>4 DEF DInv, Typed, search, prune
<1>7. ListsSimple'
  <2> SUFFICES ASSUME NEW n \in Nodes
               PROVE  /\ Len(links'[n]) <= R /\ Injective(links'[n])
                      /\ Listed(links'[n]) \subseteq Known' \ {n}
    BY DEF ListsSimple
  <2>1. CASE n = New
    BY <1>2, <1>3, <1>4, <1>5, <2>1
  <2>2. CASE n # New
    BY <1>3, <1>5, <2>2 DEF DInv, ListsSimple
  <2> QED BY <2>1, <2>2
<1>8. SearchHolds'
  BY <1>1, <1>2 DEF DInv, SearchHolds, search
<1>9. LinkHolds'
  <2> SUFFICES ASSUME NEW j \in 1..Len(kept) PROVE New \notin Listed(links'[kept[j]])
    BY <1>1, <1>2, <1>4 DEF LinkHolds
  <2>1. kept[j] \in Old
    BY <1>4 DEF Listed
  <2> QED BY <1>2, <1>3, <1>5, <2>1 DEF DInv, ListsSimple
<1> QED BY <1>1, <1>6, <1>7, <1>8, <1>9 DEF DInv, PruneHolds

(* The node to link back from, and the lists still to come.                *)
LEMMA SelectedIsOld ==
    ASSUME DInv, pc = "link", si <= Len(sel)
    PROVE  /\ op = "insert" /\ New \in Nodes /\ New \notin Old /\ Old \subseteq Nodes
           /\ Linking /\ Known = Old \cup {New}
           /\ si \in 1..Len(sel) /\ sel[si] \in Old /\ sel[si] \in Nodes
           /\ New \notin Listed(links[sel[si]])
<1>1. op = "insert" /\ New \in Nodes /\ New \notin Old /\ Old \subseteq Nodes
  BY NewIsNode, NewIsNotOld DEF DInv, SearchHolds
<1>2. Linking /\ si \in 1..Len(sel)
  BY DEF DInv, Typed, Linking
<1>3. sel[si] \in Listed(sel)
  BY <1>2 DEF Listed
<1> QED BY <1>1, <1>2, <1>3 DEF DInv, LinkHolds, Known, Typed

(* When the list of the si-th selected node is replaced by a simple one of *)
(* known nodes, the invariant holds for the next.                          *)
LEMMA Replaced ==
    ASSUME DInv, Linking, op = "insert", si \in 1..Len(sel), NEW list \in Seq(Nodes),
           links' = [links EXCEPT ![sel[si]] = list],
           Len(list) <= R, Injective(list), Listed(list) \subseteq Known \ {sel[si]},
           si' = si + 1, pc' = "link", UNCHANGED <<size, entry, op, search, prune, sel>>
    PROVE  DInv'
<1> DEFINE s == sel[si]
<1>1. New \in Nodes /\ New \notin Old /\ Old \subseteq Nodes /\ New' = New /\ Old' = Old
      /\ Linking' /\ Known' = Known
  BY NewIsNode, NewIsNotOld DEF New, Old, Linking, Known
<1>2. s \in Nodes
  <2>1. s \in Listed(sel)
    BY DEF Listed
  <2> QED BY <1>1, <2>1 DEF DInv, LinkHolds
<1>3. links \in [Nodes -> Seq(Nodes)] /\ links'[s] = list
      /\ \A n \in Nodes \ {s} : links'[n] = links[n]
  BY <1>2 DEF DInv, Typed
<1>4. Typed'
  BY <1>2 DEF DInv, Typed, search, prune
<1>5. ListsSimple'
  <2> SUFFICES ASSUME NEW n \in Nodes
               PROVE  /\ Len(links'[n]) <= R /\ Injective(links'[n])
                      /\ Listed(links'[n]) \subseteq Known \ {n}
    BY <1>1 DEF ListsSimple
  <2>1. CASE n = s
    BY <1>3, <2>1
  <2>2. CASE n # s
    BY <1>3, <2>2 DEF DInv, ListsSimple
  <2> QED BY <2>1, <2>2
<1>6. SearchHolds'
  BY <1>1 DEF DInv, SearchHolds, search
<1>7. LinkHolds'
  <2> SUFFICES ASSUME NEW j \in 1..Len(sel), j >= si + 1
               PROVE  New \notin Listed(links'[sel[j]])
    BY <1>1 DEF DInv, LinkHolds
  <2>1. j >= si /\ j # si /\ sel \in Seq(Nodes) /\ Injective(sel)
    BY DEF DInv, Typed, LinkHolds
  <2>2. sel[j] # s /\ sel[j] \in Nodes
    BY <2>1 DEF Injective
  <2> QED BY <1>3, <2>1, <2>2 DEF DInv, LinkHolds
<1> QED BY <1>4, <1>5, <1>6, <1>7 DEF DInv, PruneHolds

LEMMA LinkBackStep == DInv /\ LinkBack => DInv'
<1> SUFFICES ASSUME DInv, LinkBack PROVE DInv'
  OBVIOUS
<1> DEFINE s == sel[si]
           list == Append(links[s], New)
<1>1. pc = "link" /\ si <= Len(sel) /\ Len(links[s]) < R
      /\ links' = [links EXCEPT ![s] = list] /\ si' = si + 1 /\ pc' = "link"
      /\ UNCHANGED <<size, entry, op, search, prune, sel>>
  <2>1. links' = [links EXCEPT ![s] = Append(@, New)]
    BY DEF LinkBack
  <2>2. links' = [links EXCEPT ![s] = list]
    BY <2>1
  <2> QED BY <2>2 DEF LinkBack, HasRoom
<1>2. /\ op = "insert" /\ New \in Nodes /\ New \notin Old /\ Linking
      /\ Known = Old \cup {New} /\ si \in 1..Len(sel) /\ s \in Old /\ s \in Nodes
      /\ New \notin Listed(links[s])
  BY <1>1, SelectedIsOld
<1>3. links[s] \in Seq(Nodes) /\ Injective(links[s]) /\ Listed(links[s]) \subseteq Known \ {s}
      /\ Len(links[s]) \in Nat
  BY <1>2 DEF DInv, Typed, ListsSimple
<1>4. list \in Seq(Nodes) /\ Len(list) = Len(links[s]) + 1
      /\ Listed(list) = Listed(links[s]) \cup {New} /\ Injective(list)
  BY <1>2, <1>3, AppendedList
<1>5. Len(list) <= R
  BY <1>1, <1>3, <1>4, ConstantFacts
<1>6. Listed(list) \subseteq Known \ {s}
  BY <1>2, <1>3, <1>4
<1> HIDE DEF list
<1> QED BY <1>1, <1>2, <1>4, <1>5, <1>6, Replaced

LEMMA RepruneStep == DInv /\ Reprune => DInv'
<1> SUFFICES ASSUME DInv, Reprune PROVE DInv'
  OBVIOUS
<1> DEFINE s == sel[si]
<1>1. pc = "link" /\ si <= Len(sel) /\ pc' = "prune" /\ base' = s
      /\ todo' = Listed(links[s]) \cup {New} /\ kept' = <<>>
      /\ UNCHANGED <<graph, op, search, sel, si>>
  BY DEF Reprune, StartPrune, Overfull
<1>2. /\ op = "insert" /\ New \in Nodes /\ New \notin Old /\ Linking
      /\ Known = Old \cup {New} /\ si \in 1..Len(sel) /\ s \in Old /\ s \in Nodes
  BY <1>1, SelectedIsOld
<1>3. New' = New /\ Old' = Old /\ Linking' /\ Known' = Known
  BY <1>1, <1>2 DEF New, Old, Linking, Known, graph
<1>4. links[s] \in Seq(Nodes) /\ Listed(links[s]) \subseteq Known \ {s}
  BY <1>2 DEF DInv, Typed, ListsSimple
<1>5. todo' \subseteq Nodes /\ todo' \subseteq Known \ {s}
  BY <1>1, <1>2, <1>4, ListedIsRange
<1>6. Typed'
  BY <1>1, <1>2, <1>5, EmptyList DEF DInv, Typed, graph, search
<1>7. ListsSimple' /\ LinkHolds' /\ SearchHolds'
  BY <1>1, <1>2, <1>3 DEF DInv, ListsSimple, LinkHolds, SearchHolds, graph, search
<1>8. PruneHolds'
  <2>1. Injective(kept') /\ Len(kept') <= R /\ Listed(kept') = {}
    BY <1>1, EmptyList, ConstantFacts
  <2> QED BY <1>1, <1>3, <1>5, <2>1 DEF PruneHolds
<1> QED BY <1>6, <1>7, <1>8 DEF DInv

LEMMA RewriteStep == DInv /\ Rewrite => DInv'
<1> SUFFICES ASSUME DInv, Rewrite PROVE DInv'
  OBVIOUS
<1>1. pc = "prune" /\ base # New /\ links' = [links EXCEPT ![base] = kept]
      /\ si' = si + 1 /\ pc' = "link"
      /\ UNCHANGED <<size, entry, op, search, prune, sel>>
  BY DEF Rewrite
<1>2. Linking /\ op = "insert" /\ si \in 1..Len(sel) /\ base = sel[si]
  BY <1>1 DEF DInv, Typed, Linking, SearchHolds, PruneHolds
<1>3. kept \in Seq(Nodes) /\ Len(kept) <= R /\ Injective(kept)
      /\ Listed(kept) \subseteq Known \ {base}
  BY <1>1 DEF DInv, Typed, PruneHolds
<1> QED BY <1>1, <1>2, <1>3, Replaced

LEMMA EndInsertStep == DInv /\ EndInsert => DInv'
<1> SUFFICES ASSUME DInv, EndInsert PROVE DInv'
  OBVIOUS
<1>1. pc = "link" /\ size' = size + 1 /\ pc' = "idle" /\ op' = "none" /\ i' = 1 /\ si' = 1
      /\ cand' = {} /\ W' = {} /\ kept' = <<>> /\ sel' = <<>> /\ todo' = {}
      /\ base' = NoNode /\ UNCHANGED <<entry, links>>
  BY DEF EndInsert, Rest
<1>2. op = "insert" /\ size \in 0..MaxNodes /\ size < MaxNodes /\ size > 0
  BY <1>1, ConstantFacts DEF DInv, Typed, SearchHolds
<1>3. Old' = Old \cup {New} /\ Known = Old \cup {New} /\ Known' = Old' /\ ~Linking'
  BY <1>1, <1>2, ConstantFacts DEF Old, New, Known, Linking
<1>4. Typed'
  BY <1>1, <1>2, EmptyList, ConstantFacts DEF DInv, Typed
<1>5. ListsSimple'
  BY <1>1, <1>3 DEF DInv, ListsSimple
<1>6. SearchHolds'
  BY <1>1, <1>2, <1>3 DEF DInv, SearchHolds
<1>7. PruneHolds' /\ LinkHolds'
  BY <1>1, <1>3 DEF PruneHolds, LinkHolds
<1> QED BY <1>4, <1>5, <1>6, <1>7 DEF DInv

-----------------------------------------------------------------------------
(* The theorem.                                                            *)

LEMMA StepHolds == DInv /\ [Next]_vars => DInv'
<1> SUFFICES ASSUME DInv, [Next]_vars PROVE DInv'
  OBVIOUS
<1>1. CASE Insert
  BY <1>1, InsertStep
<1>2. CASE Search
  BY <1>2, SearchStep
<1>3. CASE Expand \/ Visit \/ EndOfList
  BY <1>3, ExpandStep, VisitStep, EndOfListStep
<1>4. CASE Keep \/ Select \/ Forward
  BY <1>4, KeepStep, SelectStep, ForwardStep
<1>5. CASE LinkBack \/ Reprune \/ Rewrite
  BY <1>5, LinkBackStep, RepruneStep, RewriteStep
<1>6. CASE EndInsert \/ EndSearch
  BY <1>6, EndInsertStep, EndSearchStep
<1>7. CASE UNCHANGED vars
  BY <1>7 DEF vars, graph, search, prune, DInv, Typed, ListsSimple, SearchHolds,
              PruneHolds, LinkHolds, Linking, Known, Old, New
<1> QED BY <1>1, <1>2, <1>3, <1>4, <1>5, <1>6, <1>7 DEF Next, Step

LEMMA InvariantIsSimple == DInv => SimpleLists
<1> SUFFICES ASSUME DInv, NEW n \in Nodes
             PROVE  /\ Len(links[n]) <= R
                    /\ Cardinality(Listed(links[n])) = Len(links[n])
                    /\ Listed(links[n]) \subseteq (0 .. New) \ {n}
  BY DEF SimpleLists
<1>1. links[n] \in Seq(Nodes) /\ Len(links[n]) <= R /\ Injective(links[n])
      /\ Listed(links[n]) \subseteq Known \ {n}
  BY DEF DInv, Typed, ListsSimple
<1>2. Known \subseteq 0 .. New
  BY NewIsNotOld DEF Known, Old, New
<1> QED BY <1>1, <1>2, InjectiveCardinality

(* In every reachable state, whatever the distances, the degree and the    *)
(* width: no list outgrows its R slots, names a node twice, its own node   *)
(* or one that is not allocated (Insert, RobustPrune, ConnectAndPrune).    *)
THEOREM ListsStaySimple == Spec => []SimpleLists
<1>1. Init => DInv
  BY InitHolds
<1>2. DInv /\ [Next]_vars => DInv'
  BY StepHolds
<1>3. DInv => SimpleLists
  BY InvariantIsSimple
<1> QED BY <1>1, <1>2, <1>3, PTL DEF Spec

-----------------------------------------------------------------------------
(* The inductive invariant of the search, on top of DInv.                  *)

Values ==
    /\ vec \in [Nodes -> Vectors] /\ query \in Vectors /\ width \in Nat /\ k \in Nat
    /\ op # "none" => width > 0
    /\ op = "search" => width >= k
    /\ marks \subseteq Old

Searching == pc \in {"search", "read"}

(* A marked node that is not a result: the results are full, and as near.  *)
PassedOver(m) == Cardinality(W) = width /\ \A x \in W : Near(x) <= Near(m)

(* What was met is marked, and what is marked and not kept was passed over;*)
(* a result taken from the candidates has had its neighbours marked, the   *)
(* one being read those before i.                                          *)
SearchInv ==
    Searching =>
        /\ IsFiniteSet(W) /\ W # {} /\ Cardinality(W) <= width
        /\ cand \cup W \subseteq marks
        /\ \A m \in marks \ W : PassedOver(m)
        /\ \A w \in W \ cand :
             pc = "search" \/ w # at => Listed(links[w]) \subseteq marks
        /\ pc = "read" => \A j \in 1..Len(links[at]) : j < i => links[at][j] \in marks

FInv == DInv /\ Values /\ SearchInv

-----------------------------------------------------------------------------
(* The inductive invariant of the pruning loop: what is kept is nearest    *)
(* first and no kept node removes a later one or one still to be looked    *)
(* at; what is gone was removed by a kept node at least as near.           *)

LoopInv ==
    pc = "prune" =>
        LET S == DOMAIN dist IN
        /\ S \subseteq Nodes /\ S # {} /\ dist \in [S -> Nat]
        /\ todo \cup Listed(kept) \subseteq S
        /\ \A a, b \in 1..Len(kept) :
             a < b => /\ dist[kept[a]] <= dist[kept[b]]
                      /\ ~P!Removes(kept[a], kept[b], dist)
        /\ \A c \in todo, a \in 1..Len(kept) :
             dist[kept[a]] <= dist[c] /\ ~P!Removes(kept[a], c, dist)
        /\ \A c \in S \ (Listed(kept) \cup todo) : \E a \in 1..Len(kept) :
             dist[kept[a]] <= dist[c] /\ P!Removes(kept[a], c, dist)

PInv == FInv /\ LoopInv

-----------------------------------------------------------------------------
(* The inductive invariant of a small graph.                               *)

(* No list has overflowed, nor will when the insert is done.               *)
Small == IF op = "insert" THEN size <= R ELSE size <= R + 1

Closed(S) == \A n \in S : Listed(links[n]) \cap Old \subseteq S

(* Every indexed node is reached from every other: a set that no edge      *)
(* leaves is empty or all of them.                                         *)
Joined == Small => \A S \in SUBSET Old : S # {} /\ Closed(S) => S = Old

(* The new node's list is not empty, those linked so far name it, and no   *)
(* full list has to be pruned again.                                       *)
LinkedBothWays ==
    Small =>
        /\ pc = "prune" => base = New
        /\ pc = "link" =>
             /\ sel # <<>> /\ links[New] = sel
             /\ \A j \in 1..Len(sel) : j < si => New \in Listed(links[sel[j]])

JInv == PInv /\ Joined /\ LinkedBothWays

-----------------------------------------------------------------------------
(* The search: values and widths.                                          *)

LEMMA WidthFacts ==
    /\ L \in Nat \ {0}
    /\ \A n \in Ks, l \in LSearches :
         /\ n \in Nat /\ SearchWidth(n, l) \in Nat \ {0} /\ SearchWidth(n, l) >= n
BY DiskannAssumption DEF L, Max2, SearchWidth

LEMMA NearInNat == ASSUME Values PROVE \A n \in Nodes : Near(n) \in Nat
BY DiskannAssumption DEF Values, Near

LEMMA OldFacts ==
    ASSUME DInv
    PROVE  /\ size \in Nat /\ Old \subseteq Nodes /\ New \notin Old
           /\ IsFiniteSet(Old) /\ Cardinality(Old) = size
<1>1. size \in 0..MaxNodes /\ MaxNodes \in Nat
  BY ConstantFacts DEF DInv, Typed
<1>2. IsFiniteSet(Old) /\ Cardinality(Old) = size
  <2>1. 0 \in Int /\ size - 1 \in Int
    BY <1>1
  <2>2. IsFiniteSet(0 .. size - 1)
        /\ Cardinality(0 .. size - 1) = IF 0 > size - 1 THEN 0 ELSE (size - 1) - 0 + 1
    BY <2>1, FS_Interval
  <2> QED BY <1>1, <2>2 DEF Old
<1> QED BY <1>1, <1>2 DEF Old, Nodes, New

LEMMA ValuesHold == DInv /\ Values /\ DInv' /\ [Next]_vars => Values'
<1> SUFFICES ASSUME DInv, Values, DInv', [Next]_vars PROVE Values'
  OBVIOUS
<1>1. CASE Insert
  <2>1. pc = "idle" /\ New \in Nodes /\ UNCHANGED k /\ op = "none"
    BY <1>1, ConstantFacts DEF Insert, DInv, Typed, SearchHolds, New, Nodes
  <2>2. PICK v \in Vectors :
          /\ vec' = [vec EXCEPT ![New] = v]
          /\ \/ size = 0 /\ size' = 1 /\ UNCHANGED <<pc, op, query, width, search>>
             \/ size # 0 /\ Seed("insert", v, L) /\ UNCHANGED <<size, entry>>
    BY <1>1 DEF Insert
  <2>3. vec' \in [Nodes -> Vectors]
    BY <2>1, <2>2 DEF Values
  <2>4. CASE size = 0 /\ size' = 1 /\ UNCHANGED <<pc, op, query, width, search>>
    <3>1. Old \subseteq Old'
      BY <2>4 DEF Old
    <3> QED BY <2>1, <2>3, <2>4, <3>1 DEF Values, search
  <2>5. CASE size # 0 /\ Seed("insert", v, L) /\ UNCHANGED <<size, entry>>
    <3>1. entry \in Old'
      BY <2>5 DEF DInv, Typed, SearchHolds, Old
    <3> QED BY <2>1, <2>3, <2>5, <3>1, WidthFacts DEF Values, Seed
  <2> QED BY <2>2, <2>4, <2>5
<1>2. CASE Search
  <2>1. size # 0 /\ UNCHANGED graph
    BY <1>2 DEF Search
  <2>2. PICK v \in Queries, n \in Ks, l \in LSearches :
          k' = n /\ Seed("search", v, SearchWidth(n, l))
    BY <1>2 DEF Search
  <2>3. entry \in Old'
    BY <2>1 DEF DInv, Typed, SearchHolds, Old, graph
  <2> QED BY <2>1, <2>2, <2>3, WidthFacts, DiskannAssumption DEF Values, Seed, graph
<1>3. CASE Visit
  <2> DEFINE n == links[at][i]
  <2>1. /\ pc = "read" /\ i <= Len(links[at]) /\ marks' = marks \cup {n}
        /\ UNCHANGED <<graph, op, query, k, width>>
    BY <1>3 DEF Visit
  <2>2. at \in Old /\ at \in Nodes
    BY <2>1, OldFacts DEF DInv, SearchHolds
  <2>3. n \in Listed(links[at])
    <3>1. i \in 1..Len(links[at])
      BY <2>1, <2>2 DEF DInv, Typed
    <3> QED BY <3>1 DEF Listed
  <2>4. n \in Old
    BY <2>1, <2>2, <2>3 DEF DInv, ListsSimple, Known, Linking
  <2> QED BY <2>1, <2>4 DEF Values, graph, Old
<1>4. CASE Rest /\ UNCHANGED vec /\ size' \in {size, size + 1}
  <2>1. Blank \in Vectors
    BY DiskannAssumption DEF Blank
  <2> QED BY <1>4, <2>1 DEF Values, Rest
<1>5. CASE UNCHANGED <<vec, query, width, k, op, size>> /\ marks' \subseteq marks
  BY <1>5 DEF Values, Old
<1>6. CASE Expand \/ EndOfList \/ Keep \/ Select \/ Forward \/ LinkBack \/ Reprune \/ Rewrite
           \/ UNCHANGED vars
  <2>1. UNCHANGED <<vec, query, width, k, op, size>> /\ marks' \subseteq marks
    BY <1>6 DEF Expand, EndOfList, Keep, Select, Forward, LinkBack, Reprune, Rewrite,
                StartPrune, vars, graph, search
  <2> QED BY <1>5, <2>1
<1>7. CASE EndInsert \/ EndSearch
  <2>1. Rest /\ UNCHANGED vec /\ size' \in {size, size + 1}
    BY <1>7 DEF EndInsert, EndSearch, graph
  <2> QED BY <1>4, <2>1
<1> QED BY <1>1, <1>2, <1>3, <1>6, <1>7 DEF Next, Step

-----------------------------------------------------------------------------
(* The steps of a search.                                                  *)

LEMMA NearStands ==
    ASSUME UNCHANGED <<vec, query, width>>
    PROVE  \A n : Near(n)' = Near(n)
BY DEF Near

LEMMA SeedFound ==
    ASSUME NEW o, NEW v, NEW w \in Nat \ {0}, Seed(o, v, w)
    PROVE  SearchInv'
<1>1. cand' = {entry} /\ W' = {entry} /\ marks' = {entry} /\ pc' = "search" /\ width' = w
  BY DEF Seed
<1>2. IsFiniteSet(W') /\ Cardinality(W') = 1
  BY <1>1, FS_Singleton
<1> QED BY <1>1, <1>2 DEF SearchInv

LEMMA ExpandFound == FInv /\ Expand => SearchInv'
<1> SUFFICES ASSUME FInv, Expand PROVE SearchInv'
  OBVIOUS
<1>1. /\ pc = "search" /\ pc' = "read" /\ i' = 1
      /\ UNCHANGED <<vec, links, query, width, W, marks>>
  BY DEF Expand, graph
<1>2. PICK c \in cand : cand' = cand \ {c} /\ at' = c
  BY DEF Expand
<1>3. SearchInv /\ Searching
  BY <1>1 DEF FInv, Searching
<1>4. \A m \in marks \ W : PassedOver(m)'
  BY <1>1, <1>3, NearStands DEF SearchInv, PassedOver
<1>5. \A w \in W \ cand' : w # at' => Listed(links[w]) \subseteq marks
  BY <1>1, <1>2, <1>3 DEF SearchInv
<1>6. \A j \in 1..Len(links'[at']) : ~(j < i')
  BY <1>1
<1> QED BY <1>1, <1>2, <1>3, <1>4, <1>5, <1>6 DEF SearchInv

LEMMA EndOfListFound == FInv /\ EndOfList => SearchInv'
<1> SUFFICES ASSUME FInv, EndOfList PROVE SearchInv'
  OBVIOUS
<1>1. /\ pc = "read" /\ pc' = "search" /\ i > Len(links[at])
      /\ UNCHANGED <<vec, links, query, width, cand, W, marks>>
  BY DEF EndOfList, graph
<1>2. SearchInv /\ Searching
  BY <1>1 DEF FInv, Searching
<1>3. \A m \in marks \ W : PassedOver(m)'
  BY <1>1, <1>2, NearStands DEF SearchInv, PassedOver
<1>4. Listed(links[at]) \subseteq marks
  <2>1. at \in Nodes /\ i \in Nat
    BY <1>1, OldFacts DEF FInv, DInv, SearchHolds, Typed
  <2>2. links[at] \in Seq(Nodes)
    BY <2>1 DEF FInv, DInv, Typed
  <2>3. \A j \in 1..Len(links[at]) : j < i
    BY <1>1, <2>1, <2>2
  <2> QED BY <1>1, <1>2, <2>3 DEF SearchInv, Listed
<1>5. \A w \in W \ cand : Listed(links[w]) \subseteq marks
  BY <1>1, <1>2, <1>4 DEF SearchInv
<1> QED BY <1>1, <1>2, <1>3, <1>5 DEF SearchInv

(* Taking a node in that is nearer than some result, or that there is room *)
(* for, keeps the results the nearest of what was met.                     *)
LEMMA OfferedFound ==
    ASSUME FInv, Searching, UNCHANGED <<vec, query, width>>,
           NEW n \in Nodes, n \notin marks, marks' = marks \cup {n},
           W' \in Offered(n),
           Cardinality(W) < width \/ \E w \in W : Near(n) < Near(w)
    PROVE  /\ IsFiniteSet(W') /\ W' # {} /\ Cardinality(W') <= width
           /\ W' \subseteq W \cup {n}
           /\ \A m \in marks' \ W' : PassedOver(m)'
<1>1. \A m : Near(m)' = Near(m)
  BY NearStands
<1>2. /\ IsFiniteSet(W) /\ W # {} /\ Cardinality(W) <= width /\ W \subseteq marks
      /\ \A m \in marks \ W : PassedOver(m)
  BY DEF FInv, SearchInv
<1>3. Cardinality(W) \in Nat /\ width \in Nat /\ width # 0
  <2>1. op # "none"
    BY DEF FInv, DInv, SearchHolds, Searching
  <2> QED BY <1>2, <2>1, FS_CardinalityType DEF FInv, Values
<1>4. n \notin W
  BY <1>2
<1>5. IsFiniteSet(W \cup {n}) /\ Cardinality(W \cup {n}) = Cardinality(W) + 1
  BY <1>2, <1>4, FS_AddElement
<1>6. CASE Cardinality(W) < width
  <2>1. W' = W \cup {n}
    BY <1>6 DEF Offered
  <2>2. marks = W
    BY <1>2, <1>3, <1>6 DEF PassedOver
  <2> QED BY <1>3, <1>5, <1>6, <2>1, <2>2
<1>7. CASE ~(Cardinality(W) < width)
  <2>1. PICK f \in W : W' = (W \cup {n}) \ {f} /\ \A x \in W : Near(x) <= Near(f)
    BY <1>7 DEF Offered
  <2>2. PICK w \in W : Near(n) < Near(w)
    BY <1>7
  <2>3. Cardinality(W) = width
    BY <1>2, <1>3, <1>7
  <2>4. IsFiniteSet(W') /\ Cardinality(W') = width /\ n \in W'
    <3>1. f \in W \cup {n} /\ f # n
      BY <1>4, <2>1
    <3>2. Cardinality(W') = Cardinality(W \cup {n}) - 1 /\ IsFiniteSet(W')
      BY <1>5, <2>1, <3>1, FS_RemoveElement
    <3> QED BY <1>3, <1>5, <2>1, <2>3, <3>1, <3>2
  <2>5. \A m \in Nodes : Near(m) \in Nat
    BY NearInNat DEF FInv
  <2>6. W \subseteq Nodes /\ marks \subseteq Nodes
    BY <1>2, OldFacts DEF FInv, Values
  <2>7. ASSUME NEW m \in marks' \ W', NEW x \in W' PROVE Near(x) <= Near(m)
    <3>1. m \in Nodes /\ (m = f \/ m \in marks \ W)
      BY <2>1, <2>6
    <3>2. \A y \in W : Near(y) <= Near(m)
      BY <1>2, <2>1, <3>1 DEF PassedOver
    <3>3. CASE x \in W
      BY <3>2, <3>3
    <3>4. CASE x = n
      <4>1. Near(n) < Near(w) /\ Near(w) <= Near(m)
        BY <2>2, <3>2
      <4> QED BY <2>5, <2>6, <3>1, <3>4, <4>1
    <3> QED BY <2>1, <3>3, <3>4
  <2>8. \A m \in marks' \ W' : PassedOver(m)'
    BY <1>1, <2>4, <2>7 DEF PassedOver
  <2> QED BY <2>1, <2>4, <2>8, <1>3
<1> QED BY <1>6, <1>7

LEMMA VisitFound == FInv /\ Visit => SearchInv'
<1> SUFFICES ASSUME FInv, Visit PROVE SearchInv'
  OBVIOUS
<1> DEFINE n == links[at][i]
           fits == Cardinality(W) < width \/ \E w \in W : Near(n) < Near(w)
<1>1. /\ pc = "read" /\ pc' = "read" /\ i <= Len(links[at]) /\ i' = i + 1
      /\ marks' = marks \cup {n}
      /\ UNCHANGED <<vec, links, query, width, at>>
  BY DEF Visit, graph
<1>2. DInv /\ SearchInv /\ Searching /\ Values
  BY <1>1 DEF FInv, Searching
<1>3. at \in Nodes /\ i \in Nat \ {0}
  BY <1>1, <1>2, OldFacts DEF DInv, SearchHolds, Typed
<1>4. links[at] \in Seq(Nodes) /\ i \in 1..Len(links[at])
  BY <1>1, <1>2, <1>3 DEF DInv, Typed
<1>5. n \in Nodes
  BY <1>4
<1>6. \A m : Near(m)' = Near(m)
  BY <1>1, NearStands
<1>7. W \ cand' \subseteq W \ cand
  BY DEF Visit
<1>8. \A j \in 1..Len(links[at]) : j < i + 1 => links[at][j] \in marks'
  <2>1. \A j \in 1..Len(links[at]) : j < i => links[at][j] \in marks
    BY <1>1, <1>2 DEF SearchInv
  <2>2. \A j \in 1..Len(links[at]) : j < i + 1 => j < i \/ j = i
    BY <1>3
  <2> QED BY <1>1, <2>1, <2>2
<1>9. \A w \in W \ cand : w # at => Listed(links[w]) \subseteq marks'
  BY <1>1, <1>2 DEF SearchInv
<1>10. CASE Unseen(n) /\ fits /\ cand' = cand \cup {n} /\ W' \in Offered(n)
  <2>1. n \notin marks
    BY <1>10 DEF Unseen
  <2> HIDE DEF n
  <2>2. /\ IsFiniteSet(W') /\ W' # {} /\ Cardinality(W') <= width
        /\ W' \subseteq W \cup {n} /\ \A m \in marks' \ W' : PassedOver(m)'
    BY <1>1, <1>2, <1>5, <1>10, <2>1, OfferedFound
  <2>3. W' \ cand' \subseteq W \ cand
    BY <1>10, <2>2
  <2>4. cand' \cup W' \subseteq marks'
    BY <1>1, <1>2, <1>10, <2>2 DEF SearchInv
  <2> QED BY <1>1, <1>2, <1>8, <1>9, <2>2, <2>3, <2>4 DEF SearchInv
<1>11. CASE (~Unseen(n) \/ ~fits) /\ UNCHANGED <<cand, W>>
  <2>1. IsFiniteSet(W) /\ Cardinality(W) <= width /\ Cardinality(W) \in Nat /\ width \in Nat
    BY <1>2, FS_CardinalityType DEF SearchInv, Values
  <2>2. W \subseteq Nodes
    BY <1>2, OldFacts DEF SearchInv, Values
  <2>3. \A x \in W : Near(x) \in Nat /\ Near(n) \in Nat
    BY <1>2, <1>5, <2>2, NearInNat
  <2>4. n \in marks \/ PassedOver(n)
    <3>1. ~Unseen(n) => n \in marks
      BY DEF Unseen
    <3>2. ~fits => PassedOver(n)
      BY <2>1, <2>3 DEF PassedOver
    <3> QED BY <1>11, <3>1, <3>2
  <2>5. \A m \in marks' \ W' : PassedOver(m)'
    BY <1>1, <1>2, <1>6, <1>11, <2>4 DEF SearchInv, PassedOver
  <2> HIDE DEF n
  <2>6. cand' \cup W' \subseteq marks'
    BY <1>1, <1>2, <1>11 DEF SearchInv
  <2> QED BY <1>1, <1>2, <1>8, <1>9, <1>11, <2>5, <2>6 DEF SearchInv
<1> QED BY <1>10, <1>11 DEF Visit

LEMMA InitFound == Init => FInv
<1> SUFFICES ASSUME Init PROVE FInv
  OBVIOUS
<1>1. Blank \in Vectors
  BY DiskannAssumption DEF Blank
<1> QED BY <1>1, InitHolds DEF Init, FInv, Values, SearchInv, Searching

LEMMA NextFound == FInv /\ [Next]_vars => FInv'
<1> SUFFICES ASSUME FInv, [Next]_vars PROVE FInv'
  OBVIOUS
<1>1. DInv' /\ Values'
  BY StepHolds, ValuesHold DEF FInv
<1>2. CASE Expand \/ Visit \/ EndOfList
  BY <1>1, <1>2, ExpandFound, VisitFound, EndOfListFound DEF FInv
<1>3. CASE Insert \/ Search
  <2>1. \/ \E o, v : \E w \in Nat \ {0} : Seed(o, v, w)
        \/ pc = "idle" /\ UNCHANGED pc
    BY <1>3, WidthFacts DEF Insert, Search
  <2>2. pc = "idle" /\ UNCHANGED pc => SearchInv'
    BY DEF SearchInv, Searching
  <2> QED BY <1>1, <2>1, <2>2, SeedFound DEF FInv
<1>4. CASE Keep \/ Select \/ Forward \/ LinkBack \/ Reprune \/ Rewrite \/ EndInsert
           \/ EndSearch
  <2>1. ~Searching'
    BY <1>4 DEF Keep, Select, Forward, LinkBack, Reprune, Rewrite, EndInsert, EndSearch,
                StartPrune, Rest, Searching
  <2> QED BY <1>1, <2>1 DEF FInv, SearchInv
<1>5. CASE UNCHANGED vars
  BY <1>1, <1>5 DEF vars, graph, search, FInv, SearchInv, Searching, PassedOver, Near
<1> QED BY <1>2, <1>3, <1>4, <1>5 DEF Next, Step

-----------------------------------------------------------------------------
(* The pruning loop.                                                       *)

(* Removing and remaining are opposites.                                   *)
LEMMA RemovesFacts ==
    ASSUME Values, NEW p \in Nodes, NEW c \in Nodes, NEW d, d[c] \in Nat
    PROVE  P!Removes(p, c, d) <=> ~(AlphaNum * NodeDist(p, c) > AlphaDen * d[c])
<1> DEFINE a == AlphaNum * NodeDist(p, c)
           b == AlphaDen * d[c]
<1>1. NodeDist(p, c) \in Nat
  BY DiskannAssumption DEF Values, NodeDist
<1>2. a \in Nat /\ b \in Nat
  BY <1>1, DiskannAssumption
<1>3. P!Removes(p, c, d) <=> a <= b
  BY DEF P!Removes
<1> HIDE DEF a, b
<1>4. a <= b <=> ~(a > b)
  BY <1>2
<1> QED BY <1>3, <1>4 DEF a, b

LEMMA PruneStarts ==
    ASSUME NEW b, NEW S \in SUBSET Nodes, S # {}, NEW d \in [S -> Nat],
           StartPrune(b, S, d)
    PROVE  LoopInv'
<1>1. dist' = d /\ todo' = S /\ kept' = <<>> /\ DOMAIN d = S
  BY DEF StartPrune
<1>2. Listed(kept') = {} /\ Len(kept') = 0
  BY <1>1, EmptyList
<1> QED BY <1>1, <1>2 DEF LoopInv

LEMMA KeepLoops == PInv /\ Keep => LoopInv'
<1> SUFFICES ASSUME PInv, Keep PROVE LoopInv'
  OBVIOUS
<1> DEFINE S == DOMAIN dist
           K == Len(kept)
           next == K + 1
<1>1. /\ pc = "prune" /\ UNCHANGED <<vec, dist>> /\ Values /\ DInv
      /\ kept \in Seq(Nodes) /\ K \in Nat
  BY DEF Keep, graph, PInv, FInv, DInv, Typed
<1>2. PICK p \in todo : /\ \A pp \in todo : dist[p] <= dist[pp]
                        /\ kept' = Append(kept, p)
                        /\ todo' = Remaining(p, todo \ {p})
  BY DEF Keep
<1>3. /\ S \subseteq Nodes /\ S # {} /\ dist \in [S -> Nat]
      /\ todo \cup Listed(kept) \subseteq S
      /\ \A a, b \in 1..K :
           a < b => /\ dist[kept[a]] <= dist[kept[b]]
                    /\ ~P!Removes(kept[a], kept[b], dist)
      /\ \A c \in todo, a \in 1..K :
           dist[kept[a]] <= dist[c] /\ ~P!Removes(kept[a], c, dist)
      /\ \A c \in S \ (Listed(kept) \cup todo) : \E a \in 1..K :
           dist[kept[a]] <= dist[c] /\ P!Removes(kept[a], c, dist)
  BY <1>1 DEF PInv, LoopInv
<1>4. p \in Nodes /\ p \in S /\ p \notin Listed(kept) /\ Injective(kept)
  BY <1>1, <1>2, <1>3 DEF DInv, PruneHolds
<1>5. /\ Len(kept') = next /\ Listed(kept') = Listed(kept) \cup {p}
      /\ kept'[next] = p /\ \A a \in 1..K : kept'[a] = kept[a]
  BY <1>1, <1>2, <1>4, AppendedList
<1>6. \A a \in 1..next : a \in 1..K \/ a = next
  BY <1>1
<1>7. todo' \subseteq todo \ {p}
      /\ \A c \in todo \ {p} : c \in todo' <=> ~P!Removes(p, c, dist)
  <2>1. \A c \in todo : c \in Nodes /\ dist[c] \in Nat
    BY <1>3
  <2>2. \A c \in todo : P!Removes(p, c, dist)
                          <=> ~(AlphaNum * NodeDist(p, c) > AlphaDen * dist[c])
    BY <1>1, <1>4, <2>1, RemovesFacts
  <2> QED BY <1>2, <2>2 DEF Remaining
<1>8. \A a, c : P!Removes(a, c, dist)' <=> P!Removes(a, c, dist)
  BY <1>1 DEF P!Removes, NodeDist
<1> HIDE DEF S, K, next
<1>9. ASSUME NEW a \in 1..next, NEW b \in 1..next, a < b
       PROVE  dist[kept'[a]] <= dist[kept'[b]] /\ ~P!Removes(kept'[a], kept'[b], dist)
  <2>1. a \in 1..K
    BY <1>1, <1>9 DEF K, next
  <2>2. CASE b \in 1..K
    BY <1>3, <1>5, <1>9, <2>1, <2>2
  <2>3. CASE b = next
    BY <1>2, <1>3, <1>5, <2>1, <2>3
  <2> QED BY <1>6, <2>2, <2>3
<1>10. ASSUME NEW c \in todo', NEW a \in 1..next
       PROVE  dist[kept'[a]] <= dist[c] /\ ~P!Removes(kept'[a], c, dist)
  <2>1. c \in todo \ {p}
    BY <1>7
  <2>2. CASE a \in 1..K
    BY <1>3, <1>5, <2>1, <2>2
  <2>3. CASE a = next
    BY <1>2, <1>5, <1>7, <2>1, <2>3
  <2> QED BY <1>6, <2>2, <2>3
<1>11. ASSUME NEW c \in S \ (Listed(kept') \cup todo')
       PROVE  \E a \in 1..next : dist[kept'[a]] <= dist[c] /\ P!Removes(kept'[a], c, dist)
  <2>1. 1..K \subseteq 1..next /\ next \in 1..next
    BY <1>1 DEF K, next
  <2>2. CASE c \in todo
    <3>1. c # p
      BY <1>5, <1>11
    <3>2. dist[p] <= dist[c] /\ P!Removes(p, c, dist)
      BY <1>2, <1>7, <1>11, <2>2, <3>1
    <3> QED BY <1>5, <2>1, <3>2
  <2>3. CASE c \notin todo
    <3>1. PICK a \in 1..K : dist[kept[a]] <= dist[c] /\ P!Removes(kept[a], c, dist)
      BY <1>3, <1>5, <1>11, <2>3
    <3> QED BY <1>5, <2>1, <3>1
  <2> QED BY <2>2, <2>3
<1>12. todo' \cup Listed(kept') \subseteq S
  BY <1>3, <1>4, <1>5, <1>7
<1> QED BY <1>1, <1>3, <1>5, <1>8, <1>9, <1>10, <1>11, <1>12 DEF LoopInv, S, next

LEMMA InitLoops == Init => PInv
BY InitFound DEF Init, PInv, LoopInv

LEMMA NextLoops == PInv /\ [Next]_vars => PInv'
<1> SUFFICES ASSUME PInv, [Next]_vars PROVE PInv'
  OBVIOUS
<1>1. FInv' /\ FInv /\ DInv /\ Values
  BY NextFound DEF PInv, FInv
<1>2. CASE Keep
  BY <1>1, <1>2, KeepLoops DEF PInv
<1>3. CASE Select
  <2>1. pc = "search" /\ StartPrune(New, W, [n \in W |-> Near(n)])
    BY <1>3 DEF Select
  <2>2. W \subseteq Nodes /\ W # {}
    BY <1>1, <2>1, OldFacts DEF FInv, SearchInv, Searching, DInv, SearchHolds
  <2>3. [n \in W |-> Near(n)] \in [W -> Nat]
    BY <1>1, <2>2, NearInNat
  <2> QED BY <1>1, <2>1, <2>2, <2>3, PruneStarts DEF PInv
<1>4. CASE Reprune
  <2> DEFINE s == sel[si]
             d == [n \in Overfull(s) |-> NodeDist(s, n)]
  <2>1. pc = "link" /\ si <= Len(sel) /\ StartPrune(s, Overfull(s), d)
    BY <1>4 DEF Reprune
  <2>2. s \in Nodes /\ New \in Nodes
    BY <1>1, <2>1, SelectedIsOld
  <2>3. Overfull(s) \subseteq Nodes /\ Overfull(s) # {}
    BY <1>1, <2>2, ListedIsRange DEF Overfull, DInv, Typed
  <2>4. d \in [Overfull(s) -> Nat]
    BY <1>1, <2>2, <2>3, DiskannAssumption DEF Values, NodeDist
  <2> HIDE DEF s, d
  <2> QED BY <1>1, <2>1, <2>3, <2>4, PruneStarts DEF PInv
<1>5. CASE Insert \/ Search \/ Expand \/ Visit \/ EndOfList \/ Forward \/ LinkBack
           \/ Rewrite \/ EndInsert \/ EndSearch
  <2>1. pc' # "prune"
    BY <1>5 DEF Insert, Search, Seed, Expand, Visit, EndOfList, Forward, LinkBack,
                Rewrite, EndInsert, EndSearch, Rest
  <2> QED BY <1>1, <2>1 DEF PInv, LoopInv
<1>6. CASE UNCHANGED vars
  <2>1. UNCHANGED <<vec, pc, dist, todo, kept>>
    BY <1>6 DEF vars, graph, prune
  <2>2. \A a, c : P!Removes(a, c, dist)' <=> P!Removes(a, c, dist)
    BY <2>1 DEF P!Removes, NodeDist
  <2> QED BY <1>1, <2>1, <2>2 DEF PInv, LoopInv
<1> QED BY <1>2, <1>3, <1>4, <1>5, <1>6 DEF Next, Step

-----------------------------------------------------------------------------
(* The loop against the definition.                                        *)

(* A set of numbers that is not empty has a least member: the cuts 0..m    *)
(* below one of its members are subsets of a finite set, and so one of     *)
(* them contains no other.                                                 *)
LEMMA LeastNumber ==
    ASSUME NEW T \in SUBSET Nat, T # {}
    PROVE  \E n \in T : \A m \in T : n <= m
<1>1. PICK top \in T : TRUE
  OBVIOUS
<1> DEFINE Low == {m \in T : m <= top}
           Cuts == {0..m : m \in Low}
<1>2. Cuts \subseteq SUBSET (0..top) /\ 0..top \in Cuts
  OBVIOUS
<1>3. IsFiniteSet(0..top)
  BY FS_Interval
<1>4. IsWellFoundedOn(StrictSubsetOrdering(0..top), FiniteSubsetsOf(0..top))
  BY FS_StrictSubsetOrderingWellFounded
<1>5. Cuts \subseteq FiniteSubsetsOf(0..top)
  BY <1>2, <1>3, FS_Subset DEF FiniteSubsetsOf
<1> HIDE DEF Cuts
<1>6. PICK C \in Cuts : \A D \in Cuts : <<D, C>> \notin StrictSubsetOrdering(0..top)
  BY <1>2, <1>4, <1>5, WFMin
<1>7. PICK n \in Low : C = 0..n
  BY DEF Cuts
<1>8. ASSUME NEW m \in T, m < n PROVE FALSE
  <2>1. 0..m \in Cuts
    BY <1>7, <1>8 DEF Cuts
  <2>2. 0..m \subseteq 0..n /\ 0..m # 0..n
    <3>1. n \in 0..n /\ n \notin 0..m
      BY <1>8
    <3> QED BY <1>8, <3>1
  <2> QED BY <1>2, <1>6, <1>7, <2>1, <2>2 DEF StrictSubsetOrdering
<1> QED BY <1>8

(* Place j is the first where two lists differ or one of them ends.        *)
DifferFrom(j, a, b) ==
    /\ j <= Len(a) \/ j <= Len(b)
    /\ j <= Len(a) /\ j <= Len(b) => a[j] # b[j]
    /\ \A h \in 1 .. j - 1 : h <= Len(a) /\ h <= Len(b) /\ a[h] = b[h]

LEMMA FirstDifference ==
    ASSUME NEW S, NEW a \in Seq(S), NEW b \in Seq(S), a # b
    PROVE  \E j \in Nat \ {0} : DifferFrom(j, a, b)
<1> DEFINE Same(j) == j <= Len(a) /\ j <= Len(b) /\ a[j] = b[j]
           T == {j \in Nat \ {0} : (j <= Len(a) \/ j <= Len(b)) /\ ~Same(j)}
<1>1. Len(a) \in Nat /\ Len(b) \in Nat
  OBVIOUS
<1>2. T # {}
  <2> SUFFICES ASSUME T = {} PROVE FALSE
    OBVIOUS
  <2>1. \A j \in Nat \ {0} : j <= Len(a) \/ j <= Len(b) => Same(j)
    OBVIOUS
  <2>2. Len(a) = Len(b)
    <3>1. Len(a) > 0 => Len(a) <= Len(b)
      BY <1>1, <2>1
    <3>2. Len(b) > 0 => Len(b) <= Len(a)
      BY <1>1, <2>1
    <3> QED BY <1>1, <3>1, <3>2
  <2>3. \A j \in 1..Len(a) : a[j] = b[j]
    BY <1>1, <2>1
  <2>4. a = b
    BY <2>2, <2>3
  <2> QED BY <2>4
<1>3. PICK j \in T : \A m \in T : j <= m
  <2>1. T \in SUBSET Nat
    OBVIOUS
  <2> HIDE DEF T
  <2> QED BY <1>2, <2>1, LeastNumber
<1>4. ASSUME NEW h \in 1 .. j - 1 PROVE Same(h)
  <2>1. h \in Nat \ {0} /\ h < j /\ h \notin T
    BY <1>3
  <2>2. h <= Len(a) \/ h <= Len(b)
    BY <1>1, <2>1
  <2> QED BY <2>1, <2>2
<1> QED BY <1>3, <1>4 DEF DifferFrom

(* A pruned list in the words of the loop.                                 *)
PrunedList(list, S, d) ==
    /\ list \in Seq(S) /\ Len(list) <= R /\ Len(list) \in Nat
    /\ \A a, b \in 1..Len(list) : a # b => list[a] # list[b]
    /\ \A a, b \in 1..Len(list) :
         a < b => d[list[a]] <= d[list[b]] /\ ~P!Removes(list[a], list[b], d)
    /\ \A c \in S : (\A a \in 1..Len(list) : list[a] # c) =>
         \/ \E a \in 1..Len(list) : d[list[a]] <= d[c] /\ P!Removes(list[a], c, d)
         \/ Len(list) = R /\ \A a \in 1..R : d[list[a]] <= d[c]

LEMMA PrunedFacts ==
    ASSUME NEW S, NEW d, NEW list \in P!KeptLists(S, d)
    PROVE  PrunedList(list, S, d)
<1>1. PICK n \in 0..R : /\ list \in [1..n -> S]
                        /\ \A a, b \in 1..n : a # b => list[a] # list[b]
  BY DEF P!KeptLists, P!InjectiveLists
<1>2. list \in Seq(S) /\ Len(list) = n /\ n \in Nat /\ n <= R
  BY <1>1, ConstantFacts
<1>3. P!IsPruned(list, S, d)
  BY DEF P!KeptLists
<1> QED BY <1>1, <1>2, <1>3 DEF PrunedList, P!IsPruned, P!Listed

(* The lists agree before place j, where l goes on and m ends or has a     *)
(* farther node.                                                           *)
Nearer(j, l, m, d) ==
    /\ j <= Len(l) /\ (j <= Len(m) => d[l[j]] < d[m[j]])
    /\ \A h \in 1 .. j - 1 : h <= Len(l) /\ h <= Len(m) /\ l[h] = m[h]

(* Then m passed over a node for a farther one: it was not pruned so.      *)
LEMMA NoneNearer ==
    ASSUME NEW S \in SUBSET Nodes, NEW d \in [S -> Nat],
           \A a, b \in S : a # b => d[a] # d[b],
           NEW l, NEW m, PrunedList(l, S, d), PrunedList(m, S, d), NEW j \in Nat \ {0},
           Nearer(j, l, m, d)
    PROVE  FALSE
<1> USE DEF Nearer
<1>1. /\ l \in Seq(S) /\ Len(l) \in Nat /\ Len(l) <= R
      /\ \A a, b \in 1..Len(l) : a # b => l[a] # l[b]
      /\ \A a, b \in 1..Len(l) :
           a < b => d[l[a]] <= d[l[b]] /\ ~P!Removes(l[a], l[b], d)
  BY DEF PrunedList
<1>2. /\ m \in Seq(S) /\ Len(m) \in Nat /\ Len(m) <= R
      /\ \A a, b \in 1..Len(m) :
           a < b => d[m[a]] <= d[m[b]] /\ ~P!Removes(m[a], m[b], d)
      /\ \A c \in S : (\A a \in 1..Len(m) : m[a] # c) =>
           \/ \E a \in 1..Len(m) : d[m[a]] <= d[c] /\ P!Removes(m[a], c, d)
           \/ Len(m) = R /\ \A a \in 1..R : d[m[a]] <= d[c]
  BY DEF PrunedList
<1> DEFINE c == l[j]
<1>3. j \in 1..Len(l) /\ c \in S /\ d[c] \in Nat
  BY <1>1
<1>4. \A a \in 1..Len(m) : m[a] \in S /\ d[m[a]] \in Nat
  BY <1>2
<1>5. ASSUME NEW a \in 1..Len(m), d[m[a]] <= d[c] PROVE a < j
  <2> SUFFICES ASSUME j <= a PROVE FALSE
    BY <1>1, <1>2
  <2>1. j \in 1..Len(m) /\ d[c] < d[m[j]]
    BY <1>2
  <2>2. d[m[j]] <= d[m[a]]
    BY <1>2, <1>4, <2>1
  <2> HIDE DEF c
  <2> QED BY <1>3, <1>4, <1>5, <2>1, <2>2
<1>6. \A a \in 1..Len(m) : a < j => a \in 1..Len(l) /\ l[a] = m[a]
  BY <1>1, <1>2
<1>7. \A a \in 1..Len(m) : m[a] # c
  <2> SUFFICES ASSUME NEW a \in 1..Len(m), m[a] = c PROVE FALSE
    OBVIOUS
  <2>1. a < j
    BY <1>3, <1>5
  <2> QED BY <1>1, <1>3, <1>6, <2>1
<1>8. ASSUME NEW a \in 1..Len(m), d[m[a]] <= d[c], P!Removes(m[a], c, d) PROVE FALSE
  <2>1. a < j
    BY <1>5, <1>8
  <2> QED BY <1>1, <1>3, <1>6, <1>8, <2>1
<1>9. ASSUME Len(m) = R, \A a \in 1..R : d[m[a]] <= d[c] PROVE FALSE
  <2>1. R \in 1..Len(m) /\ R \in Nat
    BY <1>9, ConstantFacts
  <2>2. R < j
    BY <1>5, <1>9, <2>1
  <2> QED BY <1>1, <2>1, <2>2
<1> HIDE DEF c
<1> QED BY <1>2, <1>3, <1>7, <1>8, <1>9

LEMMA KeptIsUnique ==
    ASSUME NEW S \in SUBSET Nodes, NEW d \in [S -> Nat],
           \A a, b \in S : a # b => d[a] # d[b],
           NEW l \in P!KeptLists(S, d), NEW m \in P!KeptLists(S, d)
    PROVE  l = m
<1> SUFFICES ASSUME l # m PROVE FALSE
  OBVIOUS
<1>1. PrunedList(l, S, d) /\ PrunedList(m, S, d)
      /\ l \in Seq(S) /\ Len(l) \in Nat /\ m \in Seq(S) /\ Len(m) \in Nat
  BY PrunedFacts DEF PrunedList
<1>2. PICK j \in Nat \ {0} : DifferFrom(j, l, m)
  BY <1>1, FirstDifference
<1>3. j <= Len(l) /\ j <= Len(m) => d[l[j]] < d[m[j]] \/ d[m[j]] < d[l[j]]
  <2> SUFFICES ASSUME j <= Len(l), j <= Len(m) PROVE d[l[j]] < d[m[j]] \/ d[m[j]] < d[l[j]]
    OBVIOUS
  <2>1. l[j] \in S /\ m[j] \in S /\ l[j] # m[j]
    BY <1>1, <1>2 DEF DifferFrom
  <2>2. d[l[j]] # d[m[j]] /\ d[l[j]] \in Nat /\ d[m[j]] \in Nat
    BY <2>1
  <2> QED BY <2>2
<1>4. Nearer(j, l, m, d) \/ Nearer(j, m, l, d)
  BY <1>1, <1>2, <1>3 DEF DifferFrom, Nearer
<1> QED BY <1>1, <1>4, NoneNearer

LEMMA LoopKeeps ==
    ASSUME PInv, pc = "prune", Pruned
    PROVE  kept \in P!KeptLists(DOMAIN dist, dist)
<1> DEFINE S == DOMAIN dist
           K == Len(kept)
<1>1. /\ kept \in Seq(Nodes) /\ K \in Nat /\ K <= R /\ Injective(kept)
      /\ todo = {} \/ K = R
  BY DEF PInv, FInv, DInv, Typed, PruneHolds, Pruned
<1>2. /\ todo \cup Listed(kept) \subseteq S
      /\ \A a, b \in 1..K :
           a < b => /\ dist[kept[a]] <= dist[kept[b]]
                    /\ ~P!Removes(kept[a], kept[b], dist)
      /\ \A c \in todo, a \in 1..K :
           dist[kept[a]] <= dist[c] /\ ~P!Removes(kept[a], c, dist)
      /\ \A c \in S \ (Listed(kept) \cup todo) : \E a \in 1..K :
           dist[kept[a]] <= dist[c] /\ P!Removes(kept[a], c, dist)
  BY DEF PInv, LoopInv
<1> HIDE DEF S
<1>3. kept \in P!InjectiveLists(S, R)
  <2>1. kept \in [1..K -> S]
    BY <1>1, <1>2 DEF Listed
  <2>2. K \in 0..R
    BY <1>1, ConstantFacts
  <2>3. \A a, b \in 1..K : a # b => kept[a] # kept[b]
    BY <1>1 DEF Injective
  <2> HIDE DEF K
  <2> QED BY <2>1, <2>2, <2>3 DEF P!InjectiveLists
<1>4. P!IsPruned(kept, S, dist)
  <2>1. \A c \in S \ Listed(kept) :
          \/ \E a \in 1..K : dist[kept[a]] <= dist[c] /\ P!Removes(kept[a], c, dist)
          \/ K = R /\ \A a \in 1..R : dist[kept[a]] <= dist[c]
    BY <1>1, <1>2
  <2> QED BY <1>2, <2>1 DEF P!IsPruned, P!Listed, Listed
<1> QED BY <1>3, <1>4 DEF P!KeptLists, S

(* Whatever the distances and in whatever order sort leaves ties: when the *)
(* loop of RobustPrune ends, it has kept one of the lists its definition   *)
(* allows, and the only one when no two candidates are equally far.  So    *)
(* the definition, which the AiSAQ build is modelled with, describes this  *)
(* code and no other.                                                      *)
THEOREM LoopIsTheDefinition == Spec => []LoopMatchesDefinition
<1>1. PInv => LoopMatchesDefinition
  <2> SUFFICES ASSUME PInv, pc = "prune", Pruned
               PROVE  /\ kept \in P!KeptLists(DOMAIN dist, dist)
                      /\ (\A a, b \in DOMAIN dist : a # b => dist[a] # dist[b])
                           => P!KeptLists(DOMAIN dist, dist) = {kept}
    BY DEF LoopMatchesDefinition
  <2>1. kept \in P!KeptLists(DOMAIN dist, dist)
    BY LoopKeeps
  <2>2. DOMAIN dist \subseteq Nodes /\ dist \in [DOMAIN dist -> Nat]
    BY DEF PInv, LoopInv
  <2> QED BY <2>1, <2>2, KeptIsUnique
<1> QED BY <1>1, InitLoops, NextLoops, PTL DEF Spec

-----------------------------------------------------------------------------
(* Small graphs stay joined.                                               *)

(* The edges among the indexed nodes are what Joined speaks of.            *)
LEMMA EdgesStand ==
    ASSUME JInv, Small' => Small, Old' = Old,
           \A n \in Old : Listed(links'[n]) \cap Old = Listed(links[n]) \cap Old
    PROVE  Joined'
<1> SUFFICES ASSUME Small, NEW S \in SUBSET Old, S # {},
                    \A n \in S : Listed(links'[n]) \cap Old \subseteq S
             PROVE  S = Old
  BY DEF Joined, Closed
<1>1. Closed(S)
  BY DEF Closed
<1> QED BY <1>1 DEF JInv, Joined

(* While every other node fits in a list, none is full.                    *)
LEMMA SmallHasRoom ==
    ASSUME DInv, op = "insert", Small, NEW s \in Old, New \notin Listed(links[s])
    PROVE  HasRoom(links[s])
<1> DEFINE list == links[s]
<1>1. s \in Nodes /\ R \in Nat /\ size \in Nat /\ size <= R
  BY OldFacts, ConstantFacts DEF Small
<1>2. list \in Seq(Nodes) /\ Injective(list) /\ Listed(list) \subseteq Known \ {s}
  BY <1>1 DEF DInv, Typed, ListsSimple
<1>3. Listed(list) \subseteq Old \ {s}
  BY <1>2 DEF Known
<1>4. IsFiniteSet(Old \ {s}) /\ Cardinality(Old \ {s}) = size - 1
  BY <1>1, OldFacts, FS_RemoveElement
<1>5. Cardinality(Listed(list)) <= size - 1
  BY <1>3, <1>4, FS_Subset
<1>6. Cardinality(Listed(list)) = Len(list)
  BY <1>2, InjectiveCardinality
<1>7. Len(list) \in Nat
  BY <1>2
<1> QED BY <1>1, <1>5, <1>6, <1>7 DEF HasRoom

LEMMA InsertJoined == JInv /\ DInv' /\ Insert => Joined' /\ LinkedBothWays'
<1> SUFFICES ASSUME JInv, DInv', Insert PROVE Joined' /\ LinkedBothWays'
  OBVIOUS
<1>1. DInv /\ pc = "idle" /\ op = "none" /\ links' = [links EXCEPT ![New] = <<>>]
  BY DEF Insert, JInv, PInv, FInv, DInv, SearchHolds
<1>2. LinkedBothWays'
  BY <1>1 DEF Insert, Seed, LinkedBothWays
<1>3. CASE size = 0
  <2>1. size' = 1
    BY <1>3 DEF Insert
  <2>2. Old' = {0}
    BY <2>1 DEF Old
  <2>3. Joined'
    BY <2>2 DEF Joined
  <2> QED BY <1>2, <2>3
<1>4. CASE size # 0
  <2>1. size' = size /\ op' = "insert" /\ Old' = Old
    BY <1>4 DEF Insert, Seed, Old
  <2>2. Small' => Small
    BY <1>1, <2>1, OldFacts, ConstantFacts DEF Small
  <2>3. \A n \in Old : links'[n] = links[n]
    BY <1>1, OldFacts DEF DInv, Typed
  <2>4. Joined'
    BY <2>1, <2>2, <2>3, EdgesStand
  <2> QED BY <1>2, <2>4
<1> QED BY <1>3, <1>4

LEMMA ForwardJoined == JInv /\ DInv' /\ Forward => Joined' /\ LinkedBothWays'
<1> SUFFICES ASSUME JInv, DInv', Forward PROVE Joined' /\ LinkedBothWays'
  OBVIOUS
<1>1. /\ DInv /\ PInv /\ pc = "prune" /\ Pruned /\ pc' = "link"
      /\ links' = [links EXCEPT ![New] = kept] /\ sel' = kept /\ si' = 1
      /\ UNCHANGED <<size, op>> /\ New' = New /\ Old' = Old /\ Small' = Small
  BY DEF Forward, JInv, PInv, FInv, New, Old, Small
<1>2. New \in Nodes /\ New \notin Old /\ Old \subseteq Nodes
      /\ links \in [Nodes -> Seq(Nodes)]
  BY <1>1, NewIsNode, OldFacts DEF DInv, SearchHolds, Typed
<1>3. kept # <<>>
  <2> SUFFICES ASSUME kept = <<>> PROVE FALSE
    OBVIOUS
  <2>1. Listed(kept) = {} /\ Len(kept) = 0
    BY EmptyList
  <2>2. todo = {}
    BY <1>1, <2>1, ConstantFacts DEF Pruned
  <2>3. PICK c \in DOMAIN dist : TRUE
    BY <1>1 DEF PInv, LoopInv
  <2>4. \E a \in 1..Len(kept) : TRUE
    BY <1>1, <2>1, <2>2, <2>3 DEF PInv, LoopInv
  <2> QED BY <2>1, <2>4
<1>4. Joined'
  <2>1. \A n \in Old : links'[n] = links[n]
    BY <1>1, <1>2
  <2> QED BY <1>1, <2>1, EdgesStand
<1>5. LinkedBothWays'
  <2>1. links'[New] = kept
    BY <1>1, <1>2
  <2>2. \A j \in 1..Len(kept) : ~(j < 1)
    OBVIOUS
  <2> QED BY <1>1, <1>3, <2>1, <2>2 DEF LinkedBothWays
<1> QED BY <1>4, <1>5

LEMMA LinkBackJoined == JInv /\ DInv' /\ LinkBack => Joined' /\ LinkedBothWays'
<1> SUFFICES ASSUME JInv, DInv', LinkBack PROVE Joined' /\ LinkedBothWays'
  OBVIOUS
<1> DEFINE s == sel[si]
           old == links[s]
<1>1. /\ DInv /\ pc = "link" /\ pc' = "link" /\ si <= Len(sel) /\ si' = si + 1
      /\ links' = [links EXCEPT ![s] = Append(@, New)]
      /\ UNCHANGED <<size, op, sel>> /\ New' = New /\ Old' = Old /\ Small' = Small
  BY DEF LinkBack, JInv, PInv, FInv, New, Old, Small
<1>2. /\ New \in Nodes /\ New \notin Old /\ Old \subseteq Nodes /\ si \in 1..Len(sel)
      /\ s \in Old /\ s \in Nodes /\ New \notin Listed(old)
      /\ links \in [Nodes -> Seq(Nodes)] /\ sel \in Seq(Nodes)
  BY <1>1, SelectedIsOld DEF DInv, Typed
<1>3. old \in Seq(Nodes) /\ Injective(old)
  BY <1>1, <1>2 DEF DInv, ListsSimple
<1>4. /\ links'[s] = Append(old, New)
      /\ \A n \in Nodes \ {s} : links'[n] = links[n]
  BY <1>1, <1>2
<1> HIDE DEF s, old
<1>5. Listed(Append(old, New)) = Listed(old) \cup {New}
  BY <1>2, <1>3, AppendedList
<1>6. Joined'
  <2>1. \A n \in Old : Listed(links'[n]) \cap Old = Listed(links[n]) \cap Old
    <3> SUFFICES ASSUME NEW n \in Old
                 PROVE  Listed(links'[n]) \cap Old = Listed(links[n]) \cap Old
      OBVIOUS
    <3>1. CASE n = s
      <4>1. Listed(links'[n]) = Listed(links[n]) \cup {New}
        BY <1>4, <1>5, <3>1 DEF old
      <4> QED BY <1>2, <4>1
    <3>2. CASE n # s
      BY <1>2, <1>4, <3>2
    <3> QED BY <3>1, <3>2
  <2> QED BY <1>1, <2>1, EdgesStand
<1>7. LinkedBothWays'
  <2> SUFFICES ASSUME Small
               PROVE  /\ sel # <<>> /\ links'[New] = sel
                      /\ \A j \in 1..Len(sel) : j < si + 1 =>
                           New \in Listed(links'[sel[j]])
    BY <1>1 DEF LinkedBothWays
  <2>1. sel # <<>> /\ links[New] = sel
        /\ \A j \in 1..Len(sel) : j < si => New \in Listed(links[sel[j]])
    BY <1>1 DEF JInv, LinkedBothWays
  <2>2. links'[New] = sel
    BY <1>2, <1>4, <2>1
  <2>3. ASSUME NEW j \in 1..Len(sel), j < si + 1
        PROVE  New \in Listed(links'[sel[j]])
    <3>1. sel[j] \in Nodes
      BY <1>2
    <3>2. CASE sel[j] = s
      BY <1>4, <1>5, <3>2
    <3>3. CASE sel[j] # s
      <4>1. j # si
        BY <3>3 DEF s
      <4>2. j < si
        BY <1>2, <2>3, <4>1
      <4> QED BY <1>4, <2>1, <3>1, <3>3, <4>2
    <3> QED BY <3>2, <3>3
  <2> QED BY <2>1, <2>2, <2>3
<1> QED BY <1>6, <1>7

(* A full list is met only when the graph is no longer small.              *)
LEMMA RewriteJoined == JInv /\ DInv' /\ (Reprune \/ Rewrite) => Joined' /\ LinkedBothWays'
<1> SUFFICES ASSUME JInv, DInv', Reprune \/ Rewrite PROVE Joined' /\ LinkedBothWays'
  OBVIOUS
<1>1. DInv /\ UNCHANGED <<size, op>> /\ Small' = Small
  BY DEF Reprune, Rewrite, JInv, PInv, FInv, Small, graph
<1>2. ~Small
  <2>1. CASE Reprune
    <3>1. pc = "link" /\ si <= Len(sel) /\ ~HasRoom(links[sel[si]])
      BY <2>1 DEF Reprune
    <3> QED BY <1>1, <3>1, SelectedIsOld, SmallHasRoom
  <2>2. CASE Rewrite
    BY <2>2 DEF Rewrite, JInv, LinkedBothWays
  <2> QED BY <2>1, <2>2
<1> QED BY <1>1, <1>2 DEF Joined, LinkedBothWays

(* The linked node joins the others: a set with it has a node it is linked *)
(* to, and so the rest; a set with any of the rest has all, and so it.     *)
LEMMA EndInsertJoined == JInv /\ DInv' /\ EndInsert => Joined' /\ LinkedBothWays'
<1> SUFFICES ASSUME JInv, DInv', EndInsert PROVE Joined' /\ LinkedBothWays'
  OBVIOUS
<1>1. /\ DInv /\ pc = "link" /\ op = "insert" /\ si > Len(sel) /\ Linking
      /\ size' = size + 1 /\ op' = "none" /\ pc' = "idle" /\ UNCHANGED links
  BY DEF EndInsert, Rest, JInv, PInv, FInv, DInv, SearchHolds, Linking
<1>2. size \in Nat /\ R \in Nat /\ sel \in Seq(Nodes) /\ si \in Nat
      /\ Listed(sel) \subseteq Old
  BY <1>1, ConstantFacts, OldFacts DEF DInv, Typed, LinkHolds
<1>3. Old' = Old \cup {New} /\ New \notin Old
  BY <1>1, <1>2 DEF Old, New
<1>4. Small' => Small
  BY <1>1, <1>2 DEF Small
<1>5. LinkedBothWays'
  BY <1>1 DEF LinkedBothWays
<1>6. ASSUME Small, NEW S \in SUBSET (Old \cup {New}), S # {},
             \A n \in S : Listed(links[n]) \cap (Old \cup {New}) \subseteq S
      PROVE  S = Old \cup {New}
  <2>1. /\ sel # <<>> /\ links[New] = sel
        /\ \A j \in 1..Len(sel) : New \in Listed(links[sel[j]])
    <3>1. \A j \in 1..Len(sel) : j < si
      BY <1>1, <1>2
    <3> QED BY <1>1, <1>6, <3>1 DEF JInv, LinkedBothWays
  <2>2. 1 \in 1..Len(sel) /\ sel[1] \in Listed(sel) /\ sel[1] \in Old
    BY <1>2, <2>1 DEF Listed
  <2>3. New \in S => sel[1] \in S
    BY <1>6, <2>1, <2>2
  <2>4. S \cap Old # {}
    BY <1>6, <2>2, <2>3
  <2>5. Closed(S \cap Old)
    BY <1>6 DEF Closed
  <2>6. Old \subseteq S
    <3>1. S \cap Old = Old
      BY <1>6, <2>4, <2>5 DEF JInv, Joined
    <3> QED BY <3>1
  <2>7. New \in S
    BY <1>6, <2>1, <2>2, <2>6
  <2> QED BY <2>6, <2>7
<1>7. Joined'
  <2> SUFFICES ASSUME Small', NEW S \in SUBSET Old', S # {},
                      \A n \in S : Listed(links'[n]) \cap Old' \subseteq S
               PROVE  S = Old'
    BY DEF Joined, Closed
  <2> QED BY <1>1, <1>3, <1>4, <1>6
<1> QED BY <1>5, <1>7

LEMMA InitJoined == Init => JInv
<1> SUFFICES ASSUME Init PROVE JInv
  OBVIOUS
<1>1. Old = {}
  BY DEF Init, Old
<1> QED BY <1>1, InitLoops DEF Init, JInv, Joined, LinkedBothWays

LEMMA NextJoined == JInv /\ [Next]_vars => JInv'
<1> SUFFICES ASSUME JInv, [Next]_vars PROVE JInv'
  OBVIOUS
<1>1. PInv' /\ DInv' /\ DInv
  BY NextLoops DEF JInv, PInv, FInv
<1>2. CASE Insert \/ Forward \/ LinkBack \/ Reprune \/ Rewrite \/ EndInsert
  BY <1>1, <1>2, InsertJoined, ForwardJoined, LinkBackJoined, RewriteJoined,
     EndInsertJoined DEF JInv
<1>3. CASE Search \/ Expand \/ Visit \/ EndOfList \/ Keep \/ Select \/ EndSearch
  <2>1. UNCHANGED <<size, links>> /\ pc' # "link"
    BY <1>3 DEF Search, Seed, Expand, Visit, EndOfList, Keep, Select, StartPrune,
                EndSearch, Rest, graph
  <2>2. op' = "insert" <=> op = "insert"
    BY <1>1, <1>3 DEF Search, Seed, Expand, Visit, EndOfList, Keep, Select, EndSearch,
                      Rest, DInv, SearchHolds
  <2>3. Joined'
    BY <2>1, <2>2, EdgesStand DEF Small, Old
  <2>4. pc' = "prune" => base' = New \/ (pc = "prune" /\ base' = base)
    BY <1>3 DEF Search, Seed, Expand, Visit, EndOfList, Keep, Select, StartPrune,
                EndSearch, Rest
  <2>5. LinkedBothWays'
    BY <2>1, <2>2, <2>4 DEF JInv, LinkedBothWays, Small, New
  <2> QED BY <1>1, <2>3, <2>5 DEF JInv
<1>4. CASE UNCHANGED vars
  BY <1>1, <1>4 DEF vars, graph, prune, JInv, Joined, LinkedBothWays, Small, Closed,
                    Old, New
<1> QED BY <1>2, <1>3, <1>4 DEF Next, Step

(* A search that asks for as many rows as the index has finds them all,    *)
(* whatever L_search it was given, while the index is so small that no     *)
(* list can have overflowed: an edge leads out of any smaller set of       *)
(* results, to a node the search would have met and had room to keep.      *)
THEOREM SmallIndexAnswersExactly == Spec => []SmallIndexIsExact
<1>1. JInv => SmallIndexIsExact
  <2> SUFFICES ASSUME JInv, pc = "search", op = "search", BeamDone,
                      size <= R + 1, k >= size
               PROVE  W = Old
    BY DEF SmallIndexIsExact, Old
  <2>1. DInv /\ Values /\ SearchInv /\ Searching /\ Small
    BY DEF JInv, PInv, FInv, Searching, Small
  <2>2. W \subseteq Old /\ W # {} /\ IsFiniteSet(W) /\ Old \subseteq Nodes
    BY <2>1, OldFacts DEF DInv, SearchHolds, SearchInv
  <2>3. ASSUME NEW w \in W, NEW n \in Listed(links[w]) \cap Old
        PROVE  n \in W
    <3> SUFFICES ASSUME n \notin W PROVE FALSE
      OBVIOUS
    <3>1. w \notin cand
      <4>1. Near(w) \in Nat
        BY <2>1, <2>2, NearInNat
      <4> QED BY <4>1 DEF BeamDone
    <3>2. n \in marks
      BY <2>1, <3>1 DEF SearchInv
    <3>3. Cardinality(W) = width
      BY <2>1, <3>2 DEF SearchInv, PassedOver
    <3>4. width >= k /\ width \in Nat /\ k \in Nat
      BY <2>1 DEF Values
    <3>5. IsFiniteSet(Old) /\ Cardinality(Old) = size /\ size \in Nat
      BY <2>1, OldFacts
    <3>6. Cardinality(W) <= Cardinality(Old)
          /\ (Cardinality(W) = Cardinality(Old) => W = Old)
      BY <2>2, <3>5, FS_Subset
    <3> QED BY <3>3, <3>4, <3>5, <3>6
  <2>4. Closed(W)
    BY <2>3 DEF Closed
  <2> QED BY <2>1, <2>2, <2>4 DEF JInv, Joined
<1> QED BY <1>1, InitJoined, NextJoined, PTL DEF Spec
=============================================================================
