-------------------------- MODULE AisaqBuildAtomic --------------------------
(***************************************************************************)
(* AisaqBuild implements ProximityGraph.  A list changes when its new      *)
(* value is decided: a forward list when the search's result is pruned, a  *)
(* reciprocal update when the target's lock is taken.                      *)
(***************************************************************************)
EXTENDS AisaqBuild

(* The list node n has, or gets once the stores under way are done.        *)
ListOf(n) ==
    IF lock[n] # Unlocked THEN want[lock[n]]
    ELSE IF \E t \in Tasks : row[t] = n /\ fwd[t] # {}
         THEN sel[CHOOSE t \in Tasks : row[t] = n /\ fwd[t] # {}]
         ELSE InMemory(n)

LinkedNodes ==
    (UNION {built[t] : t \in 0..NumTasks})
      \cup {row[t] : t \in {u \in Tasks :
                              pc[u] \in {"connect", "append", "reprune"}}}

Graph == INSTANCE ProximityGraph WITH
            Nodes <- Rows,
            edges <- [n \in Rows |-> ListOf(n)],
            linked <- LinkedNodes

(* Every interleaving of the tasks' loads and stores builds a graph that   *)
(* whole-list updates, taken one at a time, could have built: no back-edge *)
(* is lost, no list mixes two updates once it is at rest, and a list names *)
(* only nodes whose own list is complete.                                  *)
BuildsAtomically == Graph!Spec
=============================================================================
