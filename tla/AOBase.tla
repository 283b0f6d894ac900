------------------------------- MODULE AOBase -------------------------------
(***************************************************************************)
(* What the algorithms of the AO* family share (class AOBase): they run on *)
(* acyclic MDPs, label states solved bottom up, and after each expansion   *)
(* propagate first an order of updates and then values to the ancestors of *)
(* the expanded state.  Both propagations work off a priority queue, one   *)
(* entry per step.                                                         *)
(***************************************************************************)
EXTENDS HeuristicSearchBase

CONSTANTS
  InitialStates,     \* the states solve() may be called with
  StorePolicy        \* StateInfo::StorePolicy: FALSE if no policy is stored

VARIABLES
  initial_state,     \* the state argument of solve()
  pc,                \* the function or loop the search is in
  solved,            \* the states with the SOLVED bit
  marked,            \* the states with the MARK bit
  update_order,      \* update_order of each state
  parents,           \* parents of each state
  unsolved,          \* unsolved of each state, if no policy is stored
  queue,             \* queue_: pairs of an update order and a state
  tip                \* the state just expanded, and whether its value changed

ao_vars == <<solved, marked, update_order, parents, unsolved, queue, tip>>

LegalConfigs == [use_interval : BOOLEAN, stable_policy : BOOLEAN]

ASSUME AOAssumption ==
  /\ InitialStates \subseteq State
  /\ Configs \subseteq LegalConfigs
  /\ StorePolicy \in BOOLEAN

IsSolved(s) == s \in solved \/ IsGoalOrTerminal(s)

(* The same after the flags of this step are set.                          *)
IsSolvedAfter(s) == s \in solved \/ flag'[s] \in {"goal", "terminal"}

AOInit ==
  /\ BaseInit
  /\ initial_state \in InitialStates
  /\ solved = {}
  /\ marked = {}
  /\ update_order = [s \in State |-> 0]
  /\ parents = [s \in State |-> {}]
  /\ unsolved = [s \in State |-> 0]
  /\ queue = {}
  /\ tip = [state |-> initial_state, value_changed |-> FALSE]

-----------------------------------------------------------------------------

(* Mutant of ToQueue: only what is solved is propagated.                   *)
ToQueueIfSolved(s, is_solved) == IF is_solved THEN parents[s] \ marked ELSE {}

(* The parents of s to be queued: all that are not yet.                    *)
ToQueue(s, is_solved) == parents[s] \ marked

(* Mutant of ToCount: parents in the queue are passed over.                *)
ToCountUnmarked(s, is_solved) == IF is_solved THEN parents[s] \ marked ELSE {}

(* The parents of s that have one successor less to wait for.              *)
ToCount(s, is_solved) ==
  IF is_solved /\ ~StorePolicy THEN parents[s] ELSE {}

Unmarked(s) == marked \ {s}

(* unmark s, and push_parents_to_queue(s).  is_solved tells whether s is   *)
(* solved by now, labels are the SOLVED bits so far (to mark a parent      *)
(* overwrites its bit), rest is the queue so far.                          *)
PushParents(s, is_solved, labels, rest) ==
  LET new == ToQueue(s, is_solved)
  IN  /\ marked' = Unmarked(s) \union new
      /\ solved' = labels \ new
      /\ queue' = rest \union {<<update_order[p], p>> : p \in new}
      /\ parents' = IF is_solved THEN [parents EXCEPT ![s] = {}] ELSE parents
      /\ unsolved' = [p \in State |-> IF p \in ToCount(s, is_solved)
                                      THEN unsolved[p] - 1 ELSE unsolved[p]]

(* The entries that queue_.top() may return.                               *)
IsTop(e) == e \in queue /\ \A f \in queue : e[1] <= f[1]

-----------------------------------------------------------------------------
(* backpropagate_update_order.                                             *)

(* Mutant of FirstOrder: below the smallest order.                         *)
FirstOrderBelow(new) ==
  IF new = {} THEN 0 ELSE Min({update_order[t] : t \in new}) - 1

(* The call, for the state s that was just expanded with successors new:   *)
(* they know s as a parent now, and the order of s is above the smallest   *)
(* of theirs.  The minimum over none is the largest unsigned number, which *)
(* wraps around.                                                           *)
FirstOrder(new) ==
  IF new = {} THEN 0 ELSE Min({update_order[t] : t \in new}) + 1

LinkSuccessors(s, new) ==
  /\ parents' = [t \in State |-> IF t \in new THEN parents[t] \union {s}
                                 ELSE parents[t]]
  /\ update_order' = [update_order EXCEPT ![s] = FirstOrder(new)]
  /\ queue' = {<<FirstOrder(new), s>>}

(* One entry: drop the parents that are solved, and raise the order of the *)
(* others above that of the entry.                                         *)
RaiseOrder ==
  \E e \in queue :
    /\ IsTop(e)
    /\ \/ /\ update_order[e[2]] > e[1]
          /\ queue' = queue \ {e}
          /\ UNCHANGED <<update_order, parents>>
       \/ /\ update_order[e[2]] <= e[1]
          /\ LET kept   == {p \in parents[e[2]] : ~IsSolved(p)}
                 raised == {p \in kept : update_order[p] <= e[1]}
             IN  /\ parents' = [parents EXCEPT ![e[2]] = kept]
                 /\ update_order' = [p \in State |-> IF p \in raised
                                       THEN e[1] + 1 ELSE update_order[p]]
                 /\ queue' = (queue \ {e}) \union
                               {<<e[1] + 1, p>> : p \in raised}

-----------------------------------------------------------------------------
(* backpropagate_tip_value.                                                *)

(* An entry of a state that has been solved in the meantime.               *)
SkipSolved ==
  /\ \E e \in queue :
       /\ IsTop(e)
       /\ IsSolved(e[2])
       /\ queue' = queue \ {e}
  /\ UNCHANGED <<base_vars, solved, marked, parents, unsolved>>

(* What follows the update of the state of entry e: its parents are queued *)
(* if it is solved by now or its value changed.                            *)
Propagate(e, is_solved) ==
  IF is_solved \/ Changed(value[e[2]], value'[e[2]])
  THEN PushParents(e[2], is_solved,
         IF is_solved THEN solved \union {e[2]} ELSE solved, queue \ {e})
  ELSE /\ queue' = queue \ {e}
       /\ marked' = Unmarked(e[2])
       /\ UNCHANGED <<solved, parents, unsolved>>

-----------------------------------------------------------------------------

AOTypeOK ==
  /\ BaseTypeOK
  /\ initial_state \in InitialStates
  /\ solved \subseteq State
  /\ marked \subseteq State
  /\ update_order \in [State -> Nat]
  /\ parents \in [State -> SUBSET State]
  /\ unsolved \in [State -> Nat]
  /\ queue \subseteq Nat \X State
  /\ tip \in [state : State, value_changed : BOOLEAN]
=============================================================================
