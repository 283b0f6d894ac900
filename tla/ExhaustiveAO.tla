---------------------------- MODULE ExhaustiveAO ----------------------------
(***************************************************************************)
(* The exhaustive AO* search: class ExhaustiveAOSearch, one call of        *)
(* solve().  It expands the states of an open list in any order until the  *)
(* initial state is solved; a state is solved once all successors it had   *)
(* that were not are.                                                      *)
(*                                                                         *)
(* The open list is a set: an open list may hold a state several times,    *)
(* but all but one of these entries are skipped.                           *)
(***************************************************************************)
EXTENDS AOBase

VARIABLE open        \* open_list_

vars == <<base_vars, initial_state, pc, ao_vars, open>>

PCs == {"solve", "loop", "update_order", "tip_value", "done", "timeout"}

Init ==
  /\ AOInit
  /\ pc = "solve"
  /\ open = {}

(* solve, and do_solve up to its loop.                                     *)
Solve ==
  /\ pc = "solve"
  /\ InitializeInitialState(initial_state)
  /\ open' = {initial_state}
  /\ pc' = "loop"
  /\ UNCHANGED <<initial_state, ao_vars>>

(* The condition of the loop, given what is solved.                        *)
LoopAgain(is_solved) == pc' = IF is_solved THEN "done" ELSE "loop"

(* A state from the open list that has been expanded, or is solved.        *)
Skip ==
  /\ pc = "loop"
  /\ \E s \in open :
       /\ flag[s] # "fringe" \/ IsSolved(s)
       /\ open' = open \ {s}
  /\ LoopAgain(IsSolved(initial_state))
  /\ UNCHANGED <<base_vars, initial_state, ao_vars>>

(* The Bellman backup of both update_value_check_solved and do_solve: no   *)
(* policy is stored.                                                       *)
UpdateValue(s) ==
  /\ flag' = ExpandedFlag(s)
  /\ \E v \in {ExpandedValue(s)} :
       value' = [v EXCEPT ![s] = BellmanValue(v, s)]
  /\ UNCHANGED <<config, policy>>

(* The successors that s waits for.                                        *)
OpenSuccessors(s) == {t \in Neighbours(s) : ~IsSolvedAfter(t)}

(* The open list after the expansion of s.                                 *)
OpenAfter(s, new) == (open \ {s}) \union new

(* One expansion.  Without open successors the state is solved at once and *)
(* its value is propagated; with some, first its update order is.          *)
Expand ==
  /\ pc = "loop"
  /\ \E s \in open :
       LET new == OpenSuccessors(s)
       IN  /\ flag[s] = "fringe" /\ ~IsSolved(s)
           /\ UpdateValue(s)
           /\ open' = OpenAfter(s, new)
           /\ \/ /\ new = {}
                 /\ PushParents(s, TRUE,
                      IF flag'[s] = "terminal" THEN solved
                      ELSE solved \union {s}, {})
                 /\ pc' = "tip_value"
                 /\ UNCHANGED <<update_order, tip>>
              \/ /\ new # {}
                 /\ LinkSuccessors(s, new)
                 /\ unsolved' = [unsolved EXCEPT ![s] = @ + Cardinality(new)]
                 /\ tip' = [state |-> s,
                            value_changed |-> Changed(value[s], value'[s])]
                 /\ pc' = "update_order"
                 /\ UNCHANGED <<solved, marked>>
  /\ UNCHANGED initial_state

(* backpropagate_update_order, one turn of its loop.                       *)
UpdateOrder ==
  /\ pc = "update_order"
  /\ queue # {}
  /\ RaiseOrder
  /\ UNCHANGED <<base_vars, initial_state, pc, solved, marked, unsolved, tip,
                 open>>

(* ... and its end: the value of the tip is propagated if it changed.      *)
EndUpdateOrder ==
  /\ pc = "update_order"
  /\ queue = {}
  /\ \/ /\ tip.value_changed
        /\ PushParents(tip.state, FALSE, solved, {})
        /\ pc' = "tip_value"
     \/ /\ ~tip.value_changed
        /\ LoopAgain(IsSolved(initial_state))
        /\ UNCHANGED <<solved, marked, parents, unsolved, queue>>
  /\ UNCHANGED <<base_vars, initial_state, update_order, tip, open>>

(* Mutant of AllSuccessorsSolved: off by one.                              *)
AllSuccessorsButOne(s) == unsolved[s] <= 1

AllSuccessorsSolved(s) == unsolved[s] = 0

(* backpropagate_tip_value, one turn of its loop.                          *)
TipValue ==
  /\ pc = "tip_value"
  /\ \/ SkipSolved
     \/ \E e \in queue : /\ IsTop(e)
                        /\ ~IsSolved(e[2])
                        /\ UpdateValue(e[2])
                        /\ Propagate(e, AllSuccessorsSolved(e[2]))
  /\ UNCHANGED <<initial_state, pc, update_order, tip, open>>

EndTipValue ==
  /\ pc = "tip_value"
  /\ queue = {}
  /\ LoopAgain(IsSolved(initial_state))
  /\ UNCHANGED <<base_vars, initial_state, ao_vars, open>>

(* The timer expires where it is read.                                     *)
Timeout ==
  /\ \/ pc = "loop"
     \/ pc \in {"update_order", "tip_value"} /\ queue # {}
  /\ pc' = "timeout"
  /\ UNCHANGED <<base_vars, initial_state, ao_vars, open>>

Finished == pc \in {"done", "timeout"}

Stop ==
  /\ Finished
  /\ UNCHANGED vars

Step ==
  \/ Solve
  \/ Skip
  \/ Expand
  \/ UpdateOrder
  \/ EndUpdateOrder
  \/ TipValue
  \/ EndTipValue

Next == Step \/ Timeout \/ Stop

Spec == Init /\ [][Next]_vars /\ WF_vars(Step)

-----------------------------------------------------------------------------

TypeOK == AOTypeOK /\ pc \in PCs /\ open \subseteq State

(* A state knows at any time how many of its successors it still waits     *)
(* for, and each of them knows it as a parent: the counts lowered by       *)
(* push_parents_to_queue agree with the parent links made by expansions.   *)
UnsolvedCount ==
  \A s \in State : flag[s] = "initialized" /\ ~IsSolved(s) =>
     LET children == {t \in State : s \in parents[t]}
     IN  /\ unsolved[s] = Cardinality(children)
         /\ children = {t \in Neighbours(s) : ~IsSolved(t)}

(* Between two expansions every expanded state has the value that follows  *)
(* from its successors, however far propagation was cut short.             *)
ValuesPropagated ==
  pc \in {"loop", "done"} =>
    \A s \in State : flag[s] = "initialized" =>
       ~Changed(value[s], BellmanValue(value, s))

(* The search ends, or runs out of time.                                   *)
Termination == <>Finished
=============================================================================
