------------------------------- MODULE AOStar -------------------------------
(***************************************************************************)
(* AO*: class AOStar, one call of solve().  An iteration follows the       *)
(* stored policy along sampled unsolved successors down to a state on the  *)
(* fringe, expands it and propagates its value.                            *)
(*                                                                         *)
(* The successor sampler is any choice of an unsolved successor.  Two      *)
(* details of update_value_check_solved are kept because they matter: the  *)
(* action is chosen from transitions_, while the greedy ones are filtered  *)
(* from a copy; and the chosen transition is moved out of transitions_.    *)
(***************************************************************************)
EXTENDS AOBase

VARIABLE stateid     \* stateid of do_solve: where the iteration has got to

vars == <<base_vars, initial_state, pc, ao_vars, stateid>>

PCs == {"solve", "visit", "update_order", "tip_value", "sample", "done",
        "timeout", "undefined"}

Init ==
  /\ AOInit
  /\ pc = "solve"
  /\ stateid = initial_state

(* solve, and the beginning of do_solve.                                   *)
Solve ==
  /\ pc = "solve"
  /\ InitializeInitialState(initial_state)
  /\ pc' = IF flag'[initial_state] \in {"goal", "terminal"} THEN "done"
           ELSE "visit"
  /\ UNCHANGED <<initial_state, ao_vars, stateid>>

-----------------------------------------------------------------------------
(* update_value_check_solved.                                              *)

(* select_greedy_transition on all transitions of s.                       *)
ActionChoices(s) ==
  IF TransitionTails(s) = {} THEN {NoAction}
  ELSE IF config.stable_policy /\ policy[s] \in TransitionTails(s)
  THEN {policy[s]}
  ELSE TransitionTails(s)

UpdateValue(s) ==
  /\ flag' = ExpandedFlag(s)
  /\ \E v \in {ExpandedValue(s)} : value' = [v EXCEPT ![s] = Bellman(v, s)]
  /\ \E a \in ActionChoices(s) : policy' = [policy EXCEPT ![s] = a]
  /\ UNCHANGED config

(* All successors of the chosen action are solved; there may be none.      *)
SuccessorsSolved(s) ==
  policy'[s] = NoAction \/ \A t \in NonSource(s, policy'[s]) : IsSolvedAfter(t)

-----------------------------------------------------------------------------

(* The successors that are linked to s and counted for its order: those of *)
(* the chosen action are gone from transitions_.                           *)
LinkedSuccessors(s) ==
  {t \in UNION {NonSource(s, a) : a \in TransitionTails(s) \ {policy'[s]}} :
     ~IsSolvedAfter(t)}

(* One state of an iteration: expand it if it is on the fringe.            *)
VisitFringe ==
  /\ pc = "visit"
  /\ flag[stateid] = "fringe"
  /\ UpdateValue(stateid)
  /\ \/ /\ SuccessorsSolved(stateid)
        /\ PushParents(stateid, TRUE, solved \union {stateid}, {})
        /\ pc' = "tip_value"
        /\ UNCHANGED <<update_order, tip>>
     \/ /\ ~SuccessorsSolved(stateid)
        /\ LinkSuccessors(stateid, LinkedSuccessors(stateid))
        /\ tip' = [state |-> stateid,
                   value_changed |-> Changed(value[stateid], value'[stateid])]
        /\ pc' = "update_order"
        /\ UNCHANGED <<solved, marked, unsolved>>
  /\ UNCHANGED <<initial_state, stateid>>

VisitInner ==
  /\ pc = "visit"
  /\ flag[stateid] # "fringe"
  /\ pc' = "sample"
  /\ UNCHANGED <<base_vars, initial_state, ao_vars, stateid>>

(* backpropagate_update_order, one turn of its loop, and its end: the      *)
(* iteration goes on below the tip if the value of the tip did not change. *)
UpdateOrder ==
  /\ pc = "update_order"
  /\ queue # {}
  /\ RaiseOrder
  /\ UNCHANGED <<base_vars, initial_state, pc, solved, marked, unsolved, tip,
                 stateid>>

EndUpdateOrder ==
  /\ pc = "update_order"
  /\ queue = {}
  /\ \/ /\ tip.value_changed
        /\ PushParents(tip.state, FALSE, solved, {})
        /\ pc' = "tip_value"
     \/ /\ ~tip.value_changed
        /\ pc' = "sample"
        /\ UNCHANGED <<solved, marked, parents, unsolved, queue>>
  /\ UNCHANGED <<base_vars, initial_state, update_order, tip, stateid>>

(* backpropagate_tip_value, one turn of its loop, and its end: the next    *)
(* iteration begins unless the initial state is solved.                    *)
TipValue ==
  /\ pc = "tip_value"
  /\ \/ SkipSolved
     \/ \E e \in queue : /\ IsTop(e)
                        /\ ~IsSolved(e[2])
                        /\ UpdateValue(e[2])
                        /\ Propagate(e, SuccessorsSolved(e[2]))
  /\ UNCHANGED <<initial_state, pc, update_order, tip, stateid>>

EndTipValue ==
  /\ pc = "tip_value"
  /\ queue = {}
  /\ stateid' = initial_state
  /\ pc' = IF IsSolved(initial_state) THEN "done" ELSE "visit"
  /\ UNCHANGED <<base_vars, initial_state, ao_vars>>

(* Sample an unsolved successor; to sample from none is undefined.         *)
Sample ==
  /\ pc = "sample"
  /\ LET unsolved_successors ==
           {t \in NonSource(stateid, policy[stateid]) : ~IsSolved(t)}
     IN  \/ /\ stateid' \in unsolved_successors
            /\ pc' = "visit"
         \/ /\ unsolved_successors = {}
            /\ stateid' = stateid
            /\ pc' = "undefined"
  /\ UNCHANGED <<base_vars, initial_state, ao_vars>>

(* The timer expires where it is read.                                     *)
Timeout ==
  /\ \/ pc = "visit"
     \/ pc \in {"update_order", "tip_value"} /\ queue # {}
  /\ pc' = "timeout"
  /\ UNCHANGED <<base_vars, initial_state, ao_vars, stateid>>

Finished == pc \in {"done", "timeout", "undefined"}

Stop ==
  /\ Finished
  /\ UNCHANGED vars

Step ==
  \/ Solve
  \/ VisitFringe
  \/ VisitInner
  \/ UpdateOrder
  \/ EndUpdateOrder
  \/ TipValue
  \/ EndTipValue
  \/ Sample

Next == Step \/ Timeout \/ Stop

Spec == Init /\ [][Next]_vars /\ WF_vars(Step)

-----------------------------------------------------------------------------

TypeOK == AOTypeOK /\ pc \in PCs /\ stateid \in State

=============================================================================
