--------------------------- MODULE QuotientSearch ---------------------------
(***************************************************************************)
(* What the heuristic searches on a quotient system share: the StateInfo   *)
(* of each state ID, expansions and Bellman backups.  It is the part of    *)
(* HeuristicSearchBase that a search on a quotient system uses, for        *)
(* algorithms that keep one value, not an interval.                        *)
(*                                                                         *)
(* The information is kept by state ID: that of a state survives when the  *)
(* state is collapsed, and is not that of its representative.              *)
(***************************************************************************)
EXTENDS QuotientSystem

VARIABLES
  flag,              \* StateFlags: how far each state ID is initialised
  value,             \* its value
  policy             \* its stored greedy action, a QAction

search_vars == <<flag, value, policy>>

ASSUME NoQActionAssumption == NoAction \notin QAction

IsGoalOrTerminal(s) == flag[s] \in {"goal", "terminal"}

InitialFlag(s) ==
  IF QIsGoal(s) THEN "goal"
  ELSE IF QEstimate(s) = QTerminationCost(s) THEN "terminal" ELSE "fringe"

InitialValue(s) == IF QIsGoal(s) THEN QTerminationCost(s) ELSE QEstimate(s)

SearchInit ==
  /\ flag = [s \in State |-> "uninitialized"]
  /\ value = [s \in State |-> 0]
  /\ policy = [s \in State |-> NoAction]

(* initialize, for those of the given states that are new.                 *)
FlagWith(states) ==
  [t \in State |-> IF t \in states /\ flag[t] = "uninitialized"
                   THEN InitialFlag(t) ELSE flag[t]]

ValueWith(states) ==
  [t \in State |-> IF t \in states /\ flag[t] = "uninitialized"
                   THEN InitialValue(t) ELSE value[t]]

InitializeInitialState(s) ==
  /\ flag' = FlagWith({s})
  /\ value' = ValueWith({s})
  /\ UNCHANGED policy

(* The states that expanding s initialises.                                *)
ToInitialize(s) ==
  IF flag[s] = "fringe" THEN UNION {QNonSource(qa) : qa \in QTails(s)} ELSE {}

ExpandedFlag(s) ==
  IF flag[s] # "fringe" THEN flag
  ELSE [FlagWith(ToInitialize(s)) EXCEPT
          ![s] = IF QTails(s) = {} THEN "terminal" ELSE "initialized"]

(* What the policy picker may choose; a stable one keeps a greedy action.  *)
GreedyChoices(s, greedy, stable) ==
  IF greedy = {} THEN {NoAction}
  ELSE IF stable /\ policy[s] \in greedy THEN {policy[s]} ELSE greedy

(* One Bellman backup of s, which is expanded if it is on the fringe.      *)
Backup(s, stable) ==
  \E v \in {ValueWith(ToInitialize(s))} : \E backup \in {QBackup(v, s)} :
    /\ flag' = ExpandedFlag(s)
    /\ value' = [v EXCEPT ![s] = backup.value]
    /\ \E a \in GreedyChoices(s, backup.greedy, stable) :
         policy' = [policy EXCEPT ![s] = a]

ValueChanged(s) == ~ApproxEqual(value[s], value'[s])

SearchTypeOK ==
  /\ \A s \in State : flag[s] \in {"uninitialized", "initialized", "terminal",
                                   "goal", "fringe"}
  /\ \A s \in State : value[s] \in Int /\ value[s] <= Infinite
  /\ \A s \in State : policy[s] \in QAction \union {NoAction}
=============================================================================
