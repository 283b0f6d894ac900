------------------------------- MODULE LRTDP -------------------------------
(***************************************************************************)
(* Labelled real-time dynamic programming: class LRTDP, one call of        *)
(* solve().                                                                *)
(*                                                                         *)
(* A trial follows the greedy policy along sampled successors, with a      *)
(* backup of each state it meets; then check_and_solve is called on the    *)
(* states of the trial, last to first, until it fails on one.  It backs up *)
(* the greedy policy graph below its state and labels all of it solved if  *)
(* no value changed.  The search is over when the first state of a trial,  *)
(* the initial state, passes the check.                                    *)
(*                                                                         *)
(* The successor sampler is any choice of a successor.  policy_queue_, a   *)
(* vector used as a stack, is worked off in any order.                     *)
(***************************************************************************)
EXTENDS HeuristicSearchBase, SequencesExt

CONSTANTS
  InitialStates,     \* the states solve() may be called with
  MaxTrialLength     \* a bound of the model: longer trials run out of time

VARIABLES
  initial_state,     \* the state argument of solve()
  pc,                \* the function or loop the search is in
  solved,            \* the states with the SOLVED bit
  on_trial,          \* the states with the VISITED bit
  current_trial,     \* current_trial_
  policy_queue,      \* policy_queue_ of check_and_solve
  visited,           \* visited_, the last visited state first
  rv                 \* the local variable rv of check_and_solve

search_vars == <<solved, on_trial, current_trial, policy_queue, visited, rv>>
vars == <<base_vars, initial_state, pc, search_vars>>

TrialTerminationCondition ==
  {"TERMINAL", "CONSISTENT", "INCONSISTENT", "REVISITED"}

LegalConfigs == [stop_consistent : TrialTerminationCondition,
                 use_interval : BOOLEAN, stable_policy : BOOLEAN]

ASSUME LRTDPAssumption ==
  /\ InitialStates \subseteq State
  /\ Configs \subseteq LegalConfigs
  /\ MaxTrialLength \in Nat

PCs == {"solve", "do_solve", "start_trial", "trial", "end_trial", "begin_check",
        "check", "label", "done", "timeout", "undefined"}

IsSolved(s) == s \in solved \/ IsGoalOrTerminal(s)

(* Mutant of IsSolvedAfter: tip states count as solved.                    *)
IsSolvedAfterOrTip(s) ==
  s \in solved \/ flag'[s] \in {"goal", "terminal", "fringe"}

IsSolvedAfter(s) == s \in solved \/ flag'[s] \in {"goal", "terminal"}

-----------------------------------------------------------------------------

Init ==
  /\ BaseInit
  /\ initial_state \in InitialStates
  /\ pc = "solve"
  /\ solved = {}
  /\ on_trial = {}
  /\ current_trial = <<>>
  /\ policy_queue = {}
  /\ visited = <<>>
  /\ rv = TRUE

(* solve: initialise the initial state.                                    *)
Solve ==
  /\ pc = "solve"
  /\ InitializeInitialState(initial_state)
  /\ pc' = "do_solve"
  /\ UNCHANGED <<initial_state, search_vars>>

(* do_solve up to its loop: there is nothing to do for a final state.      *)
DoSolve ==
  /\ pc = "do_solve"
  /\ pc' = IF IsSolved(initial_state) THEN "done" ELSE "start_trial"
  /\ UNCHANGED <<base_vars, initial_state, search_vars>>

StartTrial ==
  /\ pc = "start_trial"
  /\ current_trial' = <<initial_state>>
  /\ pc' = "trial"
  /\ UNCHANGED <<base_vars, initial_state, solved, on_trial, policy_queue,
                 visited, rv>>

(* trial: a solved state ends the trial and is not part of it.             *)
TrialSolved ==
  /\ pc = "trial"
  /\ IsSolved(Last(current_trial))
  /\ current_trial' = Front(current_trial)
  /\ pc' = "end_trial"
  /\ UNCHANGED <<base_vars, initial_state, solved, on_trial, policy_queue,
                 visited, rv>>

(* The trial stops in s, just backed up, although s has a greedy action.   *)
StopsTrial(s) ==
  \/ config.stop_consistent = "CONSISTENT" /\ ValueConverged(s)
  \/ config.stop_consistent = "INCONSISTENT" /\ ~ValueConverged(s)
  \/ config.stop_consistent = "REVISITED" /\ s \in on_trial

(* trial: back up its last state.  Without a greedy action the state is    *)
(* solved and leaves the trial; otherwise the trial stops or goes on.      *)
TrialStep ==
  /\ pc = "trial"
  /\ LET s == Last(current_trial)
     IN  /\ ~IsSolved(s)
         /\ Backup(s)
         /\ \/ /\ policy'[s] = NoAction
               /\ solved' = solved \union {s}
               /\ current_trial' = Front(current_trial)
               /\ pc' = "end_trial"
               /\ UNCHANGED on_trial
            \/ /\ policy'[s] # NoAction /\ StopsTrial(s)
               /\ pc' = "end_trial"
               /\ UNCHANGED <<solved, on_trial, current_trial>>
            \/ /\ policy'[s] # NoAction /\ ~StopsTrial(s)
               /\ Len(current_trial) < MaxTrialLength
               /\ on_trial' = IF config.stop_consistent = "REVISITED"
                              THEN on_trial \union {s} ELSE on_trial
               /\ \E t \in NonSource(s, policy'[s]) :
                    current_trial' = Append(current_trial, t)
               /\ UNCHANGED <<solved, pc>>
  /\ UNCHANGED <<config, initial_state, policy_queue, visited, rv>>

(* Mutant of EndTrial: the wrong end of the trial is left out.             *)
EndTrialButFirst ==
  /\ pc = "end_trial"
  /\ on_trial' = IF config.stop_consistent = "REVISITED"
                    /\ current_trial # <<>>
                 THEN on_trial \ Range(Tail(current_trial))
                 ELSE on_trial
  /\ pc' = "begin_check"
  /\ UNCHANGED <<base_vars, initial_state, solved, current_trial,
                 policy_queue, visited, rv>>

(* After the trial: clear the marks of all its states but the last one.    *)
EndTrial ==
  /\ pc = "end_trial"
  /\ on_trial' = IF config.stop_consistent = "REVISITED"
                    /\ current_trial # <<>>
                 THEN on_trial \ Range(Front(current_trial))
                 ELSE on_trial
  /\ pc' = "begin_check"
  /\ UNCHANGED <<base_vars, initial_state, solved, current_trial,
                 policy_queue, visited, rv>>

-----------------------------------------------------------------------------
(* check_and_solve, called on the last state of the trial.                 *)

(* current_trial_.back() of an empty trial: the behaviour is undefined.    *)
CheckNothing ==
  /\ pc = "begin_check"
  /\ current_trial = <<>>
  /\ pc' = "undefined"
  /\ UNCHANGED <<base_vars, initial_state, search_vars>>

(* Mutant of CheckSucceeds: the states before in the trial are forgotten.  *)
CheckSucceedsAtOnce == current_trial' = <<>> /\ pc' = "done"

(* The check succeeded: go on with the state before in the trial; the      *)
(* search is over when there is none.                                      *)
CheckSucceeds ==
  /\ current_trial' = Front(current_trial)
  /\ pc' = IF current_trial' = <<>> THEN "done" ELSE "begin_check"

BeginCheck ==
  /\ pc = "begin_check"
  /\ current_trial # <<>>
  /\ LET s == Last(current_trial)
     IN  \/ /\ IsSolved(s)
            /\ CheckSucceeds
            /\ UNCHANGED <<on_trial, policy_queue, rv>>
         \/ /\ ~IsSolved(s)
            /\ policy_queue' = {s}
            /\ on_trial' = on_trial \union {s}
            /\ rv' = TRUE
            /\ pc' = "check"
            /\ UNCHANGED current_trial
  /\ UNCHANGED <<base_vars, initial_state, solved, visited>>

(* One state of the greedy policy graph: back it up, and unless its value  *)
(* changed go on with its greedy successors.                               *)
CheckStep ==
  /\ pc = "check"
  /\ \E s \in policy_queue :
       LET new     == {t \in NonSource(s, policy'[s]) :
                         t \notin on_trial /\ ~IsSolvedAfter(t)}
           rest    == policy_queue \ {s}
           changed == Changed(value[s], value'[s])
       IN  /\ Backup(s)
           /\ visited' = <<s>> \o visited
           /\ \/ /\ policy'[s] = NoAction
                 /\ solved' = solved \union {s}
                 /\ policy_queue' = rest
                 /\ UNCHANGED <<on_trial, rv>>
              \/ /\ policy'[s] # NoAction /\ ~changed
                 /\ rv' = (rv /\ ValueConverged(s))
                 /\ policy_queue' = rest \union new
                 /\ on_trial' = on_trial \union new
                 /\ UNCHANGED solved
              \/ /\ policy'[s] # NoAction /\ changed
                 /\ rv' = FALSE
                 /\ policy_queue' = rest
                 /\ UNCHANGED <<solved, on_trial>>
  /\ pc' = IF policy_queue' = {} THEN "label" ELSE "check"
  /\ UNCHANGED <<config, initial_state, current_trial>>

(* One visited state: label it if the check succeeded, back it up once     *)
(* more if it failed.                                                      *)
LabelStep ==
  /\ pc = "label"
  /\ visited # <<>>
  /\ LET s == Head(visited)
     IN  \/ /\ IsSolved(s)
            /\ UNCHANGED <<base_vars, solved, on_trial>>
         \/ /\ ~IsSolved(s) /\ rv
            /\ on_trial' = on_trial \ {s}
            /\ solved' = solved \union {s}
            /\ UNCHANGED base_vars
         \/ /\ ~IsSolved(s) /\ ~rv
            /\ on_trial' = on_trial \ {s}
            /\ Backup(s)
            /\ UNCHANGED <<config, solved>>
  /\ visited' = Tail(visited)
  /\ UNCHANGED <<initial_state, pc, current_trial, policy_queue, rv>>

EndCheck ==
  /\ pc = "label"
  /\ visited = <<>>
  /\ \/ /\ rv
        /\ CheckSucceeds
     \/ /\ ~rv
        /\ current_trial' = <<>>
        /\ pc' = "start_trial"
  /\ UNCHANGED <<base_vars, initial_state, solved, on_trial, policy_queue,
                 visited, rv>>

-----------------------------------------------------------------------------

(* The timer expires where it is read.  policy_queue_ and the VISITED bits *)
(* have no ClearGuard.                                                     *)
Timeout ==
  /\ pc \in {"trial", "begin_check", "check"}
  /\ pc' = "timeout"
  /\ current_trial' = <<>>
  /\ visited' = <<>>
  /\ UNCHANGED <<base_vars, initial_state, solved, on_trial, policy_queue, rv>>

Finished == pc \in {"done", "timeout", "undefined"}

Stop ==
  /\ Finished
  /\ UNCHANGED vars

Step ==
  \/ Solve
  \/ DoSolve
  \/ StartTrial
  \/ TrialSolved
  \/ TrialStep
  \/ EndTrial
  \/ CheckNothing
  \/ BeginCheck
  \/ CheckStep
  \/ LabelStep
  \/ EndCheck

Next == Step \/ Timeout \/ Stop

Spec == Init /\ [][Next]_vars /\ WF_vars(Step)

-----------------------------------------------------------------------------

TypeOK ==
  /\ BaseTypeOK
  /\ initial_state \in InitialStates
  /\ pc \in PCs
  /\ solved \subseteq State
  /\ on_trial \subseteq State
  /\ current_trial \in Seq(State)
  /\ policy_queue \subseteq State
  /\ visited \in Seq(State)
  /\ rv \in BOOLEAN

(* A mark that outlives its trial or its check would make check_and_solve  *)
(* pass over a state: when a check begins only its own state and solved    *)
(* ones may be marked, and during the check exactly what it found.         *)
NoStaleMarks ==
  /\ pc \in {"solve", "start_trial"} =>
       \A s \in on_trial : IsSolved(s)
  /\ pc = "begin_check" =>
       \A s \in on_trial : IsSolved(s) \/ s = Last(current_trial)
  /\ pc \in {"check", "label"} =>
       /\ \A s \in on_trial :
            IsSolved(s) \/ s \in policy_queue \/ s \in Range(visited)
       /\ \A s \in policy_queue : s \in on_trial /\ ~IsSolved(s)
       /\ \A s \in Range(visited) : s \in on_trial \/ IsSolved(s)

(* States are labelled solved only together with everything their policy   *)
(* can reach, across the trials, the checks and the expansions in between. *)
LabelsClosed ==
  pc # "label" =>
    \A s \in solved : \A t \in PolicySuccessors(s) : IsSolved(t)

(* A solved state has converged and stays so, though no backup ever looks  *)
(* at it again ("labels states as solved if they can only reach            *)
(* epsilon-consistent states").                                            *)
LabelsConverged == \A s \in solved : IsConverged(s)
=============================================================================
