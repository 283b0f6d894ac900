------------------------------ MODULE TALRTDP -------------------------------
(***************************************************************************)
(* Trap-aware LRTDP: class TALRTDP, one call of compute_policy for a       *)
(* search without intervals.                                               *)
(*                                                                         *)
(* As in LRTDP, trials are followed by checks of their states; but a check *)
(* is a depth-first search for the components of the greedy policy graph   *)
(* of the quotient system.  A component in which all actions are free and  *)
(* from which no successor leads is collapsed; one in which no value       *)
(* changed is labelled solved; any other is backed up once more.           *)
(*                                                                         *)
(* The successor sampler is any choice of a successor, and successors are  *)
(* explored in any order.                                                  *)
(***************************************************************************)
EXTENDS QuotientPolicy

CONSTANTS
  Configs,           \* the parameters TALRTDP may be constructed with
  InitialStates,     \* the states compute_policy may be called with
  MaxTrialLength     \* a bound of the model: longer trials run out of time

VARIABLES
  config,
  initial_state,
  pc,                \* the function or loop the search is in
  solved,            \* the states with the SOLVED bit
  on_trial,          \* the states with the MARKED_TRIAL bit
  current_trial,     \* current_trial_
  dfs_stack,         \* dfs_stack_
  tarjan_stack,      \* tarjan_stack_
  stack_index,       \* stack_index_
  pending            \* states of a component that are to be backed up again

trial_vars == <<solved, on_trial, current_trial>>
check_vars == <<dfs_stack, tarjan_stack, stack_index, pending>>
vars == <<config, initial_state, pc, quotient_vars, search_vars, trial_vars,
          check_vars, extract_vars>>

TrialTerminationCondition ==
  {"TERMINAL", "CONSISTENT", "INCONSISTENT", "REVISITED"}

LegalConfigs == [stop_at_consistent : TrialTerminationCondition,
                 reexpand_traps : BOOLEAN, stable_policy : BOOLEAN]

ASSUME TALRTDPAssumption ==
  /\ Configs \subseteq LegalConfigs
  /\ InitialStates \subseteq State
  /\ MaxTrialLength \in Nat

PCs == {"solve", "start_trial", "trial", "end_trial", "begin_check",
        "initialize", "push", "backtrack", "update", "extract", "done",
        "timeout", "undefined"}

STATE_UNSEEN == 0
STATE_CLOSED == -1

AllUnseen == [s \in State |-> STATE_UNSEEN]

IsSolved(s) == s \in solved \/ IsGoalOrTerminal(s)

Init ==
  /\ config \in Configs
  /\ initial_state \in InitialStates
  /\ pc = "solve"
  /\ QuotientInit
  /\ SearchInit
  /\ solved = {}
  /\ on_trial = {}
  /\ current_trial = <<>>
  /\ dfs_stack = <<>>
  /\ tarjan_stack = <<>>
  /\ stack_index = AllUnseen
  /\ pending = <<>>
  /\ ExtractInit

-----------------------------------------------------------------------------
(* trial.                                                                  *)

Solve ==
  /\ pc = "solve"
  /\ InitializeInitialState(initial_state)
  /\ pc' = "start_trial"
  /\ UNCHANGED <<config, initial_state, quotient_vars, trial_vars, check_vars,
                 extract_vars>>

(* The ID of the initial state is the one solve was called with.           *)
StartTrial ==
  /\ pc = "start_trial"
  /\ current_trial' = <<initial_state>>
  /\ pc' = "trial"
  /\ UNCHANGED <<config, initial_state, quotient_vars, search_vars, solved,
                 on_trial, check_vars, extract_vars>>

(* A solved state ends the trial and is not part of it.                    *)
TrialSolved ==
  /\ pc = "trial"
  /\ IsSolved(Last(current_trial))
  /\ current_trial' = Front(current_trial)
  /\ pc' = "end_trial"
  /\ UNCHANGED <<config, initial_state, quotient_vars, search_vars, solved,
                 on_trial, check_vars, extract_vars>>

(* The trial stops in s, just backed up, although s has a greedy action.   *)
StopsTrial(s) ==
  \/ config.stop_at_consistent = "CONSISTENT" /\ ~ValueChanged(s)
  \/ config.stop_at_consistent = "INCONSISTENT" /\ ValueChanged(s)
  \/ config.stop_at_consistent = "REVISITED" /\ s \in on_trial

(* Back up the last state of the trial.  Without a greedy action it is     *)
(* solved and leaves the trial; otherwise the trial stops or goes on.      *)
TrialStep ==
  /\ pc = "trial"
  /\ LET s == Last(current_trial)
     IN  /\ ~IsSolved(s)
         /\ Backup(s, config.stable_policy)
         /\ \/ /\ policy'[s] = NoAction
               /\ solved' = solved \union {s}
               /\ on_trial' = on_trial \ {s}
               /\ current_trial' = Front(current_trial)
               /\ pc' = "end_trial"
            \/ /\ policy'[s] # NoAction /\ StopsTrial(s)
               /\ pc' = "end_trial"
               /\ UNCHANGED trial_vars
            \/ /\ policy'[s] # NoAction /\ ~StopsTrial(s)
               /\ Len(current_trial) < MaxTrialLength
               /\ on_trial' = IF config.stop_at_consistent = "REVISITED"
                              THEN on_trial \union {s} ELSE on_trial
               /\ \E t \in QNonSource(policy'[s]) :
                    current_trial' = Append(current_trial, t)
               /\ UNCHANGED <<solved, pc>>
  /\ UNCHANGED <<config, initial_state, quotient_vars, check_vars,
                 extract_vars>>

(* After the trial: clear the marks of all its states but the last one.    *)
EndTrial ==
  /\ pc = "end_trial"
  /\ on_trial' = IF config.stop_at_consistent = "REVISITED"
                    /\ current_trial # <<>>
                 THEN on_trial \ ToSet(Front(current_trial))
                 ELSE on_trial
  /\ pc' = "begin_check"
  /\ UNCHANGED <<config, initial_state, quotient_vars, search_vars, solved,
                 current_trial, check_vars, extract_vars>>

-----------------------------------------------------------------------------
(* check_and_solve.                                                        *)

(* current_trial_.back() of an empty trial: the behaviour is undefined.    *)
CheckNothing ==
  /\ pc = "begin_check"
  /\ current_trial = <<>>
  /\ pc' = "undefined"
  /\ UNCHANGED <<config, initial_state, quotient_vars, search_vars, trial_vars,
                 check_vars, extract_vars>>

Frame(s, place) == [state |-> s, successors |-> {}, lowlink |-> place,
                    is_trap |-> TRUE, rv |-> TRUE]

(* push: s gets a place on the stacks frames and entries, and in index.    *)
Push(s, frames, entries, index) ==
  LET place == Len(entries) + 1
  IN  /\ dfs_stack' = Append(frames, Frame(s, place))
      /\ tarjan_stack' = Append(entries, [state_id |-> s, aops |-> {}])
      /\ stack_index' = [index EXCEPT ![s] = place]
      /\ pc' = "initialize"

Top == Last(dfs_stack)
WithTop(frames, frame) == [frames EXCEPT ![Len(frames)] = frame]

(* Start the search at the representative of the last state of the trial.  *)
BeginCheck ==
  /\ pc = "begin_check"
  /\ current_trial # <<>>
  /\ Push(Translated(Last(current_trial)), <<>>, <<>>, AllUnseen)
  /\ UNCHANGED <<config, initial_state, quotient_vars, search_vars, trial_vars,
                 pending, extract_vars>>

(* initialize: a solved state is not explored.                             *)
InitializeSolved ==
  /\ pc = "initialize"
  /\ IsSolved(Top.state)
  /\ pc' = "backtrack"
  /\ UNCHANGED <<config, initial_state, quotient_vars, search_vars, trial_vars,
                 check_vars, extract_vars>>

(* initialize: any other is backed up, and its greedy successors are       *)
(* explored unless there are none or its value changed.                    *)
Initialize ==
  /\ pc = "initialize"
  /\ LET s == Top.state
         a == policy'[s]
     IN  /\ ~IsSolved(s)
         /\ Backup(s, config.stable_policy)
         /\ \/ /\ a = NoAction
               /\ pc' = "backtrack"
               /\ UNCHANGED <<dfs_stack, tarjan_stack>>
            \/ /\ a # NoAction /\ ValueChanged(s)
               /\ dfs_stack' = WithTop(dfs_stack, [Top EXCEPT !.rv = FALSE])
               /\ pc' = "backtrack"
               /\ UNCHANGED tarjan_stack
            \/ /\ a # NoAction /\ ~ValueChanged(s)
               /\ dfs_stack' = WithTop(dfs_stack,
                    [Top EXCEPT !.successors = QNonSource(a),
                                !.is_trap = ActionCost[a[2]] = 0])
               /\ tarjan_stack' = WithTop(tarjan_stack,
                    [state_id |-> s, aops |-> {a}])
               /\ pc' = "push"
  /\ UNCHANGED <<config, initial_state, quotient_vars, trial_vars, stack_index,
                 pending, extract_vars>>

(* Go on with frame f on top: with its next successor, or backtrack.       *)
Continue(f) == IF f.successors = {} THEN "backtrack" ELSE "push"

(* push_successor, for a successor that is new ...                         *)
NewSuccessor ==
  /\ pc = "push"
  /\ \E t \in Top.successors :
       /\ stack_index[Translated(t)] = STATE_UNSEEN
       /\ Push(Translated(t),
               WithTop(dfs_stack, [Top EXCEPT !.successors = @ \ {t}]),
               tarjan_stack, stack_index)
  /\ UNCHANGED <<config, initial_state, quotient_vars, search_vars, trial_vars,
                 pending, extract_vars>>

(* Mutant of AfterClosed: a state that is closed is taken for unsolved.    *)
AfterClosedUnsolved(f, succ) == [f EXCEPT !.is_trap = FALSE, !.rv = FALSE]

(* The frame after a successor in a component that is closed.              *)
AfterClosed(f, succ) == [f EXCEPT !.is_trap = FALSE, !.rv = @ /\ IsSolved(succ)]

(* ... that is closed or on the stack.                                     *)
OldSuccessor ==
  /\ pc = "push"
  /\ \E t \in Top.successors :
       LET succ  == Translated(t)
           index == stack_index[succ]
           f     == [Top EXCEPT !.successors = @ \ {t}]
       IN  \/ /\ index = STATE_CLOSED
              /\ dfs_stack' = WithTop(dfs_stack, AfterClosed(f, succ))
              /\ pc' = Continue(f)
           \/ /\ index > 0
              /\ dfs_stack' = WithTop(dfs_stack,
                                      [f EXCEPT !.lowlink = Min({@, index})])
              /\ pc' = Continue(f)
  /\ UNCHANGED <<config, initial_state, quotient_vars, search_vars, trial_vars,
                 tarjan_stack, stack_index, pending, extract_vars>>

(* next_successor fails for the frame below one that was popped.           *)
NoSuccessor ==
  /\ pc = "push"
  /\ Top.successors = {}
  /\ pc' = "backtrack"
  /\ UNCHANGED <<config, initial_state, quotient_vars, search_vars, trial_vars,
                 check_vars, extract_vars>>

-----------------------------------------------------------------------------
(* Backtracking.                                                           *)

IsRoot(f) == f.lowlink = stack_index[f.state]

Scc == SubSeq(tarjan_stack, Top.lowlink, Len(tarjan_stack))
SccStates == {Scc[i].state_id : i \in DOMAIN Scc}

(* Mutant of Remaining: the root of the component stays.                   *)
RemainingAndRoot == SubSeq(tarjan_stack, 1, Top.lowlink)

Remaining == SubSeq(tarjan_stack, 1, Top.lowlink - 1)

ClosedIndex ==
  [s \in State |-> IF s \in SccStates THEN STATE_CLOSED ELSE stack_index[s]]

IsTrap == Top.is_trap /\ Len(Scc) > 1

(* Mutant of AfterChild: a failure below is forgotten.                     *)
AfterChildAlone(f, child, is_scc_root) ==
  [f EXCEPT !.lowlink = Min({@, child.lowlink}), !.is_trap = @ /\ ~is_scc_root]

(* Mutant of AfterChild: the component below counts only if it was solved. *)
AfterChildSolvedOnly(f, child, is_scc_root) ==
  [f EXCEPT !.lowlink = Min({@, child.lowlink}),
            !.is_trap = @ /\ ~(is_scc_root /\ child.rv),
            !.rv = @ /\ child.rv]

(* The frame below when that of child is popped.  Whether child was a root *)
(* is decided before its component is closed.                              *)
AfterChild(f, child, is_scc_root) ==
  [f EXCEPT !.lowlink = Min({@, child.lowlink}),
            !.is_trap = @ /\ ~is_scc_root,
            !.rv = @ /\ child.rv]

(* The frame on top is popped.  At the end of the check the result is      *)
(* whether its state is solved: the state before in the trial is next, or  *)
(* a new trial.                                                            *)
Pop(is_scc_root, is_solved) ==
  LET below == Front(dfs_stack)
  IN  \/ /\ below # <<>>
         /\ dfs_stack' =
              WithTop(below, AfterChild(Last(below), Top, is_scc_root))
         /\ pc' = "push"
         /\ UNCHANGED <<current_trial, extract_vars>>
      \/ /\ below = <<>> /\ ~is_solved
         /\ dfs_stack' = <<>>
         /\ current_trial' = <<>>
         /\ pc' = "start_trial"
         /\ UNCHANGED extract_vars
      \/ /\ below = <<>> /\ is_solved /\ Len(current_trial) > 1
         /\ dfs_stack' = <<>>
         /\ current_trial' = Front(current_trial)
         /\ pc' = "begin_check"
         /\ UNCHANGED extract_vars
      \/ /\ below = <<>> /\ is_solved /\ Len(current_trial) = 1
         /\ dfs_stack' = <<>>
         /\ current_trial' = <<>>
         /\ pc' = "extract"
         /\ BeginExtract(initial_state)

BacktrackInner ==
  /\ pc = "backtrack"
  /\ ~IsRoot(Top)
  /\ Pop(FALSE, FALSE)
  /\ UNCHANGED <<config, initial_state, quotient_vars, search_vars, solved,
                 on_trial, tarjan_stack, stack_index, pending>>

(* A trap is collapsed to its first state, which has no policy then.  It   *)
(* is explored at once as one state ...                                    *)
CollapseAndReexpand ==
  /\ pc = "backtrack"
  /\ IsRoot(Top) /\ IsTrap
  /\ config.reexpand_traps
  /\ BuildQuotient(Scc)
  /\ policy' = [policy EXCEPT ![Top.state] = NoAction]
  /\ Push(Top.state, Front(dfs_stack), Remaining, ClosedIndex)
  /\ UNCHANGED <<config, initial_state, flag, value, trial_vars, pending,
                 extract_vars>>

(* ... or only backed up.                                                  *)
Collapse ==
  /\ pc = "backtrack"
  /\ IsRoot(Top) /\ IsTrap
  /\ ~config.reexpand_traps
  /\ BuildQuotient(Scc)
  /\ policy' = [policy EXCEPT ![Top.state] = NoAction]
  /\ stack_index' = ClosedIndex
  /\ dfs_stack' = WithTop(dfs_stack, [Top EXCEPT !.rv = FALSE])
  /\ pending' = <<Top.state>>
  /\ pc' = "update"
  /\ UNCHANGED <<config, initial_state, flag, value, trial_vars, tarjan_stack,
                 extract_vars>>

(* The check succeeded for the component.                                  *)
LabelComponent ==
  /\ pc = "backtrack"
  /\ IsRoot(Top) /\ ~IsTrap /\ Top.rv
  /\ solved' = solved \union SccStates
  /\ on_trial' = on_trial \ SccStates
  /\ stack_index' = ClosedIndex
  /\ tarjan_stack' = Remaining
  /\ Pop(TRUE, TRUE)
  /\ UNCHANGED <<config, initial_state, quotient_vars, search_vars, pending>>

(* It failed: the states of the component are to be backed up again.       *)
FailComponent ==
  /\ pc = "backtrack"
  /\ IsRoot(Top) /\ ~IsTrap /\ ~Top.rv
  /\ stack_index' = ClosedIndex
  /\ pending' = [i \in DOMAIN Scc |-> Scc[i].state_id]
  /\ pc' = "update"
  /\ UNCHANGED <<config, initial_state, quotient_vars, search_vars, trial_vars,
                 dfs_stack, tarjan_stack, extract_vars>>

(* do_non_tip_bellman_update for one of them.                              *)
Update ==
  /\ pc = "update"
  /\ pending # <<>>
  /\ pending' = Tail(pending)
  /\ \/ IsSolved(Head(pending)) /\ UNCHANGED search_vars
     \/ ~IsSolved(Head(pending)) /\ Backup(Head(pending), config.stable_policy)
  /\ UNCHANGED <<config, initial_state, pc, quotient_vars, trial_vars,
                 dfs_stack, tarjan_stack, stack_index, extract_vars>>

EndUpdate ==
  /\ pc = "update"
  /\ pending = <<>>
  /\ tarjan_stack' = Remaining
  /\ Pop(TRUE, IsSolved(Top.state))
  /\ UNCHANGED <<config, initial_state, quotient_vars, search_vars, solved,
                 on_trial, stack_index, pending>>

-----------------------------------------------------------------------------

Extract ==
  /\ pc = "extract"
  /\ \E s \in queue : VisitTerminal(s) \/ VisitDecision(s)
  /\ UNCHANGED <<config, initial_state, pc, quotient_vars, search_vars,
                 trial_vars, check_vars>>

EndExtract ==
  /\ pc = "extract"
  /\ queue = {}
  /\ pc' = "done"
  /\ UNCHANGED <<config, initial_state, quotient_vars, search_vars, trial_vars,
                 check_vars, extract_vars>>

(* The timer expires where it is read: in a trial, before a check, before  *)
(* a successor is looked at, and after a pop.                              *)
Timeout ==
  /\ pc \in {"trial", "begin_check", "push"}
  /\ pc' = "timeout"
  /\ current_trial' = <<>>
  /\ stack_index' = AllUnseen
  /\ UNCHANGED <<config, initial_state, quotient_vars, search_vars, solved,
                 on_trial, dfs_stack, tarjan_stack, pending, extract_vars>>

Finished == pc \in {"done", "timeout", "undefined"}

Stop ==
  /\ Finished
  /\ UNCHANGED vars

Step ==
  \/ Solve
  \/ StartTrial
  \/ TrialSolved
  \/ TrialStep
  \/ EndTrial
  \/ CheckNothing
  \/ BeginCheck
  \/ InitializeSolved
  \/ Initialize
  \/ NewSuccessor
  \/ OldSuccessor
  \/ NoSuccessor
  \/ BacktrackInner
  \/ CollapseAndReexpand
  \/ Collapse
  \/ LabelComponent
  \/ FailComponent
  \/ Update
  \/ EndUpdate
  \/ Extract
  \/ EndExtract

Next == Step \/ Timeout \/ Stop

Spec == Init /\ [][Next]_vars /\ WF_vars(Step)

-----------------------------------------------------------------------------

TypeOK ==
  /\ QuotientConsistent
  /\ SearchTypeOK
  /\ ExtractTypeOK
  /\ pc \in PCs
  /\ solved \union on_trial \subseteq State
  /\ current_trial \in Seq(State)
  /\ \A i \in DOMAIN tarjan_stack :
       \/ pc = "timeout"
       \/ stack_index[tarjan_stack[i].state_id] = i
       \/ pc = "update" /\ i >= Top.lowlink
  /\ \A i \in DOMAIN dfs_stack :
       LET f == dfs_stack[i]
       IN  /\ f.lowlink \in DOMAIN tarjan_stack
           /\ \E j \in f.lowlink .. Len(tarjan_stack) :
                tarjan_stack[j].state_id = f.state
=============================================================================
