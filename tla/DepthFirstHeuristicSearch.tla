--------------------- MODULE DepthFirstHeuristicSearch ---------------------
(***************************************************************************)
(* The depth-first heuristic search family (ILAO*, LILAO*, HDP, DFHS):     *)
(* class HeuristicDepthFirstSearch, one call of solve().                   *)
(*                                                                         *)
(* An iteration explores the greedy policy graph from the initial state by *)
(* an iterative depth-first search with Tarjan's algorithm, backing states *)
(* up on the way in, on the way out, or both.  With label_solved, the      *)
(* strongly connected components that turn out converged are labelled      *)
(* solved until the initial state is; without, a converged exploration is  *)
(* followed by value iteration over the visited states.                    *)
(*                                                                         *)
(* The stack indices are those of the code, counted from 0; the successors *)
(* of a stack frame, a vector walked from its end, are walked in any order,*)
(* and so are the states of a sweep of value iteration.                    *)
(***************************************************************************)
EXTENDS HeuristicSearchBase

CONSTANT InitialStates      \* the states solve() may be called with

VARIABLES
  initial_state,     \* the state argument of solve()
  pc,                \* the function or loop the search is in
  solved,            \* the states with the SOLVED bit
  dfs_stack,         \* dfs_stack_: the frames of the depth-first search
  tarjan_stack,      \* tarjan_stack_: the states of the open components
  stack_index,       \* stack_index_
  visited_states,    \* visited_states_: what value iteration works on
  vi                 \* the rest of the sweep and the flags of vi_step

dfs_vars == <<dfs_stack, tarjan_stack, stack_index>>
vars == <<base_vars, initial_state, pc, solved, dfs_vars, visited_states, vi>>

New == -1
Closed == -2

PCs == {"solve", "policy_exploration", "initialize", "push_successor",
        "advance", "backtrack", "vi_step", "done", "timeout"}

(* The parameter combinations the solver's command line accepts.           *)
BacktrackingUpdateType == {"DISABLED", "ON_DEMAND", "SINGLE"}

LegalConfigs ==
  {c \in [forward_updates : BOOLEAN,
          backtrack_update_type : BacktrackingUpdateType,
          cutoff_tip : BOOLEAN,
          cutoff_inconsistent : BOOLEAN,
          label_solved : BOOLEAN,
          use_interval : BOOLEAN,
          stable_policy : BOOLEAN] :
     ~c.forward_updates =>
       /\ ~c.cutoff_inconsistent
       /\ c.backtrack_update_type = "ON_DEMAND" => ~c.cutoff_tip
       /\ c.backtrack_update_type = "DISABLED" => ~c.label_solved}

ASSUME SearchAssumption ==
  /\ InitialStates \subseteq State
  /\ Configs \subseteq LegalConfigs

-----------------------------------------------------------------------------

Frame == [state : State, lowlink : Nat, successors : SUBSET State,
          solved : BOOLEAN, value_converged : BOOLEAN]

(* Mutant of NewFrame: the index is counted from the state below.          *)
NewFrameBelow(s) ==
  [state |-> s, lowlink |-> Len(tarjan_stack) - 1, successors |-> {},
   solved |-> TRUE, value_converged |-> TRUE]

(* The constructor of DFSExplorationState, with lowlink as push sets it.   *)
NewFrame(s) ==
  [state |-> s, lowlink |-> Len(tarjan_stack), successors |-> {},
   solved |-> TRUE, value_converged |-> TRUE]

Top == dfs_stack[Len(dfs_stack)]
SetTop(frame) == [dfs_stack EXCEPT ![Len(dfs_stack)] = frame]

OnStack(s) == stack_index[s] \notin {New, Closed}

IsSolved(s) == s \in solved \/ IsGoalOrTerminal(s)

(* The state of vi_step before its first state.                            *)
FirstSweep(states) ==
  [pending |-> states, value_changed |-> FALSE, policy_changed |-> FALSE]

(* Mutant of ClearedIndex: closed states stay closed.                      *)
ClearedOnStack ==
  [s \in State |-> IF OnStack(s) THEN New ELSE stack_index[s]]

(* The ClearGuard of policy_exploration on stack_index_.                   *)
ClearedIndex == [s \in State |-> New]

(* push.                                                                   *)
Push(stack, s) ==
  /\ dfs_stack' = Append(stack, NewFrame(s))
  /\ stack_index' = [stack_index EXCEPT ![s] = Len(tarjan_stack)]
  /\ tarjan_stack' = Append(tarjan_stack, s)

-----------------------------------------------------------------------------

Init ==
  /\ BaseInit
  /\ initial_state \in InitialStates
  /\ pc = "solve"
  /\ solved = {}
  /\ dfs_stack = <<>>
  /\ tarjan_stack = <<>>
  /\ stack_index = [s \in State |-> New]
  /\ visited_states = {}
  /\ vi = FirstSweep({})

(* solve: initialise the initial state and enter do_solve's loop.          *)
Solve ==
  /\ pc = "solve"
  /\ InitializeInitialState(initial_state)
  /\ pc' = "policy_exploration"
  /\ UNCHANGED <<initial_state, solved, dfs_vars, visited_states, vi>>

(* The start of policy_exploration.                                        *)
PolicyExploration ==
  /\ pc = "policy_exploration"
  /\ Push(<<>>, initial_state)
  /\ pc' = "initialize"
  /\ UNCHANGED <<base_vars, initial_state, solved, visited_states, vi>>

(* initialize, for a state that is solved already.                         *)
InitializeSolved ==
  /\ pc = "initialize"
  /\ IsSolved(Top.state)
  /\ pc' = "backtrack"
  /\ UNCHANGED <<base_vars, initial_state, solved, dfs_vars,
                 visited_states, vi>>

(* initialize, with a forward update: of every state, or of the tip states *)
(* only.  The search goes on with the successors under the new greedy      *)
(* action unless there is none or the state is cut off.                    *)
InitializeUpdate ==
  /\ pc = "initialize"
  /\ LET s       == Top.state
         is_tip  == flag[s] = "fringe"
         cutoff  == \/ config.cutoff_tip /\ is_tip
                    \/ config.cutoff_inconsistent /\ ~ValueConverged(s)
         updated == [Top EXCEPT !.value_converged = ValueConverged(s)]
     IN  /\ ~IsSolved(s)
         /\ config.forward_updates \/ is_tip
         /\ Backup(s)
         /\ \/ /\ policy'[s] = NoAction
               /\ dfs_stack' = SetTop(updated)
               /\ pc' = "backtrack"
            \/ /\ policy'[s] # NoAction /\ cutoff
               /\ dfs_stack' = SetTop([updated EXCEPT !.solved = FALSE])
               /\ pc' = "backtrack"
            \/ /\ policy'[s] # NoAction /\ ~cutoff
               /\ dfs_stack' = SetTop(
                    [updated EXCEPT !.successors = NonSource(s, policy'[s])])
               /\ pc' = "push_successor"
  /\ UNCHANGED <<config, initial_state, solved, tarjan_stack, stack_index,
                 visited_states, vi>>

(* initialize, without an update: follow the stored greedy action.         *)
InitializeFollow ==
  /\ pc = "initialize"
  /\ LET s == Top.state
         a == policy[s]
     IN  /\ ~IsSolved(s)
         /\ ~config.forward_updates /\ flag[s] # "fringe"
         /\ \/ /\ a = NoAction
               /\ pc' = "backtrack"
               /\ UNCHANGED dfs_stack
            \/ /\ a # NoAction
               /\ dfs_stack' = SetTop(
                    [Top EXCEPT !.successors = NonSource(s, a)])
               /\ pc' = "push_successor"
  /\ UNCHANGED <<base_vars, initial_state, solved, tarjan_stack, stack_index,
                 visited_states, vi>>

(* push_successor, one turn of its loop: descend into an unseen successor, *)
(* or account for one that was seen and advance.                           *)
PushSuccessor ==
  /\ pc = "push_successor"
  /\ \E t \in Top.successors :
       LET frame == [Top EXCEPT !.successors = @ \ {t}]
       IN  \/ /\ stack_index[t] = New
              /\ Push(SetTop(frame), t)
              /\ pc' = "initialize"
           \/ /\ stack_index[t] = Closed
              /\ dfs_stack' = SetTop(
                   [frame EXCEPT !.solved =
                      @ /\ (config.label_solved => IsSolved(t))])
              /\ pc' = "advance"
              /\ UNCHANGED <<tarjan_stack, stack_index>>
           \/ /\ OnStack(t)
              /\ dfs_stack' = SetTop(
                   [frame EXCEPT !.lowlink = Min({@, stack_index[t]})])
              /\ pc' = "advance"
              /\ UNCHANGED <<tarjan_stack, stack_index>>
  /\ UNCHANGED <<base_vars, initial_state, solved, visited_states, vi>>

(* advance: is there a successor left?                                     *)
AdvanceNext ==
  /\ pc = "advance"
  /\ Top.successors # {}
  /\ pc' = "push_successor"
  /\ UNCHANGED <<base_vars, initial_state, solved, dfs_vars,
                 visited_states, vi>>

UpdatesOnBacktracking(frame) ==
  \/ config.backtrack_update_type = "SINGLE"
  \/ config.backtrack_update_type = "ON_DEMAND" /\ ~frame.value_converged

(* advance, past the last successor: the backtracking update.              *)
AdvanceUpdate ==
  /\ pc = "advance"
  /\ Top.successors = {}
  /\ UpdatesOnBacktracking(Top)
  /\ LET s         == Top.state
         converged == ValueConverged(s)
     IN  /\ Backup(s)
         /\ dfs_stack' = SetTop(
              [Top EXCEPT !.value_converged = converged,
                          !.solved = @ /\ converged /\ ~PolicyChanged(s)])
  /\ pc' = "backtrack"
  /\ UNCHANGED <<config, initial_state, solved, tarjan_stack, stack_index,
                 visited_states, vi>>

AdvanceFinish ==
  /\ pc = "advance"
  /\ Top.successors = {}
  /\ ~UpdatesOnBacktracking(Top)
  /\ dfs_stack' = SetTop([Top EXCEPT !.solved = @ /\ Top.value_converged])
  /\ pc' = "backtrack"
  /\ UNCHANGED <<base_vars, initial_state, solved, tarjan_stack, stack_index,
                 visited_states, vi>>

-----------------------------------------------------------------------------
(* Backtracking.                                                           *)

(* The component that is complete when Top is its root (none otherwise),   *)
(* and its states to be labelled or scheduled for value iteration: all but *)
(* the solved ones, if everything below Top converged.                     *)
IsSccRoot == Top.lowlink = stack_index[Top.state]

(* Mutant of Scc: the root is left out.                                    *)
SccAboveRoot ==
  IF IsSccRoot
  THEN {tarjan_stack[i] : i \in (Top.lowlink + 2) .. Len(tarjan_stack)}
  ELSE {}

Scc == IF IsSccRoot
       THEN {tarjan_stack[i] : i \in (Top.lowlink + 1) .. Len(tarjan_stack)}
       ELSE {}

(* Mutant of Settled: the component counts whatever was found below it.    *)
SettledAnyway == {s \in Scc : ~IsSolved(s)}

Settled == IF Top.solved THEN {s \in Scc : ~IsSolved(s)} ELSE {}

(* Mutant of LeaveScc: the root stays on the stack.                        *)
LeaveSccButRoot ==
  /\ tarjan_stack' = IF IsSccRoot THEN SubSeq(tarjan_stack, 1, Top.lowlink + 1)
                     ELSE tarjan_stack
  /\ solved' = IF config.label_solved THEN solved \union Settled ELSE solved

LeaveScc ==
  /\ tarjan_stack' = IF IsSccRoot THEN SubSeq(tarjan_stack, 1, Top.lowlink)
                     ELSE tarjan_stack
  /\ solved' = IF config.label_solved THEN solved \union Settled ELSE solved

(* Pop a frame and hand its lowlink and its solved flag to its parent.     *)
Backtrack ==
  /\ pc = "backtrack"
  /\ Len(dfs_stack) > 1
  /\ LeaveScc
  /\ stack_index' = [s \in State |-> IF s \in Scc THEN Closed
                                     ELSE stack_index[s]]
  /\ visited_states' = IF config.label_solved THEN visited_states
                       ELSE visited_states \union Settled
  /\ LET parent  == dfs_stack[Len(dfs_stack) - 1]
         lowlink == IF IsSccRoot THEN parent.lowlink
                    ELSE Min({Top.lowlink, parent.lowlink})
     IN  dfs_stack' = Append(SubSeq(dfs_stack, 1, Len(dfs_stack) - 2),
                             [parent EXCEPT !.lowlink = lowlink,
                                            !.solved = @ /\ Top.solved])
  /\ pc' = "advance"
  /\ UNCHANGED <<base_vars, initial_state, vi>>

(* Pop the last frame: the exploration returns whether it was solved       *)
(* throughout.  ClearGuard empties stack_index_.  If so, the search is     *)
(* over, with labels, or goes on to value iteration; if not, the states    *)
(* scheduled are dropped and the next iteration begins.                    *)
EndExploration ==
  /\ pc = "backtrack"
  /\ Len(dfs_stack) = 1
  /\ LeaveScc
  /\ stack_index' = ClearedIndex
  /\ dfs_stack' = <<>>
  /\ \/ /\ ~Top.solved
        /\ visited_states' = {}
        /\ pc' = "policy_exploration"
        /\ UNCHANGED vi
     \/ /\ Top.solved /\ config.label_solved
        /\ pc' = "done"
        /\ UNCHANGED <<visited_states, vi>>
     \/ /\ Top.solved /\ ~config.label_solved
        /\ visited_states' = visited_states \union Settled
        /\ vi' = FirstSweep(visited_states')
        /\ pc' = "vi_step"
  /\ UNCHANGED <<base_vars, initial_state>>

-----------------------------------------------------------------------------
(* Value iteration on the visited states.                                  *)

(* vi_step, one state of the sweep.                                        *)
ViUpdate ==
  /\ pc = "vi_step"
  /\ \E s \in vi.pending :
       /\ Backup(s)
       /\ vi' = [pending |-> vi.pending \ {s},
                 value_changed |-> vi.value_changed \/ ~ValueConverged(s),
                 policy_changed |-> vi.policy_changed \/ PolicyChanged(s)]
  /\ UNCHANGED <<config, initial_state, pc, solved, dfs_vars, visited_states>>

(* value_iteration after a sweep: give up if the policy changed, sweep     *)
(* again if a value did, and end the search otherwise.                     *)
ViSweepEnd ==
  /\ pc = "vi_step"
  /\ vi.pending = {}
  /\ \/ /\ vi.policy_changed
        /\ visited_states' = {}
        /\ pc' = "policy_exploration"
        /\ UNCHANGED vi
     \/ /\ ~vi.policy_changed /\ vi.value_changed
        /\ vi' = FirstSweep(visited_states)
        /\ UNCHANGED <<visited_states, pc>>
     \/ /\ ~vi.policy_changed /\ ~vi.value_changed
        /\ visited_states' = {}
        /\ pc' = "done"
        /\ UNCHANGED vi
  /\ UNCHANGED <<base_vars, initial_state, solved, dfs_vars>>

-----------------------------------------------------------------------------

(* The timer expires where it is read; only stack_index_ has a ClearGuard, *)
(* the other containers keep what they hold.                               *)
Timeout ==
  /\ \/ pc = "push_successor"
     \/ pc = "vi_step" /\ vi.pending # {}
  /\ pc' = "timeout"
  /\ stack_index' = ClearedIndex
  /\ UNCHANGED <<base_vars, initial_state, solved, dfs_stack, tarjan_stack,
                 visited_states, vi>>

(* The same between the pop and the update of the parent.                  *)
BacktrackTimeout ==
  /\ pc = "backtrack"
  /\ Len(dfs_stack) > 1
  /\ LeaveScc
  /\ visited_states' = IF config.label_solved THEN visited_states
                       ELSE visited_states \union Settled
  /\ dfs_stack' = SubSeq(dfs_stack, 1, Len(dfs_stack) - 1)
  /\ stack_index' = ClearedIndex
  /\ pc' = "timeout"
  /\ UNCHANGED <<base_vars, initial_state, vi>>

Finished == pc \in {"done", "timeout"}

Stop ==
  /\ Finished
  /\ UNCHANGED vars

Initialize == InitializeSolved \/ InitializeUpdate \/ InitializeFollow
Advance == AdvanceNext \/ AdvanceUpdate \/ AdvanceFinish

Step ==
  \/ Solve
  \/ PolicyExploration
  \/ Initialize
  \/ PushSuccessor
  \/ Advance
  \/ Backtrack
  \/ EndExploration
  \/ ViUpdate
  \/ ViSweepEnd

Next == Step \/ Timeout \/ BacktrackTimeout \/ Stop

Spec == Init /\ [][Next]_vars /\ WF_vars(Step)

-----------------------------------------------------------------------------

TypeOK ==
  /\ BaseTypeOK
  /\ initial_state \in InitialStates
  /\ pc \in PCs
  /\ solved \subseteq State
  /\ dfs_stack \in Seq(Frame)
  /\ tarjan_stack \in Seq(State)
  /\ stack_index \in [State -> Nat \union {New, Closed}]
  /\ visited_states \subseteq State
  /\ vi \in [pending : SUBSET State,
             value_changed : BOOLEAN, policy_changed : BOOLEAN]

(* The stacks of policy_exploration agree at every step, however states    *)
(* and components are pushed and popped: stack_index_ is the position on   *)
(* tarjan_stack_ of exactly the states on it; the frames of dfs_stack_     *)
(* stand on it from the bottom up; no lowlink is above its own state; and  *)
(* both stacks empty together (the assertions of policy_exploration).      *)
StackDiscipline ==
  pc # "timeout" =>
    /\ \A i \in 1 .. Len(tarjan_stack) : stack_index[tarjan_stack[i]] = i - 1
    /\ \A s \in State : OnStack(s) =>
         /\ stack_index[s] < Len(tarjan_stack)
         /\ tarjan_stack[stack_index[s] + 1] = s
    /\ \A i \in 1 .. Len(dfs_stack) :
         /\ OnStack(dfs_stack[i].state)
         /\ dfs_stack[i].lowlink <= stack_index[dfs_stack[i].state]
    /\ \A i, j \in 1 .. Len(dfs_stack) :
         i < j => stack_index[dfs_stack[i].state]
                    < stack_index[dfs_stack[j].state]
    /\ dfs_stack = <<>> => tarjan_stack = <<>>
    /\ pc \in {"initialize", "push_successor", "advance", "backtrack"}
         <=> dfs_stack # <<>>

(* A state is labelled solved only together with everything its policy can *)
(* reach: no later update below a label can go unnoticed.  (The labelling  *)
(* of components in policy_exploration.)                                   *)
LabelsClosed ==
  \A s \in solved : \A t \in PolicySuccessors(s) : IsSolved(t)

(* What is scheduled for value iteration is closed under the policy: value *)
(* iteration sees every state the value of the initial state depends on.   *)
ScheduledClosed ==
  pc = "vi_step" /\ ~vi.policy_changed =>
    \A s \in visited_states : \A t \in PolicySuccessors(s) :
       t \in visited_states \/ IsGoalOrTerminal(t)

(* The search ends, or runs out of time, if ties are not broken afresh     *)
(* each time: the loops of do_solve, of the exploration and of value       *)
(* iteration all terminate.                                                *)
Termination == config.stable_policy => <>Finished

=============================================================================
