--------------------- MODULE TopologicalValueIteration ---------------------
(***************************************************************************)
(* Topological value iteration: class TopologicalValueIteration, one call  *)
(* of solve() with a fresh value store and a policy to be extracted.  It   *)
(* explores all reachable states depth first and runs value iteration on   *)
(* each strongly connected component when its root is left.                *)
(*                                                                         *)
(* The Q-values of a state are put together while its successors are       *)
(* explored: those in components that are finished are added by value,     *)
(* the others are remembered and read again in every backup.  The          *)
(* transition that is being explored is nconv_qs.back() in the code and    *)
(* belongs to the frame here.                                              *)
(***************************************************************************)
EXTENDS BellmanEquations, Sequences

CONSTANTS
  InitialStates,     \* the states solve() may be called with
  Configs            \* the parameters an algorithm may be constructed with

VARIABLES
  config,            \* use_interval and expand_goals
  initial_state,     \* init_state_id
  pc,                \* the function or loop the algorithm is in
  status,            \* status of each state
  stack_id,          \* stack_id of each state
  value,             \* value_store
  dfs_stack,         \* dfs_stack_
  tarjan_stack,      \* tarjan_stack_
  sweep,             \* scc_found: the next entry to update, and converged
  decision           \* the policy that is extracted

vars == <<config, initial_state, pc, status, stack_id, value, dfs_stack,
          tarjan_stack, sweep, decision>>

LegalConfigs == [use_interval : BOOLEAN, expand_goals : BOOLEAN]

ASSUME TVIAssumption ==
  /\ InitialStates \subseteq State
  /\ Configs \subseteq LegalConfigs

PCs == {"solve", "transition", "successor", "sweep", "done", "timeout"}

(* QValueInfo.  conv_part is the converged part times norm, the weight     *)
(* that probabilities refer to; infinite names the bounds in which it is   *)
(* infinite instead; nconv_successors are the others.                      *)
QValueInfo == [action : Action, conv_part : Bounds,
               infinite : SUBSET {"lower", "upper"},
               nconv_successors : SUBSET State, norm : Nat \ {0}]

(* StackInfo.                                                              *)
StackInfo == [state : State, conv_part : Bounds, nconv_qs : Seq(QValueInfo),
              best_action : Action \union {NoAction},
              best_converged : Action \union {NoAction}]

NoTransition == [action |-> NoAction]

(* DFSExplorationState: aops are the actions to come, successors those of  *)
(* the current transition q that are to come, successor is the current one.*)
DFSExplorationState ==
  [state : State, aops : SUBSET Action, q : QValueInfo \union {NoTransition},
   successors : SUBSET State, successor : State,
   stackidx : 1..Cardinality(State), lowlink : 1..Cardinality(State)]

Init ==
  /\ config \in Configs
  /\ initial_state \in InitialStates
  /\ pc = "solve"
  /\ status = [s \in State |-> "new"]
  /\ stack_id = [s \in State |-> 0]
  /\ value = [s \in State |-> Point(0)]
  /\ dfs_stack = <<>>
  /\ tarjan_stack = <<>>
  /\ sweep = [next |-> 0, converged |-> TRUE]
  /\ decision = [s \in State |-> NoAction]

Top == dfs_stack[Len(dfs_stack)]

(* The stack with its top replaced, given the stack.                       *)
WithTop(stack, frame) == [stack EXCEPT ![Len(stack)] = frame]

-----------------------------------------------------------------------------
(* Entering a state: push_state, then initialize_state.                    *)

(* States whose transitions are not explored.                              *)
Pruned(s) ==
  IF s \in Goal THEN ~config.expand_goals ELSE Estimate[s] = TerminationCost[s]

(* Mutant of StackIndex: off by one.                                       *)
StackIndexBelow == Len(tarjan_stack)

(* The place of a state that is pushed now.                                *)
StackIndex == Len(tarjan_stack) + 1

(* Enter s, below it the stack rest.                                       *)
Enter(s, rest) ==
  /\ status' = [status EXCEPT ![s] = "onstack"]
  /\ stack_id' = [stack_id EXCEPT ![s] = StackIndex]
  /\ value' = [value EXCEPT ![s] =
       IF config.use_interval
       THEN [lower |-> Estimate[s], upper |-> TerminationCost[s]]
       ELSE Point(Estimate[s])]
  /\ tarjan_stack' = Append(tarjan_stack,
       [state |-> s, conv_part |-> Point(TerminationCost[s]),
        nconv_qs |-> <<>>, best_action |-> NoAction, best_converged |-> NoAction])
  /\ dfs_stack' = Append(rest,
       [state |-> s, aops |-> IF Pruned(s) THEN {} ELSE TransitionTails(s),
        q |-> NoTransition, successors |-> {}, successor |-> s,
        stackidx |-> StackIndex, lowlink |-> StackIndex])
  /\ pc' = "transition"

Solve ==
  /\ pc = "solve"
  /\ Enter(initial_state, <<>>)
  /\ UNCHANGED <<config, initial_state, sweep, decision>>

-----------------------------------------------------------------------------
(* The transitions of a state and their successors.                        *)

(* The transition of frame f with the value of successor t added.          *)
AddConverged(f, t) ==
  LET w == Transition[f.state][f.q.action][t]
  IN  [f.q EXCEPT
         !.conv_part = [lower |-> @.lower + w * value[t].lower,
                        upper |-> @.upper + w * value[t].upper],
         !.infinite = @ \union {b \in {"lower", "upper"} : value[t][b] = Infinite}]

(* The frame f when it is told of a successor t that is still open.        *)
AddOpen(f, t) == [f.q EXCEPT !.nconv_successors = @ \union {t}]

(* Mutant of LowerLink: update_lowlink is not called.                      *)
LowerLinkNot(f, link) == f.lowlink

(* update_lowlink.                                                         *)
LowerLink(f, link) == Min({f.lowlink, link})

(* forward_non_loop_transition: begin with an action that leaves the state.*)
BeginTransition ==
  /\ pc = "transition"
  /\ \E a \in Top.aops :
       LET cost == TotalWeight[Top.state][a] * ActionCost[a]
       IN  dfs_stack' = WithTop(dfs_stack,
             [Top EXCEPT !.aops = @ \ {a},
                         !.successors = NonSource(Top.state, a),
                         !.q = [action |-> a, conv_part |-> Point(cost),
                                infinite |-> {}, nconv_successors |-> {},
                                norm |-> TotalWeight[Top.state][a]]])
  /\ pc' = "successor"
  /\ UNCHANGED <<config, initial_state, status, stack_id, value, tarjan_stack,
                 sweep, decision>>

(* successor_loop, a successor that is new: recursion.                     *)
NewSuccessor ==
  /\ pc = "successor"
  /\ \E t \in Top.successors :
       /\ status[t] = "new"
       /\ Enter(t, WithTop(dfs_stack, [Top EXCEPT !.successors = @ \ {t},
                                                  !.successor = t]))
  /\ UNCHANGED <<config, initial_state, sweep, decision>>

(* ... in a finished component, or on the stack.                           *)
KnownSuccessor ==
  /\ pc = "successor"
  /\ \E t \in Top.successors :
       LET f == [Top EXCEPT !.successors = @ \ {t}, !.successor = t]
       IN  \/ /\ status[t] = "closed"
              /\ dfs_stack' = WithTop(dfs_stack,
                                [f EXCEPT !.q = AddConverged(f, t)])
           \/ /\ status[t] = "onstack"
              /\ dfs_stack' = WithTop(dfs_stack,
                   [f EXCEPT !.q = AddOpen(f, t),
                             !.lowlink = LowerLink(f, stack_id[t])])
  /\ UNCHANGED <<config, initial_state, pc, status, stack_id, value,
                 tarjan_stack, sweep, decision>>

(* Mutant of Finalized: the self-loop is not normalised away.              *)
FinalizedNot(s, q) == q

(* finalize_transition: probabilities refer to the other states from now.  *)
Finalized(s, q) == [q EXCEPT !.norm = NonSourceWeight[s][q.action]]

(* compute_q_value with values v.                                          *)
ComputeQValue(v, s, q) ==
  LET bound(b) ==
        IF \/ b \in q.infinite
           \/ \E t \in q.nconv_successors : v[t][b] = Infinite
        THEN Infinite
        ELSE Saturated(
               ( q.conv_part[b]
                 + SumFunction([t \in q.nconv_successors |->
                                  Transition[s][q.action][t] * v[t][b]]) )
               \div q.norm)
  IN  [lower |-> bound("lower"), upper |-> bound("upper")]

(* set_min for bounds.                                                     *)
Minimum(x, y) == [lower |-> Min({x.lower, y.lower}),
                  upper |-> Min({x.upper, y.upper})]

(* next_successor when there is none: a transition whose successors are    *)
(* all finished is merged into the converged part of the state.            *)
EndTransition ==
  /\ pc = "successor"
  /\ Top.successors = {}
  /\ LET entry == tarjan_stack[Top.stackidx]
         q     == Finalized(Top.state, Top.q)
         x     == ComputeQValue(value, Top.state, q)
     IN  tarjan_stack' = [tarjan_stack EXCEPT ![Top.stackidx] =
           IF q.nconv_successors # {}
           THEN [entry EXCEPT !.nconv_qs = Append(@, q)]
           ELSE [entry EXCEPT
                   !.conv_part = Minimum(@, x),
                   !.best_converged = IF x.lower < entry.conv_part.lower
                                      THEN q.action ELSE @]]
  /\ dfs_stack' = WithTop(dfs_stack, [Top EXCEPT !.q = NoTransition])
  /\ pc' = "transition"
  /\ UNCHANGED <<config, initial_state, status, stack_id, value, sweep,
                 decision>>

-----------------------------------------------------------------------------
(* Backtracking from a state whose transitions are all explored.           *)

(* The frame below, told of the end of the top frame by f; the timer may   *)
(* expire in between.                                                      *)
Return(f) ==
  LET rest == SubSeq(dfs_stack, 1, Len(dfs_stack) - 1)
  IN  \/ /\ rest = <<>>
         /\ dfs_stack' = rest
         /\ pc' = "done"
      \/ /\ rest # <<>>
         /\ dfs_stack' = WithTop(rest, f)
         /\ pc' = "successor"
      \/ /\ rest # <<>>
         /\ dfs_stack' = rest
         /\ pc' = "timeout"

Below == dfs_stack[Len(dfs_stack) - 1]

IsRoot(f) == f.stackidx = f.lowlink

(* No root: the component goes on below.                                   *)
Backtrack ==
  /\ pc = "transition"
  /\ Top.aops = {}
  /\ ~IsRoot(Top)
  /\ Return([Below EXCEPT !.lowlink = LowerLink(Below, Top.lowlink),
                          !.q = AddOpen(Below, Top.state)])
  /\ UNCHANGED <<config, initial_state, status, stack_id, value, tarjan_stack,
                 sweep, decision>>

(* A root: scc_found, value iteration on the component.                    *)
SccFound ==
  /\ pc = "transition"
  /\ Top.aops = {}
  /\ IsRoot(Top)
  /\ sweep' = [next |-> Top.stackidx, converged |-> TRUE]
  /\ pc' = "sweep"
  /\ UNCHANGED <<config, initial_state, status, stack_id, value, dfs_stack,
                 tarjan_stack, decision>>

(* The Q-values that update_value reads for an entry of the stack, in the  *)
(* order in which their transitions were explored.                         *)
QValues(v, entry) ==
  [k \in DOMAIN entry.nconv_qs |->
     ComputeQValue(v, entry.state, entry.nconv_qs[k])]

(* The value that update_value computes.                                   *)
Updated(v, entry) ==
  LET qs == QValues(v, entry)
  IN  [lower |-> Min({entry.conv_part.lower} \union
                     {qs[k].lower : k \in DOMAIN qs}),
       upper |-> Min({entry.conv_part.upper} \union
                     {qs[k].upper : k \in DOMAIN qs})]

(* The transitions that attain its lower bound.                            *)
Attaining(v, entry) ==
  {k \in DOMAIN entry.nconv_qs :
     QValues(v, entry)[k].lower = Updated(v, entry).lower}

(* Mutant of BestAction: best_action is not reset.                         *)
BestActionKept(v, entry) ==
  IF Updated(v, entry).lower < entry.conv_part.lower
  THEN entry.nconv_qs[Min(Attaining(v, entry))].action
  ELSE entry.best_action

(* The action that update_value stores with it: the first one that is      *)
(* better than all before it, if that is better than the converged part.   *)
BestAction(v, entry) ==
  IF Updated(v, entry).lower < entry.conv_part.lower
  THEN entry.nconv_qs[Min(Attaining(v, entry))].action
  ELSE entry.best_converged

(* The result of update(value, v, epsilon).                                *)
UpdateConverged(old, new) ==
  IF config.use_interval THEN ApproxEqual(new.lower, new.upper)
  ELSE ~Changed(old, new)

(* Mutant of SweepConverged: the last state decides.                       *)
SweepConvergedLast(now) == now

(* converged, after a further update of the sweep.                         *)
SweepConverged(now) == sweep.converged /\ now

(* update_value for the next state of the component.                       *)
UpdateValue ==
  /\ pc = "sweep"
  /\ sweep.next <= Len(tarjan_stack)
  /\ LET entry == tarjan_stack[sweep.next]
         s     == entry.state
     IN  /\ value' = [value EXCEPT ![s] = Updated(value, entry)]
         /\ tarjan_stack' = [tarjan_stack EXCEPT ![sweep.next].best_action =
                                BestAction(value, entry)]
         /\ sweep' = [next |-> sweep.next + 1, converged |->
              SweepConverged(UpdateConverged(value[s], value'[s]))]
  /\ UNCHANGED <<config, initial_state, pc, status, stack_id, dfs_stack,
                 decision>>

SweepAgain ==
  /\ pc = "sweep"
  /\ sweep.next > Len(tarjan_stack)
  /\ ~sweep.converged
  /\ sweep' = [next |-> Top.stackidx, converged |-> TRUE]
  /\ UNCHANGED <<config, initial_state, pc, status, stack_id, value, dfs_stack,
                 tarjan_stack, decision>>

(* The component has converged: close it, store its policy, backtrack.     *)
CloseScc ==
  /\ pc = "sweep"
  /\ sweep.next > Len(tarjan_stack)
  /\ sweep.converged
  /\ LET entries == {tarjan_stack[i] : i \in Top.stackidx..Len(tarjan_stack)}
         scc     == {e.state : e \in entries}
     IN  /\ status' = [s \in State |-> IF s \in scc THEN "closed" ELSE status[s]]
         /\ decision' = [s \in State |->
              IF s \in scc
              THEN (CHOOSE e \in entries : e.state = s).best_action
              ELSE decision[s]]
  /\ tarjan_stack' = SubSeq(tarjan_stack, 1, Top.stackidx - 1)
  /\ Return([Below EXCEPT !.q = AddConverged(Below, Top.state)])
  /\ UNCHANGED <<config, initial_state, stack_id, value, sweep>>

(* The timer expires where it is read: at a successor, before a sweep.     *)
Timeout ==
  /\ \/ pc = "successor" /\ Top.successors # {}
     \/ pc = "sweep" /\ sweep.next = Top.stackidx
  /\ pc' = "timeout"
  /\ UNCHANGED <<config, initial_state, status, stack_id, value, dfs_stack,
                 tarjan_stack, sweep, decision>>

Finished == pc \in {"done", "timeout"}

Stop ==
  /\ Finished
  /\ UNCHANGED vars

Step ==
  \/ Solve
  \/ BeginTransition
  \/ NewSuccessor
  \/ KnownSuccessor
  \/ EndTransition
  \/ Backtrack
  \/ SccFound
  \/ UpdateValue
  \/ SweepAgain
  \/ CloseScc

Next == Step \/ Timeout \/ Stop

Spec == Init /\ [][Next]_vars /\ WF_vars(Step)

-----------------------------------------------------------------------------

TypeOK ==
  /\ config \in Configs
  /\ initial_state \in InitialStates
  /\ pc \in PCs
  /\ status \in [State -> {"new", "closed", "onstack"}]
  /\ stack_id \in [State -> 0..Cardinality(State)]
  /\ value \in [State -> Bounds]
  /\ \A i \in DOMAIN dfs_stack :
       /\ dfs_stack[i] \in DFSExplorationState
       /\ dfs_stack[i].lowlink <= dfs_stack[i].stackidx
       /\ dfs_stack[i].stackidx <= Len(tarjan_stack)
  /\ \A i \in DOMAIN tarjan_stack : tarjan_stack[i] \in StackInfo
  /\ sweep \in [next : Nat, converged : BOOLEAN]
  /\ decision \in [State -> Action \union {NoAction}]

(* A component is closed no sooner than everything its explored states can *)
(* reach: the lowlinks find it neither too early nor too late.             *)
ClosedComponents ==
  \A s \in State : status[s] = "closed" /\ ~Pruned(s) =>
     \A t \in Neighbours(s) : status[t] = "closed"

(* The pieces of Q-values collected on the way in make up the Bellman      *)
(* backup over all transitions of the state, each with the right weight,   *)
(* throughout the value iteration that uses them.                          *)
BackupComplete ==
  pc = "sweep" =>
    \A i \in Top.stackidx..Len(tarjan_stack) :
      LET entry == tarjan_stack[i]
      IN  Updated(value, entry) = IF Pruned(entry.state)
                                  THEN Point(TerminationCost[entry.state])
                                  ELSE BellmanValue(value, entry.state)

(* "The optimal action", best_action in topological_value_iteration.h: the *)
(* extracted policy is greedy for the values it comes with.  It has no     *)
(* decision where terminating is best or the search did not go on, and a   *)
(* best action elsewhere.                                                  *)
PolicyGreedy ==
  \A s \in State : status[s] = "closed" =>
     decision[s] \in IF Pruned(s) \/ Greedy(value, s) = {} THEN {NoAction}
                     ELSE Greedy(value, s)

(* The algorithm ends, or runs out of time.                                *)
Termination == <>Finished
=============================================================================
