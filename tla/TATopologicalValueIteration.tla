-------------------- MODULE TATopologicalValueIteration --------------------
(***************************************************************************)
(* Trap-aware topological value iteration: one call of solve() of class    *)
(* TATopologicalValueIteration with a fresh value store and without        *)
(* intervals (the only instantiation there is).  Like its base algorithm   *)
(* it explores all reachable states depth first and works on a strongly    *)
(* connected component when its root is left, but in three stages:         *)
(*                                                                         *)
(*  1. the maximal end components of cost zero inside the component are    *)
(*     found by a second depth-first search, over the transitions that may *)
(*     belong to one, repeated on what is left of a component when one of  *)
(*     them turns out to leave it; each is collapsed to its first state;   *)
(*  2. the states that cannot reach a goal with certainty are found in a   *)
(*     fixpoint over transition flags, and given the value infinity;       *)
(*  3. value iteration runs on the transitions that are left.              *)
(*                                                                         *)
(* Value iteration to the tolerance 0 stands for value iteration to a      *)
(* small one: Q-values are rounded up, the direction in which values move, *)
(* so that the iteration reaches the limit of the exact sequence.          *)
(***************************************************************************)
EXTENDS BellmanEquations, SolvabilityPartition, SequencesExt

CONSTANTS
  InitialStates,     \* the states solve() may be called with
  Denominator        \* what the weights of every action add up to

VARIABLES
  initial_state,     \* init_state_id
  pc,                \* the function or loop the algorithm is in
  explored,          \* states with the bit explored (both searches use it)
  value,             \* value_store
  dfs_stack,         \* dfs_stack_
  tarjan_stack,      \* tarjan_stack_
  scc,               \* scc_: the states the second search works on
  scc_queue,         \* decomposition_queue_
  ecd_frames,        \* exploration_stack_ecd_
  ecd_stack,         \* stack_ecd_
  partition,         \* the regions of the solvability analysis
  unsolv_it,         \* its next unsolvable member to propagate
  sweep              \* the next entry to update, and converged

dfs_vars == <<initial_state, dfs_stack>>
ecd_vars == <<scc, scc_queue, ecd_frames, ecd_stack>>
analysis_vars == <<partition, unsolv_it>>
vars == <<dfs_vars, pc, explored, value, tarjan_stack, ecd_vars,
          analysis_vars, sweep>>

ASSUME TATVIAssumption ==
  /\ InitialStates \subseteq State
  /\ Denominator \in Nat \ {0}
  /\ \A s \in State : \A a \in Applicable(s) :
       TotalWeight[s][a] = Denominator

PCs == {"solve", "transition", "successor", "ecd_root", "ecd_transition",
        "ecd_successor", "solvability", "collect", "demote", "sweep",
        "done", "timeout"}

(* QValueInfo.  conv_part is the known part of the Q-value, scc_successors *)
(* gives the weights of the states that are open.  Both are multiplied by  *)
(* Denominator; normalization is Denominator / norm.                       *)
QValueInfo(cost, n) ==
  [conv_part |-> cost, norm |-> n, scc_successors |-> [t \in {} |-> 0]]

SccSuccessors(q) == DOMAIN q.scc_successors

Init ==
  /\ initial_state \in InitialStates
  /\ pc = "solve"
  /\ explored = {}
  /\ value = [s \in State |-> 0]
  /\ dfs_stack = <<>>
  /\ tarjan_stack = <<>>
  /\ scc = <<>>
  /\ scc_queue = <<>>
  /\ ecd_frames = <<>>
  /\ ecd_stack = <<>>
  /\ partition = NewPartition(0)
  /\ unsolv_it = 1
  /\ sweep = [next |-> 0, converged |-> TRUE]

Top == Last(dfs_stack)
Below == dfs_stack[Len(dfs_stack) - 1]
TopECD == Last(ecd_frames)

(* A stack with its top replaced.                                          *)
WithTop(stack, frame) == [stack EXCEPT ![Len(stack)] = frame]

(* get_status: a state that is explored is on the stack or closed.         *)
OnStack(s) == \E i \in DOMAIN tarjan_stack : tarjan_stack[i].state = s
StackId(s) == CHOOSE i \in DOMAIN tarjan_stack : tarjan_stack[i].state = s

-----------------------------------------------------------------------------
(* Arithmetic on values.                                                   *)

(* x + w * v, and x / n rounded up.                                        *)
Plus(x, w, v) == IF x = Infinite \/ v = Infinite THEN Infinite ELSE x + w * v

DividedUp(x, n) == IF x = Infinite THEN Infinite ELSE Saturated(-((-x) \div n))

(* compute_q_value.                                                        *)
ComputeQValue(q) ==
  LET open == SccSuccessors(q)
  IN  IF q.conv_part = Infinite \/ \E t \in open : value[t] = Infinite
      THEN Infinite
      ELSE DividedUp(q.conv_part + SumFunction(
                      [t \in open |-> q.scc_successors[t] * value[t]]), q.norm)

(* add_non_ec_transition for all of us: transitions with the same open     *)
(* successors are one.                                                     *)
MergedTransitions(ts, us) ==
  LET same(t, set) == {u \in set : u.scc_successors = t.scc_successors}
  IN  {[t EXCEPT !.conv_part = Min({@} \union {u.conv_part : u \in same(t, us)})]
         : t \in ts}
      \union {u \in us : same(u, ts) = {}}

(* The result of op for the elements of seq in turn.  A choice from a set  *)
(* of one element passes on its value; TLC would otherwise evaluate the    *)
(* expression for an intermediate result each time it is used.             *)
Folded(op(_, _), base, seq) ==
  LET after[i \in 0..Len(seq)] ==
        IF i = 0 THEN base
        ELSE CHOOSE z \in {op(y, seq[i]) : y \in {after[i - 1]}} : TRUE
  IN  after[Len(seq)]

(* Spider construction: the members at the given places of the stack get   *)
(* the values of the first of them, which takes over their transitions.    *)
Spider(stack, places) ==
  LET hub == Head(places)
      leg == [conv_part |-> 0, norm |-> Denominator,
              scc_successors |-> [t \in {stack[hub].state} |-> Denominator]]
      attach(st, i) ==
        [st EXCEPT ![hub].non_ec_transitions =
                       MergedTransitions(@, st[i].non_ec_transitions),
                   ![hub].conv_part = Min({@, st[i].conv_part}),
                   ![i].non_ec_transitions = {leg},
                   ![i].conv_part = Infinite]
  IN  Folded(attach, stack, Tail(places))

-----------------------------------------------------------------------------
(* Entering a state: push_state, then initialize_state.                    *)

(* States whose transitions are not explored.                              *)
Pruned(s) == s \notin Goal /\ Estimate[s] = TerminationCost[s]

(* The active transitions and exits of a state that is pushed: terminating.*)
ActiveAtFirst(s) == IF TerminationCost[s] = Infinite THEN 0 ELSE 1

(* Enter s, below it the stack rest.                                       *)
Enter(s, rest) ==
  LET place == Len(tarjan_stack) + 1
  IN  /\ explored' = explored \union {s}
      /\ value' = [value EXCEPT ![s] = Estimate[s]]
      /\ tarjan_stack' = Append(tarjan_stack,
           [state |-> s, conv_part |-> TerminationCost[s],
            non_ec_transitions |-> {}, ec_transitions |-> {},
            active_exit_transitions |-> ActiveAtFirst(s),
            active_transitions |-> ActiveAtFirst(s),
            transition_flags |-> <<>>, parents |-> <<>>])
      /\ dfs_stack' = Append(rest,
           [state |-> s, aops |-> IF Pruned(s) THEN {} ELSE TransitionTails(s),
            action |-> NoAction, q_value |-> QValueInfo(0, 1),
            successors |-> {}, successor |-> s,
            stackidx |-> place, lowlink |-> place,
            exit_interval |-> Point(TerminationCost[s]), has_all_zero |-> TRUE])
      /\ pc' = "transition"

Solve ==
  /\ pc = "solve"
  /\ Enter(initial_state, <<>>)
  /\ UNCHANGED <<initial_state, ecd_vars, analysis_vars, sweep>>

-----------------------------------------------------------------------------
(* The transitions of a state and their successors.                        *)

(* forward_non_loop_transition: begin with an action that leaves the state.*)
BeginTransition ==
  /\ pc = "transition"
  /\ \E a \in Top.aops :
       dfs_stack' = WithTop(dfs_stack,
         [Top EXCEPT !.aops = @ \ {a},
                     !.action = a,
                     !.successors = NonSource(Top.state, a),
                     !.has_all_zero = @ /\ ActionCost[a] = 0,
                     !.q_value = QValueInfo(Denominator * ActionCost[a],
                                            NonSourceWeight[Top.state][a])])
  /\ pc' = "successor"
  /\ UNCHANGED <<initial_state, explored, value, tarjan_stack, ecd_vars,
                 analysis_vars, sweep>>

(* The smallest interval around two.                                       *)
Hull(x, y) == [lower |-> Min({x.lower, y.lower}),
               upper |-> Max({x.upper, y.upper})]

(* Frame f, told of a successor t that is closed with value x ...          *)
AddClosed(f, t, x) ==
  [f EXCEPT !.q_value.conv_part =
                Plus(@, Transition[f.state][f.action][t], x),
            !.exit_interval = Hull(@, Point(x))]

(* ... or still open.                                                      *)
AddOpen(f, t) ==
  [f EXCEPT !.q_value.scc_successors =
                [u \in DOMAIN @ \union {t} |->
                   IF u = t THEN Transition[f.state][f.action][t] ELSE @[u]]]

(* Mutant of Linked: the index of the transition before.                   *)
LinkedToPrevious(stack, child, parent) ==
  [stack EXCEPT ![child].parents = Append(@,
     [parent_idx |-> parent,
      parent_transition_idx |->
        Max({1, Len(stack[parent].transition_flags)})])]

(* The stack when the entry at child learns that it is a successor in the  *)
(* current transition of parent.                                           *)
Linked(stack, child, parent) ==
  [stack EXCEPT ![child].parents = Append(@,
     [parent_idx |-> parent,
      parent_transition_idx |-> Len(stack[parent].transition_flags) + 1])]

(* successor_loop, a successor that is new: recursion.                     *)
NewSuccessor ==
  /\ pc = "successor"
  /\ \E t \in Top.successors \ explored :
       Enter(t, WithTop(dfs_stack, [Top EXCEPT !.successors = @ \ {t},
                                               !.successor = t]))
  /\ UNCHANGED <<initial_state, ecd_vars, analysis_vars, sweep>>

(* ... in a finished component, or on the stack.                           *)
KnownSuccessor ==
  /\ pc = "successor"
  /\ \E t \in Top.successors \intersect explored :
       LET f == [Top EXCEPT !.successors = @ \ {t}, !.successor = t]
       IN  \/ /\ ~OnStack(t)
              /\ dfs_stack' = WithTop(dfs_stack, AddClosed(f, t, value[t]))
              /\ UNCHANGED tarjan_stack
           \/ /\ OnStack(t)
              /\ dfs_stack' = WithTop(dfs_stack,
                   [AddOpen(f, t) EXCEPT !.lowlink = Min({@, StackId(t)})])
              /\ tarjan_stack' = Linked(tarjan_stack, StackId(t), f.stackidx)
  /\ UNCHANGED <<initial_state, pc, explored, value, ecd_vars, analysis_vars,
                 sweep>>

(* Mutant of IsCandidate: the comparison is negated.                       *)
IsCandidateSwapped(q, leaves) == ~leaves /\ q.conv_part # 0

(* A transition that stays in the component may belong to an end component *)
(* of cost zero if it has no exit.                                         *)
IsCandidate(q, leaves) == ~leaves /\ q.conv_part = 0

(* Mutant of IsActiveExit: an exit counts whatever it leads to.            *)
IsActiveExitUnchecked(q, leaves) == leaves

(* A transition that may leave the component, but not to a dead end.       *)
IsActiveExit(q, leaves) == leaves /\ q.conv_part # Infinite

(* The entry of a state with one more transition that may stay in the      *)
(* component.                                                              *)
RecordTransition(entry, q, leaves) ==
  LET exits  == IsActiveExit(q, leaves)
      active == q.conv_part # Infinite
  IN  [entry EXCEPT
         !.active_exit_transitions = IF exits THEN @ + 1 ELSE @,
         !.active_transitions = IF active THEN @ + 1 ELSE @,
         !.transition_flags =
             Append(@, [is_active_exiting |-> exits, is_active |-> active]),
         !.ec_transitions =
             IF IsCandidate(q, leaves) THEN @ \union {q} ELSE @,
         !.non_ec_transitions =
             IF IsCandidate(q, leaves) THEN @ ELSE MergedTransitions(@, {q})]

(* The entry with one more transition whose successors are all finished:   *)
(* it is merged into the converged part.                                   *)
MergeTransition(entry, q) ==
  LET more == IF q.conv_part = Infinite THEN 0 ELSE 1
  IN  [entry EXCEPT !.conv_part = Min({@, DividedUp(q.conv_part, q.norm)}),
                    !.active_exit_transitions = @ + more,
                    !.active_transitions = @ + more]

(* next_successor when there is none.                                      *)
EndTransition ==
  /\ pc = "successor"
  /\ Top.successors = {}
  /\ LET q == Top.q_value
     IN  tarjan_stack' = [tarjan_stack EXCEPT ![Top.stackidx] =
           IF SccSuccessors(q) = {} THEN MergeTransition(@, q)
           ELSE RecordTransition(@, q,
                  SccSuccessors(q) # NonSource(Top.state, Top.action))]
  /\ dfs_stack' = WithTop(dfs_stack, [Top EXCEPT !.q_value = QValueInfo(0, 1),
                                                 !.action = NoAction])
  /\ pc' = "transition"
  /\ UNCHANGED <<initial_state, explored, value, ecd_vars, analysis_vars,
                 sweep>>

-----------------------------------------------------------------------------
(* Backtracking from a state whose transitions are all explored.           *)

(* The frame below becomes f, or there is none; the timer may expire.      *)
Return(f) ==
  LET rest == Front(dfs_stack)
  IN  \/ /\ rest = <<>>
         /\ dfs_stack' = rest
         /\ pc' = "done"
      \/ /\ rest # <<>>
         /\ dfs_stack' = WithTop(rest, f)
         /\ pc' = "successor"
      \/ /\ rest # <<>>
         /\ dfs_stack' = rest
         /\ pc' = "timeout"

IsRoot(f) == f.stackidx = f.lowlink

(* The frame below when it takes over the unfinished component of f.       *)
JoinedBelow(f, below) ==
  [AddOpen(below, f.state) EXCEPT
     !.lowlink = Min({@, f.lowlink}),
     !.exit_interval = Hull(@, f.exit_interval),
     !.has_all_zero = @ /\ f.has_all_zero]

(* No root: the component goes on below.                                   *)
Backtrack ==
  /\ pc = "transition"
  /\ Top.aops = {}
  /\ ~IsRoot(Top)
  /\ Return(JoinedBelow(Top, Below))
  /\ tarjan_stack' = Linked(tarjan_stack, Top.stackidx, Below.stackidx)
  /\ UNCHANGED <<initial_state, explored, value, ecd_vars, analysis_vars,
                 sweep>>

(* The component that ends with the top frame: places on the stack, states.*)
Places == Top.stackidx..Len(tarjan_stack)
Members == {tarjan_stack[i].state : i \in Places}

(* Close the component with values v and return to the frame below.        *)
Close(v) ==
  /\ value' = v
  /\ tarjan_stack' = SubSeq(tarjan_stack, 1, Top.stackidx - 1)
  /\ Return(AddClosed(Below, Top.state, v[Top.state]))

(* scc_found where all values are known: nothing ends but in a dead end,   *)
(* or there are no costs and only one value to end with.                   *)
IsUniform(f) ==
  \/ f.exit_interval.lower = Infinite
  \/ f.exit_interval.lower = f.exit_interval.upper /\ f.has_all_zero

SccFoundUniform ==
  /\ pc = "transition"
  /\ Top.aops = {}
  /\ IsRoot(Top)
  /\ IsUniform(Top)
  /\ Close([s \in State |-> IF s \in Members THEN Top.exit_interval.lower
                            ELSE value[s]])
  /\ UNCHANGED <<initial_state, explored, ecd_vars, analysis_vars, sweep>>

(* ... of a single state: its transitions are all in the converged part.   *)
SccFoundSingle ==
  /\ pc = "transition"
  /\ Top.aops = {}
  /\ IsRoot(Top)
  /\ ~IsUniform(Top)
  /\ Cardinality(Places) = 1
  /\ Close([value EXCEPT ![Top.state] = tarjan_stack[Top.stackidx].conv_part])
  /\ UNCHANGED <<initial_state, explored, ecd_vars, analysis_vars, sweep>>

(* ... all of it one end component: it is collapsed.                       *)
SccFoundTrap ==
  /\ pc = "transition"
  /\ Top.aops = {}
  /\ IsRoot(Top)
  /\ ~IsUniform(Top)
  /\ Cardinality(Places) > 1
  /\ \A i \in Places : tarjan_stack[i].non_ec_transitions = {}
  /\ tarjan_stack' = Spider(tarjan_stack,
                       [i \in 1..Cardinality(Places) |-> Top.stackidx + i - 1])
  /\ pc' = "solvability"
  /\ UNCHANGED <<initial_state, explored, value, dfs_stack, ecd_vars,
                 analysis_vars, sweep>>

(* ... otherwise: the end components in it are searched.                   *)
SccFoundMixed ==
  /\ pc = "transition"
  /\ Top.aops = {}
  /\ IsRoot(Top)
  /\ ~IsUniform(Top)
  /\ Cardinality(Places) > 1
  /\ \E i \in Places : tarjan_stack[i].non_ec_transitions # {}
  /\ scc' = [i \in 1..Cardinality(Places) |->
               tarjan_stack[Top.stackidx + i - 1].state]
  /\ explored' = explored \ Members
  /\ pc' = "ecd_root"
  /\ UNCHANGED <<initial_state, value, dfs_stack, tarjan_stack, scc_queue,
                 ecd_frames, ecd_stack, analysis_vars, sweep>>

-----------------------------------------------------------------------------
(* find_and_decompose_sccs: the second search.  It follows the candidate   *)
(* transitions of the states in scc; a state that is explored is on its    *)
(* stack, or closed.                                                       *)

IsOnStackECD(s) == \E i \in DOMAIN ecd_stack : ecd_stack[i] = s
StackIdECD(s) == CHOOSE i \in DOMAIN ecd_stack : ecd_stack[i] = s

(* ECDExplorationInfo for s, then initialize_ecd.                          *)
EnterECD(s, rest) ==
  LET place == Len(ecd_stack) + 1
  IN  /\ explored' = explored \union {s}
      /\ ecd_stack' = Append(ecd_stack, s)
      /\ ecd_frames' = Append(rest,
           [place |-> StackId(s), stackidx |-> place, lowlink |-> place,
            todo |-> tarjan_stack[StackId(s)].ec_transitions,
            action |-> QValueInfo(0, 1), successors |-> {},
            recurse |-> FALSE, leaves_scc |-> FALSE, remains_scc |-> FALSE])
      /\ pc' = "ecd_transition"

(* The next state of scc that is not yet explored is searched.             *)
EnterRootECD ==
  /\ pc = "ecd_root"
  /\ \E i \in DOMAIN scc :
       /\ scc[i] \notin explored
       /\ \A j \in 1..(i - 1) : scc[j] \in explored
       /\ EnterECD(scc[i], <<>>)
  /\ UNCHANGED <<initial_state, value, dfs_stack, tarjan_stack, scc, scc_queue,
                 analysis_vars, sweep>>

(* pop_scc: there is a component left to search.                           *)
NextScc == scc_queue # <<>>

EndRootsECD ==
  /\ pc = "ecd_root"
  /\ \A i \in DOMAIN scc : scc[i] \in explored
  /\ \/ /\ NextScc
        /\ scc' = Last(scc_queue)
        /\ scc_queue' = Front(scc_queue)
        /\ explored' = explored \ ToSet(Last(scc_queue))
        /\ UNCHANGED pc
     \/ /\ ~NextScc
        /\ scc' = <<>>
        /\ pc' = "solvability"
        /\ UNCHANGED <<scc_queue, explored>>
  /\ UNCHANGED <<initial_state, value, dfs_stack, tarjan_stack, ecd_frames,
                 ecd_stack, analysis_vars, sweep>>

BeginTransitionECD ==
  /\ pc = "ecd_transition"
  /\ \E q \in TopECD.todo :
       ecd_frames' = WithTop(ecd_frames,
         [TopECD EXCEPT !.todo = @ \ {q}, !.action = q,
                        !.successors = SccSuccessors(q),
                        !.leaves_scc = FALSE, !.remains_scc = FALSE])
  /\ pc' = "ecd_successor"
  /\ UNCHANGED <<dfs_vars, explored, value, tarjan_stack, scc, scc_queue,
                 ecd_stack, analysis_vars, sweep>>

(* push_successor_ecd.                                                     *)
NewSuccessorECD ==
  /\ pc = "ecd_successor"
  /\ \E t \in TopECD.successors \ explored :
       EnterECD(t, WithTop(ecd_frames, [TopECD EXCEPT !.successors = @ \ {t}]))
  /\ UNCHANGED <<dfs_vars, value, tarjan_stack, scc, scc_queue, analysis_vars,
                 sweep>>

KnownSuccessorECD ==
  /\ pc = "ecd_successor"
  /\ \E t \in TopECD.successors \intersect explored :
       LET f == [TopECD EXCEPT !.successors = @ \ {t}]
       IN  ecd_frames' = WithTop(ecd_frames,
             IF IsOnStackECD(t)
             THEN [f EXCEPT !.lowlink = Min({@, StackIdECD(t)}),
                            !.remains_scc = TRUE]
             ELSE [f EXCEPT !.leaves_scc = TRUE])
  /\ UNCHANGED <<dfs_vars, pc, explored, value, tarjan_stack, scc, scc_queue,
                 ecd_stack, analysis_vars, sweep>>

(* next_transition: a candidate that leaves is none.  If it also remains,  *)
(* what it held together may fall apart, which asks for another search.    *)
EndTransitionECD ==
  /\ pc = "ecd_successor"
  /\ TopECD.successors = {}
  /\ \/ /\ TopECD.leaves_scc
        /\ tarjan_stack' = [tarjan_stack EXCEPT
             ![TopECD.place].ec_transitions = @ \ {TopECD.action},
             ![TopECD.place].non_ec_transitions =
                 MergedTransitions(@, {TopECD.action})]
        /\ ecd_frames' = WithTop(ecd_frames,
             [TopECD EXCEPT !.recurse = @ \/ TopECD.remains_scc])
     \/ /\ ~TopECD.leaves_scc
        /\ UNCHANGED <<tarjan_stack, ecd_frames>>
  /\ pc' = "ecd_transition"
  /\ UNCHANGED <<dfs_vars, explored, value, scc, scc_queue, ecd_stack,
                 analysis_vars, sweep>>

BelowECD == ecd_frames[Len(ecd_frames) - 1]

(* Mutant of RecursesBelow: recurse is not handed down.                    *)
RecursesBelowForgetful(f, below) == below.recurse

(* Mutant of RecursesBelow: whenever there is more than one state.         *)
RecursesBelowAlways(f, below) == TRUE

(* recurse of the frame below when it takes over the component of f.       *)
RecursesBelow(f, below) == below.recurse \/ f.recurse

BacktrackECD ==
  /\ pc = "ecd_transition"
  /\ TopECD.todo = {}
  /\ ~IsRoot(TopECD)
  /\ ecd_frames' = WithTop(Front(ecd_frames),
       [BelowECD EXCEPT !.lowlink = Min({@, TopECD.lowlink}),
                        !.recurse = RecursesBelow(TopECD, BelowECD),
                        !.remains_scc = TRUE])
  /\ pc' = "ecd_successor"
  /\ UNCHANGED <<dfs_vars, explored, value, tarjan_stack, scc, scc_queue,
                 ecd_stack, analysis_vars, sweep>>

(* scc_found_ecd: search it again, or collapse it; a single state is left  *)
(* as it is.                                                               *)
SccFoundECD ==
  /\ pc = "ecd_transition"
  /\ TopECD.todo = {}
  /\ IsRoot(TopECD)
  /\ LET found == SubSeq(ecd_stack, TopECD.stackidx, Len(ecd_stack))
         trap  == Len(found) > 1 /\ ~TopECD.recurse
     IN  /\ scc_queue' = IF Len(found) > 1 /\ TopECD.recurse
                         THEN Append(scc_queue, found) ELSE scc_queue
         /\ tarjan_stack' =
              IF trap THEN Spider(tarjan_stack,
                             [i \in DOMAIN found |-> StackId(found[i])])
              ELSE tarjan_stack
  /\ ecd_stack' = SubSeq(ecd_stack, 1, TopECD.stackidx - 1)
  /\ \/ /\ Len(ecd_frames) = 1
        /\ ecd_frames' = <<>>
        /\ pc' = "ecd_root"
     \/ /\ Len(ecd_frames) > 1
        /\ ecd_frames' = WithTop(Front(ecd_frames),
                                 [BelowECD EXCEPT !.leaves_scc = TRUE])
        /\ pc' = "ecd_successor"
  /\ UNCHANGED <<dfs_vars, explored, value, scc, analysis_vars, sweep>>

-----------------------------------------------------------------------------
(* The solvability analysis, and value iteration on what it leaves.        *)

Size == Cardinality(Places)

(* The entry of a member, the members being numbered from 1 to Size, and   *)
(* the number of an entry of the stack.                                    *)
Entry(stack, i) == stack[Top.stackidx + i - 1]
Local(place) == place - Top.stackidx + 1

(* Members without active transitions are unsolvable, those without active *)
(* exits have to reach another member.                                     *)
InitialPartition(n) ==
  LET sorted(p, i) ==
        LET e == Entry(tarjan_stack, i)
        IN  IF e.active_exit_transitions # 0 THEN p
            ELSE IF e.active_transitions > 0 THEN DemoteExitSolvable(p, i)
            ELSE DemoteExitUnsolvable(p, i)
  IN  Folded(sorted, NewPartition(n), [i \in 1..n |-> i])

(* The values, infinite for the members numbered in locals.                *)
WithUnsolvable(locals) ==
  LET states == {Entry(tarjan_stack, i).state : i \in locals}
  IN  [s \in State |-> IF s \in states THEN Infinite ELSE value[s]]

PartitionMembers ==
  /\ pc = "solvability"
  /\ LET p == InitialPartition(Size)
     IN  /\ partition' = p
         /\ value' = WithUnsolvable({i \in 1..Size : IsUnsolvable(p, i)})
         /\ pc' = IF HasSolvable(p, Size) THEN "collect" ELSE "sweep"
  /\ sweep' = [next |-> Top.stackidx, converged |-> TRUE]
  /\ UNCHANGED <<dfs_vars, explored, tarjan_stack, ecd_vars, unsolv_it>>

(* The flags of the transition that the parent link x comes from.          *)
FlagsOf(stack, x) == stack[x.parent_idx].transition_flags[x.parent_transition_idx]

(* p, after the parent links of member i were followed: who has an active  *)
(* transition to a solvable member is solvable.                            *)
ParentsPromoted(p, i) ==
  LET promote(r, x) == IF FlagsOf(tarjan_stack, x).is_active
                       THEN PromoteSolvable(r, Local(x.parent_idx)) ELSE r
  IN  Folded(promote, p, Entry(tarjan_stack, i).parents)

Descending(n) == [i \in 1..n |-> n + 1 - i]

(* The partition after the parents of solvable members were promoted, from *)
(* the end of the array down to the boundary, which moves on the way.      *)
Collected(p) ==
  LET visit(r, i) == IF i < r.solvable_beg THEN r
                     ELSE ParentsPromoted(r, r.order[i])
  IN  Folded(visit, p, Descending(Size))

(* Only members that reach an active exit along active transitions remain  *)
(* solvable.                                                               *)
CollectSolvable ==
  /\ pc = "collect"
  /\ LET p == Collected(MarkNonExitStatesUnsolvable(partition))
     IN  /\ partition' = p
         /\ pc' = IF p.solvable_beg = partition.solvable_beg THEN "sweep"
                  ELSE "demote"
  /\ unsolv_it' = partition.solvable_beg
  /\ UNCHANGED <<dfs_vars, explored, value, tarjan_stack, ecd_vars, sweep>>

Inactive == [is_active_exiting |-> FALSE, is_active |-> FALSE]

(* A pair of the stack and the partition, after the parent link x of an    *)
(* unsolvable member was followed: the transition is not active any more.  *)
Deactivated(pair, x) ==
  LET stack == pair[1]
      p     == pair[2]
      i     == Local(x.parent_idx)
      e     == stack[x.parent_idx]
      flags == FlagsOf(stack, x)
      left  == [e EXCEPT
                  !.transition_flags[x.parent_transition_idx] = Inactive,
                  !.active_transitions = @ - 1,
                  !.active_exit_transitions =
                      IF flags.is_active_exiting THEN @ - 1 ELSE @]
  IN  IF IsUnsolvable(p, i) \/ ~flags.is_active THEN pair
      ELSE << [stack EXCEPT ![x.parent_idx] = left],
              IF flags.is_active_exiting
              THEN CASE left.active_transitions = 0 ->
                          DemoteExitUnsolvable(p, i)
                     [] left.active_transitions # 0
                        /\ left.active_exit_transitions = 0 ->
                          DemoteExitSolvable(p, i)
                     [] OTHER -> p
              ELSE IF left.active_transitions = 0 THEN DemoteUnsolvable(p, i)
              ELSE p >>

(* The next unsolvable member is propagated to its parents.                *)
DemoteParents ==
  /\ pc = "demote"
  /\ LET e     == Entry(tarjan_stack, partition.order[unsolv_it])
         after == Folded(Deactivated, <<tarjan_stack, partition>>, e.parents)
     IN  /\ value' = [value EXCEPT ![e.state] = Infinite]
         /\ tarjan_stack' = after[1]
         /\ partition' = after[2]
         /\ pc' = IF unsolv_it + 1 = after[2].solvable_beg THEN "collect"
                  ELSE "demote"
  /\ unsolv_it' = unsolv_it + 1
  /\ UNCHANGED <<dfs_vars, explored, ecd_vars, sweep>>

(* The value of an entry in the table.                                     *)
Updated(entry) ==
  Min({entry.conv_part} \union
      {ComputeQValue(q) : q \in entry.non_ec_transitions})

(* converged, after a further update of the sweep.                         *)
SweepConverged(now) == sweep.converged /\ now

UpdateValue ==
  /\ pc = "sweep"
  /\ sweep.next <= Len(tarjan_stack)
  /\ LET entry == tarjan_stack[sweep.next]
         s     == entry.state
     IN  /\ value' = [value EXCEPT ![s] = Updated(entry)]
         /\ sweep' = [next |-> sweep.next + 1, converged |->
              SweepConverged(ApproxEqual(value[s], value'[s]))]
  /\ UNCHANGED <<dfs_vars, pc, explored, tarjan_stack, ecd_vars,
                 analysis_vars>>

SweepAgain ==
  /\ pc = "sweep"
  /\ sweep.next > Len(tarjan_stack)
  /\ ~sweep.converged
  /\ sweep' = [next |-> Top.stackidx, converged |-> TRUE]
  /\ UNCHANGED <<dfs_vars, pc, explored, value, tarjan_stack, ecd_vars,
                 analysis_vars>>

EndSweeps ==
  /\ pc = "sweep"
  /\ sweep.next > Len(tarjan_stack)
  /\ sweep.converged
  /\ Close(value)
  /\ UNCHANGED <<initial_state, explored, ecd_vars, analysis_vars, sweep>>

(* The timer expires where it is read.                                     *)
Timeout ==
  /\ \/ pc = "successor" /\ Top.successors # {}
     \/ pc = "ecd_successor"
     \/ pc \in {"collect", "demote"}
     \/ pc = "sweep" /\ sweep.next = Top.stackidx
  /\ pc' = "timeout"
  /\ UNCHANGED <<dfs_vars, explored, value, tarjan_stack, ecd_vars,
                 analysis_vars, sweep>>

Finished == pc \in {"done", "timeout"}

Stop ==
  /\ Finished
  /\ UNCHANGED vars

Step ==
  \/ Solve
  \/ BeginTransition
  \/ NewSuccessor
  \/ KnownSuccessor
  \/ EndTransition
  \/ Backtrack
  \/ SccFoundUniform
  \/ SccFoundSingle
  \/ SccFoundTrap
  \/ SccFoundMixed
  \/ EnterRootECD
  \/ EndRootsECD
  \/ BeginTransitionECD
  \/ NewSuccessorECD
  \/ KnownSuccessorECD
  \/ EndTransitionECD
  \/ BacktrackECD
  \/ SccFoundECD
  \/ PartitionMembers
  \/ CollectSolvable
  \/ DemoteParents
  \/ UpdateValue
  \/ SweepAgain
  \/ EndSweeps

Next == Step \/ Timeout \/ Stop

Spec == Init /\ [][Next]_vars /\ WF_vars(Step)

-----------------------------------------------------------------------------

(* The state variables range over what the data structures of the class    *)
(* can hold, and both stacks fit together.                                 *)
TypeOK ==
  /\ initial_state \in InitialStates
  /\ pc \in PCs
  /\ explored \subseteq State
  /\ value \in [State -> Int]
  /\ \A i \in DOMAIN dfs_stack :
       /\ dfs_stack[i].lowlink \in 1..dfs_stack[i].stackidx
       /\ dfs_stack[i].stackidx \in 1..Len(tarjan_stack)
       /\ dfs_stack[i].state = tarjan_stack[dfs_stack[i].stackidx].state
       /\ dfs_stack[i].successors \subseteq State
  /\ \A i \in DOMAIN tarjan_stack :
       LET e == tarjan_stack[i]
       IN  /\ \A q \in e.non_ec_transitions \union e.ec_transitions :
                SccSuccessors(q) \in (SUBSET State) \ {{}}
           /\ \A x \in ToSet(e.parents) : x.parent_idx \in DOMAIN tarjan_stack
           /\ e.active_exit_transitions \in 0..e.active_transitions
  /\ \A i \in DOMAIN ecd_frames :
       /\ ecd_frames[i].lowlink \in 1..ecd_frames[i].stackidx
       /\ ecd_frames[i].stackidx \in 1..Len(ecd_stack)
  /\ sweep \in [next : Nat, converged : BOOLEAN]

(* When value iteration begins on a component, no set of its members is    *)
(* left in which one can stay for ever at no cost: values rise until they  *)
(* are those of a policy that ends.                                        *)
NoTrapLeft ==
  pc = "sweep" =>
    \A trap \in (SUBSET Places) \ {{}} : \E i \in trap :
      \A q \in tarjan_stack[i].non_ec_transitions :
        \/ q.conv_part # 0
        \/ ~(SccSuccessors(q) \subseteq {tarjan_stack[j].state : j \in trap})
        \/ SumFunction(q.scc_successors) # q.norm

(* The regions of the partition are what they are called, whatever has     *)
(* been swapped: exits have active exit transitions, the members between   *)
(* the boundaries have none.                                               *)
PartitionAgrees ==
  pc \in {"collect", "demote"} =>
    /\ Consistent(partition, Size)
    /\ \A i \in 1..Size :
         LET e == Entry(tarjan_stack, i)
         IN  /\ partition.place[i] >= partition.exits_beg
                  <=> e.active_exit_transitions > 0
             /\ ~IsUnsolvable(partition, i) => e.active_transitions > 0

(* A member that could not go on when its component was complete: each of   *)
(* its transitions may lead to a dead end outside, and it cannot end.      *)
DeadFromTheStart(s) ==
  /\ s \in Members
  /\ TerminationCost[s] = Infinite
  /\ \A a \in TransitionTails(s) :
       \E t \in NonSource(s, a) \ Members : value[t] = Infinite

(* Between two rounds of the analysis the counters of a solvable member    *)
(* count what is left to it: the ways to go on that have no successor with *)
(* an infinite value, and those of them that may leave the component.  The *)
(* parent links and flags have reached every transition, and each once --  *)
(* except that the fixpoint (ta_topological_value_iteration_impl.h:783)    *)
(* begins behind the members that were dead from the start, and so never   *)
(* tells those who may go on to them.                                      *)
CountersAgree ==
  pc = "collect" =>
    \A i \in 1..Size : ~IsUnsolvable(partition, i) =>
      LET e    == Entry(tarjan_stack, i)
          live == {a \in TransitionTails(e.state) :
                     \A t \in NonSource(e.state, a) :
                       value[t] = Infinite => DeadFromTheStart(t)}
          ends == IF TerminationCost[e.state] = Infinite THEN 0 ELSE 1
      IN  /\ e.active_transitions = Cardinality(live) + ends
          /\ e.active_exit_transitions = ends + Cardinality(
               {a \in live : ~(NonSource(e.state, a) \subseteq Members)})

(* The algorithm ends, or runs out of time.                                *)
Termination == <>Finished
=============================================================================
