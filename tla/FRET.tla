-------------------------------- MODULE FRET --------------------------------
(***************************************************************************)
(* Find, revise, eliminate traps: class FRET, one call of compute_policy   *)
(* for a search without intervals.  A heuristic search on the quotient     *)
(* system alternates with a depth-first search for traps, the leaf         *)
(* components of the greedy graph, which are collapsed until there are     *)
(* none; then the policy is extended into the collapsed traps.             *)
(*                                                                         *)
(* The nested search is any algorithm that follows the scheme of           *)
(* FindAndRevise, as depth-first heuristic search and LRTDP do: it backs   *)
(* up states of the greedy policy graph of the initial state, in any       *)
(* order, until all of them have converged.                                *)
(***************************************************************************)
EXTENDS QuotientPolicy

CONSTANTS
  InitialStates,     \* the states compute_policy may be called with
  Graphs             \* a subset of {"policy", "value"}: PolicyGraph, ValueGraph

VARIABLES
  graph,             \* the greedy graph generator of this instantiation
  initial_state,
  pc,                \* the function or loop the algorithm is in
  tarjan,            \* TarjanStateInformation, 0 for UNDEF
  exploration_queue, \* exploration_queue
  stack,             \* stack
  counters           \* trap_counter and unexpanded: whether they are above 0

trap_vars == <<tarjan, exploration_queue, stack, counters>>
vars == <<graph, initial_state, pc, quotient_vars, search_vars, trap_vars,
          extract_vars>>

ASSUME FRETAssumption ==
  /\ InitialStates \subseteq State
  /\ Graphs \subseteq {"policy", "value"}

PCs == {"solve", "search", "traps", "successors", "unwind", "extract", "done",
        "timeout"}

Unseen == [s \in State |-> [stack_index |-> 0, lowlink |-> 0]]

Init ==
  /\ graph \in Graphs
  /\ initial_state \in InitialStates
  /\ pc = "solve"
  /\ QuotientInit
  /\ SearchInit
  /\ tarjan = Unseen
  /\ exploration_queue = <<>>
  /\ stack = <<>>
  /\ counters = [trap |-> FALSE, unexpanded |-> FALSE]
  /\ ExtractInit

-----------------------------------------------------------------------------
(* The nested search, on the quotient system.                              *)

(* heuristic_search: solve of the nested algorithm begins.                 *)
HeuristicSearch ==
  /\ pc = "solve"
  /\ InitializeInitialState(initial_state)
  /\ pc' = "search"
  /\ UNCHANGED <<graph, initial_state, quotient_vars, trap_vars, extract_vars>>

PolicySuccessors(s) ==
  IF policy[s] = NoAction THEN {} ELSE QNonSource(policy[s])

(* The states within n steps of the stored policy.                         *)
PolicyReach[n \in Nat] ==
  {initial_state} \union
  (IF n = 0 THEN {}
   ELSE UNION {PolicySuccessors(s) : s \in PolicyReach[n - 1]})

(* A state that a search may not stop at.                                  *)
IsInconsistent(s) ==
  /\ ~IsGoalOrTerminal(s)
  /\ \/ flag[s] = "fringe"
     \/ LET backup == QBackup(value, s)
        IN  \/ ~ApproxEqual(value[s], backup.value)
            \/ policy[s] \notin GreedyChoices(s, backup.greedy, FALSE)

ToRevise == {s \in PolicyReach[Cardinality(State)] : IsInconsistent(s)}

(* The Bellman backup of a state; ties between greedy actions may be       *)
(* broken in any way.                                                      *)
Revise ==
  /\ pc = "search"
  /\ \E s \in ToRevise : Backup(s, FALSE)
  /\ UNCHANGED <<graph, initial_state, pc, quotient_vars, trap_vars,
                 extract_vars>>

(* Mutant of FreshCounters: what earlier searches found still counts.      *)
StaleCounters == counters

FreshCounters == [trap |-> FALSE, unexpanded |-> FALSE]

EndSearch ==
  /\ pc = "search"
  /\ ToRevise = {}
  /\ tarjan' = Unseen
  /\ counters' = FreshCounters
  /\ pc' = "traps"
  /\ UNCHANGED <<graph, initial_state, quotient_vars, search_vars,
                 exploration_queue, stack, extract_vars>>

-----------------------------------------------------------------------------
(* find_and_remove_traps.                                                  *)

(* The actions of s in the greedy graph.                                   *)
GraphActions(s) ==
  IF graph = "policy"
  THEN IF policy[s] = NoAction THEN {} ELSE {policy[s]}
  ELSE QBackup(value, s).greedy

GraphSuccessors(s) == UNION {QNonSource(a) : a \in GraphActions(s)}

(* push looks no further where the search has ended, and finds nothing     *)
(* where the greedy graph does.                                            *)
CanPush(s) == ~IsGoalOrTerminal(s) /\ GraphSuccessors(s) # {}

(* What get_successors does to the values: ValueGraph updates that of s,   *)
(* and takes a change for a sign that s was not expanded.                  *)
GetSuccessors(s) ==
  IF graph = "value" /\ ~IsGoalOrTerminal(s)
  THEN LET x == QBackup(value, s).value
       IN  /\ value' = [value EXCEPT ![s] = x]
           /\ counters' = [counters EXCEPT
                             !.unexpanded = @ \/ ~ApproxEqual(value[s], x)]
  ELSE UNCHANGED <<value, counters>>

(* push succeeds: s is on top of both stacks, below it the frames in rest. *)
Push(s, rest) ==
  LET place == Len(stack) + 1
  IN  /\ tarjan' = [tarjan EXCEPT ![s] = [stack_index |-> place,
                                          lowlink |-> place]]
      /\ stack' = Append(stack, [state_id |-> s, aops |-> GraphActions(s)])
      /\ exploration_queue' = Append(rest,
           [state_id |-> s, successors |-> GraphSuccessors(s), is_leaf |-> TRUE])

Top == Last(exploration_queue)
WithTop(frames, frame) == [frames EXCEPT ![Len(frames)] = frame]

(* Go on with frame f on top: with its next successor, or backtrack.       *)
Continue(f) == IF f.successors = {} THEN "unwind" ELSE "successors"

(* Where the search goes when no state is left on the stack.               *)
Finish(trap, unexpanded) ==
  \/ /\ trap \/ unexpanded
     /\ pc' = "solve"
     /\ UNCHANGED extract_vars
  \/ /\ ~trap /\ ~unexpanded
     /\ pc' = "extract"
     /\ BeginExtract(initial_state)

FindTraps ==
  /\ pc = "traps"
  /\ GetSuccessors(initial_state)
  /\ \/ /\ CanPush(initial_state)
        /\ Push(initial_state, <<>>)
        /\ pc' = "successors"
        /\ UNCHANGED extract_vars
     \/ /\ ~CanPush(initial_state)
        /\ Finish(FALSE, counters'.unexpanded)
        /\ UNCHANGED <<tarjan, exploration_queue, stack>>
  /\ UNCHANGED <<graph, initial_state, quotient_vars, flag, policy>>

(* A successor that is on the stack.                                       *)
StackSuccessor ==
  /\ pc = "successors"
  /\ \E t \in Top.successors :
       LET f == [Top EXCEPT !.successors = @ \ {t}]
       IN  /\ tarjan[t].stack_index # 0
           /\ tarjan' = [tarjan EXCEPT ![Top.state_id].lowlink =
                           Min({@, tarjan[t].stack_index})]
           /\ exploration_queue' = WithTop(exploration_queue, f)
           /\ pc' = Continue(f)
  /\ UNCHANGED <<graph, initial_state, quotient_vars, search_vars, stack,
                 counters, extract_vars>>

(* ... that is new.                                                        *)
NewSuccessor ==
  /\ pc = "successors"
  /\ \E t \in Top.successors :
       LET f == [Top EXCEPT !.successors = @ \ {t}]
       IN  /\ tarjan[t].lowlink = 0
           /\ CanPush(t)
           /\ Push(t, WithTop(exploration_queue, f))
           /\ GetSuccessors(t)
  /\ UNCHANGED <<graph, initial_state, pc, quotient_vars, flag, policy,
                 extract_vars>>

(* Mutant of LeafAfterExit: a successor where the search ended is ignored. *)
LeafAfterExitStill(f) == f.is_leaf

(* is_leaf after a successor outside of the component.                     *)
LeafAfterExit(f) == FALSE

(* ... in another component, or where the greedy graph ends.               *)
OtherSuccessor ==
  /\ pc = "successors"
  /\ \E t \in Top.successors :
       LET f == [Top EXCEPT !.successors = @ \ {t},
                            !.is_leaf = LeafAfterExit(Top)]
       IN  /\ tarjan[t].stack_index = 0
           /\ \/ /\ tarjan[t].lowlink # 0
                 /\ UNCHANGED <<value, counters>>
              \/ /\ tarjan[t].lowlink = 0
                 /\ ~CanPush(t)
                 /\ GetSuccessors(t)
           /\ exploration_queue' = WithTop(exploration_queue, f)
           /\ pc' = Continue(f)
  /\ UNCHANGED <<graph, initial_state, quotient_vars, flag, policy, tarjan,
                 stack, extract_vars>>

(* The frames below the top one, when that ends with the given lowlink.    *)
FramesBelow(reached_scc) ==
  LET below == Front(exploration_queue)
  IN  IF below = <<>> THEN below
      ELSE WithTop(below, [Last(below) EXCEPT !.is_leaf = @ /\ ~reached_scc])

(* Backtracking with the given stack information and trap counter.         *)
Unwind(infos, reached_scc, trap) ==
  LET below == FramesBelow(reached_scc)
  IN  /\ exploration_queue' = below
      /\ counters' = [counters EXCEPT !.trap = trap]
      /\ IF below = <<>>
         THEN /\ tarjan' = infos
              /\ Finish(trap, counters.unexpanded)
         ELSE /\ tarjan' = [infos EXCEPT ![Last(below).state_id].lowlink =
                              Min({@, tarjan[Top.state_id].lowlink})]
              /\ pc' = Continue(Last(below))
              /\ UNCHANGED extract_vars

IsRoot(s) == tarjan[s].lowlink = tarjan[s].stack_index

Backtrack ==
  /\ pc = "unwind"
  /\ ~IsRoot(Top.state_id)
  /\ Unwind(tarjan, ~Top.is_leaf, counters.trap)
  /\ UNCHANGED <<graph, initial_state, quotient_vars, search_vars, stack>>

Scc == SubSeq(stack, tarjan[Top.state_id].stack_index, Len(stack))

Closed ==
  LET states == {Scc[i].state_id : i \in DOMAIN Scc}
  IN  [s \in State |-> IF s \in states
                       THEN [tarjan[s] EXCEPT !.stack_index = 0] ELSE tarjan[s]]

(* The stack without the component.                                        *)
Remaining == SubSeq(stack, 1, tarjan[Top.state_id].stack_index - 1)

(* A component that cannot be left: a trap.  The state it is collapsed to  *)
(* is to be expanded again, and has no policy.                             *)
CollapseTrap ==
  /\ pc = "unwind"
  /\ IsRoot(Top.state_id)
  /\ Top.is_leaf
  /\ BuildQuotient(Scc)
  /\ flag' = [flag EXCEPT ![Top.state_id] = "fringe"]
  /\ policy' = [policy EXCEPT ![Top.state_id] = NoAction]
  /\ stack' = Remaining
  /\ Unwind(Closed, TRUE, TRUE)
  /\ UNCHANGED <<graph, initial_state, value>>

(* Any other component.                                                    *)
CloseComponent ==
  /\ pc = "unwind"
  /\ IsRoot(Top.state_id)
  /\ ~Top.is_leaf
  /\ stack' = Remaining
  /\ Unwind(Closed, TRUE, counters.trap)
  /\ UNCHANGED <<graph, initial_state, quotient_vars, search_vars>>

-----------------------------------------------------------------------------
(* compute_policy: the policy for the original states.                     *)

Extract ==
  /\ pc = "extract"
  /\ \E s \in queue : VisitTerminal(s) \/ VisitDecision(s)
  /\ UNCHANGED <<graph, initial_state, pc, quotient_vars, search_vars,
                 trap_vars>>

EndExtract ==
  /\ pc = "extract"
  /\ queue = {}
  /\ pc' = "done"
  /\ UNCHANGED <<graph, initial_state, quotient_vars, search_vars, trap_vars,
                 extract_vars>>

(* The timer expires in the nested search or in the search for traps.      *)
Timeout ==
  /\ pc \in {"search", "successors", "unwind"}
  /\ pc' = "timeout"
  /\ UNCHANGED <<graph, initial_state, quotient_vars, search_vars, trap_vars,
                 extract_vars>>

Finished == pc \in {"done", "timeout"}

Stop ==
  /\ Finished
  /\ UNCHANGED vars

Step ==
  \/ HeuristicSearch
  \/ Revise
  \/ EndSearch
  \/ FindTraps
  \/ StackSuccessor
  \/ NewSuccessor
  \/ OtherSuccessor
  \/ Backtrack
  \/ CollapseTrap
  \/ CloseComponent
  \/ Extract
  \/ EndExtract

Next == Step \/ Timeout \/ Stop

Spec == Init /\ [][Next]_vars /\ WF_vars(Step)

-----------------------------------------------------------------------------

TypeOK ==
  /\ pc \in PCs
  /\ QuotientConsistent
  /\ SearchTypeOK
  /\ ExtractTypeOK
  /\ \A i \in DOMAIN exploration_queue :
       /\ exploration_queue[i].state_id \in Representatives
       /\ tarjan[exploration_queue[i].state_id].stack_index \in DOMAIN stack
  /\ \A i \in DOMAIN stack :
       /\ tarjan[stack[i].state_id].stack_index = i
       /\ tarjan[stack[i].state_id].lowlink \in 1..i

(* The algorithm ends, or runs out of time.                                *)
Termination == <>Finished
=============================================================================
