# Formal models of the probabilistic Fast Downward search algorithms

This directory holds TLA+ models of the part of the planner that computes
policies for Markov decision processes: the algorithms under
`src/include/probfd/algorithms`, the classes they are built from, and the
interfaces they are run against.  TLC checks the models on small MDPs; TLAPS
proves the most important invariants for every MDP.  Paths below are relative
to the repository; `impl.h` after a class name means its `*_impl.h` header.

## 1. The system

The planner reads a (probabilistic) planning task, wraps it as an implicit MDP
whose states and transitions are generated on demand, and runs one search
algorithm on it to compute the optimal value of the initial state and a policy.
It is sequential: one thread runs one algorithm object to its end.  What makes
it hard is not concurrency but *order*.  Values, greedy actions, flags, labels,
stacks and queues are updated by handlers that call each other, on a graph that
is discovered while it is being solved and whose greedy part changes under the
feet of the search; ties, samplers and hash orders leave the order of many
steps open; and a timer may abandon the search at the points where it is read.

| Component | State | Operations | Hard behaviour | What makes it correct |
|---|---|---|---|---|
| MDP interface (`mdp.h`, `state_space.h`, `cost_function.h`, `transition_tail.h`) | none (a cache of transitions in the implementations) | applicable actions, transitions, action and termination costs | self-loops are removed and the rest normalised | - |
| Heuristic search base (`heuristic_search_base*.h`, `heuristic_search_state_information.h`, `utils.cc`, `value_type.cc`, `interval.cc`) | per state: flag, value bounds, greedy action | initialise, expand a fringe state, Bellman backup, choose a greedy action, test convergence | lazy initialisation, one- and two-sided bounds, infinite values | bounds stay bounds, and only tighten |
| Depth-first heuristic search (`depth_first_heuristic_search*.h`): ILAO*, LILAO*, HDP, DFHS | DFS stack, Tarjan stack, index map, visited states, SOLVED bits | explore, push, advance, backtrack, label, value iteration, cut-offs | labels given before the rest of the graph is finished; policy changes below a component; backups on the way in or out only | stacks agree; labels and schedules closed; result optimal; ends |
| LRTDP (`lrtdp*.h`) | trial, queue, visited list, VISITED and SOLVED bits | trial, check_and_solve, labelling | bits shared between trial and check; order of checks; dead ends found late | no stale marks; labels closed and converged; result optimal; ends |
| Policy pickers and samplers | random generators | break ties, sample successors | any tie-break, any sample | part of the searches |
| Topological VI (`topological_value_iteration*.h`) | DFS stack, Tarjan stack with partial Q-values, value store | explore, collect Q-values, value iteration per component, extract the policy | Q-values put together in pieces while components open and close | the pieces make up the backup; components closed at the right time; values and policy optimal |
| Trap-aware TVI (`ta_topological_value_iteration*.h`) | as above, with transition flags, counters and parent links per stack entry; a second DFS with its own stacks; a partition of the component | explore, decompose into zero-cost end components, collapse, solvability fixpoint, value iteration | the second DFS runs inside the first one and shares its `explored` bits; counters and boundaries are updated in place | no trap left; partition and counters agree with the transitions left; values optimal |
| Acyclic VI | a DFS without cycles | - | - | values on the way out |
| AO*, exhaustive AO* (`ao_search*`, `ao_star*`, `exhaustive_ao*`) | parent links, update orders, marks, backpropagation queue | expand tip, backpropagate | orders change while entries wait | no update lost; a solved state has its optimal value; the search can always go on |
| Quotient system (`quotients/`) | masked IDs, per quotient its members with their inner and outer actions | translate an ID, transitions, merge | a quotient grows under IDs already handed out; an empty filter means "all" | quotients stay disjoint; no action that can leave is lost |
| FRET (`fret*.h`) | exploration queue, stack, lowlinks; the quotient | nested search, find traps, collapse, extend the policy | alternates with a search that keeps its information over collapses | only traps are collapsed; the extracted policy is optimal |
| Trap-aware LRTDP (`trap_aware_lrtdp*.h`), trap-aware DFHS | LRTDP / DFHS on the quotient | trial, check by depth-first search, collapse, label, extend the policy | collapse while states are on the stack | solved states have their optimal values; the extracted policy is optimal |
| Qualitative reachability, end components (`preprocessing/`) | Tarjan stack, a partition of each component | exploration, pruning inside components | counts and partition boundaries updated in place | exact sets of dead and sure states |
| Interval iteration | composes the four above | - | - | - |
| i-dual, i2-dual, occupation measures | a linear program in an external solver | - | numerical | out of reach |
| Solver driver, progress report, policies (`solvers/`, `progress_report.cc`) | timer, output | run one search, print its policy | timer exception | its timer is part of the searches |
| Task state space, tasks, task utilities | the task, caches | generate states and transitions | cache coherence | - |
| PDBs, CEGAR, Cartesian abstractions, merge-and-shrink, bisimulation, other heuristics | abstractions | build, refine, look up | label and hierarchy bookkeeping | admissible estimates |
| Command line, JSON, utilities, views; the Fast Downward base, translator and driver | - | - | - | - |

Interaction: an algorithm calls the MDP interface for transitions, the
heuristic for the first value of a state, a picker to break ties and, for
LRTDP, a sampler; the base class owns the per-state information that all of
them read and write; the driver arms a timer that the algorithm polls, and
catches the exception it throws.

## 2. The modules

| Module | Models |
|---|---|
| `MDP` | the MDP as constants: weighted successor distributions, self-loop normalisation, costs |
| `BellmanEquations` | values, Q-values, the Bellman operator, comparison up to the tolerance |
| `HeuristicSearchBase` | the shared state and operations of the heuristic searches: `flag`, `value`, `policy`, lazy initialisation, expansion, backup, convergence tests |
| `FindAndRevise` | the abstract specification: revise states by backups in any order, stop only when the greedy policy graph of the initial state is consistent |
| `OptimalValues`, `ReferenceValues` | V*, as a solution of the Bellman equations, and what it means for stored bounds to be bounds |
| `DepthFirstHeuristicSearch` | one call of `HeuristicDepthFirstSearch::solve`, every parameter combination of the command line |
| `DFHSCorrectness` | its properties against V* and its refinement of `FindAndRevise` |
| `LRTDP`, `LRTDPCorrectness` | the same for `LRTDP::solve` |
| `AOBase` | what the AO* family shares: parent links, update orders, marks, the queue and its two backpropagations |
| `ExhaustiveAO`, `ExhaustiveAOCorrectness` | one call of `ExhaustiveAOSearch::solve` on an acyclic MDP; its properties against V* |
| `AOStar` | one call of `AOStar::solve` on an acyclic MDP |
| `TopologicalValueIteration`, `TVICorrectness` | one call of `TopologicalValueIteration::solve` with a policy to extract; its properties against V* |
| `SolvabilityPartition` | the array of the members of a component, its inverse and two boundaries, and the swaps that move a member between the regions |
| `TATopologicalValueIteration`, `TATVICorrectness` | one call of `TATopologicalValueIteration::solve`; its properties against V* |
| `QuotientSystem` | the quotient system: masked IDs, translation, inner and outer actions, `build_quotient` |
| `QuotientSearch` | what `HeuristicSearchBase` does when it runs on a quotient system |
| `QuotientPolicy` | `compute_policy` of the searches on a quotient: the policy is extended into the collapsed traps |
| `QuotientCorrectness` | what collapsing must preserve, and what an extracted policy must be, against V* |
| `FRET` | one call of `FRET::compute_policy`, for both graph generators, around an abstract nested search |
| `TALRTDP` | one call of `TALRTDP::compute_policy`; its properties against V* are in `MCTALRTDP` |
| `TrapOptimalValues` | V* of an MDP with traps: the solution of the Bellman equations that a policy which ends attains |
| `SearchInstances`, `AcyclicInstances`, `TrapInstances` | the MDPs of the runs |
| `MCDepthFirstHeuristicSearch`, `MCLRTDP`, `MCExhaustiveAO`, `MCAOStar`, `MCTopologicalValueIteration`, `MCTATopologicalValueIteration`, `MCFRET`, `MCTALRTDP` | configurations and initial states of the runs |
| `BellmanEquationsProofs` | sums and minima over finite sets; Q-values and the Bellman operator: types, monotonicity, the fixed point; layered MDPs |
| `HeuristicSearchBaseProofs` | expansion and backup: bounds that enclose, bounds that only tighten, and why a converged policy graph has the optimal value |
| `DepthFirstHeuristicSearchProofs` | depth-first heuristic search: its inductive invariant, admissibility, tightening, refinement of `FindAndRevise`, optimality |
| `LRTDPProofs` | LRTDP: inductive invariant, admissibility, tightening, converged labels, optimality |
| `ExhaustiveAOProofs` | exhaustive AO*: counts and links, optimality, completeness of the propagation |
| `TopologicalValueIterationProofs` | topological value iteration: components, Q-values in pieces, optimality, the policy |
| `FRETProofs` | the quotient system and FRET: what collapsing keeps, the stacks of the search for traps, the extracted policy |
| `TATopologicalValueIterationProofs` | the partition of the solvability analysis, and trap-aware topological value iteration: its inductive invariant, types, agreement of partition and counters |

### How state and actions correspond to the code

*Values.*  `value_t` is a double.  A value here is an integer number of grains,
and `\div` rounds down; the instances scale costs so that the quotients that
matter are exact, and the proofs hold whether they are or not.
`INFINITE_VALUE` is the constant `Infinite`, with the rule that it absorbs.  With
`UseInterval` the code stores an interval, otherwise one number: the model
stores a pair in both cases and keeps its halves equal in the second, so that one
definition of the backup serves both instantiations of the template.

*Distributions.*  `SuccessorDistribution` removes the self-loop and keeps the
probability that is left; the model keeps integer weights and divides by the
sum of those that leave the state.  An action that is a self-loop only is
dropped, as the transition filter of the base class does.

*Flags.*  `StateFlags` of the base class is `flag`; the bits that LRTDP and
depth-first search add to it (`SOLVED`, `VISITED`) are sets of states.

*Backups.*  `Backup(s)` is `expand_and_initialize` or
`generate_non_tip_transitions`, then `compute_bellman_and_greedy`,
`update_value` and `update_policy`, in one step, because nothing else happens
between those calls.  What the caller learns from them (did the value converge,
did the policy change) is read off the values before and after.

*Depth-first heuristic search.*  The steps are the functions of the class;
`pc` is the function or loop it is in.  `initialize` has one action per path
through it, `advance` too; `backtrack` is the pop of a frame, the treatment of
the component it is the root of, and the update of its parent.
`EndExploration` is the pop of the last frame together with what `do_solve`
does with the result.  `vi_step` is one action per state and one at the end of
a sweep.  Successors are walked from the end of a vector in the code and in any
order here, which covers all orders a hash or a generator may produce.

*LRTDP.*  `trial` is one action per state of the trial; the loop that clears
its marks is one action; `check_and_solve` is one action per state taken from
the queue and one per state of `visited_`.  The sampler is any choice.

*AO\* family.*  `queue_` is a set of pairs of an order and a state;
`backpropagate_update_order` and `backpropagate_tip_value` are one action per
entry taken from it, any of those with the least order.  The open list is a set
from which any state may be taken: the code's lists hold duplicates and have an
order, but all but one of the entries of a state are skipped.  `Expand` and
`VisitFringe` are an expansion up to the first entry of the queue.  In AO* the
action is picked from all transitions and the chosen one is gone when the parent
links are made, as `update_value_check_solved` and `do_solve` have it.

*Topological value iteration.*  `push_state` and `initialize_state` are one
action (`Enter`), each transition is begun, followed successor by successor, and
ended; `scc_found` is one action per backup and one at the end of a sweep.  The
transition being explored (`nconv_qs.back()`) is in the frame until it ends.  A
`QValueInfo` keeps its converged part multiplied by `norm`, the weight that
probabilities refer to, so that nothing is rounded before the division that
`finalize_transition` stands for; `infinite` names the bounds in which that part
is infinite.  `nconv_qs` keeps its order, because `set_min` is strict: of two
actions that tie, the one explored first is `best_action`.

*Trap-aware topological value iteration.*  The outer exploration is the one
above, with more per stack entry: which transitions may belong to a zero-cost end
component, the flags and counters of the others, and links to the parents with
the number of the parent's transition (`Linked`, `RecordTransition`).
`scc_found` branches four ways (`SccFoundUniform`, `SccFoundSingle`,
`SccFoundTrap`, `SccFoundMixed`).  In the last, the actions whose names end in
`ECD` are the second search, one action per function as in the first;
`SccFoundECD` collapses a component by the spider construction or queues it for
another search.  `PartitionMembers`, `CollectSolvable` and `DemoteParents` are
the loops of the solvability analysis, one action per round or per unsolvable
member, on the array of `SolvabilityPartition`.  There is only an instantiation
without intervals, so values are single numbers here.  Q-values are rounded *up*
after division by the weight that leaves the state: iteration from below then
reaches the integer fixed point exactly, where the code comes within its
tolerance.

*Quotient system.*  `quotient_ids` with its flag bit is `mask`: a state that was
merged points to the representative.  `BuildQuotient(members)` is
`build_quotient` with its cases: a member that is a plain state is split into
inner and outer actions by the given filter, an empty filter makes all its
actions inner, and a member that is a quotient is dissolved after its outer
actions were filtered.  An action that stays in the new set without being in the
filter remains an outer one; the view drops it because it has no successor
outside (`QTails`).  `QuotientConsistent`, a conjunct of the type invariants of
FRET and trap-aware LRTDP, says that the quotients are disjoint, that IDs and
member lists agree, and that every action of a member is either outer or inner;
that inner actions do not lead out, so that every action that does is an outer
one, is part of `CollapsedAreTraps`.  The information of the search (`QuotientSearch`) is indexed by ID and
is *not* merged when states are; the searches fix the entry of the
representative themselves, and so do the models.

*FRET.*  The nested search is a template parameter.  `Revise` backs up any state
of the stored policy graph that is not consistent, and `EndSearch` waits until
there is none: what `FindAndRevise` specifies, and what the run `dfhs` shows
`HeuristicDepthFirstSearch` to implement.  `push`, the loop over the successors
and the unwinding of `find_and_remove_traps` have one action per path.
`GetSuccessors` is the side effect of asking the generator: `ValueGraph` updates
values while it is asked.

*Extraction.*  `VisitDecision` takes one quotient state from the queue: the owner
of the greedy action becomes the exit, and the other members are directed to it
by any action that a breadth-first search backwards from the exit may pick.

*Trap-aware LRTDP.*  The trial is as in LRTDP; `check_and_solve` is a
depth-first search with its actions (`Initialize`, `NewSuccessor`,
`OldSuccessor`, `BacktrackInner`).  The root of a component is left by exactly one of
`CollapseAndReexpand`, `Collapse`, `LabelComponent`, `FailComponent`.  A popped
frame brings the one below up to date (`AfterChild`), which goes on with its next
successor or has none left (`NoSuccessor`).
Successors on frames are the IDs they were when the frame was made and are
translated when they are looked at, as in the code.

*Timer.*  `Timeout` and `BacktrackTimeout` are the exception thrown at each
place where the timer is read, with what `ClearGuard` does on the way out.

*Undefined behaviour.*  `current_trial_.back()` of an empty vector leads to the
state `"undefined"`, which has no further behaviour, in LRTDP and in trap-aware
LRTDP.  So does sampling from an empty
distribution in AO*.

## 3. What the runs check

| Run | Result | Shows |
|---|---|---|
| `dfhs` | pass | depth-first heuristic search, all configurations except two kinds: labelling without a backtracking update of every state, and interval bounds with cut-offs at unconverged states |
| `lrtdp` | pass | LRTDP, all configurations, on the parts of the MDP whose dead ends the heuristic sees, and from `e0`, a dead end it does not see, and `t0`, to which trials come back |
| `tvi` | pass | topological value iteration, with and without intervals and goal expansion, every order of actions and successors |
| `exhaustive_ao` | pass | exhaustive AO*, every order of expansions and updates, with and without intervals |
| `tatvi` | pass | trap-aware topological value iteration from components with traps, nested traps, and states that cannot end or can by chance only, every order of actions and successors in both searches |
| `fret` | pass | FRET with either generator around any search of the Find-and-Revise kind, every order of backups, every tie |
| `talrtdp` | pass | trap-aware LRTDP, all configurations, every sampler and order of successors |
| `dfhs_on_demand` | violation of `Optimal` | labelling with on-demand backtracking updates can return a wrong value |
| `ao_star_choice` | violation of `Optimal` | AO* keeps an action that is not greedy and solves its state with it |
| `tatvi_merged` | violation of `ClosedOptimal` | two actions with the same open successors are merged although they are normalised differently |
| `fret_value_graph` | violation of `PolicyOptimal` | FRET on the value graph reads values of states that were never initialised, and collapses a cycle that costs something |
| `talrtdp_trap_flag` | violation of `PolicyOptimal` | trap-aware LRTDP takes a component for a trap because the actions of its root are free |

The properties of the passing runs:

* `StackDiscipline` - `stack_index_` is the position on `tarjan_stack_` of
  exactly the states on it, frames stand on it from the bottom up, no lowlink
  is above its own state, both stacks empty together.
* `LabelsClosed` - a state is labelled only together with everything its policy
  can reach.  A label is never taken back, so this is what makes it safe not
  to look below it again.
* `ScheduledClosed` - what is handed to value iteration is closed under the
  policy.
* `NoStaleMarks` - the VISITED bits of a trial never leak into a check.
* `LabelsConverged` - labelled states have converged and stay so.
* `Admissible`, `Monotone` - the stored bounds enclose V* (both searches) and
  never widen (depth-first heuristic search; proved for both), in whatever order states are
  backed up, also after a timeout.
* `Optimal` - at the end the initial state has its optimal value.
* `ImplementsFindAndRevise` - depth-first heuristic search implements the abstract one: it
  changes values and policy by whole backups only and stops only on a
  consistent greedy policy graph.
* `UnsolvedCount` - every expanded state of exhaustive AO* counts exactly its
  unsolved successors, and these are the states that know it as a parent.
* `ValuesPropagated` - between two expansions every expanded state has the value
  that follows from its successors.  Update orders are built from the smallest
  order of the successors (`exhaustive_ao_impl.h:111`), hence are not a
  topological order; states are updated several times, but the end is the same.
* `ClosedComponents` - a component is closed only with or after everything it
  can reach.
* `BackupComplete` - the pieces of the Q-values are the Bellman backup over all
  transitions of the state.
* `ClosedOptimal` - closed states have their optimal values and, with single
  values, topological value iteration extracts an action that is greedy for them.
* `NoTrapLeft` - when trap-aware value iteration begins on a component, no set of
  its states is left in which one could stay for ever at no cost; the values of
  such a set would stop rising below the optimal ones.
* `PartitionAgrees` - while the solvability analysis swaps members about, the
  regions of its array hold the members they are named for.
* `CountersAgree` - between two of its rounds, the two counters of every member
  count the transitions that are really left to it.  They are set during one
  search, changed by a second one and lowered along parent links that are
  recorded before the fate of their transition is known.  Transitions to members
  that were dead from the start are excepted (see below).
* `CollapsedAreTraps` - only traps are collapsed, they stay traps when they are
  merged into others, and the one value that is kept for all their members does
  not exceed the optimal one.
* `SolvedOptimal` - a solved state has its optimal value, at any time (exhaustive
  AO*, trap-aware LRTDP).
* `PolicyOptimal` - the policy extracted from the quotient leads every state of a
  trap to the exit with the greedy action, its actions are greedy for V*, and
  it ends with certainty from wherever it may come to.
* `Termination` - the search ends or runs out of time.
* `InitialSolved` - LRTDP and trap-aware LRTDP label their initial state solved or
  run out of time.  This need not be the end, which is why it is not called
  termination: see "empty trials" below.

Findings, with the lines of the documentation they disagree with, are in
`PROJECT.json`; each has its run.  They were all met while modelling.  The
passing runs keep out of their way by their configurations or initial states
(`SoundConfigs`, `InformedStates`, `MCInitialStates`), so that they say where the
algorithms *are* right.  For AO* there is no passing run: its defects are met by
nearly every MDP that takes more than one expansion.

The following were met too and have no run of their own; the passing runs keep
out of their way as well:

* With interval bounds the policy of topological value iteration need not be
  greedy.  `update_value` chooses by lower bounds that are stale within a sweep
  (`topological_value_iteration_impl.h:165`), and a sweep ends the iteration when
  the bounds of every state have met, whether or not they changed in it (426).
  Let b0 go to b1 at 4 or to b3 at 8, b1 to b2 at 4, b2 to the goal at 8 or to b0
  at 4, b3 to the goal at 0 or to b0 at 4, with first bounds 0 and infinite.  The
  last sweep can read 4 for b1, and both actions of b0 tie at 8; then b1 rises to
  12, all bounds have met, and the action explored first stays: the value of b0 is
  8, the action that is extracted costs 16.  This came out of the attempt to prove
  `PolicyGreedy` without its condition; the policy is greedy with single values
  (`SingleValuesGreedy`).
* With interval bounds, `cutoff_inconsistent` (the `hdp` preset) never expands
  anything: the bounds of the initial state differ, so every exploration is cut off
  at once (`depth_first_heuristic_search_impl.h:345`).
* A dead end that an LRTDP check discovers (`lrtdp_impl.h:252`) raises a value
  that earlier states of the same check were backed up with; they are labelled
  although they have not converged.
* The same happens in trap-aware LRTDP (`trap_aware_lrtdp_impl.h:411`; the assertion
  in the next line does not hold): if the heuristic did not see that `q2` is a dead
  end, `q1` would be labelled with -8 before `q2` is found to be worth 0, while its
  optimal value is -4, and -8 would be the result.
* Empty trials.  LRTDP starts trials until one of them has passed all its checks
  (`lrtdp_impl.h:62-67`), also when the initial state is solved already, against the
  assertion in line 87.  Such a trial is empty at its end, and its
  last state is read (179, against the assertion in line 196).  It takes a trial that comes
  back to the initial state: let t0 go to t1 at 4 or to the goal at 8, and t1 to t0
  at 4.  The first trial visits t0, t1 and again t0, whose greedy action leads to the
  goal by then.  The checks run from the end: t0 is labelled, t1 fails because the
  value of t0 has risen since t1 was backed up, and the next trial starts in t0.
  This happens with every stop condition but `INCONSISTENT`.  An initial state that is a dead end the heuristic does
  not see (`e0`) makes a trial empty as well.  So it is in trap-aware LRTDP
  (`trap_aware_lrtdp_impl.h:215`, against the assertion in line 233), where a goal as the
  initial state (`mg`) is enough, for nothing is asked before the first trial.  The
  passing runs have such initial states (`t0`, `e0`; `l0`, `mg`), from which the model
  comes to the state `"undefined"`.  The initial state is always labelled by then,
  with the right value; the search does not return it.
* In trap-aware value iteration the fixpoint that marks states unsolvable starts
  at `partition.solvable_begin()` (`ta_topological_value_iteration_impl.h:783`),
  behind the members without any active transition, which were put in front
  when the partition was built (771).  Nobody is told of these: a transition that
  may lead to one stays active, and with it a member that has no other way out is
  taken for solvable.  No property of the run would notice.  Let b1 go to b2 or a dead end at 4, b0 to b1 or the goal
  at 4 or to b2 at 8, and b2 to b0 at 4.  b1 is infinite from the start, b0 and
  b2 cannot end either, but b0 has an active exit; value iteration on the two
  rises for ever.  In the model values are bounded, so it ends at infinite; part
  `b0 b1` of the instance is the harmless half of this.  It came out of the
  attempt to prove `CountersAgree`, which used to make no exception.
* In AO* the chosen transition has been moved out of `transitions_` when the
  parent links are made, so its successors do not know their parent and the
  search can be stuck above a solved state (`ao_star_impl.h:190`).

## 4. Instances and bounds

`SearchInstances` is one MDP of twenty-three states made of parts that share only
their goals; a run chooses parts by its initial states.  Each part is there for
a situation: cycles through several states, self-loops, a greedy action that is
overtaken when values rise, a dead end the heuristic sees, one it does not, a
dead end without actions, a lure that leads back, a state that looks converged before it is, a
heuristic that is admissible but not consistent, and a MaxProb problem (costs
0, a rewarded goal) with a cycle and dead ends, which is where ties and finite
upper bounds arise.  All parameter combinations of the algorithms are explored
in one run, as initial states.

`AcyclicInstances` is an acyclic MDP of fourteen states in two parts: states
reached on several paths of different lengths (so that update orders change), a
dead end the heuristic does not see below the cheaper of two actions, an action
that looks better than it is, and a MaxProb part, where the interval bounds
matter.

`TrapInstances` is an MDP whose parts, listed at its head, are the ways in which
traps matter: a trap with several exits of which the better is not at its
entry; a trap that appears only when a larger component is taken apart; one
found in two steps; one without an exit, behind a lure; components from which
ending is impossible, or possible by chance only; traps in MaxProb problems;
cycles that are *not* traps because they cost something, end by chance or may
fall out of the cycle by chance; and two actions that look alike inside a component, and a state that may fall into one that
is dead from the start.  `TrapOptimalValues` states which
solution of the Bellman equations V* is, and TLC evaluates that as an assumption.
The runs of FRET and trap-aware LRTDP restrict the MDP to the parts they start
in.  That of trap-aware LRTDP raises the estimates of `h0` and `h1` and lets the
heuristic see that `q2` is a dead end: the first only shortens the approach to a
limit, the second keeps out of the wrong label described above.

Bounds: `Epsilon = 0`, so that an error is an error of the control and not a
residual within the tolerance; it also makes the instances terminate only if
exact convergence does.  Values are multiples of a grain and the equations of
the instances have integer solutions, so exact convergence is reached after
finitely many backups.  `MaxTrialLength` (12 for LRTDP, 6 for trap-aware LRTDP, whose parts are smaller)
is longer than any trial through a part of the MDP needs to revisit every
state; a trial of that length can only run into the timer, and the liveness
property is not claimed for the two modes in which it matters.  `Denominator` is
the sum of the weights of every action in `TrapInstances`.  Interval bounds and unstable tie-breaking are
checked on the MaxProb parts: with infinite upper bounds intervals do not meet.

`Monotone` needs a consistent heuristic; the part `n0 n1` (admissible but not
consistent) is therefore not among the initial states of the passing runs.

## 5. Fairness

`WF_vars(Step)`: the search keeps taking steps while it can.  The program is
one thread that runs to its end, so this is all that is assumed; nothing is
assumed about ties, samplers, or orders, and the timer need never expire.
`Termination` (`InitialSolved` for LRTDP) is claimed for stable policies (the default
picker keeps the old greedy action), because value iteration hands back to the
exploration whenever a policy changed, and for LRTDP and trap-aware LRTDP, for the stop
conditions that bound every trial (`CONSISTENT`, `REVISITED`).  For topological value iteration, exhaustive
AO*, trap-aware topological value iteration and FRET it is claimed without a
condition, but for the values of the instances: a value in the model is at most
`Infinite`, so one that would rise for ever in the code ends there.  This kind of
non-termination (a component that nothing leaves, of several states with positive
costs, in topological value iteration; `ta_topological_value_iteration_impl.h:783`,
section 3) is not visible to `Termination`.

## 6. What is proved

The theorems hold for every MDP with finitely many states and actions
(`MDPAssumption`), every integer-valued heuristic bounded by `Infinite` and
every tolerance (`HeuristicAssumption`), and every set of configurations the
command line accepts (`SearchAssumption`) - the configurations of the
violation runs included.

### Depth-first heuristic search: stacks and labels

`DepthFirstHeuristicSearchProofs`: `TypeCorrect`, `StacksAgree`,
`LabelsAreClosed`, `ScheduleIsClosed`, all from `Invariance`
(`Spec => []IInv`).  None of these is inductive.  That labels are closed when a
component is popped needs to know what the `solved` flag of a frame says of the
states above it, which needs to know which successors of which state have been
looked at, with what lowlink.  `IInv` therefore adds, to the four invariants:

* `PolicyApplicable`, `InfoOK` - stored actions are applicable, stored flags say
  what they should;
* `FrameShape`, `FrameStates` - the frames cut the Tarjan stack into segments;
* `FrameSuccessors` - while a frame is not unsolved, every policy successor of
  every state in its segment is labelled, closed and settled, on the stack at
  or above the lowlink of the segment, or still to be looked at
  (`Settles`, `Linked`, `Pending`);
* `WorkExpanded`, `LabelMode`, `Scheduled` - what is in the containers has been
  expanded, and which containers are in use.

The proof has one step per action and, under it, one per conjunct that the
action can disturb.  TLC checked `IInv` before it was proved, on all
configurations and initial states.  The Tarjan part is the heart of it: the
segment of a popped frame that is not a root is merged into its parent's, and
the lowlink handed over bounds the links of both.

### Depth-first heuristic search against V*

`BoundsAreAdmissible` (the same module).  If V* solves the Bellman
equations and the heuristic does not exceed it (`ReferenceAssumption`), the
stored bounds enclose V* at every step.  The argument: the Bellman operator is
monotone (`SumMonotone`, `QValueMonotone`, `BestMonotone`), V* is its fixed
point, so a backup of bounds that enclose encloses (`BellmanEncloses`).
`BellmanEquationsProofs` proves what is needed of finite sums and minima by
minimal counterexample over the subsets of a finite set.

`BoundsOnlyTighten` (`Monotone`): with consistent first bounds no step widens the
bounds of an evaluated state.  `Monotone` is not inductive: that this backup
improves the bounds of its state says nothing of the next one.  The
strengthening, `Improving`, says that a backup of any state, evaluated or not,
would improve its bounds, where a state that is not evaluated yet counts with
the bounds that `initialize` will give it (`Stored`).  A backup keeps this of its
own state because it moves the bounds to the Q-value they were compared with,
and of all others because the Q-values they are compared with only get better
(`BestMonotone`).  The other branch, where terminating is best, needs that
the bounds are admissible: then terminating is optimal (`TerminatesOptimal`).
The hypothesis, `ConsistentBounds`, is consistency of the heuristic and, if some
configuration uses intervals, that no transition makes the termination cost
worse as an upper bound: the code does not cap the upper bound of a backup by
the termination cost.  It holds in MaxProb problems and with infinite
termination costs; all parts of `SearchInstances` but `n0 n1` satisfy it.

`RefinesFindAndRevise` (`ImplementsFindAndRevise`): every step is a step of
`FindAndRevise` or leaves it alone.  An expansion or a backup is one by
definition; what has to be proved is that the search only *stops* when the greedy
policy graph of the initial state is consistent.  `Established` says why it may:
the root frame is that of the initial state (`RootFrame`), the top frame is either
fresh or has been backed up (`FreshTop`), and what is labelled, what frames that
are not unsolved have left behind, and what a sweep has passed without a change
is consistent (`Labelled`, `FramesValued`, `Swept`).  The theorem assumes
`SoundConfigurations`:

* with labels, every state is backed up on the way out
  (`backtrack_update_type` is `SINGLE`), which is what the run `dfhs_on_demand`
  shows to be needed;
* with labels, intervals or `ConsistentBounds`: a label is not looked at again, so
  the values below it must not fall;
* with single values, no tolerance: residuals below it that are never backed up
  again add up.

`SearchIsOptimal` (`Optimal`) follows from the refinement and a fact about
values alone: if every state of a closed policy graph is consistent, its bounds
have met or no way leads back in it, and they enclose V*, then the root has V*
(up to the tolerance).  With intervals this is so in every MDP, because bounds
that have met and enclose V* *are* V*.  With single values it is proved for MDPs
that are `Layered`: there is a rank that every transition decreases.  With
cycles, that a consistent value is V* needs that the equations have one
solution, an argument about limits over reals, and values here are rounded
integers for which it is false; these MDPs stay with TLC.

### LRTDP

`LRTDPProofs`: `TypeCorrect`, `MarksAreCurrent` (`NoStaleMarks`) and
`LabelsAreClosed` (`LabelsClosed`), for every sampler and stop condition, and
whether the timer expires or not.  That labels are closed rests on what the lists of a check
hold while it runs: as long as it has not failed, every policy successor of a
visited state is labelled, queued or visited (`CheckClosed`); a state leaves the
queue for the visited list at most once, which is what the mark is for
(`VisitedOnce`), and that only works if the trial has left no marks behind
(`TrialMarks`, `NoStaleMarks`).  `ListShape` and `ListedKnown` say which list is in
use when, and that what is in it has been initialised and stays so.  While the
labels are set one by one, `LabelsClosing` replaces `LabelsClosed`.

`BoundsAreAdmissible` and `BoundsOnlyTighten` are as for depth-first heuristic
search: only the actions that back up a state change values.

`LabelsStayConverged` (`LabelsConverged`): what is labelled has converged, and
stays so although no backup looks at it again.  The hard half is *stays*: later
backups change values around it, and a check labels states it visited before
others of the same check were backed up.  `Trusted` adds to the inductive
invariant that bounds enclose V* and only improve, that no state whose best is
to terminate is ever expanded with single values (`NoDeadEndExpanded`), and that
what is labelled or will be is settled (`Settling`).  The hypothesis
`TrustedLabels` is intervals or, with single values, all of: no tolerance (or
residuals accumulate), `ConsistentBounds` (or values fall again), and
`DeadEndsSeen`, that the first estimate of a dead end says that it is one (or
`lrtdp_impl.h:252`, which does not count a dead end found in a check as a
change, leaves earlier states of that check unconverged, as section 3 tells).
`SearchIsOptimal` (`Optimal`) has that hypothesis and, with single values,
`Layered`.

### Exhaustive AO*

`ExhaustiveAOProofs`: `TypeCorrect` and `CountsAgree` (`UnsolvedCount`) from
`Invariance`.  `IInv` says that the successors of expanded states are evaluated
(`NeighboursKnown`), that an unsolved state knows as parents exactly the expanded
unsolved states it is a successor of (`Linked`), that the count of such a state is
the number of those that know it as a parent (`Counted`), that the successors of a
solved state are solved (`SolvedClosed`), that the queue holds expanded states and
is empty between two propagations (`QueueOK`), and that a mark on an unsolved
state stands for an entry of the queue (`MarksOK`).  The count is set when a state is expanded and
lowered along parent links, once per solved successor; that none is counted
twice is what `Linked` is for.

`SolvedStatesOptimal` (`SolvedOptimal`) with the invariant `SolvedExact`: a state is
solved by a backup from solved successors only, or because terminating is best.
It needs no assumption that the MDP is acyclic: the states of a cycle
of expanded states are never solved.  The theorems assume `~StorePolicy`: the
class does not store a policy.

`PropagationComplete` (`ValuesPropagated`): while the queue is worked off, every
expanded state has the value that follows from its successors, or an entry of the
queue that will bring it about (`Due`, `AllFollow`).  It holds without a tolerance: a change
below the tolerance is not passed on, and such changes add up.

### Topological value iteration

`TopologicalValueIterationProofs`: `TypeCorrect`, `ComponentsClosed`
(`ClosedComponents`), `BackupsComplete` (`BackupComplete`), for every MDP, every
order of actions and successors, and whether the timer expires or not.  The
invariant follows the three things the exploration does at once.

* *The stacks* (`StacksOK`, `Indexed`, `FramesOK`): the index of a state is its
  position on the Tarjan stack, and the frames are positions on it, from the bottom up.
* *The lowlinks* (`LowlinksOK`): everything above a frame and below the next one is
  its segment (`Segment`); a successor already explored of a state in it is closed
  or on the stack at or above the lowlink, and what is still to come is in the frame
  (`Ahead`).  When the lowlink of a popped frame is its own index nothing
  below its segment can be reached, and it is a component.
* *The Q-values* (`GatheredOK`, `TransitionsOK`, `EntryOK`): the converged part of
  a transition is the weighted sum over the successors explored and closed, the
  rest are in `nconv_successors`; a transition with no open successor has been
  folded into the best converged value.  Once everything is explored
  (`AllExplored`) the pieces are the Bellman backup (`BackupExact`), for whatever
  values the open successors have, so in every sweep.

`ClosedStatesOptimal` (`ClosedOptimal`): the values enclose V* (`Bracketed`, by
monotonicity).  A sweep that ends the iteration leaves every state of its
component with met bounds or, with single values, consistent (`SweepOK`,
`ClosedOK`); the conclusion is that of `SearchIsOptimal`, with intervals in every
MDP, with single values where `Layered`.  `GoalsTerminate` (stopping is best in a
goal) is only needed if goals are expanded.  `SingleValuesGreedy`: with single
values and no tolerance a sweep that changes nothing has read nothing stale, so
the action kept for every state is greedy for the final values, with cycles or
without.

### Trap-aware topological value iteration

`TATopologicalValueIterationProofs` begins with the partition: each operation on it
(`DemoteUnsolvable`, `DemoteExitSolvable`, `DemoteExitUnsolvable`,
`PromoteSolvable`, `MarkNonExitStatesUnsolvable`) takes a consistent partition to
a consistent one, for a component of any size: the array remains a permutation,
the inverse its inverse and the boundaries in order, the one member it is meant
to move changes its region, and no other does.

`TATVITypes` (`TypeOK`) and `TATVIPartition` (`PartitionAgrees`) follow from
`TATVIInvariant` (`Spec => []IInv`), for every MDP whose weights have a common
denominator (`TATVIAssumption`), every heuristic, every order of actions and
successors, any number of nested searches, and whether the timer expires or not.
Neither is inductive, and nearly everything the algorithm keeps is needed for
the second, because a parent link that leads to the wrong place, or that is followed when its
transition has no flags yet, would make the counters and the partition disagree:

* *Links and transitions lead to the component* (`SuccessorsOK`, `LinksOK`).
  What an entry knows of - an open successor of a transition, a parent that a link
  leads to - is `Near`: not above a frame on whose behalf the entry was explored, and
  not below the lowlink of the frame it belongs to.  When the lowlink of a popped
  frame is its own index, what is near to a member is a member (`RootNear`), so the
  second search and the analysis stay in the component, and no entry that is left
  refers to one that is cut off (`ClosePart`).
* *Links and flags agree* (`IsRecorded`, `IsUnderWay`).  A link is stored with the
  number its transition will have, before the transition is recorded: while the
  frame is in the middle of it, the number is one too high, and that the transition
  will be recorded at all, rather than merged into the converged part, is
  because it has an open successor: the one that got the link.
* *Counters and flags agree* (`CountersOK`).  An entry has as many active exits as
  flags say, plus a number of ways to go on that have no flags, the same in both
  counters.  `demote` changes both and one flag, so a counter falls to zero no
  sooner than the last flag.
* *The second search* (`SecondSearchOK`) has frames and states of the component only,
  although it takes away `explored` bits and is repeated on what is left of a
  component; traps are collapsed on the stack it shares with the outer exploration,
  which keeps the states, the links and the number of flags of every entry
  (`SameLinks`) and changes only where transitions lead.
* *The fixpoint* (`AnalysisOK`).  `PartitionAgrees` survives a round only because a
  solvable member is not reached by an active transition from an unsolvable one
  (`Separated`): after `collect` every link of every solvable member was
  followed (`VisitedDownTo`: the loop runs down to a boundary that moves while it
  runs, and members promoted on the way come below its position, so they are still
  to be visited).  While `demote` runs a member that is unsolvable is passed over,
  so its counters need not agree; a solvable member loses a flag, a count, and its
  place when a count becomes zero (`MovedFacts`: the demotion that is chosen by the two
  counters is the one from the region it is in).

The nested loops are folds; they are reasoned about with one lemma for each
(`SortedFold`, `PromotedFold`, `VisitedFold`, `DeactivatedFold`), over a family of
sets that a step maps from one to the next.  TLC checked `IInv` as an invariant on the instances
of the runs of this module.  The module extends
`BellmanEquationsProofs` for its lemmas on finite sets and numbers; what that one
assumes of V* is not cited.

### The quotient system and FRET

`FRETProofs`: `TypeCorrect`, `NoSingleTrap`, `TrapsAreConnected` and
`ExtractedPolicyCovers`, for every MDP, heuristic and tolerance, for both greedy
graphs, any number of rounds, and whether the timer expires or not.  They need
nothing of V*.  The invariant (`IInv`, from which `Invariant` gives
`Spec => []IInv`) has three layers.

* *The view* (`QuotientOK`): `QuotientConsistent` is not inductive by itself.
  `build_quotient` concatenates the member lists of what it merges, so it needs that
  no member is in two lists or twice in one (`Distinct`, `QuotientShape`), that only
  representatives are merged (or the lists of others would be lost), and that the
  new representative is first in its own list, which becomes the first of the new
  one.  `SearchOK` and `PolicyOK` say that the stored information of
  representatives fits: an action stored for a representative is an outer action
  of it that leaves it, also after other traps were collapsed.
* *Traps* (`TrapsClosed`): the inner actions of a quotient do not leave it
  (`NonSource`) and connect it (`Connects`: no proper subset can be entered only
  from itself).  Merging keeps this because the entries of a leaf component are
  closed and connected *as quotients*, and each of them is connected inside.
  `Connects` is what the backward search needs: it reaches every member from every
  exit in fewer steps than there are states (`TrapsAreConnected`).
* *The search for traps*: `StackOK` and `SnapshotShape` tie the two stacks and the
  two numbers of a state to a graph over positions (`Snapshot`), for which
  `GraphOK` is proved once, by the five ways the graph can change
  (push, a successor on the stack, another successor, a component that is
  incomplete, one that is complete).  `LowReason` says that a lowlink is reached by
  a path; with it everything on the stack above a root reaches the root, and the
  component is connected.  `LeafReason` says what an `is_leaf` that is still true
  vouches for: every successor of every state of the segment is on the stack above
  the root or the next one to look at.  So a leaf component is closed.

Two hazards are settled by `StackOK`.  `collapse` replaces IDs while the
search still holds some: a successor set of a frame may contain a state that
is not a representative any more.  It is always one of a closed component
(`t \in Representatives \/ tarjan[t].lowlink # 0`), so it is never pushed, and a
lowlink read for it is that of the closed component.  And the states on the stack
are never those that are collapsed: the component is cut off the stack in the same
step.  `NoSingleTrap` is the assertion of `find_and_remove_traps` that a
component to be collapsed has more than one state: a state on the stack has a
successor other than itself, which in a leaf component is on the stack too.

`ExtractedPolicyCovers` adds `ExtractionOK`: a visited quotient that has an action
has its decisions (`DecidedAt`) or is in the queue, and nothing else has any.  That
a quotient is not decided a second time, with another exit, is what the visited set
is for.  `LeadsTo` is what the backward search achieves: no set of members without
the exit is closed under the decisions, so the policy does not stay in the trap for
ever.  TLC checked `IInv` and the four statements on the instances of the run `fret`,
where traps of more than two members are collapsed, merged and extracted from.

## 7. What is only model-checked

`Optimal` and the values of `ClosedOptimal` for single values in MDPs with
cycles, where uniqueness of the solution would have to be proved (section 6).

Of FRET and the quotient system: the values.  That the inner actions of a trap
cost nothing, that its members have one optimal value and that the stored one does
not exceed it (the second half of `CollapsedAreTraps`) needs that a closed,
connected set of converged states has one value, an argument about weighted means
that is false when quotients are rounded, and the first of the three is false for
the value graph (the run `fret_value_graph`).  `PolicyOptimal` rests on it.

Trap-aware topological value iteration: `CountersAgree`, `NoTrapLeft` and
`ClosedOptimal`.  The first relates counters to the MDP, not to flags, and would
need an account of which transitions were merged; the second that the second search
finds every end component of cost zero, and the third the values of the fixpoint.

Trap-aware LRTDP: its quotient changes by the same `build_quotient`, so the
lemmas about it in `FRETProofs` apply, but its trial and its check have not been
proved about.  AO* (its exhaustive variant is).  `Termination`, `InitialSolved`: liveness is out of
the reach of the prover.

## 8. Plan

Done: the base, depth-first heuristic search and LRTDP with their proofs, AO*,
exhaustive AO*, topological value iteration, its trap-aware variant, the quotient
system, FRET and trap-aware LRTDP.

What would be next, in this order:

1. Proofs: the types of trap-aware LRTDP, on the lemmas about `build_quotient`;
   `CountersAgree` and `NoTrapLeft` of trap-aware topological value iteration.
2. The `compute_policy` of the base class, and the driver's use of it.
3. Qualitative reachability against its definition, on `SolvabilityPartition`.
4. The `Distribution` class: sortedness under insertion and removal.
5. Exhaustive depth-first search.
6. The transition cache of the task state space; the refinement loop of CEGAR;
   labels of factored transition systems.

## 9. Not modelled, and why

* Trap-aware depth-first heuristic search: when `initialize` backs up a state it
  takes the successors from `successor_dist_` (`trap_aware_dfhs_impl.h:312`), a buffer
  that only its other branch fills and that is empty there, so a state that is
  expanded has no successors and the last element of an empty vector is read.
  There is no behaviour to check beyond that.
* End components and interval iteration: `end_component_decomposition_impl.h` uses
  a member that does not exist (`stk_info.state_id`), in a template that nothing
  else modelled here instantiates; interval iteration needs it, and is the only
  caller of `build_new_quotient`.
* Trap-aware LRTDP and FRET with intervals; the iterators over the states of a quotient.
* Acyclic value iteration: what topological value iteration does on components of
  one state.  Exhaustive depth-first search: see the plan.
* Linear programs: real arithmetic in an external solver.
* The construction of abstractions and heuristics: a heuristic is a constant
  here, for what the searches need is that it is admissible.
* Task parsing, the translator and the command line: no state that interacts with
  a search.  Output.
* The driver; it reads the decision of the initial state without a test
  (`mdp_solver.cc:177`), and there is none in a goal or a dead end.
* A second `solve` on an object abandoned by the timer: the driver discards the
  object.
