------------------ MODULE DepthFirstHeuristicSearchProofs ------------------
(***************************************************************************)
(* Proofs about DepthFirstHeuristicSearch.  First its control: its types,  *)
(* StackDiscipline, LabelsClosed and ScheduledClosed are invariants, for   *)
(* every MDP, every heuristic and every configuration.                     *)
(*                                                                         *)
(* Then its values.  Its bounds are bounds: for every MDP whose optimal    *)
(* values are known, every admissible heuristic and every parameter        *)
(* combination, at every step and after a timeout. If the heuristic is     *)
(* consistent they only ever tighten.  And the searches implement          *)
(* Find-and-Revise: they stop only with a solution, if labels are given    *)
(* only to states backed up on the way out, with intervals or a consistent *)
(* heuristic, and without a tolerance unless with intervals.               *)
(***************************************************************************)
EXTENDS DFHSCorrectness, HeuristicSearchBaseProofs

-----------------------------------------------------------------------------
(* The inductive invariant.                                                *)

Exploring == {"initialize", "push_successor", "advance", "backtrack"}

(* There are no indices outside the exploration; the bottom frame is the   *)
(* bottom of the Tarjan stack, and a frame that was just pushed is as its  *)
(* constructor left it.                                                    *)
FrameShape ==
  /\ pc \notin Exploring => \A s \in State : stack_index[s] = New
  /\ pc \in Exploring =>
       /\ stack_index[dfs_stack[1].state] = 0
       /\ pc = "initialize" => Top.lowlink = stack_index[Top.state]
       /\ pc \in {"initialize", "backtrack"} => Top.successors = {}

(* The states on the stack are initialised, and expanded once the search   *)
(* has been through initialize; only the top one may be solved, and it is  *)
(* a component of its own then.                                            *)
FrameStates ==
  pc \in Exploring =>
    /\ \A s \in State : OnStack(s) =>
         /\ flag[s] # "uninitialized"
         /\ flag[s] = "fringe" => s = Top.state /\ pc = "initialize"
         /\ s \in solved => /\ s = Top.state
                            /\ pc \in {"initialize", "backtrack"}
                            /\ Top.lowlink = stack_index[s]
    /\ \A i \in 1 .. Len(dfs_stack) :
         /\ dfs_stack[i].successors \subseteq PolicySuccessors(dfs_stack[i].state)
         /\ i < Len(dfs_stack) \/ pc \in {"push_successor", "advance"} =>
              flag[dfs_stack[i].state] = "initialized"

(* The part of the Tarjan stack that belongs to frame i.                   *)
Segment(i) ==
  {s \in State :
     /\ OnStack(s)
     /\ stack_index[dfs_stack[i].state] <= stack_index[s]
     /\ i < Len(dfs_stack) =>
          stack_index[s] < stack_index[dfs_stack[i + 1].state]}

(* A successor that needs no more attention ...                            *)
Settles(t) ==
  \/ IsSolved(t)
  \/ ~config.label_solved /\ stack_index[t] = Closed

(* ... one accounted for by the lowlink of frame i ...                     *)
Linked(i, t) ==
  /\ OnStack(t)
  /\ dfs_stack[i].lowlink <= stack_index[t]
  /\ i < Len(dfs_stack) => stack_index[t] < stack_index[dfs_stack[i + 1].state]

(* ... and one the frame has yet to look at or is looking at.              *)
Pending(i, s, t) ==
  /\ s = dfs_stack[i].state
  /\ \/ t \in dfs_stack[i].successors
     \/ i < Len(dfs_stack) /\ t = dfs_stack[i + 1].state
     \/ i = Len(dfs_stack) /\ pc = "initialize"

(* A frame that counts as solved has seen to all policy successors of the  *)
(* states it stands for.                                                   *)
FrameSuccessors ==
  pc \in Exploring =>
    \A i \in 1 .. Len(dfs_stack) : dfs_stack[i].solved =>
      \A s \in Segment(i) : \A t \in PolicySuccessors(s) :
        Settles(t) \/ Linked(i, t) \/ Pending(i, s, t)

(* The search either labels states or schedules them.                      *)
LabelMode ==
  /\ config.label_solved => visited_states = {} /\ pc # "vi_step"
  /\ ~config.label_solved => solved = {}

(* States are expanded before they are labelled or scheduled.              *)
WorkExpanded ==
  /\ \A s \in visited_states \union solved : flag[s] = "initialized"
  /\ pc = "vi_step" => vi.pending \subseteq visited_states
  /\ pc \in {"solve", "policy_exploration"} => visited_states = {}

(* The states scheduled by an exploration are closed, and so are their     *)
(* successors; without labels all closed states are scheduled or final     *)
(* unless some frame already failed.                                       *)
Scheduled ==
  pc \in Exploring =>
    /\ \A s \in visited_states :
         /\ stack_index[s] = Closed
         /\ \A t \in PolicySuccessors(s) : Settles(t)
    /\ ~config.label_solved =>
         \/ \E i \in 1 .. Len(dfs_stack) : ~dfs_stack[i].solved
         \/ \A s \in State : stack_index[s] = Closed =>
              s \in visited_states \/ IsGoalOrTerminal(s)

IInv ==
  /\ TypeOK
  /\ PolicyApplicable
  /\ InfoOK
  /\ pc # "solve" => flag[initial_state] # "uninitialized"
  /\ StackDiscipline
  /\ FrameShape
  /\ FrameStates
  /\ FrameSuccessors
  /\ LabelMode
  /\ WorkExpanded
  /\ Scheduled
  /\ LabelsClosed
  /\ ScheduledClosed

-----------------------------------------------------------------------------
(* Stacks.                                                                 *)

(* Replacing the top of a stack changes nothing below it.                  *)
LEMMA SetTopFacts ==
  ASSUME dfs_stack \in Seq(Frame), dfs_stack # <<>>, NEW f \in Frame
  PROVE  /\ SetTop(f) \in Seq(Frame)
         /\ Len(SetTop(f)) = Len(dfs_stack)
         /\ SetTop(f)[Len(dfs_stack)] = f
         /\ \A i \in 1 .. Len(dfs_stack) :
              i # Len(dfs_stack) => SetTop(f)[i] = dfs_stack[i]
BY DEF SetTop

(* Pushing on a stack changes nothing below the new top.                   *)
LEMMA PushFacts ==
  ASSUME NEW S, NEW st \in Seq(S), NEW f \in S
  PROVE  /\ Append(st, f) \in Seq(S)
         /\ Len(Append(st, f)) = Len(st) + 1
         /\ Append(st, f)[Len(st) + 1] = f
         /\ \A i \in 1 .. Len(st) : Append(st, f)[i] = st[i]
OBVIOUS

(* A prefix of a stack is a stack with the same entries.                   *)
LEMMA PopFacts ==
  ASSUME NEW S, NEW st \in Seq(S), NEW n \in 0 .. Len(st)
  PROVE  /\ SubSeq(st, 1, n) \in Seq(S)
         /\ Len(SubSeq(st, 1, n)) = n
         /\ \A i \in 1 .. n : SubSeq(st, 1, n)[i] = st[i]
OBVIOUS

(* The smaller of two lowlinks.                                            *)
LEMMA MinOfTwo ==
  ASSUME NEW x \in Nat, NEW y \in Nat
  PROVE  /\ Min({x, y}) \in Nat
         /\ Min({x, y}) <= x
         /\ Min({x, y}) <= y
         /\ Min({x, y}) \in {x, y}
<1>1. \E z \in {x, y} : \A w \in {x, y} : w >= z
  <2>1. CASE x <= y
    BY <2>1
  <2>2. CASE y <= x
    BY <2>2
  <2> QED BY <2>1, <2>2
<1> QED BY <1>1 DEF Min

(* The frame that push constructs.                                         *)
LEMMA NewFrameType ==
  ASSUME NEW s \in State, tarjan_stack \in Seq(State)
  PROVE  /\ NewFrame(s) \in Frame
         /\ NewFrame(s).state = s
         /\ NewFrame(s).lowlink = Len(tarjan_stack)
         /\ NewFrame(s).successors = {}
         /\ NewFrame(s).solved = TRUE
BY DEF NewFrame, Frame

(* During the exploration the top frame exists, its state is on the stack  *)
(* and its lowlink is not above it.                                        *)
LEMMA TopType ==
  ASSUME TypeOK, StackDiscipline, pc \in Exploring
  PROVE  /\ Len(dfs_stack) \in Nat \ {0}
         /\ Top \in Frame
         /\ Top = dfs_stack[Len(dfs_stack)]
         /\ Top.state \in State
         /\ stack_index[Top.state] \in Nat
         /\ Top.lowlink <= stack_index[Top.state]
<1>1. dfs_stack \in Seq(Frame) /\ dfs_stack # <<>>
  BY DEF TypeOK, StackDiscipline, Exploring
<1>2. Len(dfs_stack) \in Nat \ {0} /\ Top \in Frame /\ Top = dfs_stack[Len(dfs_stack)]
  BY <1>1 DEF Top
<1>3. Len(dfs_stack) \in 1 .. Len(dfs_stack)
  BY <1>2
<1>4. OnStack(Top.state) /\ Top.lowlink <= stack_index[Top.state]
  BY <1>2, <1>3 DEF StackDiscipline, Exploring
<1>5. Top.state \in State
  BY <1>2 DEF Frame
<1>6. stack_index[Top.state] \in Nat
  BY <1>4, <1>5 DEF TypeOK, OnStack
<1> QED BY <1>2, <1>4, <1>5, <1>6

-----------------------------------------------------------------------------

(* The inductive invariant holds initially.                                *)
THEOREM InitIInv == Init => IInv
<1> SUFFICES ASSUME Init PROVE IInv
  OBVIOUS
<1> USE DEF Init, BaseInit
<1>1. TypeOK
  <2>1. BaseTypeOK
    BY DEF BaseTypeOK, Flags, Bounds, Point
  <2> QED BY <2>1 DEF TypeOK, PCs, FirstSweep
<1>2. PolicyApplicable
  BY DEF PolicyApplicable
<1>3. InfoOK
  BY DEF InfoOK
<1>4. StackDiscipline
  BY DEF StackDiscipline, OnStack
<1>5. FrameShape /\ FrameStates /\ FrameSuccessors
  BY DEF FrameShape, FrameStates, FrameSuccessors, Exploring
<1>6. LabelMode /\ WorkExpanded /\ Scheduled
  BY DEF LabelMode, WorkExpanded, Scheduled, Exploring
<1>7. LabelsClosed /\ ScheduledClosed
  BY DEF LabelsClosed, ScheduledClosed
<1> QED BY <1>1, <1>2, <1>3, <1>4, <1>5, <1>6, <1>7 DEF IInv

(* The frame conditions on the base variables, for the actions that leave  *)
(* them alone.                                                             *)
LEMMA BaseSame ==
  ASSUME UNCHANGED base_vars
  PROVE  /\ BaseTypeOK => BaseTypeOK'
         /\ PolicyApplicable => PolicyApplicable'
         /\ InfoOK => InfoOK'
         /\ \A s : PolicySuccessors(s)' = PolicySuccessors(s)
         /\ \A s : IsGoalOrTerminal(s)' = IsGoalOrTerminal(s)
BY DEF base_vars, BaseTypeOK, PolicyApplicable, InfoOK, PolicySuccessors,
       IsGoalOrTerminal

(* Evaluating the initial state preserves the invariant.                   *)
LEMMA SolveStep ==
  ASSUME IInv, Solve
  PROVE  IInv'
<1> USE DEF Solve
<1>0. initial_state \in State
  BY SearchAssumption DEF IInv, TypeOK
<1>1. /\ config' = config /\ policy' = policy
      /\ flag' \in [State -> Flags] /\ value' \in [State -> Bounds]
      /\ \A s \in State : s # initial_state => flag'[s] = flag[s]
      /\ flag'[initial_state] # "uninitialized"
      /\ flag[initial_state] # "uninitialized" =>
           flag'[initial_state] = flag[initial_state]
      /\ flag[initial_state] = "uninitialized" =>
           flag'[initial_state] # "initialized"
  <2>1. BaseTypeOK
    BY DEF IInv, TypeOK
  <2>2. CASE flag[initial_state] = "uninitialized"
    <3>1. /\ InitialValue(initial_state) \in Bounds
          /\ InitialFlag(initial_state) \in {"goal", "terminal", "fringe"}
          /\ InitialFlag(initial_state) \in Flags
      BY <1>0, InitialType DEF InitialFlag
    <3>2. /\ flag' = [flag EXCEPT ![initial_state] = InitialFlag(initial_state)]
          /\ value' = [value EXCEPT ![initial_state] = InitialValue(initial_state)]
          /\ config' = config /\ policy' = policy
      BY <2>2 DEF InitializeInitialState
    <3> QED BY <1>0, <2>1, <2>2, <3>1, <3>2 DEF BaseTypeOK
  <2>3. CASE flag[initial_state] # "uninitialized"
    BY <2>1, <2>3 DEF InitializeInitialState, base_vars, BaseTypeOK
  <2> QED BY <2>2, <2>3
<1>2. TypeOK'
  BY <1>1 DEF IInv, TypeOK, BaseTypeOK, dfs_vars, PCs
<1>3. PolicyApplicable'
  BY <1>1 DEF IInv, PolicyApplicable
<1>4. InfoOK'
  <2>1. \A s \in State : Neighbours(s) \subseteq State
    BY TailsType DEF Neighbours
  <2> QED BY <1>0, <1>1, <2>1 DEF IInv, InfoOK
<1>5. StackDiscipline' /\ FrameShape' /\ FrameStates' /\ FrameSuccessors'
  BY DEF IInv, StackDiscipline, FrameShape, FrameStates, FrameSuccessors,
         Exploring, dfs_vars, OnStack
<1>6. LabelMode' /\ WorkExpanded' /\ Scheduled'
  <2>1. \A s \in State : flag[s] = "initialized" => flag'[s] = "initialized"
    BY <1>0, <1>1
  <2>2. visited_states \subseteq State /\ solved \subseteq State
    BY DEF IInv, TypeOK
  <2> QED BY <1>1, <2>1, <2>2
          DEF IInv, LabelMode, WorkExpanded, Scheduled, Exploring
<1>7. LabelsClosed'
  <2>1. \A s \in solved : \A t \in PolicySuccessors(s) :
           IsGoalOrTerminal(t) => IsGoalOrTerminal(t)'
    <3>1. solved \subseteq State
      BY DEF IInv, TypeOK
    <3>2. \A s \in State : PolicySuccessors(s) \subseteq State
      BY PolicySuccessorsType DEF IInv
    <3>3. \A t \in State : IsGoalOrTerminal(t) => IsGoalOrTerminal(t)'
      BY <1>0, <1>1 DEF IsGoalOrTerminal
    <3> QED BY <3>1, <3>2, <3>3
  <2>2. \A s : PolicySuccessors(s)' = PolicySuccessors(s)
    BY <1>1 DEF PolicySuccessors
  <2>3. solved' = solved
    OBVIOUS
  <2> HIDE DEF Solve
  <2> QED BY <2>1, <2>2, <2>3 DEF IInv, LabelsClosed, IsSolved
<1>8. ScheduledClosed'
  BY DEF ScheduledClosed
<1> QED BY <1>1, <1>2, <1>3, <1>4, <1>5, <1>6, <1>7, <1>8 DEF IInv

(* Starting an exploration preserves the invariant.                        *)
LEMMA PolicyExplorationStep ==
  ASSUME IInv, PolicyExploration
  PROVE  IInv'
<1> USE DEF PolicyExploration
<1>0. /\ initial_state \in State
      /\ dfs_stack = <<>> /\ tarjan_stack = <<>> /\ visited_states = {}
      /\ pc = "policy_exploration" /\ pc' = "initialize"
      /\ stack_index \in [State -> Nat \union {New, Closed}]
      /\ flag[initial_state] # "uninitialized"
  BY SearchAssumption
     DEF IInv, TypeOK, StackDiscipline, WorkExpanded
<1>1. \A s \in State : ~OnStack(s)
  BY <1>0 DEF IInv, StackDiscipline, OnStack
<1>2. /\ dfs_stack' \in Seq(Frame)
      /\ Len(dfs_stack') = 1
      /\ dfs_stack'[1] \in Frame
      /\ dfs_stack'[1].state = initial_state
      /\ dfs_stack'[1].lowlink = 0
      /\ dfs_stack'[1].successors = {}
      /\ dfs_stack'[1].solved = TRUE
      /\ dfs_stack' # <<>>
      /\ Top' = dfs_stack'[1]
  <2>1. dfs_stack' = Append(<<>>, NewFrame(initial_state))
    BY DEF Push
  <2>2. /\ NewFrame(initial_state) \in Frame
        /\ NewFrame(initial_state).state = initial_state
        /\ NewFrame(initial_state).lowlink = 0
        /\ NewFrame(initial_state).successors = {}
        /\ NewFrame(initial_state).solved = TRUE
    BY <1>0, NewFrameType DEF IInv, TypeOK
  <2>3. /\ dfs_stack' \in Seq(Frame) /\ Len(dfs_stack') = 1
        /\ dfs_stack'[1] = NewFrame(initial_state)
        /\ dfs_stack' # <<>>
    BY <2>1, <2>2
  <2>4. Top' = dfs_stack'[1]
    BY <2>3 DEF Top
  <2> QED BY <2>2, <2>3, <2>4
<1>3. /\ tarjan_stack' = <<initial_state>>
      /\ stack_index' = [stack_index EXCEPT ![initial_state] = 0]
  BY <1>0 DEF Push
<1>4. \A s \in State : s # initial_state => stack_index'[s] = stack_index[s]
  BY <1>0, <1>3
<1>5. stack_index'[initial_state] = 0
  BY <1>0, <1>3
<1>6. \A s \in State : OnStack(s)' <=> s = initial_state
  BY <1>1, <1>4, <1>5 DEF OnStack, New, Closed
<1>7. TypeOK' /\ PolicyApplicable' /\ InfoOK'
  <2>1. stack_index' \in [State -> Nat \union {New, Closed}]
    BY <1>0, <1>3
  <2> QED BY <1>0, <1>2, <1>3, <2>1, BaseSame DEF IInv, TypeOK, PCs
<1>8. StackDiscipline' /\ FrameShape'
  BY <1>0, <1>2, <1>3, <1>5, <1>6 DEF StackDiscipline, FrameShape, Exploring
<1>9. FrameStates'
  BY <1>0, <1>2, <1>5, <1>6
     DEF FrameStates, Exploring, base_vars, Top
<1>10. FrameSuccessors'
  BY <1>0, <1>2, <1>5, <1>6
     DEF FrameSuccessors, Segment, Pending, Exploring
<1>11. LabelMode' /\ WorkExpanded' /\ Scheduled'
  <2>1. \A s \in State : stack_index'[s] # Closed
    BY <1>0, <1>4, <1>5 DEF IInv, FrameShape, Exploring, New, Closed
  <2>2. /\ config' = config /\ solved' = solved /\ visited_states' = {}
        /\ flag' = flag
    BY <1>0 DEF base_vars
  <2> HIDE DEF PolicyExploration
  <2> QED BY <1>0, <2>1, <2>2 DEF IInv, LabelMode, WorkExpanded, Scheduled
<1>12. LabelsClosed'
  BY BaseSame DEF IInv, LabelsClosed, IsSolved
<1>13. ScheduledClosed'
  BY <1>0 DEF ScheduledClosed
<1> QED BY <1>0, <1>7, <1>8, <1>9, <1>10, <1>11, <1>12, <1>13 DEF IInv, base_vars

(* What the actions share that leave the stacks alone.                     *)
LEMMA StacksSame ==
  ASSUME IInv, UNCHANGED dfs_vars, pc \in Exploring, pc' \in Exploring
  PROVE  /\ StackDiscipline'
         /\ Top' = Top
         /\ \A s : OnStack(s)' <=> OnStack(s)
         /\ \A i \in 1 .. Len(dfs_stack) : Segment(i)' = Segment(i)
         /\ \A i, t : Linked(i, t)' <=> Linked(i, t)
BY DEF IInv, StackDiscipline, dfs_vars, Exploring, Top, OnStack, Segment, Linked

(* Turning back at a solved state preserves the invariant: its successors  *)
(* are settled by LabelsClosed.                                            *)
LEMMA InitializeSolvedStep ==
  ASSUME IInv, InitializeSolved
  PROVE  IInv'
<1> USE DEF InitializeSolved
<1>1. /\ pc = "initialize" /\ pc' = "backtrack"
      /\ pc \in Exploring /\ pc' \in Exploring
      /\ UNCHANGED <<base_vars, initial_state, solved, dfs_vars, visited_states, vi>>
      /\ UNCHANGED <<config, flag, dfs_stack, stack_index>>
      /\ IsSolved(Top.state)
  BY DEF Exploring, base_vars, dfs_vars
<1> HIDE DEF InitializeSolved
<1>2. /\ StackDiscipline'
      /\ Top' = Top
      /\ \A s : OnStack(s)' <=> OnStack(s)
      /\ \A i \in 1 .. Len(dfs_stack) : Segment(i)' = Segment(i)
      /\ \A i, t : Linked(i, t)' <=> Linked(i, t)
  BY <1>1, StacksSame
<1>3. TypeOK' /\ PolicyApplicable' /\ InfoOK'
  BY <1>1, BaseSame DEF IInv, TypeOK, PCs, dfs_vars
<1>4. FrameShape'
  BY <1>1, <1>2 DEF IInv, FrameShape
<1>5. FrameStates'
  <2>1. \A i \in 1 .. Len(dfs_stack) : PolicySuccessors(dfs_stack[i].state)'
                                        = PolicySuccessors(dfs_stack[i].state)
    BY <1>1, BaseSame
  <2>2. /\ Top.state \in State
        /\ Top.state \in solved => flag[Top.state] = "initialized"
        /\ Top.state \notin solved => flag[Top.state] \in {"goal", "terminal"}
    BY <1>1, TopType DEF IInv, WorkExpanded, IsSolved, IsGoalOrTerminal
  <2> QED BY <1>1, <1>2, <2>1, <2>2 DEF IInv, FrameStates
<1>6. FrameSuccessors'
  <2>1. \A s : PolicySuccessors(s)' = PolicySuccessors(s)
    BY <1>1, BaseSame
  <2>2. \A t : Settles(t)' <=> Settles(t)
    BY <1>1, BaseSame DEF Settles, IsSolved
  <2>3. \A t \in PolicySuccessors(Top.state) : Settles(t)
    <3>1. CASE Top.state \in solved
      BY <3>1 DEF IInv, LabelsClosed, Settles
    <3>2. CASE IsGoalOrTerminal(Top.state)
      <4>1. policy[Top.state] = NoAction
        BY <3>2, <1>1, TopType DEF IInv, InfoOK, IsGoalOrTerminal
      <4> QED BY <4>1 DEF PolicySuccessors
    <3> QED BY <1>1, <3>1, <3>2 DEF IsSolved
  <2>4. \A i \in 1 .. Len(dfs_stack) : \A s, t :
          Pending(i, s, t) => \/ Pending(i, s, t)'
                              \/ i = Len(dfs_stack) /\ s = Top.state
    BY <1>1 DEF Pending, Top
  <2>5. /\ dfs_stack' = dfs_stack
        /\ \A s : Top.state' = Top.state
    BY <1>1, <1>2
  <2> QED BY <1>1, <1>2, <2>1, <2>2, <2>3, <2>4, <2>5 DEF IInv, FrameSuccessors
<1>7. LabelMode' /\ WorkExpanded' /\ Scheduled'
  BY <1>1, BaseSame DEF IInv, LabelMode, WorkExpanded, Scheduled, Settles, IsSolved
<1>8. LabelsClosed' /\ ScheduledClosed'
  BY <1>1, BaseSame DEF IInv, LabelsClosed, ScheduledClosed, IsSolved
<1> QED BY <1>1, <1>2, <1>3, <1>4, <1>5, <1>6, <1>7, <1>8 DEF IInv

(* The steps that only change the top frame, and backups of its state: the *)
(* invariant carries over if the new top frame f meets its obligations.    *)
LEMMA TopStep ==
  ASSUME IInv, pc \in Exploring, pc' \in Exploring \ {"initialize"},
         NEW f \in Frame, dfs_stack' = SetTop(f),
         NEW x \in State, x = Top.state, f.state = x,
         f.lowlink <= Top.lowlink, f.solved => Top.solved,
         f.successors \subseteq PolicySuccessors(x)',
         pc' = "backtrack" => f.successors = {},
         UNCHANGED <<config, initial_state, solved, tarjan_stack, stack_index,
                     visited_states, vi>>,
         BaseTypeOK', PolicyApplicable', InfoOK',
         x \notin solved,
         \A s \in State : s # x => policy'[s] = policy[s],
         \A s \in State : /\ flag[s] # "uninitialized" => flag'[s] # "uninitialized"
                          /\ flag[s] \in {"goal", "terminal", "initialized"} =>
                               flag'[s] = flag[s],
         flag'[x] # "fringe",
         pc' # "backtrack" => flag'[x] = "initialized",
         f.solved => \A t \in PolicySuccessors(x)' :
                        \/ Settles(t)'
                        \/ OnStack(t) /\ f.lowlink <= stack_index[t]
                        \/ t \in f.successors
  PROVE  IInv'
<1> DEFINE n == Len(dfs_stack)
<1>1. /\ n \in Nat \ {0} /\ Top \in Frame /\ Top = dfs_stack[n]
      /\ Top.state \in State /\ stack_index[Top.state] \in Nat
      /\ Top.lowlink <= stack_index[Top.state]
      /\ n \in 1 .. n
  BY TopType DEF IInv
<1>2. /\ dfs_stack' \in Seq(Frame)
      /\ Len(dfs_stack') = n
      /\ dfs_stack'[n] = f
      /\ \A i \in 1 .. n : i # n => dfs_stack'[i] = dfs_stack[i]
      /\ dfs_stack # <<>> /\ dfs_stack' # <<>>
  <2>1. dfs_stack \in Seq(Frame) /\ dfs_stack # <<>>
    BY DEF IInv, TypeOK, StackDiscipline, Exploring
  <2>2. /\ dfs_stack' \in Seq(Frame) /\ Len(dfs_stack') = n
        /\ dfs_stack'[n] = f
        /\ \A i \in 1 .. n : i # n => dfs_stack'[i] = dfs_stack[i]
    BY <2>1, SetTopFacts
  <2>3. dfs_stack' # <<>>
    BY <1>1, <2>2
  <2> QED BY <2>1, <2>2, <2>3
<1>3. Top' = f
  BY <1>2 DEF Top
<1>4. \A i \in 1 .. n : /\ dfs_stack[i] \in Frame
                        /\ dfs_stack'[i].state = dfs_stack[i].state
                        /\ dfs_stack'[i].lowlink <= dfs_stack[i].lowlink
                        /\ dfs_stack'[i].solved => dfs_stack[i].solved
  <2>1. \A i \in 1 .. n : dfs_stack[i] \in Frame
    BY DEF IInv, TypeOK
  <2> QED BY <1>1, <1>2, <2>1 DEF Frame
<1>5. \A s : OnStack(s)' <=> OnStack(s)
  BY DEF OnStack
<1>6. \A i \in 1 .. n : Segment(i)' = Segment(i)
  BY <1>2, <1>4, <1>5 DEF Segment
<1>7. TypeOK'
  BY <1>2 DEF IInv, TypeOK, PCs, Exploring
<1>8. StackDiscipline'
  <2>1. \A i \in 1 .. n : dfs_stack'[i].lowlink <= stack_index[dfs_stack[i].state]
    <3> SUFFICES ASSUME NEW i \in 1 .. n
                 PROVE  dfs_stack'[i].lowlink <= stack_index[dfs_stack[i].state]
      OBVIOUS
    <3>1. CASE i = n
      BY <1>1, <1>2, <3>1 DEF Frame
    <3>2. CASE i # n
      BY <1>2, <3>2 DEF IInv, StackDiscipline, Exploring
    <3> QED BY <3>1, <3>2
  <2> QED BY <1>2, <1>4, <1>5, <2>1 DEF IInv, StackDiscipline, Exploring
<1>9. FrameShape'
  BY <1>1, <1>2, <1>3, <1>4 DEF IInv, FrameShape, Exploring
<1>10. FrameStates'
  <2>1. \A s \in State : OnStack(s)' =>
          /\ flag'[s] # "uninitialized"
          /\ flag'[s] # "fringe"
          /\ s \notin solved
    <3>1. \A s \in State : flag[s] \in Flags
      BY DEF IInv, TypeOK, BaseTypeOK
    <3> QED BY <1>5, <3>1 DEF IInv, FrameStates, Flags
  <2>2. ASSUME NEW i \in 1 .. n
        PROVE  /\ dfs_stack'[i].successors
                    \subseteq PolicySuccessors(dfs_stack[i].state)'
               /\ i < n \/ pc' \in {"push_successor", "advance"} =>
                    flag'[dfs_stack'[i].state] = "initialized"
    <3>1. CASE i = n
      BY <1>1, <1>2, <3>1 DEF PolicySuccessors
    <3>2. CASE i # n
      <4>1. /\ dfs_stack'[i] = dfs_stack[i]
            /\ dfs_stack[i].state \in State
            /\ i < n
        BY <1>1, <1>2, <1>4, <3>2 DEF Frame
      <4>2. stack_index[dfs_stack[i].state] < stack_index[dfs_stack[n].state]
        BY <1>1, <4>1 DEF IInv, StackDiscipline, Exploring
      <4>3. dfs_stack[i].state # Top.state
        BY <1>1, <4>2
      <4>4. policy'[dfs_stack[i].state] = policy[dfs_stack[i].state]
        BY <4>1, <4>3
      <4>5. /\ dfs_stack[i].successors \subseteq PolicySuccessors(dfs_stack[i].state)
            /\ flag[dfs_stack[i].state] = "initialized"
        BY <4>1 DEF IInv, FrameStates
      <4> QED BY <4>1, <4>4, <4>5 DEF PolicySuccessors
    <3> QED BY <3>1, <3>2
  <2> QED BY <1>2, <2>1, <2>2 DEF FrameStates
<1>11. \A t \in State : Settles(t) => Settles(t)'
  BY DEF Settles, IsSolved, IsGoalOrTerminal
<1>12. \A s \in State : s # Top.state => PolicySuccessors(s)' = PolicySuccessors(s)
  BY DEF PolicySuccessors
<1>13. FrameSuccessors'
  <2> SUFFICES ASSUME NEW i \in 1 .. n, dfs_stack'[i].solved,
                      NEW s \in Segment(i), NEW t \in PolicySuccessors(s)'
               PROVE  Settles(t)' \/ Linked(i, t)' \/ Pending(i, s, t)'
    BY <1>2, <1>6 DEF FrameSuccessors
  <2>1. s \in State
    BY DEF Segment
  <2>2. CASE s = Top.state
    <3>1. i = n
      <4> SUFFICES ASSUME i < n PROVE FALSE
        BY <1>1
      <4>1. i + 1 \in 1 .. n
        BY <1>1
      <4>2. stack_index[Top.state] < stack_index[dfs_stack[i + 1].state]
        BY <2>2 DEF Segment
      <4>3. i + 1 = n \/ stack_index[dfs_stack[i + 1].state] < stack_index[dfs_stack[n].state]
        BY <1>1, <4>1 DEF IInv, StackDiscipline, Exploring
      <4>4. stack_index[dfs_stack[i + 1].state] \in Int
        <5>1. dfs_stack[i + 1].state \in State
          BY <1>4, <4>1 DEF Frame
        <5> QED BY <5>1, SMTT(30) DEF IInv, TypeOK, New, Closed
      <4> QED BY <1>1, <4>2, <4>3, <4>4
    <3>2. Linked(i, t)' <=> OnStack(t) /\ f.lowlink <= stack_index[t]
      BY <1>1, <1>2, <1>5, <3>1 DEF Linked
    <3>3. t \in f.successors => Pending(i, s, t)'
      BY <1>1, <1>2, <2>2, <3>1 DEF Pending
    <3> QED BY <1>2, <2>2, <3>1, <3>2, <3>3
  <2>3. CASE s # Top.state
    <3>1. t \in PolicySuccessors(s) /\ t \in State
      BY <1>12, <2>1, <2>3, PolicySuccessorsType DEF IInv
    <3>2. Settles(t) \/ Linked(i, t) \/ Pending(i, s, t)
      BY <1>4, <3>1 DEF IInv, FrameSuccessors
    <3>3. Linked(i, t) => Linked(i, t)'
      <4>1. stack_index[t] \in Int
        BY <3>1 DEF IInv, TypeOK, New, Closed
      <4>2. dfs_stack'[i] \in Frame /\ dfs_stack[i] \in Frame
        BY <1>2, <1>4
      <4>3. /\ dfs_stack'[i].lowlink \in Int /\ dfs_stack[i].lowlink \in Int
            /\ dfs_stack'[i].lowlink <= dfs_stack[i].lowlink
        BY <1>4, <4>2 DEF Frame
      <4>4. i < n => dfs_stack'[i + 1].state = dfs_stack[i + 1].state
        BY <1>1, <1>4
      <4> QED BY <1>2, <1>5, <4>1, <4>3, <4>4 DEF Linked
    <3>4. Pending(i, s, t) => Pending(i, s, t)'
      <4>1. ASSUME Pending(i, s, t) PROVE i # n
        BY <1>1, <2>3, <4>1 DEF Pending
      <4>2. ASSUME i # n
            PROVE  /\ dfs_stack'[i] = dfs_stack[i]
                   /\ dfs_stack'[i + 1].state = dfs_stack[i + 1].state
        <5>1. i + 1 \in 1 .. n
          BY <1>1, <4>2
        <5> QED BY <1>2, <1>4, <4>2, <5>1
      <4> QED BY <1>2, <4>1, <4>2 DEF Pending
    <3> QED BY <1>11, <3>1, <3>2, <3>3, <3>4
  <2> QED BY <2>2, <2>3
<1>14. LabelMode' /\ WorkExpanded'
  <2>1. solved \subseteq State /\ visited_states \subseteq State
    BY DEF IInv, TypeOK
  <2> QED BY <2>1 DEF IInv, LabelMode, WorkExpanded, Exploring
<1>15. Scheduled'
  <2>1. ASSUME NEW s \in visited_states
        PROVE  /\ stack_index[s] = Closed
               /\ \A t \in PolicySuccessors(s)' : Settles(t)'
    <3>1. s \in State /\ stack_index[s] = Closed
          /\ \A t \in PolicySuccessors(s) : Settles(t)
      BY DEF IInv, TypeOK, Scheduled
    <3>2. s # Top.state
      BY <1>1, <3>1 DEF Closed
    <3>3. PolicySuccessors(s) \subseteq State
      BY <3>1, PolicySuccessorsType DEF IInv
    <3> QED BY <1>11, <1>12, <3>1, <3>2, <3>3
  <2>2. (\E i \in 1 .. n : ~dfs_stack[i].solved)
          => \E i \in 1 .. n : ~dfs_stack'[i].solved
    BY <1>4
  <2>3. \A s \in State : IsGoalOrTerminal(s) => IsGoalOrTerminal(s)'
    BY DEF IsGoalOrTerminal
  <2> QED BY <1>2, <2>1, <2>2, <2>3 DEF IInv, Scheduled
<1>16. LabelsClosed'
  <2> SUFFICES ASSUME NEW s \in solved, NEW t \in PolicySuccessors(s)'
               PROVE  IsSolved(t)'
    BY DEF LabelsClosed
  <2>1. s \in State /\ s # Top.state
    BY DEF IInv, TypeOK
  <2>2. t \in PolicySuccessors(s) /\ t \in State
    BY <1>12, <2>1, PolicySuccessorsType DEF IInv
  <2>3. IsSolved(t)
    BY <2>2 DEF IInv, LabelsClosed
  <2> QED BY <2>2, <2>3 DEF IsSolved, IsGoalOrTerminal
<1>17. ScheduledClosed'
  BY DEF ScheduledClosed, Exploring
<1>18. pc' # "solve" => flag'[initial_state'] # "uninitialized"
  <2>1. initial_state \in State /\ flag[initial_state] # "uninitialized"
    BY SearchAssumption DEF IInv, TypeOK, Exploring
  <2> QED BY <2>1
<1> QED BY <1>7, <1>8, <1>9, <1>10, <1>13, <1>14, <1>15, <1>16, <1>17, <1>18
        DEF IInv

(* What a backup of the state of the top frame establishes for TopStep.    *)
LEMMA TopBackup ==
  ASSUME IInv, pc \in Exploring, NEW x \in State, x = Top.state, ~IsSolved(x),
         Backup(x), UNCHANGED config
  PROVE  /\ BaseTypeOK' /\ PolicyApplicable' /\ InfoOK'
         /\ \A s \in State : s # x => policy'[s] = policy[s]
         /\ \A s \in State : /\ flag[s] # "uninitialized" => flag'[s] # "uninitialized"
                             /\ flag[s] \in {"goal", "terminal", "initialized"} =>
                                  flag'[s] = flag[s]
         /\ flag'[x] # "fringe"
         /\ policy'[x] # NoAction => flag'[x] = "initialized"
         /\ flag[x] = "initialized" => flag'[x] = "initialized"
<1>1. OnStack(x)
  BY TopType DEF IInv, OnStack, New, Closed
<1>2. flag[x] \in Flags /\ flag[x] # "uninitialized"
  BY <1>1 DEF IInv, FrameStates, TypeOK, BaseTypeOK
<1>3. flag[x] \in {"fringe", "initialized"}
  BY <1>2 DEF Flags, IsSolved, IsGoalOrTerminal
<1>4. BaseTypeOK /\ PolicyApplicable /\ InfoOK
  BY DEF IInv, TypeOK
<1>5. BaseTypeOK' /\ PolicyApplicable'
      /\ \A t \in State \ {x} : policy'[t] = policy[t]
  BY <1>4, BackupType
<1>6. /\ InfoOK'
      /\ \A t \in State : t # x /\ flag[t] # "uninitialized" => flag'[t] = flag[t]
      /\ flag'[x] \in {"initialized", "terminal"}
      /\ flag[x] = "initialized" => flag'[x] = "initialized"
      /\ policy'[x] # NoAction => flag'[x] = "initialized"
  BY <1>3, <1>4, BackupInfo
<1> QED BY <1>3, <1>5, <1>6

(* The same for the steps without a backup.                                *)
LEMMA TopSame ==
  ASSUME IInv, pc \in Exploring, UNCHANGED base_vars
  PROVE  /\ BaseTypeOK' /\ PolicyApplicable' /\ InfoOK'
         /\ policy' = policy /\ flag' = flag /\ config' = config
         /\ \A s : PolicySuccessors(s)' = PolicySuccessors(s)
         /\ \A t : IsGoalOrTerminal(t)' <=> IsGoalOrTerminal(t)
BY BaseSame DEF base_vars, IInv, TypeOK

(* At advance and push_successor the top frame stands for an expanded,     *)
(* unsolved state whose successors are accounted for.                      *)
LEMMA TopActive ==
  ASSUME IInv, pc \in {"push_successor", "advance"}
  PROVE  /\ pc \in Exploring
         /\ flag[Top.state] = "initialized"
         /\ Top.state \notin solved
         /\ ~IsSolved(Top.state)
         /\ Top.successors \subseteq PolicySuccessors(Top.state)
         /\ Top.solved => \A t \in PolicySuccessors(Top.state) :
              \/ Settles(t)
              \/ OnStack(t) /\ Top.lowlink <= stack_index[t]
              \/ t \in Top.successors
<1> DEFINE n == Len(dfs_stack)
<1>1. pc \in Exploring
  BY DEF Exploring
<1>2. /\ n \in 1 .. n /\ Top = dfs_stack[n]
      /\ Top.state \in State /\ stack_index[Top.state] \in Nat
  BY <1>1, TopType DEF IInv
<1>3. OnStack(Top.state)
  BY <1>2 DEF OnStack, New, Closed
<1>4. Top.state \notin solved
  BY <1>1, <1>2, <1>3 DEF IInv, FrameStates
<1>5. /\ flag[Top.state] = "initialized"
      /\ Top.successors \subseteq PolicySuccessors(Top.state)
  BY <1>1, <1>2 DEF IInv, FrameStates
<1>6. Top.state \in Segment(n)
  BY <1>2, <1>3 DEF Segment
<1>7. ASSUME Top.solved, NEW t \in PolicySuccessors(Top.state)
      PROVE  \/ Settles(t)
             \/ OnStack(t) /\ Top.lowlink <= stack_index[t]
             \/ t \in Top.successors
  <2>1. Settles(t) \/ Linked(n, t) \/ Pending(n, Top.state, t)
    BY <1>1, <1>2, <1>6, <1>7 DEF IInv, FrameSuccessors
  <2>2. Linked(n, t) => OnStack(t) /\ Top.lowlink <= stack_index[t]
    BY <1>2 DEF Linked
  <2>3. Pending(n, Top.state, t) => t \in Top.successors
    BY <1>2 DEF Pending
  <2> QED BY <2>1, <2>2, <2>3
<1> QED BY <1>1, <1>4, <1>5, <1>7 DEF IsSolved, IsGoalOrTerminal

(* Steps that leave the base variables alone and replace the top frame by  *)
(* one that still accounts for all successors.                             *)
LEMMA QuietStep ==
  ASSUME IInv, pc \in {"push_successor", "advance"},
         pc' \in Exploring \ {"initialize"},
         NEW f \in Frame, dfs_stack' = SetTop(f),
         f.state = Top.state, f.lowlink <= Top.lowlink, f.solved => Top.solved,
         f.successors \subseteq Top.successors,
         pc' = "backtrack" => f.successors = {},
         UNCHANGED base_vars,
         UNCHANGED <<config, initial_state, solved, tarjan_stack, stack_index,
                     visited_states, vi>>,
         f.solved => \A t \in Top.successors :
                        \/ Settles(t)
                        \/ OnStack(t) /\ f.lowlink <= stack_index[t]
                        \/ t \in f.successors
  PROVE  IInv'
<1>1. pc \in Exploring
  BY DEF Exploring
<1>2. /\ Top.state \in State /\ Top \in Frame
      /\ Top.lowlink \in Int /\ f.lowlink \in Int
  BY <1>1, TopType DEF IInv, Frame
<1>3. PICK x \in State : x = Top.state
  BY <1>2
<1>4. f.state = x
  BY <1>3
<1>5. /\ BaseTypeOK' /\ PolicyApplicable' /\ InfoOK'
      /\ policy' = policy /\ flag' = flag /\ config' = config
      /\ PolicySuccessors(x)' = PolicySuccessors(x)
      /\ \A t : IsGoalOrTerminal(t)' <=> IsGoalOrTerminal(t)
  BY <1>1, TopSame DEF PolicySuccessors
<1>6. /\ flag[x] = "initialized" /\ x \notin solved
      /\ Top.successors \subseteq PolicySuccessors(x)
      /\ Top.solved => \A t \in PolicySuccessors(x) :
           \/ Settles(t)
           \/ OnStack(t) /\ Top.lowlink <= stack_index[t]
           \/ t \in Top.successors
  BY <1>1, <1>3, TopActive
<1>7. \A t : Settles(t)' <=> Settles(t)
  BY <1>1, <1>5 DEF Settles, IsSolved
<1>8. f.solved => \A t \in PolicySuccessors(x)' :
        \/ Settles(t)'
        \/ OnStack(t) /\ f.lowlink <= stack_index[t]
        \/ t \in f.successors
  <2> SUFFICES ASSUME f.solved, NEW t \in PolicySuccessors(x)
               PROVE  \/ Settles(t)
                      \/ OnStack(t) /\ f.lowlink <= stack_index[t]
                      \/ t \in f.successors
    BY <1>5, <1>7
  <2>1. CASE Settles(t)
    BY <2>1
  <2>2. CASE OnStack(t) /\ Top.lowlink <= stack_index[t]
    <3>1. t \in State
      BY PolicySuccessorsType DEF IInv
    <3>2. stack_index[t] \in Int
      BY <3>1 DEF IInv, TypeOK, New, Closed
    <3> QED BY <1>2, <2>2, <3>2
  <2>3. CASE t \in Top.successors
    BY <2>3
  <2> QED BY <1>6, <2>1, <2>2, <2>3
<1>9. f.successors \subseteq PolicySuccessors(x)'
  BY <1>5, <1>6
<1>10. \A s \in State : s # x => policy'[s] = policy[s]
  BY <1>5
<1>11. \A s \in State : /\ flag[s] # "uninitialized" => flag'[s] # "uninitialized"
                        /\ flag[s] \in {"goal", "terminal", "initialized"} =>
                             flag'[s] = flag[s]
  BY <1>5
<1>12. flag'[x] # "fringe"
  BY <1>5, <1>6
<1>13. pc' # "backtrack" => flag'[x] = "initialized"
  BY <1>5, <1>6
<1> QED BY <1>1, <1>3, <1>4, <1>5, <1>6, <1>8, <1>9, <1>10, <1>11, <1>12,
           <1>13, TopStep

(* advance without an update.                                              *)
LEMMA AdvanceFinishStep ==
  ASSUME IInv, AdvanceFinish
  PROVE  IInv'
<1>1. /\ pc \in {"push_successor", "advance"} /\ pc' \in Exploring \ {"initialize"}
      /\ UNCHANGED base_vars
      /\ UNCHANGED <<config, initial_state, solved, tarjan_stack, stack_index,
                     visited_states, vi>>
      /\ pc \in Exploring /\ Top.successors = {}
  BY DEF AdvanceFinish, base_vars, Exploring
<1>2. Top \in Frame /\ Top.lowlink \in Int
  BY <1>1, TopType DEF IInv, Frame
<1>3. PICK f \in Frame :
        /\ dfs_stack' = SetTop(f)
        /\ f.state = Top.state
        /\ f.lowlink = Top.lowlink
        /\ f.successors = Top.successors
        /\ f.solved => Top.solved
  <2> DEFINE f == [Top EXCEPT !.solved = @ /\ Top.value_converged]
  <2>1. dfs_stack' = SetTop(f)
    BY DEF AdvanceFinish
  <2>2. /\ f \in Frame
        /\ f.state = Top.state
        /\ f.lowlink = Top.lowlink
        /\ f.successors = Top.successors
        /\ f.solved => Top.solved
    BY <1>2 DEF Frame
  <2> HIDE DEF f
  <2> QED BY <2>1, <2>2
<1>4. f.lowlink <= Top.lowlink
  BY <1>2, <1>3
<1>5. pc' = "backtrack" => f.successors = {}
  BY <1>1, <1>3
<1>6. f.successors \subseteq Top.successors
  BY <1>3
<1>7. f.solved => \A t \in Top.successors :
        \/ Settles(t)
        \/ OnStack(t) /\ f.lowlink <= stack_index[t]
        \/ t \in f.successors
  BY <1>3
<1> QED BY <1>1, <1>3, <1>4, <1>5, <1>6, <1>7, QuietStep

(* advance when there is a successor left.                                 *)
LEMMA AdvanceNextStep ==
  ASSUME IInv, AdvanceNext
  PROVE  IInv'
<1>1. /\ pc \in {"push_successor", "advance"} /\ pc' \in Exploring \ {"initialize"}
      /\ UNCHANGED base_vars
      /\ UNCHANGED <<config, initial_state, solved, tarjan_stack, stack_index,
                     visited_states, vi>>
      /\ pc \in Exploring /\ pc' # "backtrack" /\ dfs_stack' = dfs_stack
  BY DEF AdvanceNext, base_vars, dfs_vars, Exploring
<1>2. Top \in Frame /\ Top.lowlink \in Int /\ Len(dfs_stack) \in Nat \ {0}
  BY <1>1, TopType DEF IInv, Frame
<1>3. dfs_stack \in Seq(Frame)
  BY DEF IInv, TypeOK
<1>4. dfs_stack' = SetTop(Top)
  BY <1>1, <1>2, <1>3 DEF SetTop, Top
<1>5. PICK f \in Frame : f = Top
  BY <1>2
<1>6. dfs_stack' = SetTop(f)
  BY <1>4, <1>5
<1>7. /\ f.state = Top.state /\ f.lowlink <= Top.lowlink
      /\ f.successors \subseteq Top.successors
  BY <1>2, <1>5
<1>8. f.solved => Top.solved
  BY <1>5
<1>9. pc' = "backtrack" => f.successors = {}
  BY <1>1
<1>10. f.solved => \A t \in Top.successors :
        \/ Settles(t)
        \/ OnStack(t) /\ f.lowlink <= stack_index[t]
        \/ t \in f.successors
  BY <1>5
<1> QED BY <1>1, <1>6, <1>7, <1>8, <1>9, <1>10, QuietStep

(* advance with a backtracking update: a changed policy clears the solved  *)
(* flag, so an unchanged one still has its successors accounted for.       *)
LEMMA AdvanceUpdateStep ==
  ASSUME IInv, AdvanceUpdate
  PROVE  IInv'
<1>1. /\ pc = "advance" /\ pc' = "backtrack" /\ Top.successors = {}
      /\ pc \in Exploring /\ pc' \in Exploring \ {"initialize"}
      /\ UNCHANGED <<config, initial_state, solved, tarjan_stack, stack_index,
                     visited_states, vi>>
      /\ UNCHANGED config
  BY DEF AdvanceUpdate, Exploring
<1>2. Top.state \in State /\ Top \in Frame /\ Top.lowlink \in Nat
  BY <1>1, TopType DEF IInv, Frame
<1>3. PICK x \in State : x = Top.state
  BY <1>2
<1>4. Backup(x)
  BY <1>3 DEF AdvanceUpdate
<1>5. PICK f \in Frame :
        /\ dfs_stack' = SetTop(f)
        /\ f.state = x
        /\ f.lowlink = Top.lowlink
        /\ f.successors = {}
        /\ f.solved => Top.solved
        /\ f.solved => policy'[x] = policy[x]
  <2> DEFINE f == [Top EXCEPT !.value_converged = ValueConverged(x),
                              !.solved = @ /\ ValueConverged(x) /\ ~PolicyChanged(x)]
  <2>1. dfs_stack' = SetTop(f)
    BY <1>3 DEF AdvanceUpdate
  <2>2. ValueConverged(x) \in BOOLEAN /\ PolicyChanged(x) \in BOOLEAN
    BY DEF ValueConverged, Converged, ApproxEqual, Changed, PolicyChanged
  <2>3. /\ f \in Frame
        /\ f.state = x
        /\ f.lowlink = Top.lowlink
        /\ f.successors = {}
        /\ f.solved => Top.solved
        /\ f.solved => ~PolicyChanged(x)
    BY <1>1, <1>2, <1>3, <2>2 DEF Frame
  <2> HIDE DEF f
  <2> QED BY <2>1, <2>3 DEF PolicyChanged
<1>6. /\ flag[x] = "initialized" /\ x \notin solved /\ ~IsSolved(x)
      /\ Top.solved => \A t \in PolicySuccessors(x) :
           \/ Settles(t)
           \/ OnStack(t) /\ Top.lowlink <= stack_index[t]
  BY <1>1, <1>3, TopActive
<1>7. BaseTypeOK' /\ PolicyApplicable' /\ InfoOK'
  BY <1>1, <1>3, <1>4, <1>6, TopBackup
<1>8. \A s \in State : s # x => policy'[s] = policy[s]
  BY <1>1, <1>3, <1>4, <1>6, TopBackup
<1>9. \A s \in State : /\ flag[s] # "uninitialized" => flag'[s] # "uninitialized"
                       /\ flag[s] \in {"goal", "terminal", "initialized"} =>
                            flag'[s] = flag[s]
  BY <1>1, <1>3, <1>4, <1>6, TopBackup
<1>10. flag'[x] # "fringe"
  BY <1>1, <1>3, <1>4, <1>6, TopBackup
<1>11. f.solved => \A t \in PolicySuccessors(x)' :
        \/ Settles(t)'
        \/ OnStack(t) /\ f.lowlink <= stack_index[t]
        \/ t \in f.successors
  <2> SUFFICES ASSUME f.solved, NEW t \in PolicySuccessors(x)'
               PROVE  \/ Settles(t)'
                      \/ OnStack(t) /\ f.lowlink <= stack_index[t]
    OBVIOUS
  <2>1. t \in PolicySuccessors(x)
    BY <1>5 DEF PolicySuccessors
  <2>2. t \in State
    BY <2>1, PolicySuccessorsType DEF IInv
  <2>3. Settles(t) => Settles(t)'
    <3>1. solved' = solved /\ config' = config /\ stack_index' = stack_index
      BY <1>1
    <3>2. IsGoalOrTerminal(t) => IsGoalOrTerminal(t)'
      BY <1>9, <2>2 DEF IsGoalOrTerminal
    <3> QED BY <3>1, <3>2 DEF Settles, IsSolved
  <2> QED BY <1>5, <1>6, <2>1, <2>3
<1>12. f.lowlink <= Top.lowlink
  BY <1>2, <1>5
<1>13. f.successors \subseteq PolicySuccessors(x)'
  BY <1>5
<1>14. pc' = "backtrack" => f.successors = {}
  BY <1>5
<1>15. pc' # "backtrack" => flag'[x] = "initialized"
  BY <1>1
<1> QED BY <1>1, <1>3, <1>5, <1>6, <1>7, <1>8, <1>9,
           <1>10, <1>11, <1>12, <1>13, <1>14, <1>15, TopStep

(* initialize with a forward update: all successors under the new action   *)
(* are pending, or the frame no longer counts as solved.                   *)
LEMMA InitializeUpdateStep ==
  ASSUME IInv, InitializeUpdate
  PROVE  IInv'
<1>1. /\ pc = "initialize" /\ pc \in Exploring
      /\ pc' \in Exploring \ {"initialize"}
      /\ UNCHANGED <<config, initial_state, solved, tarjan_stack, stack_index,
                     visited_states, vi>>
      /\ UNCHANGED config
  BY DEF InitializeUpdate, Exploring
<1>2. Top.state \in State /\ Top \in Frame /\ Top.lowlink \in Nat
  BY <1>1, TopType DEF IInv, Frame
<1>3. Top.successors = {}
  BY <1>1 DEF IInv, FrameShape
<1>4. PICK x \in State : x = Top.state
  BY <1>2
<1>5. ~IsSolved(x) /\ Backup(x)
  BY <1>4 DEF InitializeUpdate
<1>6. BaseTypeOK' /\ PolicyApplicable' /\ InfoOK'
  BY <1>1, <1>4, <1>5, TopBackup
<1>7. \A s \in State : s # x => policy'[s] = policy[s]
  BY <1>1, <1>4, <1>5, TopBackup
<1>8. \A s \in State : /\ flag[s] # "uninitialized" => flag'[s] # "uninitialized"
                       /\ flag[s] \in {"goal", "terminal", "initialized"} =>
                            flag'[s] = flag[s]
  BY <1>1, <1>4, <1>5, TopBackup
<1>9. /\ flag'[x] # "fringe"
      /\ policy'[x] # NoAction => flag'[x] = "initialized"
  BY <1>1, <1>4, <1>5, TopBackup
<1>10. /\ PolicySuccessors(x)' \subseteq State
       /\ policy'[x] = NoAction => PolicySuccessors(x)' = {}
       /\ policy'[x] # NoAction => PolicySuccessors(x)' = NonSource(x, policy'[x])
  <2>1. PolicySuccessors(x)' \subseteq State
    <3>1. policy'[x] \in TransitionTails(x) \union {NoAction}
      BY <1>6 DEF PolicyApplicable
    <3> QED BY <3>1, TailsType DEF PolicySuccessors
  <2> QED BY <2>1 DEF PolicySuccessors
<1>11. PICK f \in Frame :
        /\ dfs_stack' = SetTop(f)
        /\ f.state = x
        /\ f.lowlink = Top.lowlink
        /\ f.successors \subseteq PolicySuccessors(x)'
        /\ f.solved => Top.solved
        /\ f.solved => f.successors = PolicySuccessors(x)'
        /\ pc' = "backtrack" => f.successors = {}
        /\ pc' # "backtrack" => policy'[x] # NoAction
  <2> DEFINE updated == [Top EXCEPT !.value_converged = ValueConverged(x)]
             cutoff == \/ config.cutoff_tip /\ flag[x] = "fringe"
                       \/ config.cutoff_inconsistent /\ ~ValueConverged(x)
  <2>1. ValueConverged(x) \in BOOLEAN
    BY DEF ValueConverged, Converged, ApproxEqual, Changed
  <2>2. /\ updated \in Frame /\ updated.state = x
        /\ updated.lowlink = Top.lowlink /\ updated.successors = {}
        /\ updated.solved = Top.solved
    BY <1>2, <1>3, <1>4, <2>1 DEF Frame
  <2>3. \/ /\ policy'[x] = NoAction
           /\ dfs_stack' = SetTop(updated)
           /\ pc' = "backtrack"
        \/ /\ policy'[x] # NoAction /\ cutoff
           /\ dfs_stack' = SetTop([updated EXCEPT !.solved = FALSE])
           /\ pc' = "backtrack"
        \/ /\ policy'[x] # NoAction /\ ~cutoff
           /\ dfs_stack' = SetTop(
                [updated EXCEPT !.successors = NonSource(x, policy'[x])])
           /\ pc' = "push_successor"
    BY <1>4 DEF InitializeUpdate
  <2> HIDE DEF updated, cutoff
  <2>4. CASE policy'[x] = NoAction
    BY <1>10, <2>2, <2>3, <2>4
  <2>5. CASE policy'[x] # NoAction /\ cutoff
    <3> DEFINE g == [updated EXCEPT !.solved = FALSE]
    <3>1. dfs_stack' = SetTop(g) /\ pc' = "backtrack"
      BY <2>3, <2>5
    <3>2. /\ g \in Frame /\ g.state = x /\ g.lowlink = Top.lowlink
          /\ g.successors = {} /\ g.solved = FALSE
      BY <2>2 DEF Frame
    <3> HIDE DEF g
    <3> QED BY <3>1, <3>2
  <2>6. CASE policy'[x] # NoAction /\ ~cutoff
    <3>1. PICK succ \in SUBSET State : succ = PolicySuccessors(x)'
      BY <1>10
    <3> DEFINE g == [updated EXCEPT !.successors = succ]
    <3>2. dfs_stack' = SetTop(g) /\ pc' = "push_successor"
      BY <1>10, <2>3, <2>6, <3>1
    <3>3. /\ g \in Frame /\ g.state = x /\ g.lowlink = Top.lowlink
          /\ g.successors = succ /\ g.solved = Top.solved
      BY <2>2 DEF Frame
    <3> HIDE DEF g
    <3> QED BY <2>6, <3>1, <3>2, <3>3
  <2> QED BY <2>4, <2>5, <2>6
<1>12. f.lowlink <= Top.lowlink
  BY <1>2, <1>11
<1>13. x \notin solved
  BY <1>5 DEF IsSolved
<1>14. f.solved => \A t \in PolicySuccessors(x)' :
        \/ Settles(t)'
        \/ OnStack(t) /\ f.lowlink <= stack_index[t]
        \/ t \in f.successors
  BY <1>11
<1>15. pc' # "backtrack" => flag'[x] = "initialized"
  BY <1>9, <1>11
<1> QED BY <1>1, <1>4, <1>6, <1>7, <1>8, <1>9, <1>11, <1>12, <1>13, <1>14,
           <1>15, TopStep

(* initialize without an update: all successors are pending.               *)
LEMMA InitializeFollowStep ==
  ASSUME IInv, InitializeFollow
  PROVE  IInv'
<1>1. /\ pc = "initialize" /\ pc \in Exploring
      /\ pc' \in Exploring \ {"initialize"}
      /\ UNCHANGED base_vars
      /\ UNCHANGED <<config, initial_state, solved, tarjan_stack, stack_index,
                     visited_states, vi>>
  BY DEF InitializeFollow, Exploring, base_vars
<1>2. /\ Top.state \in State /\ Top \in Frame /\ Top.lowlink \in Nat
      /\ Len(dfs_stack) \in Nat \ {0}
  BY <1>1, TopType DEF IInv, Frame
<1>3. Top.successors = {}
  BY <1>1 DEF IInv, FrameShape
<1>4. PICK x \in State : x = Top.state
  BY <1>2
<1>5. /\ BaseTypeOK' /\ PolicyApplicable' /\ InfoOK'
      /\ policy' = policy /\ flag' = flag /\ config' = config
      /\ PolicySuccessors(x)' = PolicySuccessors(x)
      /\ PolicySuccessors(x) \subseteq State
  BY <1>1, TopSame, PolicySuccessorsType DEF PolicySuccessors, IInv
<1>6. ~IsSolved(x) /\ flag[x] # "fringe"
  BY <1>4 DEF InitializeFollow
<1>7. PICK f \in Frame :
        /\ dfs_stack' = SetTop(f)
        /\ f.state = x
        /\ f.lowlink = Top.lowlink
        /\ f.successors = PolicySuccessors(x)
        /\ f.solved => Top.solved
        /\ pc' = "backtrack" => f.successors = {}
        /\ pc' # "backtrack" => policy[x] # NoAction
  <2>1. CASE policy[x] = NoAction
    <3>1. dfs_stack' = dfs_stack /\ pc' = "backtrack"
      BY <1>4, <2>1 DEF InitializeFollow
    <3>2. dfs_stack \in Seq(Frame)
      BY DEF IInv, TypeOK
    <3>3. dfs_stack' = SetTop(Top)
      BY <1>2, <3>1, <3>2 DEF SetTop, Top
    <3>4. PolicySuccessors(x) = {}
      BY <2>1 DEF PolicySuccessors
    <3> QED BY <1>2, <1>3, <1>4, <3>1, <3>3, <3>4
  <2>2. CASE policy[x] # NoAction
    <3>1. PICK succ \in SUBSET State : succ = PolicySuccessors(x)
      BY <1>5
    <3> DEFINE g == [Top EXCEPT !.successors = succ]
    <3>2. dfs_stack' = SetTop(g) /\ pc' = "push_successor"
      BY <1>4, <2>2, <3>1 DEF InitializeFollow, PolicySuccessors
    <3>3. /\ g \in Frame /\ g.state = x /\ g.lowlink = Top.lowlink
          /\ g.successors = succ /\ g.solved = Top.solved
      BY <1>2, <1>4 DEF Frame
    <3> HIDE DEF g
    <3> QED BY <2>2, <3>1, <3>2, <3>3
  <2> QED BY <2>1, <2>2
<1>8. f.lowlink <= Top.lowlink
  BY <1>2, <1>7
<1>9. x \notin solved
  BY <1>6 DEF IsSolved
<1>10. f.solved => \A t \in PolicySuccessors(x)' :
        \/ Settles(t)'
        \/ OnStack(t) /\ f.lowlink <= stack_index[t]
        \/ t \in f.successors
  BY <1>5, <1>7
<1>11. \A s \in State : s # x => policy'[s] = policy[s]
  BY <1>5
<1>12. \A s \in State : /\ flag[s] # "uninitialized" => flag'[s] # "uninitialized"
                        /\ flag[s] \in {"goal", "terminal", "initialized"} =>
                             flag'[s] = flag[s]
  BY <1>5
<1>13. flag'[x] # "fringe"
  BY <1>5, <1>6
<1>14. pc' # "backtrack" => flag'[x] = "initialized"
  BY <1>5, <1>7 DEF IInv, InfoOK
<1>15. f.successors \subseteq PolicySuccessors(x)'
  BY <1>5, <1>7
<1> QED BY <1>1, <1>4, <1>5, <1>7, <1>8, <1>9, <1>10, <1>11, <1>12, <1>13,
           <1>14, <1>15, TopStep

(* push_successor descends into an unseen successor t.                     *)
LEMMA PushNewStep ==
  ASSUME IInv, pc = "push_successor", pc' = "initialize",
         NEW t \in Top.successors, stack_index[t] = New,
         Push(SetTop([Top EXCEPT !.successors = @ \ {t}]), t),
         UNCHANGED base_vars,
         UNCHANGED <<initial_state, solved, visited_states, vi>>
  PROVE  IInv'
<1> DEFINE n == Len(dfs_stack)
           m == Len(tarjan_stack)
<1>1. /\ pc \in Exploring /\ pc' \in Exploring
      /\ UNCHANGED <<config, flag, policy>>
  BY DEF Exploring, base_vars
<1>2. /\ n \in Nat \ {0} /\ n \in 1 .. n /\ Top \in Frame /\ Top = dfs_stack[n]
      /\ Top.state \in State /\ Top.lowlink \in Nat
      /\ dfs_stack \in Seq(Frame) /\ dfs_stack # <<>>
      /\ tarjan_stack \in Seq(State) /\ m \in Nat
      /\ stack_index \in [State -> Nat \union {New, Closed}]
  BY <1>1, TopType DEF IInv, Frame, TypeOK, StackDiscipline
<1>3. /\ flag[Top.state] = "initialized"
      /\ Top.successors \subseteq PolicySuccessors(Top.state)
  BY TopActive
<1>4. /\ t \in State /\ flag[t] # "uninitialized" /\ ~OnStack(t)
      /\ t \in PolicySuccessors(Top.state)
  BY <1>2, <1>3, PolicySuccessorsType DEF IInv, OnStack
<1>5. PICK f \in Frame :
        /\ dfs_stack' = Append(SetTop(f), NewFrame(t))
        /\ f.state = Top.state
        /\ f.lowlink = Top.lowlink
        /\ f.successors = Top.successors \ {t}
        /\ f.solved = Top.solved
  <2>1. PICK succ \in SUBSET State : succ = Top.successors \ {t}
    BY <1>2 DEF Frame
  <2> DEFINE g == [Top EXCEPT !.successors = succ]
  <2>2. dfs_stack' = Append(SetTop(g), NewFrame(t))
    BY <2>1 DEF Push
  <2>3. /\ g \in Frame /\ g.state = Top.state /\ g.lowlink = Top.lowlink
        /\ g.successors = succ /\ g.solved = Top.solved
    BY <1>2 DEF Frame
  <2> HIDE DEF g
  <2> QED BY <2>1, <2>2, <2>3
<1>6. /\ SetTop(f) \in Seq(Frame)
      /\ Len(SetTop(f)) = n
      /\ SetTop(f)[n] = f
      /\ \A i \in 1 .. n : i # n => SetTop(f)[i] = dfs_stack[i]
  BY <1>2, SetTopFacts
<1>7. /\ NewFrame(t) \in Frame /\ NewFrame(t).state = t
      /\ NewFrame(t).lowlink = m /\ NewFrame(t).successors = {}
  BY <1>2, <1>4, NewFrameType
<1>8. /\ dfs_stack' \in Seq(Frame)
      /\ Len(dfs_stack') = n + 1
      /\ dfs_stack'[n + 1] = NewFrame(t)
      /\ dfs_stack'[n] = f
      /\ \A i \in 1 .. n : i # n => dfs_stack'[i] = dfs_stack[i]
      /\ dfs_stack' # <<>>
  BY <1>2, <1>5, <1>6, <1>7, PushFacts
<1>9. Top' = NewFrame(t)
  BY <1>8 DEF Top
<1>10. \A i \in 1 .. n : /\ dfs_stack[i] \in Frame
                         /\ dfs_stack[i].state \in State
                         /\ dfs_stack'[i].state = dfs_stack[i].state
                         /\ dfs_stack'[i].lowlink = dfs_stack[i].lowlink
                         /\ dfs_stack'[i].solved = dfs_stack[i].solved
                         /\ dfs_stack'[i].successors \subseteq dfs_stack[i].successors
  <2> SUFFICES ASSUME NEW i \in 1 .. n
               PROVE  /\ dfs_stack[i] \in Frame
                      /\ dfs_stack[i].state \in State
                      /\ dfs_stack'[i].state = dfs_stack[i].state
                      /\ dfs_stack'[i].lowlink = dfs_stack[i].lowlink
                      /\ dfs_stack'[i].solved = dfs_stack[i].solved
                      /\ dfs_stack'[i].successors \subseteq dfs_stack[i].successors
    OBVIOUS
  <2>1. dfs_stack[i] \in Frame /\ dfs_stack[i].state \in State
    <3>1. dfs_stack[i] \in Frame
      BY <1>2
    <3> QED BY <3>1 DEF Frame
  <2>2. CASE i = n
    BY <1>2, <1>5, <1>8, <2>1, <2>2
  <2>3. CASE i # n
    BY <1>8, <2>1, <2>3
  <2> QED BY <2>2, <2>3
<1>11. /\ tarjan_stack' = Append(tarjan_stack, t)
       /\ stack_index' = [stack_index EXCEPT ![t] = m]
  BY DEF Push
<1>12. /\ tarjan_stack' \in Seq(State) /\ Len(tarjan_stack') = m + 1
       /\ tarjan_stack'[m + 1] = t
       /\ \A i \in 1 .. m : tarjan_stack'[i] = tarjan_stack[i]
  BY <1>2, <1>4, <1>11, PushFacts
<1>13. /\ stack_index' \in [State -> Nat \union {New, Closed}]
       /\ stack_index'[t] = m
       /\ \A s \in State : s # t => stack_index'[s] = stack_index[s]
  BY <1>2, <1>4, <1>11
<1>14. \A s \in State : /\ OnStack(s)' <=> OnStack(s) \/ s = t
                        /\ OnStack(s) => s # t /\ stack_index'[s] = stack_index[s]
                                         /\ stack_index[s] \in Nat
  BY <1>2, <1>4, <1>13 DEF OnStack, New, Closed
<1>15. /\ \A s \in State : OnStack(s) => /\ stack_index[s] < m
                                         /\ tarjan_stack[stack_index[s] + 1] = s
       /\ \A i \in 1 .. m : stack_index[tarjan_stack[i]] = i - 1
       /\ \A i \in 1 .. n : /\ OnStack(dfs_stack[i].state)
                            /\ dfs_stack[i].lowlink <= stack_index[dfs_stack[i].state]
       /\ \A i, j \in 1 .. n :
            i < j => stack_index[dfs_stack[i].state] < stack_index[dfs_stack[j].state]
  BY <1>1 DEF IInv, StackDiscipline, Exploring
<1>16. \A i \in 1 .. n : /\ stack_index'[dfs_stack[i].state] = stack_index[dfs_stack[i].state]
                         /\ stack_index[dfs_stack[i].state] \in Nat
                         /\ stack_index[dfs_stack[i].state] < m
                         /\ OnStack(dfs_stack[i].state)'
  BY <1>10, <1>14, <1>15
<1>17. TypeOK' /\ PolicyApplicable' /\ InfoOK'
  BY <1>8, <1>12, <1>13, BaseSame DEF IInv, TypeOK, PCs
<1>18. StackDiscipline'
  <2>1. ASSUME NEW i \in 1 .. m + 1
        PROVE  stack_index'[tarjan_stack'[i]] = i - 1
    <3>1. CASE i = m + 1
      BY <1>2, <1>12, <1>13, <3>1
    <3>2. CASE i # m + 1
      <4>1. /\ i \in 1 .. m /\ tarjan_stack[i] \in State
            /\ stack_index[tarjan_stack[i]] = i - 1
        BY <1>2, <1>15, <3>2
      <4>2. tarjan_stack[i] # t
        BY <4>1 DEF New
      <4> QED BY <1>12, <1>13, <4>1, <4>2
    <3> QED BY <3>1, <3>2
  <2>2. ASSUME NEW s \in State, OnStack(s)'
        PROVE  stack_index'[s] < m + 1 /\ tarjan_stack'[stack_index'[s] + 1] = s
    <3>1. CASE s = t
      BY <1>2, <1>12, <1>13, <3>1
    <3>2. CASE s # t
      <4>1. /\ OnStack(s) /\ stack_index'[s] = stack_index[s]
            /\ stack_index[s] \in Nat /\ stack_index[s] < m
            /\ tarjan_stack[stack_index[s] + 1] = s
        BY <1>14, <1>15, <2>2, <3>2
      <4>2. stack_index[s] + 1 \in 1 .. m
        BY <1>2, <4>1
      <4> QED BY <1>2, <1>12, <4>1, <4>2
    <3> QED BY <3>1, <3>2
  <2>3. ASSUME NEW i \in 1 .. n + 1
        PROVE  OnStack(dfs_stack[i].state)'
               /\ dfs_stack'[i].lowlink <= stack_index'[dfs_stack'[i].state]
    <3>1. CASE i = n + 1
      BY <1>2, <1>4, <1>7, <1>8, <1>13, <1>14, <3>1
    <3>2. CASE i # n + 1
      <4>1. i \in 1 .. n
        BY <1>2, <3>2
      <4> QED BY <1>10, <1>15, <1>16, <4>1
    <3> QED BY <3>1, <3>2
  <2>4. ASSUME NEW i \in 1 .. n + 1, NEW j \in 1 .. n + 1, i < j
        PROVE  stack_index'[dfs_stack'[i].state] < stack_index'[dfs_stack'[j].state]
    <3>1. i \in 1 .. n
      BY <1>2, <2>4
    <3>2. CASE j = n + 1
      BY <1>7, <1>8, <1>10, <1>13, <1>16, <3>1, <3>2
    <3>3. CASE j # n + 1
      <4>1. j \in 1 .. n
        BY <1>2, <3>3
      <4> QED BY <1>10, <1>15, <1>16, <2>4, <3>1, <4>1, SMTT(30)
    <3> QED BY <3>2, <3>3
  <2> HIDE DEF n, m
  <2> QED BY <1>8, <1>12, <2>1, <2>2, <2>3, <2>4 DEF StackDiscipline, Exploring
<1>19. FrameShape'
  <2>1. /\ stack_index[dfs_stack[1].state] = 0 /\ 1 \in 1 .. n
    BY <1>1, <1>2 DEF IInv, FrameShape
  <2>2. stack_index'[dfs_stack'[1].state] = 0
    BY <1>10, <1>16, <2>1
  <2> QED BY <1>7, <1>9, <1>13, <2>2 DEF FrameShape, Exploring
<1>20. FrameStates'
  <2>1. ASSUME NEW s \in State, OnStack(s)'
        PROVE  /\ flag'[s] # "uninitialized"
               /\ flag'[s] = "fringe" => s = t
               /\ s \in solved' => s = t
    <3>1. CASE s = t
      BY <1>1, <1>4, <3>1
    <3>2. CASE s # t
      <4>1. OnStack(s)
        BY <1>14, <2>1, <3>2
      <4> QED BY <1>1, <4>1 DEF IInv, FrameStates
    <3> QED BY <3>1, <3>2
  <2>2. ASSUME NEW i \in 1 .. n + 1
        PROVE  /\ dfs_stack'[i].successors \subseteq PolicySuccessors(dfs_stack[i].state)'
               /\ i < n + 1 => flag'[dfs_stack'[i].state] = "initialized"
    <3>1. CASE i = n + 1
      BY <1>7, <1>8, <3>1
    <3>2. CASE i # n + 1
      <4>1. i \in 1 .. n
        BY <1>2, <3>2
      <4>2. /\ dfs_stack[i].successors \subseteq PolicySuccessors(dfs_stack[i].state)
            /\ flag[dfs_stack[i].state] = "initialized"
        <5>1. CASE i = n
          BY <1>2, <1>3, <5>1
        <5>2. CASE i # n
          BY <1>1, <1>2, <4>1, <5>2 DEF IInv, FrameStates
        <5> QED BY <5>1, <5>2
      <4> QED BY <1>1, <1>10, <4>1, <4>2 DEF PolicySuccessors
    <3> QED BY <3>1, <3>2
  <2> HIDE DEF n
  <2> QED BY <1>7, <1>8, <1>9, <1>13, <2>1, <2>2 DEF FrameStates
<1>21. /\ \A s : PolicySuccessors(s)' = PolicySuccessors(s)
       /\ \A s : IsGoalOrTerminal(s)' = IsGoalOrTerminal(s)
       /\ \A s : IsSolved(s)' <=> IsSolved(s)
  BY BaseSame DEF IsSolved
<1>22. \A s \in State : /\ stack_index'[s] = Closed <=> stack_index[s] = Closed
                        /\ Settles(s) <=> Settles(s)'
  <2>1. \A s \in State : stack_index'[s] = Closed <=> stack_index[s] = Closed
    BY <1>2, <1>13 DEF New, Closed
  <2> QED BY <1>1, <1>21, <2>1 DEF Settles
<1>23. FrameSuccessors'
  <2> SUFFICES ASSUME NEW i \in 1 .. n + 1, dfs_stack'[i].solved,
                      NEW s \in Segment(i)', NEW u \in PolicySuccessors(s)
               PROVE  Settles(u)' \/ Linked(i, u)' \/ Pending(i, s, u)'
    BY <1>8, <1>21 DEF FrameSuccessors
  <2>1. /\ s \in State /\ OnStack(s)'
        /\ stack_index'[dfs_stack'[i].state] <= stack_index'[s]
        /\ i < n + 1 => stack_index'[s] < stack_index'[dfs_stack'[i + 1].state]
    BY <1>8 DEF Segment
  <2>2. u \in State
    BY <2>1, PolicySuccessorsType DEF IInv
  <2>3. CASE i = n + 1
    <3>1. m <= stack_index'[s]
      BY <1>7, <1>8, <1>13, <2>1, <2>3
    <3>2. s = t
      BY <1>2, <1>14, <1>15, <2>1, <3>1
    <3> QED BY <1>7, <1>8, <2>3, <3>2 DEF Pending
  <2>4. CASE i # n + 1
    <3>1. i \in 1 .. n
      BY <1>2, <2>4
    <3>2. stack_index'[s] < m
      <4>1. CASE i = n
        BY <1>2, <1>7, <1>8, <1>13, <2>1, <4>1
      <4>2. CASE i # n
        <5>1. i + 1 \in 1 .. n
          BY <1>2, <3>1, <4>2
        <5>2. /\ stack_index'[s] < stack_index[dfs_stack[i + 1].state]
              /\ stack_index[dfs_stack[i + 1].state] < m
              /\ stack_index[dfs_stack[i + 1].state] \in Nat
          BY <1>2, <1>10, <1>16, <2>1, <3>1, <5>1
        <5>3. stack_index'[s] \in Int
          BY <1>13, <2>1 DEF New, Closed
        <5> QED BY <1>2, <5>2, <5>3
      <4> QED BY <4>1, <4>2
    <3>3. s # t /\ OnStack(s) /\ stack_index'[s] = stack_index[s]
      BY <1>2, <1>13, <1>14, <2>1, <3>2
    <3>4. s \in Segment(i)
      <4>1. stack_index[dfs_stack[i].state] <= stack_index[s]
        BY <1>10, <1>16, <2>1, <3>1, <3>3
      <4>2. ASSUME i < n PROVE stack_index[s] < stack_index[dfs_stack[i + 1].state]
        <5>1. i + 1 \in 1 .. n
          BY <1>2, <3>1, <4>2
        <5> QED BY <1>2, <1>10, <1>16, <2>1, <3>1, <3>3, <5>1
      <4> QED BY <2>1, <3>3, <4>1, <4>2 DEF Segment
    <3>5. Settles(u) \/ Linked(i, u) \/ Pending(i, s, u)
      BY <1>1, <1>10, <3>1, <3>4 DEF IInv, FrameSuccessors
    <3>6. ASSUME Linked(i, u) PROVE Linked(i, u)'
      <4>1. /\ OnStack(u) /\ OnStack(u)' /\ stack_index'[u] = stack_index[u]
            /\ dfs_stack'[i].lowlink <= stack_index'[u]
            /\ stack_index'[u] < m
        BY <1>10, <1>14, <1>15, <2>2, <3>1, <3>6 DEF Linked
      <4>2. stack_index'[u] < stack_index'[dfs_stack'[i + 1].state]
        <5>1. CASE i = n
          BY <1>7, <1>8, <1>13, <4>1, <5>1
        <5>2. CASE i # n
          <6>1. i + 1 \in 1 .. n /\ i < n
            BY <1>2, <3>1, <5>2
          <6>2. stack_index[u] < stack_index[dfs_stack[i + 1].state]
            BY <3>6, <6>1 DEF Linked
          <6> QED BY <1>10, <1>16, <4>1, <6>1, <6>2
        <5> QED BY <5>1, <5>2
      <4> QED BY <4>1, <4>2 DEF Linked
    <3>7. ASSUME Pending(i, s, u) PROVE Pending(i, s, u)'
      <4>1. CASE i = n
        <5>1. s = Top.state /\ u \in Top.successors
          BY <1>2, <3>7, <4>1 DEF Pending
        <5>2. u = t \/ u \in f.successors
          BY <1>5, <5>1
        <5> QED BY <1>2, <1>5, <1>7, <1>8, <4>1, <5>1, <5>2 DEF Pending
      <4>2. CASE i # n
        <5>1. i + 1 \in 1 .. n /\ i < n + 1
          BY <1>2, <3>1, <4>2
        <5>2. dfs_stack'[i] = dfs_stack[i] /\ dfs_stack'[i + 1].state = dfs_stack[i + 1].state
          BY <1>8, <1>10, <3>1, <4>2, <5>1
        <5> QED BY <1>8, <3>7, <4>2, <5>1, <5>2 DEF Pending
      <4> QED BY <4>1, <4>2
    <3> QED BY <1>22, <2>2, <3>5, <3>6, <3>7
  <2> QED BY <2>3, <2>4
<1>24. LabelMode' /\ WorkExpanded'
  BY <1>1 DEF IInv, LabelMode, WorkExpanded, Exploring
<1>25. Scheduled'
  <2>1. ASSUME NEW s \in visited_states'
        PROVE  stack_index'[s] = Closed /\ \A u \in PolicySuccessors(s)' : Settles(u)'
    <3>1. s \in visited_states /\ s \in State
      BY DEF IInv, TypeOK
    <3>2. PolicySuccessors(s) \subseteq State
      BY <3>1, PolicySuccessorsType DEF IInv
    <3> QED BY <1>1, <1>21, <1>22, <3>1, <3>2 DEF IInv, Scheduled
  <2>2. (\E i \in 1 .. n : ~dfs_stack[i].solved)
          => \E i \in 1 .. n + 1 : ~dfs_stack'[i].solved
    BY <1>2, <1>10
  <2> QED BY <1>1, <1>8, <1>21, <1>22, <2>1, <2>2 DEF IInv, Scheduled
<1>26. LabelsClosed' /\ ScheduledClosed'
  BY <1>21 DEF IInv, LabelsClosed, ScheduledClosed
<1>27. pc' # "solve" => flag'[initial_state'] # "uninitialized"
  BY <1>1 DEF IInv
<1> QED BY <1>17, <1>18, <1>19, <1>20, <1>23, <1>24, <1>25, <1>26, <1>27 DEF IInv

(* push_successor, in its three cases.                                     *)
LEMMA PushSuccessorStep ==
  ASSUME IInv, PushSuccessor
  PROVE  IInv'
<1>1. /\ pc = "push_successor" /\ pc \in {"push_successor", "advance"}
      /\ pc \in Exploring
      /\ UNCHANGED base_vars
      /\ UNCHANGED config
      /\ UNCHANGED <<initial_state, solved, visited_states, vi>>
  BY DEF PushSuccessor, Exploring, base_vars
<1>2. /\ Top.state \in State /\ Top \in Frame /\ Top.lowlink \in Nat
      /\ Top.successors \subseteq State
  BY <1>1, TopType DEF IInv, Frame
<1>3. PICK t \in Top.successors :
        LET frame == [Top EXCEPT !.successors = @ \ {t}]
        IN  \/ /\ stack_index[t] = New
               /\ Push(SetTop(frame), t)
               /\ pc' = "initialize"
            \/ /\ stack_index[t] = Closed
               /\ dfs_stack' = SetTop(
                    [frame EXCEPT !.solved =
                       @ /\ (config.label_solved => IsSolved(t))])
               /\ pc' = "advance"
               /\ UNCHANGED <<tarjan_stack, stack_index>>
            \/ /\ OnStack(t)
               /\ dfs_stack' = SetTop(
                    [frame EXCEPT !.lowlink = Min({@, stack_index[t]})])
               /\ pc' = "advance"
               /\ UNCHANGED <<tarjan_stack, stack_index>>
  BY DEF PushSuccessor
<1>4. t \in State
  BY <1>2
<1>5. PICK succ \in SUBSET State : succ = Top.successors \ {t}
  BY <1>2
<1>6. PICK frame \in Frame :
        /\ frame = [Top EXCEPT !.successors = succ]
        /\ frame.state = Top.state /\ frame.lowlink = Top.lowlink
        /\ frame.successors = succ /\ frame.solved = Top.solved
  <2> DEFINE g == [Top EXCEPT !.successors = succ]
  <2>1. /\ g \in Frame /\ g.state = Top.state /\ g.lowlink = Top.lowlink
        /\ g.successors = succ /\ g.solved = Top.solved
    BY <1>2 DEF Frame
  <2>2. g = [Top EXCEPT !.successors = succ]
    OBVIOUS
  <2> HIDE DEF g
  <2> QED BY <2>1, <2>2
<1>7. CASE /\ stack_index[t] = New
           /\ Push(SetTop([Top EXCEPT !.successors = @ \ {t}]), t)
           /\ pc' = "initialize"
  BY <1>1, <1>7, PushNewStep
<1>8. ASSUME pc' = "advance", UNCHANGED <<tarjan_stack, stack_index>>,
             NEW f \in Frame, dfs_stack' = SetTop(f),
             f.state = Top.state, f.lowlink <= Top.lowlink,
             f.successors = succ, f.solved => Top.solved,
             f.solved => \/ Settles(t)
                         \/ OnStack(t) /\ f.lowlink <= stack_index[t]
      PROVE  IInv'
  <2>1. pc' \in Exploring \ {"initialize"} /\ pc' # "backtrack"
    BY <1>8 DEF Exploring
  <2>2. f.successors \subseteq Top.successors
    BY <1>5, <1>8
  <2>3. pc' = "backtrack" => f.successors = {}
    BY <2>1
  <2>4. UNCHANGED <<config, initial_state, solved, tarjan_stack, stack_index,
                    visited_states, vi>>
    BY <1>1, <1>8
  <2>5. f.solved => \A u \in Top.successors :
                        \/ Settles(u)
                        \/ OnStack(u) /\ f.lowlink <= stack_index[u]
                        \/ u \in f.successors
    BY <1>5, <1>8
  <2> QED BY <1>1, <1>8, <2>1, <2>2, <2>3, <2>4, <2>5, QuietStep
<1>9. CASE /\ stack_index[t] = Closed
           /\ dfs_stack' = SetTop(
                [[Top EXCEPT !.successors = @ \ {t}] EXCEPT !.solved =
                   @ /\ (config.label_solved => IsSolved(t))])
           /\ pc' = "advance"
           /\ UNCHANGED <<tarjan_stack, stack_index>>
  <2>1. PICK b \in BOOLEAN : b <=> (config.label_solved => IsSolved(t))
    OBVIOUS
  <2>2. PICK g \in BOOLEAN : g = (frame.solved /\ (config.label_solved => IsSolved(t)))
    OBVIOUS
  <2> DEFINE f == [frame EXCEPT !.solved = g]
  <2>3. dfs_stack' = SetTop(f)
    BY <1>5, <1>6, <1>9, <2>2
  <2>4. /\ f \in Frame /\ f.state = Top.state /\ f.lowlink = Top.lowlink
        /\ f.successors = succ /\ f.solved = g
    BY <1>6 DEF Frame
  <2> HIDE DEF f
  <2>5. f.lowlink <= Top.lowlink
    BY <1>2, <2>4
  <2>6. /\ f.solved => Top.solved
        /\ f.solved => Settles(t)
    BY <1>6, <1>9, <2>2, <2>4 DEF Settles
  <2> QED BY <1>8, <1>9, <2>3, <2>4, <2>5, <2>6
<1>10. CASE /\ OnStack(t)
            /\ dfs_stack' = SetTop(
                 [[Top EXCEPT !.successors = @ \ {t}] EXCEPT !.lowlink =
                   Min({@, stack_index[t]})])
            /\ pc' = "advance"
            /\ UNCHANGED <<tarjan_stack, stack_index>>
  <2>1. stack_index[t] \in Nat
    BY <1>4, <1>10 DEF IInv, TypeOK, OnStack
  <2>2. PICK l \in Nat : /\ l = Min({Top.lowlink, stack_index[t]})
                         /\ l <= Top.lowlink /\ l <= stack_index[t]
    BY <1>2, <2>1, MinOfTwo
  <2> DEFINE f == [frame EXCEPT !.lowlink = l]
  <2>3. dfs_stack' = SetTop(f)
    BY <1>5, <1>6, <1>10, <2>2
  <2>4. /\ f \in Frame /\ f.state = Top.state /\ f.lowlink = l
        /\ f.successors = succ /\ f.solved = Top.solved
    BY <1>6 DEF Frame
  <2> HIDE DEF f
  <2>5. f.lowlink <= Top.lowlink
    BY <2>2, <2>4
  <2>6. /\ f.solved => Top.solved
        /\ OnStack(t) /\ f.lowlink <= stack_index[t]
    BY <1>10, <2>2, <2>4
  <2> QED BY <1>8, <1>10, <2>3, <2>4, <2>5, <2>6
<1> QED BY <1>3, <1>7, <1>9, <1>10

-----------------------------------------------------------------------------
(* Backtracking.  The component of the top frame is its segment of the     *)
(* Tarjan stack, and if nothing below it failed, all policy successors of  *)
(* it are settled or on the stack.                                         *)
LEMMA ComponentFacts ==
  ASSUME IInv, pc = "backtrack"
  PROVE  /\ Scc \subseteq State
         /\ ~IsSccRoot => Scc = {}
         /\ \A s \in State : IsSccRoot =>
              (s \in Scc <=> OnStack(s) /\ stack_index[Top.state] <= stack_index[s])
         /\ \A s \in Scc : OnStack(s) /\ stack_index[Top.state] <= stack_index[s]
         /\ Settled \subseteq Scc
         /\ \A s \in Settled : ~IsSolved(s) /\ flag[s] = "initialized"
         /\ \A s \in solved : OnStack(s) => s \in Scc
         /\ Top.solved =>
              \A s \in Segment(Len(dfs_stack)) : \A t \in PolicySuccessors(s) :
                Settles(t) \/ (OnStack(t) /\ Top.lowlink <= stack_index[t])
         /\ Top.solved =>
              \A s \in Scc : \A t \in PolicySuccessors(s) : Settles(t) \/ t \in Scc
<1> DEFINE n == Len(dfs_stack)
           m == Len(tarjan_stack)
           q == stack_index[Top.state]
<1>1. pc \in Exploring
  BY DEF Exploring
<1>2. /\ n \in Nat \ {0} /\ n \in 1 .. n /\ Top \in Frame /\ Top = dfs_stack[n]
      /\ Top.state \in State /\ Top.lowlink \in Nat /\ q \in Nat
      /\ tarjan_stack \in Seq(State) /\ m \in Nat
  BY <1>1, TopType DEF IInv, Frame, TypeOK
<1>3. \A s \in State : OnStack(s) => stack_index[s] \in Nat
  BY DEF IInv, TypeOK, OnStack
<1>4. /\ \A s \in State : OnStack(s) => /\ stack_index[s] < m
                                        /\ tarjan_stack[stack_index[s] + 1] = s
      /\ \A i \in 1 .. m : stack_index[tarjan_stack[i]] = i - 1
  BY <1>1 DEF IInv, StackDiscipline
<1>5. ~IsSccRoot => Scc = {}
  BY DEF Scc
<1>6. Scc \subseteq State
  <2> SUFFICES ASSUME NEW s \in Scc PROVE s \in State
    OBVIOUS
  <2>1. PICK i \in (Top.lowlink + 1) .. m : s = tarjan_stack[i]
    BY <1>5 DEF Scc
  <2>2. i \in 1 .. m
    BY <1>2
  <2> QED BY <1>2, <2>1, <2>2
<1>7. ASSUME IsSccRoot, NEW s \in State
      PROVE  s \in Scc <=> OnStack(s) /\ q <= stack_index[s]
  <2>1. Scc = {tarjan_stack[i] : i \in (q + 1) .. m}
    BY <1>7 DEF Scc, IsSccRoot
  <2>2. ASSUME s \in Scc PROVE OnStack(s) /\ q <= stack_index[s]
    <3>1. PICK i \in (q + 1) .. m : s = tarjan_stack[i]
      BY <2>1, <2>2
    <3>2. i \in 1 .. m /\ i - 1 \in Nat /\ q <= i - 1
      BY <1>2
    <3>3. stack_index[s] = i - 1
      BY <1>4, <3>1, <3>2
    <3> QED BY <3>2, <3>3 DEF OnStack, New, Closed
  <2>3. ASSUME OnStack(s), q <= stack_index[s] PROVE s \in Scc
    <3>1. stack_index[s] + 1 \in (q + 1) .. m
      BY <1>2, <1>3, <1>4, <2>3
    <3>2. s = tarjan_stack[stack_index[s] + 1]
      BY <1>4, <2>3
    <3> QED BY <2>1, <3>1, <3>2
  <2> QED BY <2>2, <2>3
<1>8. \A s \in Scc : OnStack(s) /\ q <= stack_index[s]
  BY <1>5, <1>6, <1>7
<1>9. Settled \subseteq Scc
  BY DEF Settled
<1>10. \A s \in Settled : ~IsSolved(s) /\ flag[s] = "initialized"
  <2> SUFFICES ASSUME NEW s \in Settled PROVE ~IsSolved(s) /\ flag[s] = "initialized"
    OBVIOUS
  <2>1. ~IsSolved(s) /\ s \in State /\ OnStack(s)
    BY <1>6, <1>8 DEF Settled
  <2>2. flag[s] \in Flags /\ flag[s] # "uninitialized" /\ flag[s] # "fringe"
    BY <1>1, <2>1 DEF IInv, FrameStates, TypeOK, BaseTypeOK
  <2> QED BY <2>1, <2>2 DEF Flags, IsSolved, IsGoalOrTerminal
<1>11. \A s \in solved : OnStack(s) => s \in Scc
  <2> SUFFICES ASSUME NEW s \in solved, OnStack(s) PROVE s \in Scc
    OBVIOUS
  <2>1. s \in State /\ s = Top.state /\ Top.lowlink = q
    BY <1>1 DEF IInv, FrameStates, TypeOK
  <2> QED BY <1>2, <1>7, <2>1 DEF IsSccRoot
<1>12. ASSUME Top.solved, NEW s \in Segment(n), NEW t \in PolicySuccessors(s)
       PROVE  Settles(t) \/ (OnStack(t) /\ Top.lowlink <= stack_index[t])
  <2>1. Settles(t) \/ Linked(n, t) \/ Pending(n, s, t)
    BY <1>1, <1>2, <1>12 DEF IInv, FrameSuccessors
  <2>2. ~Pending(n, s, t)
    BY <1>1, <1>2 DEF Pending, IInv, FrameShape
  <2> QED BY <1>2, <2>1, <2>2 DEF Linked
<1>13. ASSUME Top.solved, NEW s \in Scc, NEW t \in PolicySuccessors(s)
       PROVE  Settles(t) \/ t \in Scc
  <2>1. IsSccRoot
    BY <1>5, <1>13
  <2>2. s \in Segment(n) /\ s \in State
    BY <1>2, <1>6, <1>8 DEF Segment
  <2>3. t \in State
    BY <2>2, PolicySuccessorsType DEF IInv
  <2>4. Settles(t) \/ (OnStack(t) /\ q <= stack_index[t])
    BY <1>12, <1>13, <2>1, <2>2 DEF IsSccRoot
  <2> QED BY <1>7, <2>1, <2>3, <2>4
<1> QED BY <1>5, <1>6, <1>7, <1>8, <1>9, <1>10, <1>11, <1>12, <1>13

(* Labelling the states of a component keeps the labels closed.            *)
LEMMA LeaveSccLabels ==
  ASSUME IInv, pc = "backtrack", LeaveScc, UNCHANGED base_vars
  PROVE  /\ solved' \subseteq State
         /\ \A s \in solved' : flag[s] = "initialized" /\ (s \in solved \/ s \in Scc)
         /\ ~config.label_solved => solved' = {}
         /\ \A s : IsSolved(s) => IsSolved(s)'
         /\ config.label_solved /\ Top.solved => \A s \in Scc : IsSolved(s)'
         /\ LabelsClosed'
<1>1. /\ Scc \subseteq State /\ Settled \subseteq Scc
      /\ \A s \in Settled : flag[s] = "initialized"
      /\ Top.solved =>
           \A s \in Scc : \A t \in PolicySuccessors(s) : Settles(t) \/ t \in Scc
  BY ComponentFacts
<1>2. /\ config.label_solved => solved' = solved \union Settled
      /\ ~config.label_solved => solved' = solved
      /\ ~config.label_solved => solved = {}
      /\ solved \subseteq State
      /\ \A s \in solved : flag[s] = "initialized"
  BY DEF LeaveScc, IInv, LabelMode, WorkExpanded, TypeOK
<1>3. /\ \A s : PolicySuccessors(s)' = PolicySuccessors(s)
      /\ \A s : IsGoalOrTerminal(s)' <=> IsGoalOrTerminal(s)
  BY BaseSame
<1>4. \A s : IsSolved(s) => IsSolved(s)'
  BY <1>2, <1>3 DEF IsSolved
<1>5. config.label_solved /\ Top.solved => \A s \in Scc : IsSolved(s)'
  BY <1>2, <1>3, <1>4 DEF Settled, IsSolved
<1>6. LabelsClosed'
  <2> SUFFICES ASSUME NEW s \in solved', NEW t \in PolicySuccessors(s)
               PROVE  IsSolved(t)'
    BY <1>3 DEF LabelsClosed
  <2>1. CASE s \in solved
    BY <1>4, <2>1 DEF IInv, LabelsClosed
  <2>2. CASE s \notin solved
    <3>1. config.label_solved /\ s \in Settled /\ Top.solved /\ s \in Scc
      BY <1>2, <1>1, <2>2 DEF Settled
    <3>2. IsSolved(t) \/ t \in Scc
      BY <1>1, <3>1 DEF Settles
    <3> QED BY <1>4, <1>5, <3>1, <3>2
  <2> QED BY <2>1, <2>2
<1> QED BY <1>1, <1>2, <1>4, <1>5, <1>6

(* The stacks after the component of a frame above the bottom is popped.   *)
LEMMA PopStacks ==
  ASSUME IInv, pc = "backtrack", Len(dfs_stack) > 1,
         tarjan_stack' = IF IsSccRoot THEN SubSeq(tarjan_stack, 1, Top.lowlink)
                         ELSE tarjan_stack,
         stack_index' = [s \in State |-> IF s \in Scc THEN Closed
                                         ELSE stack_index[s]]
  PROVE  /\ tarjan_stack' \in Seq(State)
         /\ stack_index' \in [State -> Nat \union {New, Closed}]
         /\ \A s \in State : /\ OnStack(s)' <=> OnStack(s) /\ s \notin Scc
                             /\ s \in Scc => stack_index'[s] = Closed
                             /\ s \notin Scc => stack_index'[s] = stack_index[s]
         /\ \A i \in 1 .. Len(tarjan_stack') :
              stack_index'[tarjan_stack'[i]] = i - 1
         /\ \A s \in State : OnStack(s)' =>
              /\ stack_index'[s] < Len(tarjan_stack')
              /\ tarjan_stack'[stack_index'[s] + 1] = s
<1> DEFINE n == Len(dfs_stack)
           m == Len(tarjan_stack)
           q == stack_index[Top.state]
<1>1. pc \in Exploring
  BY DEF Exploring
<1>2. /\ Top.state \in State /\ Top.lowlink \in Nat /\ q \in Nat
      /\ tarjan_stack \in Seq(State) /\ m \in Nat
      /\ stack_index \in [State -> Nat \union {New, Closed}]
      /\ n \in 1 .. n /\ Top = dfs_stack[n]
  BY <1>1, TopType DEF IInv, Frame, TypeOK
<1>3. /\ \A s \in State : OnStack(s) => /\ stack_index[s] < m
                                        /\ tarjan_stack[stack_index[s] + 1] = s
                                        /\ stack_index[s] \in Nat
      /\ \A i \in 1 .. m : stack_index[tarjan_stack[i]] = i - 1
  BY <1>1, <1>2 DEF IInv, StackDiscipline, OnStack
<1>4. q < m
  <2>1. OnStack(Top.state)
    BY <1>2 DEF OnStack, New, Closed
  <2> QED BY <1>2, <1>3, <2>1
<1>5. /\ Scc \subseteq State
      /\ ~IsSccRoot => Scc = {}
      /\ \A s \in State : IsSccRoot => (s \in Scc <=> OnStack(s) /\ q <= stack_index[s])
  BY ComponentFacts
<1>6. /\ stack_index' \in [State -> Nat \union {New, Closed}]
      /\ \A s \in State : /\ s \in Scc => stack_index'[s] = Closed
                          /\ s \notin Scc => stack_index'[s] = stack_index[s]
  BY <1>2
<1>7. \A s \in State : OnStack(s)' <=> OnStack(s) /\ s \notin Scc
  BY <1>6 DEF OnStack
<1>8. CASE IsSccRoot
  <2>1. /\ tarjan_stack' \in Seq(State) /\ Len(tarjan_stack') = q
        /\ \A i \in 1 .. q : tarjan_stack'[i] = tarjan_stack[i]
    <3>1. Top.lowlink = q /\ q \in 0 .. m
      BY <1>2, <1>4, <1>8 DEF IsSccRoot
    <3> QED BY <1>2, <1>8, <3>1, PopFacts
  <2>2. ASSUME NEW i \in 1 .. q
        PROVE  stack_index'[tarjan_stack'[i]] = i - 1
    <3>1. i \in 1 .. m /\ i - 1 < q
      BY <1>2, <1>4
    <3>2. tarjan_stack[i] \in State /\ stack_index[tarjan_stack[i]] = i - 1
      BY <1>2, <1>3, <3>1
    <3>3. tarjan_stack[i] \notin Scc
      BY <1>2, <1>5, <1>8, <3>1, <3>2
    <3> QED BY <1>6, <2>1, <3>2, <3>3
  <2>3. ASSUME NEW s \in State, OnStack(s)'
        PROVE  stack_index'[s] < q /\ tarjan_stack'[stack_index'[s] + 1] = s
    <3>1. OnStack(s) /\ s \notin Scc /\ stack_index'[s] = stack_index[s]
      BY <1>6, <1>7, <2>3
    <3>2. stack_index[s] \in Nat /\ stack_index[s] < q
      BY <1>2, <1>3, <1>5, <1>8, <3>1
    <3>3. stack_index[s] + 1 \in 1 .. q
      BY <1>2, <3>2
    <3> QED BY <1>3, <2>1, <3>1, <3>2, <3>3
  <2> HIDE DEF q
  <2> QED BY <1>6, <1>7, <2>1, <2>2, <2>3
<1>9. CASE ~IsSccRoot
  <2>1. tarjan_stack' = tarjan_stack /\ Scc = {}
    BY <1>5, <1>9
  <2>2. \A i \in 1 .. m : stack_index'[tarjan_stack[i]] = i - 1
    BY <1>2, <1>3, <1>6, <2>1
  <2> QED BY <1>2, <1>3, <1>6, <1>7, <2>1, <2>2
<1> QED BY <1>8, <1>9

(* Popping a frame: its segment is its component, and is settled with it,  *)
(* or merges with the segment of its parent.                               *)
LEMMA BacktrackStep ==
  ASSUME IInv, Backtrack
  PROVE  IInv'
<1> DEFINE n == Len(dfs_stack)
           q == stack_index[Top.state]
           parent == dfs_stack[n - 1]
<1>1. /\ pc = "backtrack" /\ pc \in Exploring /\ pc' = "advance"
      /\ n > 1 /\ LeaveScc
      /\ UNCHANGED base_vars
      /\ UNCHANGED <<config, flag, policy, initial_state, vi>>
      /\ tarjan_stack' = IF IsSccRoot THEN SubSeq(tarjan_stack, 1, Top.lowlink)
                         ELSE tarjan_stack
      /\ stack_index' = [s \in State |-> IF s \in Scc THEN Closed
                                         ELSE stack_index[s]]
      /\ visited_states' = IF config.label_solved THEN visited_states
                           ELSE visited_states \union Settled
  BY DEF Backtrack, Exploring, base_vars, LeaveScc
<1>2. /\ n \in Nat \ {0} /\ n \in 1 .. n /\ n - 1 \in 1 .. n
      /\ n - 1 \in Nat \ {0}
      /\ Top \in Frame /\ Top = dfs_stack[n]
      /\ Top.state \in State /\ Top.lowlink \in Nat /\ q \in Nat
      /\ Top.lowlink <= q
      /\ dfs_stack \in Seq(Frame)
  BY <1>1, TopType DEF IInv, Frame, TypeOK
<1>3. \A i \in 1 .. n : /\ dfs_stack[i] \in Frame
                        /\ dfs_stack[i].state \in State
                        /\ dfs_stack[i].lowlink \in Nat
                        /\ dfs_stack[i].solved \in BOOLEAN
  <2>1. \A i \in 1 .. n : dfs_stack[i] \in Frame
    BY <1>2
  <2> QED BY <2>1 DEF Frame
<1>4. parent \in Frame /\ parent.lowlink \in Nat /\ parent.state \in State
  BY <1>2, <1>3
<1>5. PICK f \in Frame :
        /\ dfs_stack' = Append(SubSeq(dfs_stack, 1, n - 2), f)
        /\ f.state = parent.state
        /\ f.lowlink <= parent.lowlink
        /\ ~IsSccRoot => f.lowlink <= Top.lowlink
        /\ f.successors = parent.successors
        /\ f.solved <=> parent.solved /\ Top.solved
  <2>1. PICK l \in Nat :
          /\ l = IF IsSccRoot THEN parent.lowlink
                 ELSE Min({Top.lowlink, parent.lowlink})
          /\ l <= parent.lowlink
          /\ ~IsSccRoot => l <= Top.lowlink
    BY <1>2, <1>4, MinOfTwo
  <2>2. PICK b \in BOOLEAN : b = (parent.solved /\ Top.solved)
    OBVIOUS
  <2> DEFINE g == [parent EXCEPT !.lowlink = l, !.solved = b]
  <2>3. dfs_stack' = Append(SubSeq(dfs_stack, 1, n - 2), g)
    BY <2>1, <2>2 DEF Backtrack
  <2>4. /\ g \in Frame /\ g.state = parent.state /\ g.lowlink = l
        /\ g.successors = parent.successors /\ g.solved = b
    BY <1>4 DEF Frame
  <2> HIDE DEF g
  <2> QED BY <2>1, <2>2, <2>3, <2>4
<1>6. /\ dfs_stack' \in Seq(Frame)
      /\ Len(dfs_stack') = n - 1
      /\ dfs_stack'[n - 1] = f
      /\ \A i \in 1 .. n - 1 : i # n - 1 => dfs_stack'[i] = dfs_stack[i]
      /\ dfs_stack' # <<>>
  <2> DEFINE below == SubSeq(dfs_stack, 1, n - 2)
  <2>1. n - 2 \in 0 .. n
    BY <1>2
  <2>2. /\ below \in Seq(Frame) /\ Len(below) = n - 2
        /\ \A i \in 1 .. n - 2 : below[i] = dfs_stack[i]
    BY <1>2, <2>1, PopFacts
  <2> HIDE DEF below
  <2>3. /\ Append(below, f) \in Seq(Frame)
        /\ Len(Append(below, f)) = Len(below) + 1
        /\ Append(below, f)[Len(below) + 1] = f
        /\ \A i \in 1 .. Len(below) : Append(below, f)[i] = below[i]
    BY <2>2, PushFacts
  <2>4. dfs_stack' = Append(below, f)
    BY <1>5 DEF below
  <2> QED BY <1>2, <2>2, <2>3, <2>4, SMTT(30)
<1>7. \A i \in 1 .. n - 1 : /\ i \in 1 .. n
                            /\ dfs_stack'[i].state = dfs_stack[i].state
                            /\ dfs_stack'[i].lowlink <= dfs_stack[i].lowlink
                            /\ dfs_stack'[i].lowlink \in Nat
                            /\ dfs_stack'[i].successors = dfs_stack[i].successors
                            /\ dfs_stack'[i].solved => dfs_stack[i].solved
  <2> SUFFICES ASSUME NEW i \in 1 .. n - 1
               PROVE  /\ i \in 1 .. n
                      /\ dfs_stack'[i].state = dfs_stack[i].state
                      /\ dfs_stack'[i].lowlink <= dfs_stack[i].lowlink
                      /\ dfs_stack'[i].lowlink \in Nat
                      /\ dfs_stack'[i].successors = dfs_stack[i].successors
                      /\ dfs_stack'[i].solved => dfs_stack[i].solved
    OBVIOUS
  <2>1. i \in 1 .. n
    BY <1>2
  <2>2. CASE i = n - 1
    <3>1. f.lowlink \in Nat
      BY DEF Frame
    <3> QED BY <1>5, <1>6, <2>1, <2>2, <3>1
  <2>3. CASE i # n - 1
    BY <1>3, <1>6, <2>1, <2>3
  <2> QED BY <2>2, <2>3
<1>8. /\ tarjan_stack' \in Seq(State)
      /\ stack_index' \in [State -> Nat \union {New, Closed}]
      /\ \A s \in State : /\ OnStack(s)' <=> OnStack(s) /\ s \notin Scc
                          /\ s \in Scc => stack_index'[s] = Closed
                          /\ s \notin Scc => stack_index'[s] = stack_index[s]
      /\ \A i \in 1 .. Len(tarjan_stack') :
           stack_index'[tarjan_stack'[i]] = i - 1
      /\ \A s \in State : OnStack(s)' =>
           /\ stack_index'[s] < Len(tarjan_stack')
           /\ tarjan_stack'[stack_index'[s] + 1] = s
  BY <1>1, PopStacks
<1>9. /\ Scc \subseteq State /\ Settled \subseteq Scc
      /\ ~IsSccRoot => Scc = {}
      /\ \A s \in State : IsSccRoot => (s \in Scc <=> OnStack(s) /\ q <= stack_index[s])
      /\ \A s \in Scc : OnStack(s) /\ q <= stack_index[s]
  BY <1>1, ComponentFacts
<1>10. \A s \in State : OnStack(s) => stack_index[s] \in Nat
  BY DEF IInv, TypeOK, OnStack
<1>11. \A i \in 1 .. n : /\ OnStack(dfs_stack[i].state)
                         /\ stack_index[dfs_stack[i].state] \in Nat
                         /\ dfs_stack[i].lowlink <= stack_index[dfs_stack[i].state]
                         /\ stack_index[dfs_stack[i].state] <= q
                         /\ i # n => stack_index[dfs_stack[i].state] < q
  BY <1>1, <1>2, <1>3, <1>10 DEF IInv, StackDiscipline
<1>12. ASSUME NEW i \in 1 .. n - 1
       PROVE  /\ dfs_stack[i].state \notin Scc
              /\ stack_index'[dfs_stack[i].state] = stack_index[dfs_stack[i].state]
              /\ OnStack(dfs_stack[i].state)'
  <2>1. /\ i \in 1 .. n /\ i # n /\ dfs_stack[i].state \in State
        /\ dfs_stack'[i].state = dfs_stack[i].state
    BY <1>2, <1>3, <1>7
  <2>2. stack_index[dfs_stack[i].state] < q /\ OnStack(dfs_stack[i].state)
    BY <1>11, <2>1
  <2>3. dfs_stack[i].state \notin Scc
    BY <1>2, <1>9, <1>11, <2>1, <2>2
  <2>4. \A s \in State : s = dfs_stack[i].state => OnStack(s)'
    BY <1>8, <2>2, <2>3
  <2>5. PICK s \in State : s = dfs_stack[i].state
    BY <2>1
  <2>6. OnStack(s)' /\ s = dfs_stack'[i].state
    BY <2>1, <2>4, <2>5
  <2> QED BY <1>8, <2>1, <2>3, <2>6 DEF OnStack
<1>13. /\ solved' \subseteq State
       /\ \A s \in solved' : flag[s] = "initialized" /\ (s \in solved \/ s \in Scc)
       /\ ~config.label_solved => solved' = {}
       /\ \A s : IsSolved(s) => IsSolved(s)'
       /\ config.label_solved /\ Top.solved => \A s \in Scc : IsSolved(s)'
       /\ LabelsClosed'
  BY <1>1, LeaveSccLabels
<1>14. /\ \A s : PolicySuccessors(s)' = PolicySuccessors(s)
       /\ \A s : IsGoalOrTerminal(s)' <=> IsGoalOrTerminal(s)
  BY <1>1, BaseSame
<1>15. \A t \in State : Settles(t) => Settles(t)'
  BY <1>1, <1>8, <1>13 DEF Settles
<1>16. Top.solved => \A t \in Scc : Settles(t)'
  BY <1>1, <1>8, <1>9, <1>13 DEF Settles
<1>17. TypeOK' /\ PolicyApplicable' /\ InfoOK'
  BY <1>1, <1>6, <1>8, <1>9, <1>13, BaseSame DEF IInv, TypeOK, PCs
<1>18. StackDiscipline'
  <2>1. ASSUME NEW i \in 1 .. n - 1
        PROVE  /\ OnStack(dfs_stack[i].state)'
               /\ dfs_stack'[i].lowlink <= stack_index'[dfs_stack'[i].state]
    <3>1. /\ dfs_stack'[i].lowlink \in Nat /\ dfs_stack[i].lowlink \in Nat
          /\ dfs_stack'[i].lowlink <= dfs_stack[i].lowlink
          /\ dfs_stack[i].lowlink <= stack_index[dfs_stack[i].state]
          /\ stack_index[dfs_stack[i].state] \in Nat
      BY <1>3, <1>7, <1>11
    <3> QED BY <1>7, <1>12, <3>1, SMTT(30)
  <2>2. ASSUME NEW i \in 1 .. n - 1, NEW j \in 1 .. n - 1, i < j
        PROVE  stack_index'[dfs_stack'[i].state] < stack_index'[dfs_stack'[j].state]
    <3>1. stack_index[dfs_stack[i].state] < stack_index[dfs_stack[j].state]
      BY <1>1, <1>7, <2>2 DEF IInv, StackDiscipline
    <3> QED BY <1>7, <1>12, <3>1
  <2> HIDE DEF n
  <2> QED BY <1>1, <1>6, <1>8, <2>1, <2>2 DEF StackDiscipline
<1>19. FrameShape'
  <2>1. 1 \in 1 .. n - 1 /\ stack_index[dfs_stack[1].state] = 0
    BY <1>1, <1>2 DEF IInv, FrameShape
  <2>2. stack_index'[dfs_stack'[1].state] = 0
    BY <1>7, <1>12, <2>1
  <2> QED BY <1>1, <2>2 DEF FrameShape, Exploring
<1>20. FrameStates'
  <2>1. ASSUME NEW s \in State, OnStack(s)'
        PROVE  flag'[s] # "uninitialized" /\ flag'[s] # "fringe" /\ s \notin solved'
    <3>1. OnStack(s) /\ s \notin Scc
      BY <1>8, <2>1
    <3>2. flag[s] # "uninitialized" /\ flag[s] # "fringe"
      BY <1>1, <3>1 DEF IInv, FrameStates
    <3>3. s \notin solved
      BY <1>1, <3>1, ComponentFacts
    <3> QED BY <1>1, <1>13, <3>1, <3>2, <3>3
  <2>2. ASSUME NEW i \in 1 .. n - 1
        PROVE  /\ dfs_stack'[i].successors \subseteq PolicySuccessors(dfs_stack[i].state)'
               /\ flag'[dfs_stack'[i].state] = "initialized"
    <3>1. i \in 1 .. n /\ i < n
      BY <1>2
    <3>2. /\ dfs_stack[i].successors \subseteq PolicySuccessors(dfs_stack[i].state)
          /\ flag[dfs_stack[i].state] = "initialized"
      BY <1>1, <3>1 DEF IInv, FrameStates
    <3> QED BY <1>1, <1>7, <3>2 DEF PolicySuccessors
  <2> HIDE DEF n
  <2> QED BY <1>1, <1>6, <2>1, <2>2 DEF FrameStates
<1>21. FrameSuccessors'
  <2> SUFFICES ASSUME NEW i \in 1 .. n - 1, dfs_stack'[i].solved,
                      NEW s \in Segment(i)', NEW t \in PolicySuccessors(s)
               PROVE  Settles(t)' \/ Linked(i, t)' \/ Pending(i, s, t)'
    BY <1>6, <1>14 DEF FrameSuccessors
  <2>1. /\ s \in State /\ OnStack(s)'
        /\ stack_index'[dfs_stack'[i].state] <= stack_index'[s]
        /\ i < n - 1 => stack_index'[s] < stack_index'[dfs_stack'[i + 1].state]
    BY <1>6 DEF Segment
  <2>2. t \in State /\ i \in 1 .. n /\ i < n /\ i \in Nat
    BY <1>2, <2>1, PolicySuccessorsType DEF IInv
  <2>3. /\ OnStack(s) /\ s \notin Scc /\ stack_index'[s] = stack_index[s]
        /\ stack_index[dfs_stack[i].state] <= stack_index[s]
        /\ stack_index[s] \in Nat
    BY <1>7, <1>8, <1>10, <1>12, <2>1
  <2>4. i + 1 \in 1 .. n
    BY <1>2, <2>2
  <2>5. ASSUME Linked(i, t) PROVE Linked(i, t)'
    <3>1. /\ OnStack(t) /\ stack_index[t] \in Nat
          /\ dfs_stack[i].lowlink <= stack_index[t]
          /\ stack_index[t] < stack_index[dfs_stack[i + 1].state]
      BY <1>10, <2>2, <2>5 DEF Linked
    <3>2. stack_index[t] < q
      BY <1>2, <1>11, <2>4, <3>1
    <3>3. t \notin Scc
      BY <1>2, <1>9, <3>1, <3>2
    <3>4. OnStack(t)' /\ stack_index'[t] = stack_index[t]
      BY <1>8, <2>2, <3>1, <3>3
    <3>5. dfs_stack'[i].lowlink <= stack_index'[t]
      BY <1>3, <1>7, <2>2, <3>1, <3>4
    <3>6. ASSUME i < n - 1
          PROVE  stack_index'[t] < stack_index'[dfs_stack'[i + 1].state]
      <4>1. i + 1 \in 1 .. n - 1
        BY <1>2, <2>2, <3>6
      <4> QED BY <1>7, <1>12, <3>1, <3>4, <4>1
    <3> QED BY <1>6, <3>4, <3>5, <3>6 DEF Linked
  <2>6. CASE i < n - 1
    <3>1. i + 1 \in 1 .. n - 1 /\ dfs_stack'[i] = dfs_stack[i]
      <4>1. i # n - 1
        BY <1>2, <2>2, <2>6
      <4>2. i + 1 \in 1 .. n - 1
        BY <1>2, <2>2, <2>6
      <4> QED BY <1>6, <4>1, <4>2
    <3>2. stack_index[s] < stack_index[dfs_stack[i + 1].state]
      BY <1>7, <1>12, <2>1, <2>3, <2>6, <3>1
    <3>3. s \in Segment(i)
      BY <2>1, <2>3, <3>2 DEF Segment
    <3>4. Settles(t) \/ Linked(i, t) \/ Pending(i, s, t)
      BY <1>1, <2>2, <3>1, <3>3 DEF IInv, FrameSuccessors
    <3>5. Pending(i, s, t) => Pending(i, s, t)'
      BY <1>1, <1>6, <1>7, <2>2, <2>6, <3>1 DEF Pending
    <3> QED BY <1>15, <2>2, <2>5, <3>4, <3>5
  <2>7. CASE i = n - 1
    <3>1. /\ parent.solved /\ Top.solved
          /\ dfs_stack'[i] = f /\ dfs_stack[i] = parent
      BY <1>5, <1>6, <2>7
    <3>2. CASE stack_index[s] < q
      <4>1. s \in Segment(i)
        BY <1>2, <2>1, <2>3, <2>7, <3>2 DEF Segment
      <4>2. Settles(t) \/ Linked(i, t) \/ Pending(i, s, t)
        BY <1>1, <2>2, <3>1, <4>1 DEF IInv, FrameSuccessors
      <4>3. ASSUME Pending(i, s, t)
            PROVE  Settles(t)' \/ Linked(i, t)' \/ Pending(i, s, t)'
        <5>1. /\ s = parent.state
              /\ t \in parent.successors \/ t = Top.state
          BY <1>2, <2>2, <2>7, <4>3 DEF Pending
        <5>2. CASE t \in parent.successors
          BY <1>5, <3>1, <5>1, <5>2 DEF Pending
        <5>3. CASE t = Top.state /\ IsSccRoot
          <6>1. OnStack(t) /\ q <= stack_index[t]
            BY <1>2, <1>11, <5>3
          <6> QED BY <1>9, <1>16, <2>2, <3>1, <5>3, <6>1
        <5>4. CASE t = Top.state /\ ~IsSccRoot
          <6>1. OnStack(t)' /\ stack_index'[t] = q
            BY <1>2, <1>8, <1>9, <1>11, <2>2, <5>4
          <6>2. f.lowlink <= q
            <7>1. f.lowlink \in Nat
              BY DEF Frame
            <7> QED BY <1>2, <1>5, <5>4, <7>1
          <6>3. ~(i < n - 1)
            BY <1>2, <2>7
          <6> HIDE DEF q, n
          <6> QED BY <1>6, <3>1, <6>1, <6>2, <6>3 DEF Linked
        <5> QED BY <5>1, <5>2, <5>3, <5>4
      <4> QED BY <1>15, <2>2, <2>5, <4>2, <4>3
    <3>3. CASE ~(stack_index[s] < q)
      <4>1. q <= stack_index[s]
        BY <1>2, <2>3, <3>3
      <4>2. ~IsSccRoot /\ Scc = {}
        BY <1>9, <2>1, <2>3, <4>1
      <4>3. s \in Segment(n)
        BY <1>2, <2>1, <2>3, <4>1 DEF Segment
      <4>4. Settles(t) \/ (OnStack(t) /\ Top.lowlink <= stack_index[t])
        BY <1>1, <3>1, <4>3, ComponentFacts
      <4>5. ASSUME OnStack(t), Top.lowlink <= stack_index[t]
            PROVE  Linked(i, t)'
        <5>1. OnStack(t)' /\ stack_index'[t] = stack_index[t] /\ stack_index[t] \in Nat
          BY <1>8, <1>10, <2>2, <4>2, <4>5
        <5>2. f.lowlink <= stack_index[t]
          <6>1. f.lowlink \in Nat
            BY DEF Frame
          <6> QED BY <1>2, <1>5, <4>2, <4>5, <5>1, <6>1
        <5>3. ~(i < n - 1)
          BY <1>2, <2>7
        <5> HIDE DEF n
        <5> QED BY <1>6, <3>1, <5>1, <5>2, <5>3 DEF Linked
      <4> QED BY <1>15, <2>2, <4>4, <4>5
    <3> QED BY <3>2, <3>3
  <2>8. i < n - 1 \/ i = n - 1
    BY <1>2, <2>2
  <2> QED BY <2>6, <2>7, <2>8
<1>22. LabelMode' /\ WorkExpanded'
  <2>1. \A s \in Settled : flag[s] = "initialized"
    BY <1>1, ComponentFacts
  <2> QED BY <1>1, <1>13, <2>1 DEF IInv, LabelMode, WorkExpanded
<1>23. Scheduled'
  <2>1. ASSUME NEW s \in visited_states'
        PROVE  stack_index'[s] = Closed /\ \A t \in PolicySuccessors(s)' : Settles(t)'
    <3>1. CASE s \in visited_states
      <4>1. /\ s \in State /\ stack_index[s] = Closed
            /\ \A t \in PolicySuccessors(s) : Settles(t)
        BY <1>1, <3>1 DEF IInv, TypeOK, Scheduled
      <4>2. PolicySuccessors(s) \subseteq State
        BY <4>1, PolicySuccessorsType DEF IInv
      <4> QED BY <1>8, <1>14, <1>15, <4>1, <4>2
    <3>2. CASE s \notin visited_states
      <4>1. s \in Settled /\ s \in Scc /\ Top.solved
        BY <1>1, <2>1, <3>2 DEF Settled
      <4>2. \A t \in PolicySuccessors(s) : Settles(t) \/ t \in Scc
        BY <1>1, <4>1, ComponentFacts
      <4>3. s \in State /\ PolicySuccessors(s) \subseteq State
        BY <1>9, <4>1, PolicySuccessorsType DEF IInv
      <4> QED BY <1>8, <1>14, <1>15, <1>16, <4>1, <4>2, <4>3
    <3> QED BY <3>1, <3>2
  <2>2. ASSUME ~config.label_solved, \A i \in 1 .. n - 1 : dfs_stack'[i].solved,
               NEW s \in State, stack_index'[s] = Closed
        PROVE  s \in visited_states' \/ IsGoalOrTerminal(s)
    <3>1. parent.solved /\ Top.solved
      BY <1>2, <1>5, <1>6, <2>2
    <3>2. \A i \in 1 .. n : dfs_stack[i].solved
      <4> SUFFICES ASSUME NEW i \in 1 .. n PROVE dfs_stack[i].solved
        OBVIOUS
      <4>1. CASE i = n
        BY <1>2, <3>1, <4>1
      <4>2. CASE i # n
        <5>1. i \in 1 .. n - 1
          BY <1>2, <4>2
        <5> QED BY <1>7, <2>2, <5>1
      <4> QED BY <4>1, <4>2
    <3>3. \A u \in State : stack_index[u] = Closed =>
            u \in visited_states \/ IsGoalOrTerminal(u)
      BY <1>1, <2>2, <3>2 DEF IInv, Scheduled
    <3>4. CASE s \in Scc
      <4>1. IsSolved(s) => IsGoalOrTerminal(s)
        BY <2>2 DEF IInv, LabelMode, IsSolved
      <4> QED BY <1>1, <2>2, <3>1, <3>4, <4>1 DEF Settled
    <3>5. CASE s \notin Scc
      BY <1>1, <1>8, <2>2, <3>3, <3>5
    <3> QED BY <3>4, <3>5
  <2> HIDE DEF n
  <2> QED BY <1>1, <1>6, <1>14, <2>1, <2>2 DEF Scheduled
<1>24. ScheduledClosed' /\ flag'[initial_state'] # "uninitialized"
  BY <1>1 DEF IInv, ScheduledClosed
<1> QED BY <1>13, <1>17, <1>18, <1>19, <1>20, <1>21, <1>22, <1>23, <1>24 DEF IInv

(* Outside the exploration, most of the invariant says nothing.            *)
LEMMA Quiescent ==
  ASSUME pc' \notin Exploring
  PROVE  FrameStates' /\ FrameSuccessors' /\ Scheduled'
BY DEF FrameStates, FrameSuccessors, Scheduled

(* A timeout between the pop and the update of the parent leaves the       *)
(* labels closed.                                                          *)
LEMMA BacktrackTimeoutStep ==
  ASSUME IInv, BacktrackTimeout
  PROVE  IInv'
<1> DEFINE n == Len(dfs_stack)
<1>1. /\ pc = "backtrack" /\ pc \in Exploring /\ pc' = "timeout"
      /\ pc' \notin Exploring
      /\ n > 1 /\ LeaveScc
      /\ UNCHANGED base_vars
      /\ UNCHANGED <<config, flag, initial_state, vi>>
      /\ dfs_stack' = SubSeq(dfs_stack, 1, n - 1)
      /\ stack_index' = [s \in State |-> New]
      /\ visited_states' = IF config.label_solved THEN visited_states
                           ELSE visited_states \union Settled
      /\ tarjan_stack' = IF IsSccRoot THEN SubSeq(tarjan_stack, 1, Top.lowlink)
                         ELSE tarjan_stack
  BY DEF BacktrackTimeout, Exploring, base_vars, LeaveScc, ClearedIndex
<1>2. /\ n \in Nat \ {0} /\ n - 1 \in 0 .. n
      /\ Top.lowlink \in Nat /\ Top.lowlink <= stack_index[Top.state]
      /\ stack_index[Top.state] \in Nat /\ Top.state \in State
      /\ dfs_stack \in Seq(Frame)
      /\ tarjan_stack \in Seq(State)
  BY <1>1, TopType DEF IInv, Frame, TypeOK
<1>3. tarjan_stack' \in Seq(State)
  <2>1. OnStack(Top.state)
    BY <1>2 DEF OnStack, New, Closed
  <2>2. stack_index[Top.state] < Len(tarjan_stack)
    BY <1>1, <1>2, <2>1 DEF IInv, StackDiscipline
  <2>3. Top.lowlink \in 0 .. Len(tarjan_stack)
    BY <1>2, <2>2
  <2> QED BY <1>1, <1>2, <2>3, PopFacts
<1>4. dfs_stack' \in Seq(Frame)
  BY <1>1, <1>2, PopFacts
<1>5. /\ solved' \subseteq State
      /\ \A s \in solved' : flag[s] = "initialized"
      /\ ~config.label_solved => solved' = {}
      /\ LabelsClosed'
  BY <1>1, LeaveSccLabels
<1>6. /\ Settled \subseteq State
      /\ \A s \in Settled : flag[s] = "initialized"
  BY <1>1, ComponentFacts
<1>7. TypeOK' /\ PolicyApplicable' /\ InfoOK'
  BY <1>1, <1>3, <1>4, <1>5, <1>6, BaseSame DEF IInv, TypeOK, PCs
<1>8. StackDiscipline' /\ FrameShape' /\ ScheduledClosed'
  BY <1>1 DEF StackDiscipline, FrameShape, ScheduledClosed
<1>9. LabelMode' /\ WorkExpanded'
  BY <1>1, <1>5, <1>6 DEF IInv, LabelMode, WorkExpanded
<1>10. flag'[initial_state'] # "uninitialized"
  BY <1>1 DEF IInv
<1> QED BY <1>1, <1>5, <1>7, <1>8, <1>9, <1>10, Quiescent DEF IInv

(* The end of an exploration: if nothing failed, all that was explored is  *)
(* scheduled, final or labelled.                                           *)
LEMMA EndExplorationStep ==
  ASSUME IInv, EndExploration
  PROVE  IInv'
<1>1. /\ pc = "backtrack" /\ pc \in Exploring
      /\ pc' \in {"policy_exploration", "done", "vi_step"}
      /\ pc' \notin Exploring
      /\ Len(dfs_stack) = 1 /\ LeaveScc
      /\ UNCHANGED base_vars
      /\ UNCHANGED <<config, flag, initial_state>>
      /\ dfs_stack' = <<>>
      /\ stack_index' = [s \in State |-> New]
      /\ tarjan_stack' = IF IsSccRoot THEN SubSeq(tarjan_stack, 1, Top.lowlink)
                         ELSE tarjan_stack
  BY DEF EndExploration, Exploring, base_vars, LeaveScc, ClearedIndex
<1>2. /\ Top = dfs_stack[1] /\ Top.state \in State /\ Top.lowlink \in Nat
      /\ Top.lowlink <= stack_index[Top.state]
      /\ stack_index[Top.state] = 0
      /\ tarjan_stack \in Seq(State)
  BY <1>1, TopType DEF IInv, Frame, TypeOK, FrameShape
<1>3. IsSccRoot /\ tarjan_stack' = <<>>
  BY <1>1, <1>2 DEF IsSccRoot
<1>4. /\ solved' \subseteq State
      /\ \A s \in solved' : flag[s] = "initialized"
      /\ ~config.label_solved => solved' = {}
      /\ LabelsClosed'
  BY <1>1, LeaveSccLabels
<1>5. /\ Settled \subseteq State
      /\ \A s \in Settled : flag[s] = "initialized"
      /\ Top.solved =>
           \A s \in Scc : \A t \in PolicySuccessors(s) : Settles(t) \/ t \in Scc
      /\ Settled \subseteq Scc
  BY <1>1, ComponentFacts
<1>6. \/ /\ ~Top.solved
         /\ visited_states' = {}
         /\ pc' = "policy_exploration"
         /\ vi' = vi
      \/ /\ Top.solved /\ config.label_solved
         /\ pc' = "done"
         /\ visited_states' = visited_states /\ vi' = vi
      \/ /\ Top.solved /\ ~config.label_solved
         /\ visited_states' = visited_states \union Settled
         /\ vi' = FirstSweep(visited_states')
         /\ pc' = "vi_step"
  BY DEF EndExploration
<1>7. visited_states \subseteq State
  BY DEF IInv, TypeOK
<1>8. /\ visited_states' \subseteq visited_states \union Settled
      /\ visited_states' \subseteq State
      /\ pc' = "vi_step" => /\ Top.solved /\ ~config.label_solved
                            /\ visited_states' = visited_states \union Settled
                            /\ vi'.pending = visited_states'
      /\ pc' = "policy_exploration" => visited_states' = {}
      /\ visited_states' \subseteq visited_states \/ ~config.label_solved
  BY <1>5, <1>6, <1>7 DEF FirstSweep
<1>9. TypeOK' /\ PolicyApplicable' /\ InfoOK'
  <2>1. \A w \in SUBSET State :
          FirstSweep(w) \in [pending : SUBSET State,
                            value_changed : BOOLEAN, policy_changed : BOOLEAN]
    BY DEF FirstSweep
  <2>2. vi' \in [pending : SUBSET State,
                 value_changed : BOOLEAN, policy_changed : BOOLEAN]
    BY <1>6, <1>8, <2>1 DEF IInv, TypeOK
  <2>3. dfs_stack' \in Seq(Frame)
    BY <1>1
  <2>4. tarjan_stack' \in Seq(State)
    BY <1>3
  <2>5. stack_index' \in [State -> Nat \union {New, Closed}]
    BY <1>1
  <2>6. pc' \in PCs
    BY <1>1 DEF PCs
  <2> QED BY <1>1, <1>4, <1>8, <2>2, <2>3, <2>4, <2>5, <2>6, BaseSame
          DEF IInv, TypeOK
<1>10. StackDiscipline'
  <2>1. \A s \in State : ~OnStack(s)'
    BY <1>1 DEF OnStack
  <2>2. Len(tarjan_stack') = 0 /\ Len(dfs_stack') = 0
    BY <1>1, <1>3
  <2>3. /\ \A i \in 1 .. Len(tarjan_stack') : FALSE
        /\ \A i \in 1 .. Len(dfs_stack') : FALSE
    BY <2>2
  <2>4. pc' \in {"initialize", "push_successor", "advance", "backtrack"}
          <=> dfs_stack' # <<>>
    BY <1>1 DEF Exploring
  <2> QED BY <1>3, <2>1, <2>3, <2>4 DEF StackDiscipline
<1>11. FrameShape'
  BY <1>1 DEF FrameShape
<1>12. LabelMode' /\ WorkExpanded'
  <2>1. LabelMode'
    BY <1>1, <1>4, <1>8 DEF IInv, LabelMode
  <2>2. \A s \in visited_states : flag[s] = "initialized"
    BY DEF IInv, WorkExpanded
  <2> QED BY <1>1, <1>4, <1>5, <1>8, <2>1, <2>2 DEF WorkExpanded
<1>13. ScheduledClosed'
  <2> SUFFICES ASSUME pc' = "vi_step",
                      NEW s \in visited_states', NEW t \in PolicySuccessors(s)
               PROVE  t \in visited_states' \/ IsGoalOrTerminal(t)
    BY <1>1, BaseSame DEF ScheduledClosed
  <2>1. /\ Top.solved /\ ~config.label_solved
        /\ visited_states' = visited_states \union Settled
        /\ dfs_stack[1].solved
    BY <1>2, <1>8
  <2>2. s \in State /\ t \in State
    BY <1>8, PolicySuccessorsType DEF IInv
  <2>3. \A u \in State : IsSolved(u) => IsGoalOrTerminal(u)
    BY <2>1 DEF IInv, LabelMode, IsSolved
  <2>4. \A u \in State : stack_index[u] = Closed =>
            u \in visited_states \/ IsGoalOrTerminal(u)
    BY <1>1, <2>1 DEF IInv, Scheduled
  <2>5. \A u \in State : Settles(u) => u \in visited_states \/ IsGoalOrTerminal(u)
    BY <2>3, <2>4 DEF Settles
  <2>6. \A u \in Scc : u \in Settled \/ IsSolved(u)
    BY <2>1 DEF Settled
  <2>7. Settles(t) \/ t \in Scc
    BY <1>1, <1>5, <2>1 DEF IInv, Scheduled
  <2> QED BY <2>1, <2>2, <2>3, <2>5, <2>6, <2>7
<1>14. flag'[initial_state'] # "uninitialized"
  BY <1>1 DEF IInv
<1> QED BY <1>1, <1>4, <1>9, <1>10, <1>11, <1>12, <1>13, <1>14, Quiescent DEF IInv

(* A backup of value iteration: a policy change is recorded in             *)
(* policy_changed.                                                         *)
LEMMA ViUpdateStep ==
  ASSUME IInv, ViUpdate
  PROVE  IInv'
<1>1. PICK x \in vi.pending :
        /\ Backup(x)
        /\ vi' = [pending |-> vi.pending \ {x},
                  value_changed |-> vi.value_changed \/ ~ValueConverged(x),
                  policy_changed |-> vi.policy_changed \/ PolicyChanged(x)]
  BY DEF ViUpdate
<1>2. /\ pc = "vi_step" /\ pc' = "vi_step" /\ pc' \notin Exploring
      /\ UNCHANGED <<config, initial_state, pc, solved, dfs_stack, tarjan_stack,
                     stack_index, visited_states>>
      /\ UNCHANGED config
  BY DEF ViUpdate, Exploring, dfs_vars
<1>3. /\ ~config.label_solved /\ solved = {}
      /\ vi.pending \subseteq visited_states /\ visited_states \subseteq State
      /\ \A s \in visited_states : flag[s] = "initialized"
      /\ vi \in [pending : SUBSET State,
                 value_changed : BOOLEAN, policy_changed : BOOLEAN]
  BY <1>2 DEF IInv, LabelMode, WorkExpanded, TypeOK
<1>4. x \in State /\ flag[x] = "initialized"
  BY <1>1, <1>3
<1>5. BaseTypeOK /\ PolicyApplicable /\ InfoOK
  BY DEF IInv, TypeOK
<1>6. BaseTypeOK' /\ PolicyApplicable'
      /\ \A t \in State \ {x} : policy'[t] = policy[t]
  BY <1>1, <1>2, <1>4, <1>5, BackupType
<1>7. /\ InfoOK'
      /\ \A t \in State : t # x /\ flag[t] # "uninitialized" => flag'[t] = flag[t]
      /\ flag'[x] = "initialized"
  BY <1>1, <1>4, <1>5, BackupInfo
<1>8. \A t \in State : flag[t] # "uninitialized" => flag'[t] = flag[t]
  BY <1>4, <1>7
<1>9. vi' \in [pending : SUBSET State,
               value_changed : BOOLEAN, policy_changed : BOOLEAN]
  BY <1>1, <1>3
<1>10. TypeOK'
  BY <1>2, <1>6, <1>9 DEF IInv, TypeOK
<1>11. StackDiscipline' /\ FrameShape'
  BY <1>2 DEF IInv, StackDiscipline, FrameShape, OnStack, Exploring
<1>12. LabelMode' /\ WorkExpanded'
  BY <1>1, <1>2, <1>3, <1>8 DEF IInv, LabelMode, WorkExpanded
<1>13. LabelsClosed'
  BY <1>2, <1>3 DEF LabelsClosed
<1>14. ScheduledClosed'
  <2> SUFFICES ASSUME ~vi'.policy_changed,
                      NEW s \in visited_states, NEW t \in PolicySuccessors(s)'
               PROVE  t \in visited_states \/ IsGoalOrTerminal(t)'
    BY <1>2 DEF ScheduledClosed
  <2>1. ~vi.policy_changed /\ policy'[x] = policy[x]
    BY <1>1 DEF PolicyChanged
  <2>2. t \in PolicySuccessors(s)
    BY <1>3, <1>6, <2>1 DEF PolicySuccessors
  <2>3. t \in State
    BY <1>3, <2>2, PolicySuccessorsType DEF IInv
  <2>4. t \in visited_states \/ IsGoalOrTerminal(t)
    BY <1>2, <2>1, <2>2 DEF IInv, ScheduledClosed
  <2> QED BY <1>8, <2>3, <2>4 DEF IsGoalOrTerminal
<1>15. flag'[initial_state'] # "uninitialized"
  BY <1>2, <1>8, SearchAssumption DEF IInv, TypeOK
<1> QED BY <1>2, <1>6, <1>7, <1>10, <1>11, <1>12, <1>13, <1>14, <1>15, Quiescent DEF IInv

(* The end of a sweep.                                                     *)
LEMMA ViSweepEndStep ==
  ASSUME IInv, ViSweepEnd
  PROVE  IInv'
<1>1. /\ pc = "vi_step" /\ pc' \in {"policy_exploration", "vi_step", "done"}
      /\ pc' \notin Exploring
      /\ UNCHANGED base_vars
      /\ UNCHANGED <<config, flag, initial_state, solved, dfs_stack, tarjan_stack, stack_index>>
  BY DEF ViSweepEnd, Exploring, dfs_vars, base_vars
<1>2. \/ /\ visited_states' = {}
         /\ pc' # "vi_step"
         /\ vi' = vi
      \/ /\ ~vi.policy_changed
         /\ visited_states' = visited_states
         /\ vi' = FirstSweep(visited_states)
         /\ pc' = "vi_step"
  BY <1>1 DEF ViSweepEnd
<1>3. /\ visited_states \subseteq State
      /\ \A s \in visited_states : flag[s] = "initialized"
      /\ vi \in [pending : SUBSET State,
                 value_changed : BOOLEAN, policy_changed : BOOLEAN]
      /\ ~config.label_solved /\ solved = {}
  BY <1>1 DEF IInv, TypeOK, WorkExpanded, LabelMode
<1>4. TypeOK' /\ PolicyApplicable' /\ InfoOK'
  <2>1. FirstSweep(visited_states) \in
          [pending : SUBSET State,
           value_changed : BOOLEAN, policy_changed : BOOLEAN]
    BY <1>3 DEF FirstSweep
  <2>2. visited_states' \subseteq State /\ pc' \in PCs
    BY <1>1, <1>2, <1>3 DEF PCs
  <2>3. vi' \in [pending : SUBSET State,
                 value_changed : BOOLEAN, policy_changed : BOOLEAN]
    BY <1>2, <1>3, <2>1
  <2> QED BY <1>1, <2>2, <2>3, BaseSame DEF IInv, TypeOK
<1>5. dfs_stack = <<>> /\ tarjan_stack = <<>>
  BY <1>1 DEF IInv, StackDiscipline
<1>6. \A s \in State : stack_index[s] = New
  BY <1>1 DEF IInv, FrameShape, Exploring
<1>7. StackDiscipline'
  BY <1>1 DEF IInv, StackDiscipline, OnStack, Exploring
<1>8. FrameShape'
  BY <1>1, <1>6 DEF FrameShape
<1>9. LabelMode' /\ WorkExpanded'
  BY <1>1, <1>2, <1>3 DEF LabelMode, WorkExpanded, FirstSweep
<1>10. LabelsClosed'
  BY <1>1, <1>3 DEF LabelsClosed
<1>11. ScheduledClosed'
  BY <1>1, <1>2, BaseSame DEF IInv, ScheduledClosed
<1>12. flag'[initial_state'] # "uninitialized"
  BY <1>1 DEF IInv
<1> QED BY <1>1, <1>4, <1>7, <1>8, <1>9, <1>10, <1>11, <1>12, Quiescent DEF IInv

(* A timeout in push_successor or vi_step.                                 *)
LEMMA TimeoutStep ==
  ASSUME IInv, Timeout
  PROVE  IInv'
<1>1. /\ pc' = "timeout" /\ pc' \notin Exploring /\ pc # "solve"
      /\ UNCHANGED base_vars
      /\ UNCHANGED <<config, flag, initial_state, solved, dfs_stack,
                     tarjan_stack, visited_states, vi>>
      /\ stack_index' = [s \in State |-> New]
  BY DEF Timeout, Exploring, base_vars, ClearedIndex
<1>2. TypeOK' /\ PolicyApplicable' /\ InfoOK'
  BY <1>1, BaseSame DEF IInv, TypeOK, PCs
<1>3. StackDiscipline' /\ FrameShape' /\ ScheduledClosed'
  BY <1>1 DEF StackDiscipline, FrameShape, ScheduledClosed
<1>4. LabelMode' /\ WorkExpanded'
  BY <1>1 DEF IInv, LabelMode, WorkExpanded
<1>5. LabelsClosed'
  BY <1>1, BaseSame DEF IInv, LabelsClosed, IsSolved
<1>6. flag'[initial_state'] # "uninitialized"
  BY <1>1 DEF IInv
<1> QED BY <1>1, <1>2, <1>3, <1>4, <1>5, <1>6, Quiescent DEF IInv

-----------------------------------------------------------------------------
(* The theorems.                                                           *)

(* The invariant does not depend on anything but the variables.            *)
LEMMA StutterStep ==
  ASSUME IInv, UNCHANGED vars
  PROVE  IInv'
<1>1. /\ UNCHANGED base_vars
      /\ UNCHANGED <<config, flag, initial_state, pc, solved, dfs_stack,
                     tarjan_stack, stack_index, visited_states, vi>>
  BY DEF vars, base_vars, dfs_vars
<1>2. /\ BaseTypeOK' /\ PolicyApplicable' /\ InfoOK'
      /\ \A s : PolicySuccessors(s)' = PolicySuccessors(s)
      /\ \A s : IsGoalOrTerminal(s)' <=> IsGoalOrTerminal(s)
  BY <1>1, BaseSame DEF IInv, TypeOK
<1>3. /\ \A s : IsSolved(s)' <=> IsSolved(s)
      /\ \A s : Settles(s)' <=> Settles(s)
      /\ \A s : OnStack(s)' <=> OnStack(s)
      /\ \A i : Segment(i)' = Segment(i)
      /\ \A i, t : Linked(i, t)' <=> Linked(i, t)
      /\ \A i, s, t : Pending(i, s, t)' <=> Pending(i, s, t)
      /\ Top' = Top
  BY <1>1, <1>2 DEF IsSolved, Settles, OnStack, Segment, Linked, Pending, Top
<1>4. TypeOK'
  BY <1>1, <1>2 DEF IInv, TypeOK
<1>5. StackDiscipline' /\ FrameShape' /\ FrameStates'
  BY <1>1, <1>2, <1>3 DEF IInv, StackDiscipline, FrameShape, FrameStates
<1>6. FrameSuccessors'
  BY <1>1, <1>2, <1>3 DEF IInv, FrameSuccessors
<1>7. LabelMode' /\ WorkExpanded' /\ Scheduled'
  BY <1>1, <1>2, <1>3 DEF IInv, LabelMode, WorkExpanded, Scheduled
<1>8. LabelsClosed' /\ ScheduledClosed'
  BY <1>1, <1>2, <1>3 DEF IInv, LabelsClosed, ScheduledClosed
<1> QED BY <1>1, <1>2, <1>4, <1>5, <1>6, <1>7, <1>8 DEF IInv

(* Every step of the search preserves the inductive invariant.             *)
THEOREM NextIInv == IInv /\ [Next]_vars => IInv'
<1> SUFFICES ASSUME IInv, [Next]_vars PROVE IInv'
  OBVIOUS
<1>1. CASE Solve
  BY <1>1, SolveStep
<1>2. CASE PolicyExploration
  BY <1>2, PolicyExplorationStep
<1>3. CASE Initialize
  BY <1>3, InitializeSolvedStep, InitializeUpdateStep, InitializeFollowStep
     DEF Initialize
<1>4. CASE PushSuccessor
  BY <1>4, PushSuccessorStep
<1>5. CASE Advance
  BY <1>5, AdvanceNextStep, AdvanceUpdateStep, AdvanceFinishStep DEF Advance
<1>6. CASE Backtrack
  BY <1>6, BacktrackStep
<1>7. CASE EndExploration
  BY <1>7, EndExplorationStep
<1>8. CASE ViUpdate
  BY <1>8, ViUpdateStep
<1>9. CASE ViSweepEnd
  BY <1>9, ViSweepEndStep
<1>10. CASE Timeout
  BY <1>10, TimeoutStep
<1>11. CASE BacktrackTimeout
  BY <1>11, BacktrackTimeoutStep
<1>12. CASE Stop
  BY <1>12, StutterStep DEF Stop
<1>13. CASE UNCHANGED vars
  BY <1>13, StutterStep
<1> QED BY <1>1, <1>2, <1>3, <1>4, <1>5, <1>6, <1>7, <1>8, <1>9, <1>10,
           <1>11, <1>12, <1>13 DEF Next, Step

(* The inductive invariant holds throughout every run of the search.       *)
THEOREM Invariance == Spec => []IInv
BY InitIInv, NextIInv, PTL DEF Spec

(* The variables of the search keep their types: no lowlink, index or      *)
(* frame is ever taken from an empty stack or an unset entry.              *)
THEOREM TypeCorrect == Spec => []TypeOK
<1>1. IInv => TypeOK
  BY DEF IInv
<1> QED BY <1>1, Invariance, PTL

(* The stacks of policy_exploration agree at every step, in every MDP.     *)
THEOREM StacksAgree == Spec => []StackDiscipline
<1>1. IInv => StackDiscipline
  BY DEF IInv
<1> QED BY <1>1, Invariance, PTL

(* The SOLVED labels are closed under the stored policy, in every MDP, for *)
(* every heuristic and every parameter combination.                        *)
THEOREM LabelsAreClosed == Spec => []LabelsClosed
<1>1. IInv => LabelsClosed
  BY DEF IInv
<1> QED BY <1>1, Invariance, PTL

(* The states handed to value iteration are closed under the policy.       *)
THEOREM ScheduleIsClosed == Spec => []ScheduledClosed
<1>1. IInv => ScheduledClosed
  BY DEF IInv
<1> QED BY <1>1, Invariance, PTL

-----------------------------------------------------------------------------
(* Admissibility, tightening, refinement and optimality.                   *)

(* A backup in the exploration is one of a state on the fringe or expanded *)
(* before.                                                                 *)
LEMMA TopUnsolved ==
  ASSUME IInv, pc \in Exploring, ~IsSolved(Top.state)
  PROVE  Top.state \in State /\ flag[Top.state] \in {"fringe", "initialized"}
<1>1. Top.state \in State /\ stack_index[Top.state] \in Nat
  BY TopType DEF IInv
<1>2. OnStack(Top.state)
  BY <1>1 DEF OnStack, New, Closed
<1>3. flag[Top.state] \in Flags /\ flag[Top.state] # "uninitialized"
  BY <1>1, <1>2 DEF IInv, FrameStates, TypeOK, BaseTypeOK
<1>4. flag[Top.state] \in {"fringe", "initialized"}
  BY <1>3 DEF Flags, IsSolved, IsGoalOrTerminal
<1> QED BY <1>1, <1>4

(* A step leaves the stored information alone, evaluates the initial       *)
(* state, or backs up one state on the fringe or expanded before.          *)
LEMMA StepOnBounds ==
  ASSUME IInv, [Next]_vars
  PROVE  \/ UNCHANGED base_vars
         \/ \E s \in State : InitializeInitialState(s)
         \/ /\ UNCHANGED config
            /\ \E s \in State : /\ flag[s] \in {"fringe", "initialized"}
                               /\ Backup(s)
<1>1. CASE Solve
  BY <1>1, SearchAssumption DEF Solve, IInv, TypeOK
<1>2. CASE InitializeUpdate
  <2>1. pc \in Exploring
    BY <1>2 DEF InitializeUpdate, Exploring
  <2> QED BY <1>2, <2>1, TopUnsolved DEF InitializeUpdate
<1>3. CASE AdvanceUpdate
  <2>1. pc \in Exploring /\ pc \in {"push_successor", "advance"}
    BY <1>3 DEF AdvanceUpdate, Exploring
  <2>2. ~IsSolved(Top.state)
    BY <2>1, TopActive
  <2> QED BY <1>3, <2>1, <2>2, TopUnsolved DEF AdvanceUpdate
<1>4. CASE ViUpdate
  <2>1. PICK s \in vi.pending : Backup(s)
    BY <1>4 DEF ViUpdate
  <2>2. s \in State /\ flag[s] = "initialized"
    BY <1>4, <2>1 DEF IInv, WorkExpanded, TypeOK, ViUpdate
  <2>3. UNCHANGED config
    BY <1>4 DEF ViUpdate
  <2> QED BY <2>1, <2>2, <2>3
<1>5. CASE PolicyExploration \/ InitializeSolved \/ InitializeFollow
  BY <1>5 DEF PolicyExploration, InitializeSolved, InitializeFollow
<1>6. CASE PushSuccessor \/ AdvanceNext \/ AdvanceFinish
  BY <1>6 DEF PushSuccessor, AdvanceNext, AdvanceFinish
<1>7. CASE Backtrack \/ EndExploration \/ ViSweepEnd
  BY <1>7 DEF Backtrack, EndExploration, ViSweepEnd
<1>8. CASE Timeout \/ BacktrackTimeout \/ Stop \/ UNCHANGED vars
  BY <1>8 DEF Timeout, BacktrackTimeout, Stop, vars
<1> QED BY <1>1, <1>2, <1>3, <1>4, <1>5, <1>6, <1>7, <1>8
        DEF Next, Step, Initialize, Advance

(* Every step of the search keeps the bounds.                              *)
LEMMA NextEnclosing ==
  ASSUME IInv, Enclosing, [Next]_vars
  PROVE  Enclosing'
<1>1. BaseTypeOK /\ InfoOK
  BY DEF IInv, TypeOK
<1>2. CASE UNCHANGED base_vars
  BY <1>1, <1>2, SameEnclosing
<1>3. CASE \E s \in State : InitializeInitialState(s)
  BY <1>1, <1>3, InitializeEnclosing
<1>4. CASE /\ UNCHANGED config
           /\ \E s \in State : /\ flag[s] \in {"fringe", "initialized"}
                              /\ Backup(s)
  BY <1>1, <1>4, BackupEnclosing
<1> QED BY <1>2, <1>3, <1>4, StepOnBounds

(* At every step of every run the stored bounds enclose the optimal values *)
(* of all states evaluated so far.                                         *)
THEOREM BoundsAreAdmissible == Spec => []Admissible
<1>1. Init => IInv /\ Enclosing
  BY InitIInv, InitialEnclosing DEF Init
<1>2. IInv /\ Enclosing /\ [Next]_vars => IInv' /\ Enclosing'
  BY NextIInv, NextEnclosing
<1>3. Enclosing => Admissible
  BY EnclosingAdmissible DEF Admissible
<1> QED BY <1>1, <1>2, <1>3, PTL DEF Spec

(* With a consistent heuristic every step keeps or improves the bounds.    *)
LEMMA NextImproving ==
  ASSUME IInv, Enclosing, Improving, [Next]_vars
  PROVE  Improving' /\ BoundsTighten
<1>1. BaseTypeOK /\ InfoOK
  BY DEF IInv, TypeOK
<1>2. CASE UNCHANGED base_vars
  BY <1>1, <1>2, SameImproving
<1>3. CASE \E s \in State : InitializeInitialState(s)
  BY <1>1, <1>3, InitializeImproving
<1>4. CASE /\ UNCHANGED config
           /\ \E s \in State : /\ flag[s] \in {"fringe", "initialized"}
                              /\ Backup(s)
  BY <1>1, <1>4, BackupImproving
<1> QED BY <1>2, <1>3, <1>4, StepOnBounds

(* With a consistent heuristic no step ever widens the bounds of a state   *)
(* that was evaluated, whatever order the backups of the search are        *)
(* performed in.                                                           *)
THEOREM BoundsOnlyTighten == ASSUME ConsistentBounds PROVE Spec => Monotone
<1>1. Init => IInv /\ Enclosing /\ Improving
  BY InitIInv, InitialEnclosing, InitialImproving DEF Init
<1>2. /\ IInv /\ Enclosing /\ Improving /\ [Next]_vars
        => (IInv /\ Enclosing /\ Improving)'
  BY NextIInv, NextEnclosing, NextImproving
<1>3. IInv /\ Enclosing /\ Improving /\ [Next]_vars => BoundsTighten
  BY NextImproving
<1> QED BY <1>1, <1>2, <1>3, PTL DEF Spec, Monotone

-----------------------------------------------------------------------------
(* What the search has established when it ends.                           *)

(* The bottom frame is that of the initial state; value iteration works on *)
(* the initial state, too.                                                 *)
RootFrame ==
  /\ pc \in Exploring => dfs_stack[1].state = initial_state
  /\ pc = "vi_step" =>
       initial_state \in visited_states \/ IsGoalOrTerminal(initial_state)

(* A frame that was just pushed is the top of both stacks.                 *)
FreshTop ==
  pc = "initialize" => Len(tarjan_stack) = stack_index[Top.state] + 1

(* The labelled states are worth what their policy is worth ...            *)
Labelled == config.label_solved => \A s \in solved : Valued(s)

(* ... and so are the states that a frame which counts as solved stands    *)
(* for, except its own until that is backed up on the way out.             *)
FramesValued ==
  config.label_solved /\ pc \in Exploring =>
    \A i \in 1 .. Len(dfs_stack) : dfs_stack[i].solved =>
      \A s \in Segment(i) :
        \/ s = dfs_stack[i].state /\ (i < Len(dfs_stack) \/ pc # "backtrack")
        \/ IsGoalOrTerminal(s)
        \/ Valued(s)

(* What a sweep without changes went through has converged.                *)
Swept ==
  pc = "vi_step" /\ ~vi.value_changed /\ ~vi.policy_changed =>
    \A s \in visited_states \ vi.pending : IsConverged(s)

Established ==
  /\ NoActionValued
  /\ RootFrame
  /\ FreshTop
  /\ pc = "solve" => solved = {}
  /\ Labelled
  /\ FramesValued
  /\ Swept

(* The parameters for which the search keeps its promise.  Labels need a   *)
(* backtracking update of every state and, without intervals, values that  *)
(* only rise.  Without intervals a tolerance would let residuals add up.   *)
SoundConfigurations ==
  \A k \in Configs :
    /\ k.label_solved => /\ k.backtrack_update_type = "SINGLE"
                         /\ k.use_interval \/ ConsistentBounds
    /\ ~k.use_interval => Epsilon = 0

(* Nothing is established, or to be, before the first step.                *)
LEMMA InitEstablished == Init => Established
BY DEF Init, BaseInit, Established, NoActionValued, RootFrame, FreshTop,
       Labelled, FramesValued, Swept, Exploring

(* With tolerance 0 and without intervals, a converged backup leaves the   *)
(* value as it was.                                                        *)
LEMMA ConvergedSame ==
  ASSUME BaseTypeOK, BaseTypeOK', NEW s \in State, ~config.use_interval,
         Epsilon = 0, ValueConverged(s)
  PROVE  value'[s] = value[s]
<1>1. /\ value[s] \in Bounds /\ value'[s] \in Bounds
  BY DEF BaseTypeOK
<1>2. /\ value[s].lower \in Int /\ value[s].upper \in Int
      /\ value'[s].lower \in Int /\ value'[s].upper \in Int
  BY <1>1 DEF Bounds
<1>3. value[s].lower = value'[s].lower /\ value[s].upper = value'[s].upper
  BY <1>2 DEF ValueConverged, Converged, Changed, ApproxEqual
<1> QED BY <1>1, <1>3 DEF Bounds

(* Convergence is a matter of the stored information.                      *)
LEMMA SameEstablished ==
  ASSUME UNCHANGED base_vars
  PROVE  /\ NoActionValued => NoActionValued'
         /\ \A s : Valued(s) => Valued(s)'
         /\ \A s : IsConverged(s) => IsConverged(s)'
         /\ \A s : IsGoalOrTerminal(s) => IsGoalOrTerminal(s)'
<1>1. config' = config /\ flag' = flag /\ value' = value /\ policy' = policy
  BY DEF base_vars
<1>2. \A s : Valued(s) => Valued(s)'
  BY <1>1 DEF Valued, QValue
<1>3. \A s : IsConverged(s) => IsConverged(s)'
  BY <1>1 DEF IsConverged
<1>4. NoActionValued => NoActionValued'
  BY <1>1 DEF NoActionValued
<1> QED BY <1>1, <1>2, <1>3, <1>4 DEF IsGoalOrTerminal

(* A backup of an unsolved state disturbs no label: everything a labelled  *)
(* state depends on is labelled.                                           *)
LEMMA LabelledBackup ==
  ASSUME IInv, Labelled, NEW x \in State, ~IsSolved(x), Backup(x),
         UNCHANGED <<config, solved>>
  PROVE  Labelled'
<1> SUFFICES ASSUME config.label_solved, NEW s \in solved
             PROVE  Valued(s)'
  BY DEF Labelled
<1>1. s \in State /\ s # x /\ flag[s] # "uninitialized"
  BY DEF IInv, TypeOK, WorkExpanded, IsSolved
<1>2. x \notin PolicySuccessors(s)
  BY DEF IInv, LabelsClosed
<1>3. Valued(s) /\ BaseTypeOK /\ PolicyApplicable /\ InfoOK
  BY DEF Labelled, IInv, TypeOK
<1> QED BY <1>1, <1>2, <1>3, BackupKeepsValued

(* The states a frame stands for are on the stack, hence known.            *)
LEMMA SegmentKnown ==
  ASSUME IInv, pc \in Exploring, NEW i \in 1 .. Len(dfs_stack),
         NEW s \in Segment(i)
  PROVE  s \in State /\ OnStack(s) /\ flag[s] # "uninitialized"
BY DEF IInv, FrameStates, Segment

(* The frames and the indices of their states.                             *)
LEMMA FrameType ==
  ASSUME IInv, pc \in Exploring
  PROVE  /\ \A i \in 1 .. Len(dfs_stack) :
              dfs_stack[i].state \in State /\ stack_index[dfs_stack[i].state] \in Nat
         /\ \A i, j \in 1 .. Len(dfs_stack) :
              i < j => stack_index[dfs_stack[i].state] < stack_index[dfs_stack[j].state]
<1>1. ASSUME NEW i \in 1 .. Len(dfs_stack)
      PROVE  dfs_stack[i].state \in State /\ stack_index[dfs_stack[i].state] \in Nat
  <2>1. dfs_stack[i] \in Frame
    BY DEF IInv, TypeOK
  <2>2. dfs_stack[i].state \in State
    BY <2>1 DEF Frame
  <2>3. OnStack(dfs_stack[i].state)
    BY DEF IInv, StackDiscipline, Exploring
  <2> QED BY <2>2, <2>3 DEF IInv, TypeOK, OnStack
<1>2. \A i, j \in 1 .. Len(dfs_stack) :
        i < j => stack_index[dfs_stack[i].state] < stack_index[dfs_stack[j].state]
  BY DEF IInv, StackDiscipline, Exploring
<1> QED BY <1>1, <1>2

(* A backup of the top state disturbs a state of another frame only if it  *)
(* is that frame's own: the policy of the others leads to settled states   *)
(* and to the stack below the next frame.                                  *)
LEMMA FramesBackup ==
  ASSUME IInv, config.label_solved, pc \in Exploring,
         NEW x \in State, x = Top.state, ~IsSolved(x), Backup(x),
         UNCHANGED config,
         NEW i \in 1 .. Len(dfs_stack), dfs_stack[i].solved,
         NEW s \in Segment(i), Valued(s), s # x,
         i < Len(dfs_stack) => s # dfs_stack[i].state,
         \/ i < Len(dfs_stack)
         \/ config.use_interval
         \/ value'[x]["lower"] = value[x]["lower"]
  PROVE  Valued(s)'
<1> DEFINE n == Len(dfs_stack)
<1>1. s \in State /\ flag[s] # "uninitialized"
  BY SegmentKnown
<1>2. BaseTypeOK /\ PolicyApplicable /\ InfoOK
  BY DEF IInv, TypeOK
<1>3. CASE i = n
  BY <1>1, <1>2, <1>3, BackupKeepsValued
<1>4. CASE i # n
  <2>1. n \in Nat \ {0} /\ n \in 1 .. n /\ i < n /\ i + 1 \in 1 .. n /\ Top = dfs_stack[n]
    BY <1>4, TopType DEF IInv
  <2>2. stack_index[dfs_stack[i + 1].state] <= stack_index[x]
    <3>1. CASE i + 1 = n
      BY <2>1, <3>1, FrameType
    <3>2. CASE i + 1 # n
      BY <2>1, <3>2, FrameType
    <3> QED BY <3>1, <3>2
  <2>3. ASSUME x \in PolicySuccessors(s) PROVE FALSE
    <3>1. Settles(x) \/ Linked(i, x) \/ Pending(i, s, x)
      BY <2>3 DEF IInv, FrameSuccessors
    <3>2. ~Settles(x)
      BY DEF Settles
    <3>3. ~Pending(i, s, x)
      BY <2>1 DEF Pending
    <3>4. ~Linked(i, x)
      BY <2>1, <2>2, FrameType DEF Linked
    <3> QED BY <3>1, <3>2, <3>3, <3>4
  <2> QED BY <1>1, <1>2, <2>3, BackupKeepsValued
<1> QED BY <1>3, <1>4

(* Steps that replace the top frame.                                       *)
LEMMA TopFrames ==
  ASSUME IInv, FramesValued, pc \in Exploring, pc' \in Exploring \ {"initialize"},
         NEW f \in Frame, dfs_stack' = SetTop(f),
         NEW x \in State, x = Top.state, f.state = x, f.solved => Top.solved,
         UNCHANGED <<config, stack_index>>,
         \A s \in State : IsGoalOrTerminal(s) => IsGoalOrTerminal(s)',
         config.label_solved =>
           /\ \A i \in 1 .. Len(dfs_stack) : \A s \in Segment(i) :
                /\ dfs_stack[i].solved /\ Valued(s) /\ s # x
                /\ i < Len(dfs_stack) => s # dfs_stack[i].state
                /\ i = Len(dfs_stack) => f.solved
                => Valued(s)'
           /\ pc' = "backtrack" /\ f.solved => IsGoalOrTerminal(x)' \/ Valued(x)'
  PROVE  FramesValued'
<1> DEFINE n == Len(dfs_stack)
<1>1. n \in Nat \ {0} /\ n \in 1 .. n /\ Top = dfs_stack[n]
  BY TopType DEF IInv
<1>2. /\ Len(dfs_stack') = n /\ dfs_stack'[n] = f
      /\ \A i \in 1 .. n : i # n => dfs_stack'[i] = dfs_stack[i]
  BY SetTopFacts DEF IInv, TypeOK, StackDiscipline, Exploring
<1>3. \A i \in 1 .. n : /\ dfs_stack'[i].state = dfs_stack[i].state
                        /\ dfs_stack'[i].solved => dfs_stack[i].solved
  BY <1>1, <1>2
<1>4. ASSUME NEW i \in 1 .. n PROVE Segment(i)' = Segment(i)
  <2>1. i < n => i + 1 \in 1 .. n
    BY <1>1
  <2> QED BY <1>1, <1>2, <1>3, <2>1 DEF Segment, OnStack
<1> SUFFICES ASSUME config.label_solved, NEW i \in 1 .. n, dfs_stack'[i].solved,
                    NEW s \in Segment(i),
                    ~(s = dfs_stack[i].state /\ (i < n \/ pc' # "backtrack")),
                    ~IsGoalOrTerminal(s)'
             PROVE  Valued(s)'
  BY <1>2, <1>3, <1>4 DEF FramesValued
<1>5. s \in State
  BY SegmentKnown
<1>6. CASE s = x /\ i = n
  BY <1>1, <1>2, <1>6
<1>7. CASE s = x /\ i # n
  <2>1. i < n /\ i + 1 \in 1 .. n
    BY <1>1, <1>7
  <2>2. stack_index[x] < stack_index[dfs_stack[i + 1].state]
    BY <1>7, <2>1 DEF Segment
  <2>3. i + 1 = n \/ i + 1 < n
    BY <1>1, <2>1
  <2> QED BY <1>1, <2>1, <2>2, <2>3, FrameType
<1>8. CASE s # x
  <2>1. Valued(s)
    <3>1. dfs_stack[i].solved
      BY <1>3
    <3>2. ~(s = dfs_stack[i].state /\ (i < n \/ pc # "backtrack"))
      BY <1>1, <1>8
    <3>3. ~IsGoalOrTerminal(s)
      BY <1>5
    <3> QED BY <3>1, <3>2, <3>3 DEF FramesValued
  <2> QED BY <1>2, <1>3, <1>8, <2>1
<1> QED BY <1>6, <1>7, <1>8

(* Every step keeps NoActionValued.                                        *)
LEMMA NextNoAction ==
  ASSUME IInv, NoActionValued, [Next]_vars
  PROVE  NoActionValued'
<1>1. BaseTypeOK /\ PolicyApplicable /\ InfoOK
  BY DEF IInv, TypeOK
<1>2. CASE UNCHANGED base_vars
  BY <1>2, SameEstablished
<1>3. ASSUME NEW s \in State, InitializeInitialState(s)
      PROVE  NoActionValued'
  <2>1. CASE flag[s] # "uninitialized"
    BY <1>3, <2>1, SameEstablished DEF InitializeInitialState
  <2>2. CASE flag[s] = "uninitialized"
    <3>1. /\ flag' = [flag EXCEPT ![s] = InitialFlag(s)]
          /\ value' = [value EXCEPT ![s] = InitialValue(s)]
          /\ policy' = policy
      BY <1>3, <2>2 DEF InitializeInitialState
    <3>2. InitialFlag(s) # "initialized"
      BY DEF InitialFlag
    <3> QED BY <1>1, <3>1, <3>2 DEF NoActionValued, BaseTypeOK
  <2> QED BY <2>1, <2>2
<1>4. ASSUME NEW s \in State, flag[s] \in {"fringe", "initialized"}, Backup(s)
      PROVE  NoActionValued'
  BY <1>1, <1>4, BackupNoAction
<1> QED BY <1>2, <1>3, <1>4, StepOnBounds

(* The start of an exploration: one frame, for the initial state.          *)
LEMMA PolicyExplorationEstablishes ==
  ASSUME IInv, Established, PolicyExploration
  PROVE  Established'
<1>1. /\ UNCHANGED base_vars /\ config' = config /\ solved' = solved
      /\ initial_state' = initial_state
      /\ pc' = "initialize"
      /\ dfs_stack' = Append(<<>>, NewFrame(initial_state))
      /\ tarjan_stack' = Append(tarjan_stack, initial_state)
      /\ stack_index' = [stack_index EXCEPT ![initial_state] = Len(tarjan_stack)]
  BY DEF PolicyExploration, Push, base_vars
<1>2. /\ pc = "policy_exploration" /\ pc \notin Exploring
      /\ initial_state \in State /\ tarjan_stack \in Seq(State)
      /\ stack_index \in [State -> Nat \union {New, Closed}]
      /\ \A s \in State : stack_index[s] = New
  BY SearchAssumption DEF PolicyExploration, Exploring, IInv, TypeOK, FrameShape
<1>3. /\ Len(dfs_stack') = 1 /\ dfs_stack'[1].state = initial_state
      /\ Top' = dfs_stack'[1]
  <2>1. /\ NewFrame(initial_state) \in Frame
        /\ NewFrame(initial_state).state = initial_state
    BY <1>2, NewFrameType
  <2>2. Len(dfs_stack') = 1 /\ dfs_stack'[1] = NewFrame(initial_state)
    BY <1>1, <2>1
  <2> QED BY <2>1, <2>2 DEF Top
<1>4. FreshTop'
  <2>1. Len(tarjan_stack') = Len(tarjan_stack) + 1
    BY <1>1, <1>2
  <2>2. stack_index'[initial_state] = Len(tarjan_stack)
    BY <1>1, <1>2
  <2> QED BY <1>3, <2>1, <2>2 DEF FreshTop
<1>5. Segment(1)' \subseteq {initial_state}
  BY <1>1, <1>2, <1>3 DEF Segment, OnStack
<1>6. FramesValued'
  BY <1>1, <1>3, <1>5 DEF FramesValued
<1>7. NoActionValued' /\ Labelled'
  BY <1>1, SameEstablished DEF Established, Labelled
<1>8. RootFrame' /\ Swept'
  BY <1>1, <1>3 DEF RootFrame, Swept
<1> QED BY <1>1, <1>4, <1>6, <1>7, <1>8 DEF Established

(* Replacing the top frame by one for the same state keeps the root.       *)
LEMMA TopRoot ==
  ASSUME IInv, RootFrame, pc \in Exploring, pc' \in Exploring \ {"initialize"},
         NEW f \in Frame, dfs_stack' = SetTop(f), f.state = Top.state,
         UNCHANGED initial_state
  PROVE  RootFrame' /\ FreshTop' /\ Swept'
<1>1. Len(dfs_stack) \in Nat \ {0} /\ Top = dfs_stack[Len(dfs_stack)]
  BY TopType DEF IInv
<1>2. /\ dfs_stack'[Len(dfs_stack)] = f
      /\ \A i \in 1 .. Len(dfs_stack) : i # Len(dfs_stack) => dfs_stack'[i] = dfs_stack[i]
  BY SetTopFacts DEF IInv, TypeOK, StackDiscipline, Exploring
<1>3. dfs_stack'[1].state = dfs_stack[1].state
  BY <1>1, <1>2
<1> QED BY <1>3 DEF RootFrame, FreshTop, Swept, Exploring

(* Steps without a backup that replace the top frame.                      *)
LEMMA QuietEstablishes ==
  ASSUME IInv, Established, pc \in Exploring, pc' \in Exploring \ {"initialize"},
         NEW f \in Frame, dfs_stack' = SetTop(f),
         f.state = Top.state, f.solved => Top.solved,
         UNCHANGED base_vars, UNCHANGED <<initial_state, solved, stack_index>>,
         config.label_solved /\ pc' = "backtrack" /\ f.solved =>
           IsGoalOrTerminal(Top.state) \/ Valued(Top.state)
  PROVE  Established'
<1>1. NoActionValued' /\ Labelled' /\ config' = config
  BY SameEstablished DEF Established, Labelled, base_vars
<1>2. RootFrame' /\ FreshTop' /\ Swept'
  BY TopRoot DEF Established
<1>3. Top.state \in State
  BY TopType DEF IInv
<1>4. FramesValued'
  BY <1>1, <1>3, SameEstablished, TopFrames DEF Established
<1>5. pc' # "solve"
  BY DEF Exploring
<1> QED BY <1>1, <1>2, <1>4, <1>5 DEF Established

(* Turning to another state leaves the stacks as they are.                 *)
LEMMA StackEstablishes ==
  ASSUME IInv, Established, pc \in Exploring, pc' \in Exploring \ {"initialize"},
         UNCHANGED dfs_vars,
         UNCHANGED base_vars, UNCHANGED <<initial_state, solved>>,
         config.label_solved /\ pc' = "backtrack" =>
           IsGoalOrTerminal(Top.state) \/ Valued(Top.state)
  PROVE  Established'
<1>1. Top \in Frame /\ Len(dfs_stack) \in Nat \ {0} /\ Top = dfs_stack[Len(dfs_stack)]
  BY TopType DEF IInv
<1>2. dfs_stack' = SetTop(Top)
  BY <1>1 DEF dfs_vars, SetTop, IInv, TypeOK
<1> QED BY <1>1, <1>2, QuietEstablishes DEF dfs_vars

(* Turning back at a solved state: it is final or labelled.                *)
LEMMA InitializeSolvedEstablishes ==
  ASSUME IInv, Established, InitializeSolved
  PROVE  Established'
<1>1. config.label_solved => IsGoalOrTerminal(Top.state) \/ Valued(Top.state)
  BY DEF InitializeSolved, IsSolved, Established, Labelled
<1> QED BY <1>1, StackEstablishes DEF InitializeSolved, Exploring

(* Looking at the next successor changes nothing yet.                      *)
LEMMA AdvanceNextEstablishes ==
  ASSUME IInv, Established, AdvanceNext
  PROVE  Established'
BY StackEstablishes DEF AdvanceNext, Exploring

(* Following the stored action: without one the state is worth its         *)
(* termination.                                                            *)
LEMMA InitializeFollowEstablishes ==
  ASSUME IInv, Established, InitializeFollow
  PROVE  Established'
<1>1. /\ pc \in Exploring /\ pc = "initialize" /\ ~IsSolved(Top.state)
      /\ flag[Top.state] # "fringe"
      /\ UNCHANGED base_vars
      /\ UNCHANGED <<initial_state, solved, tarjan_stack, stack_index>>
  BY DEF InitializeFollow, Exploring
<1>2. /\ Top.state \in State /\ flag[Top.state] = "initialized" /\ Top \in Frame
  BY <1>1, TopUnsolved, TopType DEF IInv
<1>3. CASE policy[Top.state] = NoAction
  <2>1. Valued(Top.state)
    BY <1>2, <1>3, TerminationValued DEF Established, NoActionValued
  <2>2. pc' = "backtrack" /\ UNCHANGED dfs_vars
    BY <1>1, <1>3 DEF InitializeFollow, dfs_vars
  <2> QED BY <1>1, <2>1, <2>2, StackEstablishes DEF Exploring
<1>4. CASE policy[Top.state] # NoAction
  <2>1. PICK succ \in SUBSET State : succ = NonSource(Top.state, policy[Top.state])
    BY <1>2, <1>4, TailsType DEF IInv, PolicyApplicable
  <2> DEFINE f == [Top EXCEPT !.successors = succ]
  <2>2. /\ f \in Frame /\ f.state = Top.state /\ f.solved = Top.solved
    BY <1>2 DEF Frame
  <2>3. dfs_stack' = SetTop(f) /\ pc' = "push_successor"
    BY <1>1, <1>4, <2>1 DEF InitializeFollow
  <2> HIDE DEF f
  <2> QED BY <1>1, <2>2, <2>3, QuietEstablishes DEF Exploring
<1> QED BY <1>3, <1>4

(* A backup with labels in place: the labelled states, and those of the    *)
(* frames that count as solved, stay valued.                               *)
LEMMA BackupEstablishes ==
  ASSUME IInv, Established, Established, [Next]_vars,
         pc \in Exploring, pc' \in Exploring \ {"initialize"},
         NEW f \in Frame, dfs_stack' = SetTop(f),
         NEW x \in State, x = Top.state, f.state = x, f.solved => Top.solved,
         ~IsSolved(x), Backup(x),
         UNCHANGED <<config, initial_state, solved, stack_index>>,
         config.label_solved /\ f.solved =>
           \/ config.use_interval
           \/ Segment(Len(dfs_stack)) = {x}
           \/ value'[x]["lower"] = value[x]["lower"],
         config.label_solved /\ pc' = "backtrack" /\ f.solved => Valued(x)'
  PROVE  Established'
<1>1. NoActionValued' /\ Labelled'
  BY NextNoAction, LabelledBackup DEF Established
<1>2. RootFrame' /\ FreshTop' /\ Swept'
  BY TopRoot DEF Established
<1>3. \A s \in State : IsGoalOrTerminal(s) => IsGoalOrTerminal(s)'
  BY TopBackup DEF IsGoalOrTerminal
<1>4. ASSUME config.label_solved,
             NEW i \in 1 .. Len(dfs_stack), NEW s \in Segment(i),
             dfs_stack[i].solved, Valued(s), s # x,
             i < Len(dfs_stack) => s # dfs_stack[i].state,
             i = Len(dfs_stack) => f.solved
      PROVE  Valued(s)'
  <2>1. Len(dfs_stack) \in Nat
    BY TopType DEF IInv
  <2>2. \/ i < Len(dfs_stack)
        \/ config.use_interval
        \/ value'[x]["lower"] = value[x]["lower"]
    BY <1>4, <2>1
  <2> QED BY <1>4, <2>2, FramesBackup
<1>5. FramesValued'
  BY <1>3, <1>4, TopFrames DEF Established
<1>6. pc' # "solve"
  BY DEF Exploring
<1> QED BY <1>1, <1>2, <1>5, <1>6 DEF Established

(* The forward update.  The new frame stands for its own state only.       *)
LEMMA InitializeUpdateEstablishes ==
  ASSUME IInv, Established, InitializeUpdate
  PROVE  Established'
<1>0. PICK x \in State : x = Top.state
  BY TopType DEF InitializeUpdate, Exploring, IInv
<1>1. /\ pc \in Exploring /\ pc = "initialize" /\ ~IsSolved(x) /\ Backup(x)
      /\ UNCHANGED <<config, initial_state, solved, tarjan_stack, stack_index>>
  BY <1>0 DEF InitializeUpdate, Exploring
<1>2. /\ x \in State /\ Top \in Frame /\ stack_index[x] \in Nat
      /\ Len(dfs_stack) \in Nat \ {0} /\ Top = dfs_stack[Len(dfs_stack)]
  BY <1>0, <1>1, TopType DEF IInv
<1>3. Segment(Len(dfs_stack)) = {x}
  <2>1. x \in Segment(Len(dfs_stack))
    BY <1>0, <1>2 DEF Segment, OnStack, New, Closed
  <2>2. ASSUME NEW s \in Segment(Len(dfs_stack)) PROVE s = x
    <3>1. /\ s \in State /\ OnStack(s) /\ stack_index[x] <= stack_index[s]
          /\ stack_index[s] \in Nat
      BY <1>0, <1>2 DEF Segment, OnStack, IInv, TypeOK
    <3>2. /\ stack_index[s] < Len(tarjan_stack) /\ tarjan_stack[stack_index[s] + 1] = s
          /\ tarjan_stack[stack_index[x] + 1] = x
      <4>1. OnStack(x)
        BY <1>0, <1>2 DEF OnStack, New, Closed
      <4> QED BY <1>0, <1>1, <1>2, <3>1, <4>1 DEF IInv, StackDiscipline
    <3>3. Len(tarjan_stack) = stack_index[x] + 1
      BY <1>0, <1>1 DEF Established, FreshTop
    <3>4. stack_index[s] = stack_index[x]
      BY <1>0, <1>2, <3>1, <3>2, <3>3
    <3> QED BY <1>0, <3>2, <3>4
  <2> QED BY <1>0, <2>1, <2>2
<1>4. BaseTypeOK /\ PolicyApplicable /\ BaseTypeOK' /\ PolicyApplicable'
  BY <1>0, <1>1, <1>2, TopBackup DEF IInv, TypeOK
<1>5. PICK conv \in BOOLEAN : conv = ValueConverged(x)
  BY DEF ValueConverged, Converged, ApproxEqual, Changed
<1>6. [Next]_vars
  BY DEF InitializeUpdate, Initialize, Step, Next
<1>7. CASE policy'[x] = NoAction
  <2> DEFINE f == [Top EXCEPT !.value_converged = conv]
  <2>1. f \in Frame /\ f.state = x /\ f.solved = Top.solved
    BY <1>0, <1>2 DEF Frame
  <2>2. dfs_stack' = SetTop(f) /\ pc' = "backtrack"
    BY <1>0, <1>5, <1>7 DEF InitializeUpdate
  <2>3. Valued(x)'
    BY <1>0, <1>1, <1>2, <1>4, <1>7, BackupValues
  <2> HIDE DEF f
  <2> QED BY <1>0, <1>1, <1>2, <1>3, <1>6, <2>1, <2>2, <2>3, BackupEstablishes
          DEF Exploring
<1>8. CASE policy'[x] # NoAction
  <2>1. PICK succ \in SUBSET State : succ = NonSource(x, policy'[x])
    BY <1>0, <1>2, <1>4, <1>8, TailsType DEF PolicyApplicable
  <2> DEFINE f == [Top EXCEPT !.value_converged = conv, !.solved = FALSE]
             g == [Top EXCEPT !.value_converged = conv, !.successors = succ]
  <2>2. \/ dfs_stack' = SetTop(f) /\ pc' = "backtrack"
        \/ dfs_stack' = SetTop(g) /\ pc' = "push_successor"
    BY <1>0, <1>5, <1>8, <2>1 DEF InitializeUpdate
  <2>3. /\ f \in Frame /\ f.state = x /\ f.solved = FALSE
        /\ g \in Frame /\ g.state = x /\ g.solved = Top.solved
    BY <1>0, <1>2 DEF Frame
  <2> HIDE DEF f, g
  <2>4. CASE dfs_stack' = SetTop(f) /\ pc' = "backtrack"
    BY <1>0, <1>1, <1>2, <1>3, <1>6, <2>3, <2>4, BackupEstablishes DEF Exploring
  <2>5. CASE dfs_stack' = SetTop(g) /\ pc' = "push_successor"
    BY <1>0, <1>1, <1>2, <1>3, <1>6, <2>3, <2>5, BackupEstablishes DEF Exploring
  <2> QED BY <1>0, <2>2, <2>4, <2>5
<1> QED BY <1>0, <1>7, <1>8

(* The update on the way out: if it changes anything, the frame no longer  *)
(* counts as solved.                                                       *)
LEMMA AdvanceUpdateEstablishes ==
  ASSUME IInv, Established, SoundConfigurations, AdvanceUpdate
  PROVE  Established'
<1>0. PICK x \in State : x = Top.state
  BY TopType DEF AdvanceUpdate, Exploring, IInv
<1>1. /\ pc \in Exploring /\ pc = "advance" /\ pc' = "backtrack" /\ Backup(x)
      /\ UNCHANGED <<config, initial_state, solved, tarjan_stack, stack_index>>
  BY <1>0 DEF AdvanceUpdate, Exploring
<1>2. /\ x \in State /\ Top \in Frame /\ ~IsSolved(x)
  BY <1>0, <1>1, TopType, TopActive DEF IInv
<1>3. BaseTypeOK /\ PolicyApplicable /\ BaseTypeOK'
  BY <1>0, <1>1, <1>2, TopBackup DEF IInv, TypeOK
<1>4. PICK conv \in BOOLEAN : conv = ValueConverged(x)
  BY DEF ValueConverged, Converged, ApproxEqual, Changed
<1>5. PICK f \in Frame :
        /\ dfs_stack' = SetTop(f)
        /\ f.state = x
        /\ f.solved => Top.solved /\ ValueConverged(x)
  <2>1. PICK solv \in BOOLEAN : solv = (Top.solved /\ conv /\ ~PolicyChanged(x))
    OBVIOUS
  <2> DEFINE g == [Top EXCEPT !.value_converged = conv, !.solved = solv]
  <2>2. /\ g \in Frame /\ g.state = x /\ g.solved = solv
    BY <1>0, <1>2 DEF Frame
  <2>3. dfs_stack' = SetTop(g)
    BY <1>0, <1>4, <2>1 DEF AdvanceUpdate
  <2> HIDE DEF g
  <2> QED BY <1>4, <2>1, <2>2, <2>3
<1>6. f.solved => Valued(x)'
  BY <1>1, <1>3, <1>5, BackupValues
<1>7. f.solved => config.use_interval \/ value'[x]["lower"] = value[x]["lower"]
  BY <1>3, <1>5, ConvergedSame DEF SoundConfigurations, BaseTypeOK
<1>8. [Next]_vars
  BY DEF AdvanceUpdate, Advance, Step, Next
<1> QED BY <1>0, <1>1, <1>2, <1>5, <1>6, <1>7, <1>8, BackupEstablishes
        DEF Exploring

(* Without an update on the way out there are no labels.                   *)
LEMMA AdvanceFinishEstablishes ==
  ASSUME IInv, Established, SoundConfigurations, AdvanceFinish
  PROVE  Established'
<1>1. /\ pc \in Exploring /\ pc' = "backtrack" /\ ~UpdatesOnBacktracking(Top)
      /\ UNCHANGED base_vars
      /\ UNCHANGED <<initial_state, solved, tarjan_stack, stack_index>>
  BY DEF AdvanceFinish, Exploring
<1>2. Top \in Frame
  BY <1>1, TopType DEF IInv
<1>3. ~config.label_solved
  BY <1>1 DEF UpdatesOnBacktracking, SoundConfigurations, IInv, TypeOK, BaseTypeOK
<1>4. PICK f \in Frame :
        /\ dfs_stack' = SetTop(f)
        /\ f.state = Top.state
        /\ f.solved => Top.solved
  <2>1. PICK b \in BOOLEAN : b = (Top.solved /\ Top.value_converged)
    OBVIOUS
  <2> DEFINE g == [Top EXCEPT !.solved = b]
  <2>2. /\ g \in Frame /\ g.state = Top.state /\ g.solved = b
    BY <1>2 DEF Frame
  <2>3. dfs_stack' = SetTop(g)
    BY <2>1 DEF AdvanceFinish
  <2> HIDE DEF g
  <2> QED BY <2>1, <2>2, <2>3
<1> QED BY <1>1, <1>3, <1>4, QuietEstablishes DEF Exploring
(* Descending into a new successor: the frames keep their segments.        *)
LEMMA PushNewEstablishes ==
  ASSUME IInv, Established, pc = "push_successor", pc' = "initialize",
         NEW t \in Top.successors, stack_index[t] = New,
         Push(SetTop([Top EXCEPT !.successors = @ \ {t}]), t),
         UNCHANGED base_vars, UNCHANGED <<initial_state, solved>>
  PROVE  Established'
<1> DEFINE n == Len(dfs_stack)
           m == Len(tarjan_stack)
<1>1. /\ pc \in Exploring
      /\ n \in Nat \ {0} /\ n \in 1 .. n /\ Top \in Frame /\ Top = dfs_stack[n]
      /\ dfs_stack \in Seq(Frame) /\ dfs_stack # <<>>
      /\ tarjan_stack \in Seq(State) /\ m \in Nat
      /\ stack_index \in [State -> Nat \union {New, Closed}]
  BY TopType DEF Exploring, IInv, TypeOK, StackDiscipline
<1>2. t \in State
  BY <1>1 DEF Frame
<1>3. PICK f \in Frame : /\ dfs_stack' = Append(SetTop(f), NewFrame(t))
                         /\ f.state = Top.state /\ f.solved = Top.solved
  <2>1. PICK succ \in SUBSET State : succ = Top.successors \ {t}
    BY <1>1 DEF Frame
  <2> DEFINE g == [Top EXCEPT !.successors = succ]
  <2>2. dfs_stack' = Append(SetTop(g), NewFrame(t))
    BY <2>1 DEF Push
  <2>3. g \in Frame /\ g.state = Top.state /\ g.solved = Top.solved
    BY <1>1 DEF Frame
  <2> HIDE DEF g
  <2> QED BY <2>2, <2>3
<1>4. /\ Len(dfs_stack') = n + 1 /\ dfs_stack'[n + 1].state = t
      /\ \A i \in 1 .. n : /\ dfs_stack'[i].state = dfs_stack[i].state
                           /\ dfs_stack'[i].solved = dfs_stack[i].solved
  <2>1. NewFrame(t) \in Frame /\ NewFrame(t).state = t
    BY <1>1, <1>2, NewFrameType
  <2>2. /\ SetTop(f) \in Seq(Frame) /\ Len(SetTop(f)) = n /\ SetTop(f)[n] = f
        /\ \A i \in 1 .. n : i # n => SetTop(f)[i] = dfs_stack[i]
    BY <1>1, SetTopFacts
  <2>3. /\ Len(dfs_stack') = n + 1 /\ dfs_stack'[n + 1] = NewFrame(t)
        /\ \A i \in 1 .. n : dfs_stack'[i] = SetTop(f)[i]
    BY <1>3, <2>1, <2>2, PushFacts
  <2> QED BY <1>1, <1>3, <2>1, <2>2, <2>3
<1>5. /\ Len(tarjan_stack') = m + 1
      /\ stack_index'[t] = m
      /\ \A s \in State : s # t => stack_index'[s] = stack_index[s]
  BY <1>1, <1>2 DEF Push
<1>6. ASSUME NEW i \in 1 .. n
      PROVE  /\ Segment(i)' \subseteq Segment(i)
             /\ stack_index[dfs_stack[i].state] < m
  <2>1. /\ dfs_stack[i].state \in State /\ OnStack(dfs_stack[i].state)
        /\ stack_index[dfs_stack[i].state] \in Nat
        /\ stack_index[dfs_stack[i].state] < m
    BY <1>1, FrameType DEF IInv, StackDiscipline, Exploring
  <2>2. dfs_stack[i].state # t
    BY <2>1 DEF OnStack
  <2>3. i < n => /\ i + 1 \in 1 .. n /\ dfs_stack[i + 1].state \in State
                 /\ dfs_stack[i + 1].state # t
                 /\ stack_index[dfs_stack[i + 1].state] \in Nat
                 /\ stack_index[dfs_stack[i + 1].state] < m
    <3> SUFFICES ASSUME i < n PROVE i + 1 \in 1 .. n
                                    /\ dfs_stack[i + 1].state \in State
                                    /\ dfs_stack[i + 1].state # t
                                    /\ stack_index[dfs_stack[i + 1].state] \in Nat
                                    /\ stack_index[dfs_stack[i + 1].state] < m
      OBVIOUS
    <3>1. i + 1 \in 1 .. n
      BY <1>1
    <3>2. /\ dfs_stack[i + 1].state \in State
          /\ OnStack(dfs_stack[i + 1].state)
          /\ stack_index[dfs_stack[i + 1].state] \in Nat
          /\ stack_index[dfs_stack[i + 1].state] < m
      BY <1>1, <3>1, FrameType DEF IInv, StackDiscipline, Exploring
    <3> QED BY <3>1, <3>2 DEF OnStack
  <2>4. ASSUME NEW s \in Segment(i)' PROVE s \in Segment(i)
    <3>1. /\ s \in State /\ OnStack(s)'
          /\ stack_index[dfs_stack[i].state] <= stack_index'[s]
          /\ i < n => stack_index'[s] < stack_index[dfs_stack[i + 1].state]
          /\ i = n => stack_index'[s] < stack_index'[t]
      BY <1>1, <1>4, <1>5, <2>1, <2>2, <2>3 DEF Segment
    <3>2. s # t
      BY <1>1, <1>5, <2>3, <3>1
    <3> QED BY <1>5, <3>1, <3>2 DEF Segment, OnStack
  <2> QED BY <2>1, <2>4
<1>7. ASSUME NEW j \in Nat, j = n + 1, NEW s \in Segment(j)'
      PROVE  s = t
  <2>1. s \in State /\ OnStack(s)' /\ m <= stack_index'[s]
    <3>1. stack_index'[dfs_stack'[j].state] = m
      BY <1>4, <1>5, <1>7
    <3> HIDE DEF m
    <3> QED BY <1>7, <3>1 DEF Segment
  <2>2. s # t => OnStack(s) /\ stack_index[s] < m /\ stack_index[s] \in Nat
    BY <1>1, <1>5, <2>1 DEF OnStack, IInv, StackDiscipline
  <2> QED BY <1>1, <1>5, <2>1, <2>2
<1>8. FramesValued'
  <2> SUFFICES ASSUME config.label_solved, NEW i \in 1 .. n + 1,
                      dfs_stack'[i].solved, NEW s \in Segment(i)',
                      s # dfs_stack'[i].state
               PROVE  IsGoalOrTerminal(s)' \/ Valued(s)'
    BY <1>4 DEF FramesValued, base_vars
  <2>1. i \in 1 .. n
    <3>1. CASE i = n + 1
      BY <1>1, <1>4, <1>7, <3>1
    <3>2. CASE i # n + 1
      BY <1>1, <3>2
    <3> QED BY <3>1, <3>2
  <2>2. s \in Segment(i) /\ dfs_stack[i].solved /\ s # dfs_stack[i].state
    BY <1>4, <1>6, <2>1
  <2>3. IsGoalOrTerminal(s) \/ Valued(s)
    BY <1>1, <2>1, <2>2 DEF Established, FramesValued
  <2> QED BY <2>3, SameEstablished
<1>9. RootFrame' /\ FreshTop' /\ Swept'
  <2>1. Top'.state = t /\ dfs_stack'[1].state = dfs_stack[1].state
    BY <1>1, <1>4 DEF Top
  <2> HIDE DEF n, m
  <2> QED BY <1>1, <1>5, <2>1 DEF RootFrame, FreshTop, Swept, Established, m
<1>10. NoActionValued' /\ Labelled'
  BY SameEstablished DEF Established, Labelled, base_vars
<1> QED BY <1>8, <1>9, <1>10 DEF Established

(* A successor seen before only touches the frame it was found from.       *)
LEMMA PushSuccessorEstablishes ==
  ASSUME IInv, Established, PushSuccessor
  PROVE  Established'
<1>1. /\ pc = "push_successor" /\ pc \in Exploring
      /\ UNCHANGED base_vars /\ UNCHANGED <<initial_state, solved>>
      /\ Top \in Frame
  BY TopType DEF PushSuccessor, Exploring, IInv
<1>2. PICK t \in Top.successors :
        LET frame == [Top EXCEPT !.successors = @ \ {t}]
        IN  \/ /\ stack_index[t] = New
               /\ Push(SetTop(frame), t)
               /\ pc' = "initialize"
            \/ /\ stack_index[t] = Closed
               /\ dfs_stack' = SetTop(
                    [frame EXCEPT !.solved =
                       @ /\ (config.label_solved => IsSolved(t))])
               /\ pc' = "advance"
               /\ UNCHANGED <<tarjan_stack, stack_index>>
            \/ /\ OnStack(t)
               /\ dfs_stack' = SetTop(
                    [frame EXCEPT !.lowlink = Min({@, stack_index[t]})])
               /\ pc' = "advance"
               /\ UNCHANGED <<tarjan_stack, stack_index>>
  BY DEF PushSuccessor
<1>3. PICK succ \in SUBSET State : succ = Top.successors \ {t}
  BY <1>1 DEF Frame
<1>4. CASE /\ stack_index[t] = New
           /\ Push(SetTop([Top EXCEPT !.successors = @ \ {t}]), t)
           /\ pc' = "initialize"
  BY <1>1, <1>4, PushNewEstablishes
<1>5. CASE /\ dfs_stack' = SetTop(
                [[Top EXCEPT !.successors = @ \ {t}] EXCEPT
                   !.solved = @ /\ (config.label_solved => IsSolved(t))])
           /\ pc' = "advance"
           /\ UNCHANGED <<tarjan_stack, stack_index>>
  <2>1. PICK b \in BOOLEAN : b = (Top.solved /\ (config.label_solved => IsSolved(t)))
    OBVIOUS
  <2> DEFINE g == [Top EXCEPT !.successors = succ, !.solved = b]
  <2>2. g \in Frame /\ g.state = Top.state /\ (g.solved => Top.solved)
    BY <1>1, <2>1 DEF Frame
  <2>3. dfs_stack' = SetTop(g)
    BY <1>1, <1>3, <1>5, <2>1 DEF Frame
  <2> HIDE DEF g
  <2>4. PICK f \in Frame : f = g
    BY <2>2
  <2> QED BY <1>1, <1>5, <2>2, <2>3, <2>4, QuietEstablishes DEF Exploring
<1>6. CASE /\ OnStack(t)
           /\ dfs_stack' = SetTop(
                [[Top EXCEPT !.successors = @ \ {t}] EXCEPT
                   !.lowlink = Min({@, stack_index[t]})])
           /\ pc' = "advance"
           /\ UNCHANGED <<tarjan_stack, stack_index>>
  <2>1. Top.lowlink \in Nat /\ stack_index[t] \in Nat
    BY <1>1, <1>6 DEF Frame, OnStack, IInv, TypeOK
  <2>2. PICK l \in Nat : l = Min({Top.lowlink, stack_index[t]})
    BY <2>1, MinOfTwo
  <2> DEFINE g == [Top EXCEPT !.successors = succ, !.lowlink = l]
  <2>3. g \in Frame /\ g.state = Top.state /\ g.solved = Top.solved
    BY <1>1 DEF Frame
  <2>4. dfs_stack' = SetTop(g)
    BY <1>1, <1>3, <1>6, <2>2 DEF Frame
  <2> HIDE DEF g
  <2>5. PICK f \in Frame : f = g
    BY <2>3
  <2> QED BY <1>1, <1>6, <2>3, <2>4, <2>5, QuietEstablishes DEF Exploring
<1> QED BY <1>2, <1>4, <1>5, <1>6

(* Popping a frame: its segment is dropped, or merged with its parent's.   *)
LEMMA PopSegments ==
  ASSUME IInv, Backtrack
  PROVE  LET n == Len(dfs_stack)
         IN  /\ n \in Nat \ {0, 1}
             /\ Len(dfs_stack') = n - 1
             /\ \A i \in 1 .. n - 1 :
                  /\ i \in 1 .. n
                  /\ dfs_stack'[i].state = dfs_stack[i].state
                  /\ dfs_stack'[i].solved => dfs_stack[i].solved
                  /\ i = n - 1 /\ dfs_stack'[i].solved => Top.solved
                  /\ i < n - 1 => Segment(i)' \subseteq Segment(i)
                  /\ i = n - 1 => Segment(i)' \subseteq Segment(i) \union Segment(n)
<1> DEFINE n == Len(dfs_stack)
           parent == dfs_stack[n - 1]
           q == stack_index[Top.state]
<1>1. /\ pc = "backtrack" /\ pc \in Exploring /\ n > 1
      /\ tarjan_stack' = IF IsSccRoot THEN SubSeq(tarjan_stack, 1, Top.lowlink)
                         ELSE tarjan_stack
      /\ stack_index' = [s \in State |-> IF s \in Scc THEN Closed
                                         ELSE stack_index[s]]
  BY DEF Backtrack, Exploring, LeaveScc
<1>2. /\ n \in Nat \ {0, 1} /\ n \in 1 .. n /\ n - 1 \in 1 .. n
      /\ Top = dfs_stack[n] /\ Top \in Frame /\ q \in Nat
      /\ dfs_stack \in Seq(Frame)
  BY <1>1, TopType DEF IInv, TypeOK
<1>3. PICK f \in Frame :
        /\ dfs_stack' = Append(SubSeq(dfs_stack, 1, n - 2), f)
        /\ f.state = parent.state
        /\ f.solved => parent.solved /\ Top.solved
  <2>1. parent \in Frame
    BY <1>2
  <2>2. PICK l \in Nat : l = IF IsSccRoot THEN parent.lowlink
                             ELSE Min({Top.lowlink, parent.lowlink})
    BY <1>2, <2>1, MinOfTwo DEF Frame
  <2>3. PICK b \in BOOLEAN : b = (parent.solved /\ Top.solved)
    OBVIOUS
  <2> DEFINE g == [parent EXCEPT !.lowlink = l, !.solved = b]
  <2>4. dfs_stack' = Append(SubSeq(dfs_stack, 1, n - 2), g)
    BY <2>2, <2>3 DEF Backtrack
  <2>5. g \in Frame /\ g.state = parent.state /\ g.solved = b
    BY <2>1 DEF Frame
  <2> HIDE DEF g
  <2> QED BY <2>3, <2>4, <2>5
<1>4. /\ Len(dfs_stack') = n - 1 /\ dfs_stack'[n - 1] = f
      /\ \A i \in 1 .. n - 1 : i # n - 1 => dfs_stack'[i] = dfs_stack[i]
  <2>1. PICK below \in Seq(Frame) :
          /\ below = SubSeq(dfs_stack, 1, n - 2) /\ Len(below) = n - 2
          /\ \A i \in 1 .. n - 2 : below[i] = dfs_stack[i]
    <3>1. n - 2 \in 0 .. n
      BY <1>2
    <3> DEFINE b == SubSeq(dfs_stack, 1, n - 2)
    <3>2. /\ b \in Seq(Frame) /\ Len(b) = n - 2
          /\ \A i \in 1 .. n - 2 : b[i] = dfs_stack[i]
      BY <1>2, <3>1, PopFacts
    <3>3. b = SubSeq(dfs_stack, 1, n - 2)
      OBVIOUS
    <3> HIDE DEF b
    <3> QED BY <3>2, <3>3
  <2>2. /\ Len(Append(below, f)) = n - 1 /\ Append(below, f)[n - 1] = f
        /\ \A i \in 1 .. n - 2 : Append(below, f)[i] = below[i]
    BY <1>2, <2>1, PushFacts
  <2>3. dfs_stack' = Append(below, f)
    BY <1>3, <2>1
  <2> QED BY <1>2, <2>1, <2>2, <2>3
<1>5. \A i \in 1 .. n - 1 : /\ i \in 1 .. n
                            /\ dfs_stack'[i].state = dfs_stack[i].state
                            /\ dfs_stack'[i].solved => dfs_stack[i].solved
                            /\ i = n - 1 /\ dfs_stack'[i].solved => Top.solved
  <2> SUFFICES ASSUME NEW i \in 1 .. n - 1
               PROVE  /\ i \in 1 .. n
                      /\ dfs_stack'[i].state = dfs_stack[i].state
                      /\ dfs_stack'[i].solved => dfs_stack[i].solved
                      /\ i = n - 1 /\ dfs_stack'[i].solved => Top.solved
    OBVIOUS
  <2>1. CASE i = n - 1
    BY <1>2, <1>3, <1>4, <2>1
  <2>2. CASE i # n - 1
    BY <1>2, <1>4, <2>2
  <2> QED BY <2>1, <2>2
<1>6. \A s \in State : /\ OnStack(s)' <=> OnStack(s) /\ s \notin Scc
                       /\ s \notin Scc => stack_index'[s] = stack_index[s]
  BY <1>1, PopStacks
<1>7. \A s \in Scc : OnStack(s) /\ q <= stack_index[s]
  BY <1>1, ComponentFacts
<1>8. ASSUME NEW i \in 1 .. n - 1
      PROVE  /\ dfs_stack[i].state \in State
             /\ stack_index'[dfs_stack'[i].state] = stack_index[dfs_stack[i].state]
             /\ stack_index[dfs_stack[i].state] \in Nat
  <2>1. /\ i \in 1 .. n /\ i < n /\ dfs_stack[i].state \in State
        /\ stack_index[dfs_stack[i].state] \in Nat
        /\ stack_index[dfs_stack[i].state] < q
    BY <1>1, <1>2, <1>5, FrameType
  <2>2. dfs_stack[i].state \notin Scc
    BY <1>2, <1>7, <2>1
  <2> QED BY <1>5, <1>6, <2>1, <2>2
<1>9. ASSUME NEW i \in 1 .. n - 1, NEW s \in Segment(i)'
      PROVE  /\ s \in State /\ OnStack(s) /\ stack_index[s] \in Nat
             /\ stack_index'[s] = stack_index[s]
             /\ stack_index[dfs_stack[i].state] <= stack_index[s]
             /\ i < n - 1 =>
                  stack_index[s] < stack_index'[dfs_stack'[i + 1].state]
  <2>1. s \in State /\ OnStack(s)'
    BY DEF Segment
  <2>2. OnStack(s) /\ stack_index'[s] = stack_index[s] /\ stack_index[s] \in Nat
    BY <1>6, <2>1 DEF OnStack, IInv, TypeOK
  <2> QED BY <1>4, <1>5, <1>8, <2>1, <2>2 DEF Segment
<1>10. ASSUME NEW i \in 1 .. n - 1, i < n - 1
       PROVE  Segment(i)' \subseteq Segment(i)
  <2>1. i + 1 \in 1 .. n - 1
    BY <1>2, <1>10
  <2> HIDE DEF n
  <2> QED BY <1>8, <1>9, <1>10, <2>1 DEF Segment
<1>11. ASSUME NEW i \in 1 .. n - 1, i = n - 1
       PROVE  Segment(i)' \subseteq Segment(i) \union Segment(n)
  <2> SUFFICES ASSUME NEW s \in Segment(i)'
               PROVE  s \in Segment(i) \/ s \in Segment(n)
    OBVIOUS
  <2>1. CASE stack_index[s] < q
    BY <1>2, <1>9, <1>11, <2>1 DEF Segment
  <2>2. CASE ~(stack_index[s] < q)
    BY <1>2, <1>9, <2>2 DEF Segment
  <2> QED BY <2>1, <2>2
<1> QED BY <1>2, <1>4, <1>5, <1>10, <1>11

(* The states of a component that settles with a frame that counts as      *)
(* solved are valued: so are the labels.                                   *)
LEMMA LeaveSccEstablishes ==
  ASSUME IInv, Established, pc = "backtrack", LeaveScc, UNCHANGED base_vars
  PROVE  NoActionValued' /\ Labelled'
<1>1. NoActionValued'
  BY SameEstablished DEF Established
<1>2. Labelled'
  <2> SUFFICES ASSUME config.label_solved, NEW s \in solved'
               PROVE  Valued(s)
    BY SameEstablished DEF Labelled, base_vars
  <2>1. CASE s \in solved
    BY <2>1 DEF Established, Labelled
  <2>2. CASE s \notin solved
    <3>1. s \in Settled /\ Top.solved
      BY <2>2 DEF LeaveScc, Settled
    <3>2. /\ s \in Scc /\ s \in State /\ OnStack(s) /\ ~IsSolved(s)
          /\ stack_index[Top.state] <= stack_index[s]
      BY <3>1, ComponentFacts
    <3>3. /\ pc \in Exploring /\ Top = dfs_stack[Len(dfs_stack)]
          /\ Len(dfs_stack) \in 1 .. Len(dfs_stack)
      BY TopType DEF Exploring, IInv
    <3>4. s \in Segment(Len(dfs_stack))
      BY <3>2, <3>3 DEF Segment
    <3>5. IsGoalOrTerminal(s) \/ Valued(s)
      BY <3>1, <3>3, <3>4 DEF Established, FramesValued
    <3> QED BY <3>2, <3>5 DEF IsSolved
  <2> QED BY <2>1, <2>2
<1> QED BY <1>1, <1>2

(* A popped frame hands valued states to its parent, or labels them.       *)
LEMMA BacktrackEstablishes ==
  ASSUME IInv, Established, Backtrack
  PROVE  Established'
<1> DEFINE n == Len(dfs_stack)
<1>1. /\ pc = "backtrack" /\ pc \in Exploring /\ pc' = "advance"
      /\ LeaveScc /\ UNCHANGED base_vars /\ UNCHANGED <<config, initial_state>>
  BY DEF Backtrack, Exploring, base_vars
<1>2. /\ n \in Nat \ {0, 1} /\ n \in 1 .. n
      /\ Len(dfs_stack') = n - 1 /\ Top = dfs_stack[n]
      /\ \A i \in 1 .. n - 1 :
           /\ i \in 1 .. n
           /\ dfs_stack'[i].state = dfs_stack[i].state
           /\ dfs_stack'[i].solved => dfs_stack[i].solved
           /\ i = n - 1 /\ dfs_stack'[i].solved => Top.solved
           /\ i < n - 1 => Segment(i)' \subseteq Segment(i)
           /\ i = n - 1 => Segment(i)' \subseteq Segment(i) \union Segment(n)
  BY PopSegments DEF Top
<1>3. FramesValued'
  <2> SUFFICES ASSUME config.label_solved, NEW i \in 1 .. n - 1,
                      dfs_stack'[i].solved, NEW s \in Segment(i)',
                      s # dfs_stack'[i].state
               PROVE  IsGoalOrTerminal(s)' \/ Valued(s)'
    BY <1>1, <1>2 DEF FramesValued
  <2>1. \/ s \in Segment(i)
        \/ s \in Segment(n) /\ Top.solved
    BY <1>2
  <2>2. CASE s \in Segment(i)
    <3>1. IsGoalOrTerminal(s) \/ Valued(s)
      BY <1>1, <1>2, <2>2 DEF Established, FramesValued
    <3> QED BY <1>1, <3>1, SameEstablished
  <2>3. CASE s \in Segment(n) /\ Top.solved
    <3>1. IsGoalOrTerminal(s) \/ Valued(s)
      BY <1>1, <1>2, <2>3 DEF Established, FramesValued
    <3> QED BY <1>1, <3>1, SameEstablished
  <2> QED BY <2>1, <2>2, <2>3
<1>4. RootFrame'
  BY <1>1, <1>2 DEF RootFrame, Established
<1> QED BY <1>1, <1>3, <1>4, LeaveSccEstablishes DEF Established, FreshTop, Swept

(* The end of an exploration: the initial state is scheduled, final or, if *)
(* nothing failed, labelled.                                               *)
LEMMA EndExplorationEstablishes ==
  ASSUME IInv, Established, EndExploration
  PROVE  /\ Established'
         /\ pc' = "done" => config.label_solved /\ IsSolved(initial_state)'
<1>1. /\ pc = "backtrack" /\ pc \in Exploring /\ pc' \notin Exploring
      /\ pc' \in {"policy_exploration", "vi_step", "done"}
      /\ Len(dfs_stack) = 1
      /\ LeaveScc /\ UNCHANGED base_vars /\ UNCHANGED <<config, initial_state>>
  BY DEF EndExploration, Exploring, base_vars
<1>2. /\ Top = dfs_stack[1] /\ Top.state = initial_state
      /\ Top.state \in State /\ stack_index[Top.state] = 0
      /\ Top.lowlink \in Nat /\ Top.lowlink <= stack_index[Top.state]
  BY <1>1, TopType DEF IInv, FrameShape, Frame, Established, RootFrame
<1>3. IsSccRoot /\ initial_state \in Scc
  <2>1. IsSccRoot
    BY <1>2 DEF IsSccRoot
  <2>2. OnStack(initial_state) /\ stack_index[Top.state] <= stack_index[initial_state]
    BY <1>2 DEF OnStack, New, Closed
  <2> QED BY <1>1, <1>2, <2>1, <2>2, ComponentFacts
<1>4. CASE pc' = "done"
  <2>1. Top.solved /\ config.label_solved
    BY <1>4 DEF EndExploration
  <2>2. IsSolved(initial_state)'
    BY <1>1, <1>3, <2>1, LeaveSccLabels
  <2> QED BY <1>1, <1>4, <2>1, <2>2, LeaveSccEstablishes
          DEF Established, FreshTop, Swept, RootFrame, FramesValued
<1>5. CASE pc' = "vi_step"
  <2>1. /\ Top.solved /\ ~config.label_solved
        /\ visited_states' = visited_states \union Settled
        /\ vi' = FirstSweep(visited_states')
    BY <1>5 DEF EndExploration
  <2>2. initial_state \in visited_states' \/ IsGoalOrTerminal(initial_state)
    BY <1>3, <2>1 DEF Settled, IsSolved, IInv, LabelMode
  <2>3. RootFrame'
    BY <1>1, <2>2, SameEstablished DEF RootFrame
  <2>4. Swept'
    BY <2>1 DEF Swept, FirstSweep
  <2> QED BY <1>1, <1>5, <2>3, <2>4, LeaveSccEstablishes
          DEF Established, FreshTop, FramesValued
<1>6. CASE pc' = "policy_exploration"
  BY <1>1, <1>6, LeaveSccEstablishes
     DEF Established, FreshTop, Swept, RootFrame, FramesValued
<1> QED BY <1>1, <1>4, <1>5, <1>6

(* The same if time is up between the pop and the update of the parent.    *)
LEMMA BacktrackTimeoutEstablishes ==
  ASSUME IInv, Established, BacktrackTimeout
  PROVE  Established'
<1>1. /\ pc = "backtrack" /\ pc' = "timeout" /\ pc' \notin Exploring
      /\ LeaveScc /\ UNCHANGED base_vars
  BY DEF BacktrackTimeout, Exploring
<1> QED BY <1>1, LeaveSccEstablishes
        DEF Established, FreshTop, Swept, RootFrame, FramesValued

(* A sweep that has seen no change so far has, without intervals, left all *)
(* values and the whole policy alone; with intervals, a backup only        *)
(* touches the bounds of its own state.                                    *)
LEMMA ViUpdateEstablishes ==
  ASSUME IInv, Established, SoundConfigurations, ViUpdate
  PROVE  Established'
<1>1. PICK x \in vi.pending :
        /\ Backup(x)
        /\ vi' = [pending |-> vi.pending \ {x},
                  value_changed |-> vi.value_changed \/ ~ValueConverged(x),
                  policy_changed |-> vi.policy_changed \/ PolicyChanged(x)]
  BY DEF ViUpdate
<1>2. /\ pc = "vi_step" /\ pc' = "vi_step" /\ pc \notin Exploring
      /\ config' = config /\ initial_state' = initial_state
      /\ solved' = solved /\ visited_states' = visited_states
      /\ x \in visited_states /\ x \in State /\ flag[x] = "initialized"
      /\ visited_states \subseteq State
      /\ \A s \in visited_states : flag[s] = "initialized"
      /\ BaseTypeOK /\ PolicyApplicable /\ InfoOK
  BY <1>1 DEF ViUpdate, Exploring, IInv, WorkExpanded, TypeOK
<1>3. BaseTypeOK' /\ PolicyApplicable'
  BY <1>1, <1>2, BackupType
<1>4. PICK v \in {ExpandedValue(x)} :
        /\ flag' = ExpandedFlag(x)
        /\ value' = [v EXCEPT ![x] = Bellman(v, x)]
        /\ \E a \in GreedyChoices(v, x) : policy' = [policy EXCEPT ![x] = a]
  BY <1>1 DEF Backup
<1>5. v = value /\ flag' = flag
  BY <1>2, <1>4 DEF ExpandedValue, ExpandedFlag, Evaluated, BaseTypeOK
<1>6. /\ \A s \in State : s # x => value'[s] = value[s] /\ policy'[s] = policy[s]
      /\ value'[x] = Bellman(value, x)
      /\ policy'[x] \in GreedyChoices(value, x)
  BY <1>2, <1>4, <1>5 DEF BaseTypeOK
<1>7. NoActionValued'
  <2>1. [Next]_vars
    BY DEF ViUpdate, Next, Step
  <2> QED BY <2>1, NextNoAction DEF Established
<1>8. Labelled'
  BY <1>2 DEF IInv, LabelMode, Labelled
<1>9. RootFrame'
  BY <1>2, <1>5 DEF Established, RootFrame, IsGoalOrTerminal
<1>10. Swept'
  <2> SUFFICES ASSUME ~vi'.value_changed, ~vi'.policy_changed,
                      NEW s \in visited_states \ vi'.pending
               PROVE  IsConverged(s)'
    BY <1>2 DEF Swept
  <2>1. /\ ~vi.value_changed /\ ~vi.policy_changed
        /\ ValueConverged(x) /\ policy'[x] = policy[x]
        /\ s = x \/ s \in visited_states \ vi.pending
    BY <1>1 DEF PolicyChanged
  <2>2. s # x => IsConverged(s)
    BY <1>2, <2>1 DEF Established, Swept
  <2>3. CASE config.use_interval
    <3>1. s = x => ApproxEqual(value'[s].lower, value'[s].upper)
      BY <2>1, <2>3 DEF ValueConverged, Converged
    <3>2. s # x => ApproxEqual(value'[s].lower, value'[s].upper)
      BY <1>2, <1>6, <2>2, <2>3 DEF IsConverged
    <3> QED BY <1>2, <2>3, <3>1, <3>2 DEF IsConverged
  <2>4. CASE ~config.use_interval
    <3>1. value'[x] = value[x]
      BY <1>2, <1>3, <2>1, <2>4, ConvergedSame DEF SoundConfigurations, BaseTypeOK
    <3>2. value' = value /\ policy' = policy
      <4>1. \A u \in State : value'[u] = value[u] /\ policy'[u] = policy[u]
        BY <1>6, <2>1, <3>1
      <4> QED BY <1>2, <1>3, <4>1 DEF BaseTypeOK
    <3>3. UNCHANGED base_vars
      BY <1>2, <1>5, <3>2 DEF base_vars
    <3>4. IsConverged(x)
      <4>1. ApproxEqual(value[x].lower, Bellman(value, x).lower)
        BY <1>6, <3>1, ApproxEqualReflexive
      <4>2. policy[x] \in GreedyChoices(value, x)
        BY <1>6, <2>1
      <4>3. \/ policy[x] = NoAction /\ Greedy(value, x) = {}
            \/ policy[x] \in Greedy(value, x)
        BY <4>2 DEF GreedyChoices, Greedy
      <4> QED BY <2>4, <4>1, <4>3 DEF IsConverged
    <3> QED BY <2>2, <3>3, <3>4, SameEstablished
  <2> QED BY <2>3, <2>4
<1> QED BY <1>2, <1>7, <1>8, <1>9, <1>10
        DEF Established, FreshTop, FramesValued

(* The end of a sweep leaves the stored information alone.                 *)
LEMMA ViSweepEndEstablishes ==
  ASSUME IInv, Established, ViSweepEnd
  PROVE  Established'
<1>1. /\ pc = "vi_step" /\ pc' \in {"policy_exploration", "vi_step", "done"}
      /\ pc' \notin Exploring
      /\ UNCHANGED base_vars /\ UNCHANGED <<config, initial_state, solved>>
      /\ pc' = "vi_step" => /\ visited_states' = visited_states
                            /\ vi' = FirstSweep(visited_states)
  BY DEF ViSweepEnd, Exploring, base_vars
<1>2. NoActionValued' /\ Labelled'
  BY <1>1, SameEstablished DEF Established, Labelled
<1>3. RootFrame' /\ Swept'
  BY <1>1, SameEstablished DEF Established, RootFrame, Swept, FirstSweep
<1> QED BY <1>1, <1>2, <1>3 DEF Established, FreshTop, FramesValued

(* Evaluating the initial state comes before all that.                     *)
LEMMA SolveEstablishes ==
  ASSUME IInv, Established, Solve
  PROVE  Established'
<1>1. /\ pc = "solve" /\ pc' = "policy_exploration" /\ pc' \notin Exploring
      /\ solved' = solved
  BY DEF Solve, Exploring
<1>2. NoActionValued'
  BY NextNoAction DEF Solve, Next, Step, Established
<1> QED BY <1>1, <1>2
        DEF Established, Labelled, RootFrame, FreshTop, FramesValued, Swept

(* So do a timeout and stuttering.                                         *)
LEMMA IdleEstablishes ==
  ASSUME IInv, Established, Timeout \/ Stop \/ UNCHANGED vars
  PROVE  Established'
<1>1. CASE Timeout
  <2>1. /\ pc' = "timeout" /\ pc' \notin Exploring
        /\ UNCHANGED base_vars /\ UNCHANGED <<config, solved>>
    BY <1>1 DEF Timeout, Exploring, base_vars
  <2> QED BY <2>1, SameEstablished
          DEF Established, Labelled, RootFrame, FreshTop, FramesValued, Swept
<1>2. CASE Stop \/ UNCHANGED vars
  <2>1. UNCHANGED vars
    BY <1>2 DEF Stop
  <2>2. NoActionValued'
    BY <2>1, SameEstablished DEF Established, vars
  <2>3. Labelled' /\ RootFrame' /\ Swept'
    BY <2>1, SameEstablished DEF Established, Labelled, RootFrame, Swept, vars,
       dfs_vars, base_vars
  <2>4. FreshTop'
    BY <2>1 DEF Established, FreshTop, vars, dfs_vars, Top
  <2>5. FramesValued'
    BY <2>1, SameEstablished
       DEF Established, FramesValued, vars, dfs_vars, base_vars, Segment, OnStack
  <2> QED BY <2>1, <2>2, <2>3, <2>4, <2>5 DEF Established, vars
<1> QED BY <1>1, <1>2

(* Every step keeps what is established.                                   *)
LEMMA NextEstablished ==
  ASSUME IInv, Established, SoundConfigurations, [Next]_vars
  PROVE  Established'
<1>1. CASE Solve
  BY <1>1, SolveEstablishes
<1>2. CASE PolicyExploration
  BY <1>2, PolicyExplorationEstablishes
<1>3. CASE Initialize
  BY <1>3, InitializeSolvedEstablishes, InitializeUpdateEstablishes,
     InitializeFollowEstablishes DEF Initialize
<1>4. CASE PushSuccessor
  BY <1>4, PushSuccessorEstablishes
<1>5. CASE Advance
  BY <1>5, AdvanceNextEstablishes, AdvanceUpdateEstablishes,
     AdvanceFinishEstablishes DEF Advance
<1>6. CASE Backtrack
  BY <1>6, BacktrackEstablishes
<1>7. CASE EndExploration
  BY <1>7, EndExplorationEstablishes
<1>8. CASE ViUpdate
  BY <1>8, ViUpdateEstablishes
<1>9. CASE ViSweepEnd
  BY <1>9, ViSweepEndEstablishes
<1>10. CASE BacktrackTimeout
  BY <1>10, BacktrackTimeoutEstablishes
<1>11. CASE Timeout \/ Stop \/ UNCHANGED vars
  BY <1>11, IdleEstablishes
<1> QED BY <1>1, <1>2, <1>3, <1>4, <1>5, <1>6, <1>7, <1>8, <1>9, <1>10, <1>11
        DEF Next, Step

-----------------------------------------------------------------------------
(* The instance FR is about the same stored information, so its operators  *)
(* are those of this search.                                               *)

(* The sums of the community modules.                                      *)
LEMMA SameSums == \A f : FR!SumFunction(f) = SumFunction(f)
<1>1. \A f, S : FR!SumFunctionOnSet(f, S) = SumFunctionOnSet(f, S)
  BY DEF FR!SumFunctionOnSet, SumFunctionOnSet, FR!FoldFunctionOnSet,
         FoldFunctionOnSet, FR!MapThenFoldSet, MapThenFoldSet
<1> QED BY <1>1 DEF FR!SumFunction, SumFunction

(* The transitions.                                                        *)
LEMMA SameTransitions ==
  /\ \A s, a : FR!NonSource(s, a) = NonSource(s, a)
  /\ \A s : FR!TransitionTails(s) = TransitionTails(s)
  /\ \A s : FR!Neighbours(s) = Neighbours(s)
BY DEF FR!TransitionTails, TransitionTails, FR!NonSource, NonSource,
       FR!Applicable, Applicable, FR!Successors, Successors,
       FR!Neighbours, Neighbours

(* The Q-values.                                                           *)
LEMMA SameQValues == \A v, b, s, a : FR!QValue(v, b, s, a) = QValue(v, b, s, a)
<1>1. FR!TotalWeight = TotalWeight /\ FR!NonSourceWeight = NonSourceWeight
  BY SameSums, SameTransitions
     DEF FR!TotalWeight, TotalWeight, FR!NonSourceWeight, NonSourceWeight,
         FR!NonSource, NonSource, FR!Applicable, Applicable, FR!Successors, Successors
<1> QED BY <1>1, SameSums, SameTransitions DEF FR!QValue, QValue, FR!Saturated, Saturated

(* The Bellman operator and the greedy actions.                            *)
LEMMA SameBellman ==
  /\ \A v, s : FR!Bellman(v, s) = Bellman(v, s)
  /\ \A v, s : FR!Greedy(v, s) = Greedy(v, s)
  /\ \A v, s : FR!GreedyChoices(v, s) = GreedyChoices(v, s)
<1>1. \A S : FR!Min(S) = Min(S)
  BY DEF FR!Min, Min
<1>2. \A v, b, s : FR!Best(v, b, s) = Best(v, b, s)
  BY <1>1, SameTransitions, SameQValues DEF FR!Best, Best
<1>3. \A v, s : FR!Terminates(v, s) <=> Terminates(v, s)
  BY <1>2, SameTransitions DEF FR!Terminates, Terminates
<1>4. \A v, s : FR!Bellman(v, s) = Bellman(v, s)
  BY <1>2, <1>3 DEF FR!Bellman, Bellman, FR!Point, Point
<1>5. \A v, s : FR!Greedy(v, s) = Greedy(v, s)
  BY <1>2, <1>3, SameTransitions, SameQValues DEF FR!Greedy, Greedy
<1>6. \A v, s : FR!GreedyChoices(v, s) = GreedyChoices(v, s)
  BY <1>3, <1>5 DEF FR!GreedyChoices, GreedyChoices
<1> QED BY <1>4, <1>5, <1>6

(* The actions on what is stored.                                          *)
LEMMA SameBackup ==
  /\ BaseInit => FR!BaseInit
  /\ \A s : InitializeInitialState(s) => FR!InitializeInitialState(s)
  /\ \A s : Backup(s) => FR!Backup(s)
<1>1. /\ \A s : FR!InitialValue(s) = InitialValue(s)
      /\ \A s : FR!InitialFlag(s) = InitialFlag(s)
  BY DEF FR!InitialValue, InitialValue, FR!InitialFlag, InitialFlag, FR!Point, Point
<1>2. \A s : FR!Evaluated(s) = Evaluated(s)
  BY SameTransitions DEF FR!Evaluated, Evaluated
<1>3. /\ \A s : FR!ExpandedFlag(s) = ExpandedFlag(s)
      /\ \A s : FR!ExpandedValue(s) = ExpandedValue(s)
  BY <1>1, <1>2, SameTransitions
     DEF FR!ExpandedFlag, ExpandedFlag, FR!ExpandedValue, ExpandedValue
<1>4. \A s : Backup(s) => FR!Backup(s)
  BY <1>3, SameBellman DEF FR!Backup, Backup
<1>5. \A s : InitializeInitialState(s) => FR!InitializeInitialState(s)
  BY <1>1 DEF FR!InitializeInitialState, InitializeInitialState, FR!base_vars, base_vars
<1>6. BaseInit => FR!BaseInit
  BY DEF FR!BaseInit, BaseInit, FR!Point, Point
<1> QED BY <1>4, <1>5, <1>6

(* What a solution is.                                                     *)
LEMMA SameSolution == \A s : HasSolution(s) => FR!HasSolution(s)
<1>1. \A s : FR!IsConverged(s) <=> IsConverged(s)
  BY SameBellman DEF FR!IsConverged, IsConverged, FR!ApproxEqual, ApproxEqual
<1>2. \A s : FR!PolicySuccessors(s) = PolicySuccessors(s)
  BY SameTransitions DEF FR!PolicySuccessors, PolicySuccessors
<1>3. \A states : FR!IsSolution(states) <=> IsSolution(states)
  BY <1>1, <1>2 DEF FR!IsSolution, IsSolution, FR!IsGoalOrTerminal, IsGoalOrTerminal
<1> QED BY <1>3 DEF FR!HasSolution, HasSolution

-----------------------------------------------------------------------------
(* A valued state that is expanded has converged, if values only rise.     *)
LEMMA ExpandedConverged ==
  ASSUME IInv, Enclosing, config.use_interval \/ Improving,
         NEW s \in State, flag[s] = "initialized", Valued(s)
  PROVE  IsConverged(s)
<1>1. s \notin Goal
  BY DEF Enclosing
<1>2. \A t \in Neighbours(s) : flag[t] # "uninitialized"
  BY DEF IInv, InfoOK
<1> QED BY <1>1, <1>2, ValuedConverged DEF IInv, TypeOK

(* The search ends with a solution of the initial state.                   *)
LEMMA FinishSolution ==
  ASSUME IInv, IInv', Enclosing, Established, Established',
         config.label_solved => config.use_interval \/ Improving,
         EndExploration \/ ViSweepEnd, pc' = "done"
  PROVE  HasSolution(initial_state)
<1>1. UNCHANGED base_vars /\ initial_state' = initial_state
  BY DEF EndExploration, ViSweepEnd
<1>2. /\ \A s : PolicySuccessors(s)' = PolicySuccessors(s)
      /\ \A s : IsGoalOrTerminal(s)' <=> IsGoalOrTerminal(s)
      /\ \A s : Valued(s)' <=> Valued(s)
      /\ flag' = flag /\ config' = config
  <2>1. config' = config /\ flag' = flag /\ value' = value /\ policy' = policy
    BY <1>1 DEF base_vars
  <2>2. \A s : Valued(s)' <=> Valued(s)
    BY <2>1 DEF Valued
  <2> QED BY <1>1, <2>1, <2>2, BaseSame
<1>3. \A s \in State : PolicySuccessors(s) \subseteq State
  BY PolicySuccessorsType DEF IInv
<1>4. initial_state \in State
  BY SearchAssumption DEF IInv, TypeOK
<1>5. CASE EndExploration
  <2>1. config.label_solved /\ IsSolved(initial_state)'
    BY <1>5, EndExplorationEstablishes
  <2>2. /\ solved' \subseteq State
        /\ \A s \in solved' : flag[s] = "initialized" /\ Valued(s)
        /\ \A s \in solved' : \A t \in PolicySuccessors(s) :
             t \in solved' \/ IsGoalOrTerminal(t)
        /\ initial_state \in solved' \/ IsGoalOrTerminal(initial_state)
    BY <1>1, <1>2, <2>1
       DEF IInv, TypeOK, WorkExpanded, LabelsClosed, Established, Labelled, IsSolved
  <2>3. PICK S \in SUBSET State : S = solved'
    BY <2>2
  <2>4. \A s \in S : IsConverged(s)
    BY <2>1, <2>2, <2>3, ExpandedConverged
  <2> QED BY <1>3, <1>4, <2>2, <2>3, <2>4, ClosedSolution
<1>6. CASE ViSweepEnd
  <2>1. /\ pc = "vi_step" /\ vi.pending = {}
        /\ ~vi.policy_changed /\ ~vi.value_changed
    BY <1>6 DEF ViSweepEnd
  <2>2. /\ visited_states \in SUBSET State
        /\ \A s \in visited_states :
             /\ flag[s] # "uninitialized"
             /\ IsConverged(s)
             /\ \A t \in PolicySuccessors(s) :
                  t \in visited_states \/ IsGoalOrTerminal(t)
        /\ initial_state \in visited_states \/ IsGoalOrTerminal(initial_state)
    BY <2>1 DEF IInv, TypeOK, WorkExpanded, ScheduledClosed,
                Established, Swept, RootFrame
  <2> QED BY <1>3, <1>4, <2>2, ClosedSolution
<1> QED BY <1>5, <1>6

-----------------------------------------------------------------------------
(* The step simulation.                                                    *)

(* A backup in the middle of the search is a revision.                     *)
LEMMA ReviseStep ==
  ASSUME NEW s \in State, flag[s] \in {"fringe", "initialized"}, Backup(s),
         Phase = "search", Phase' = "search", UNCHANGED <<config, initial_state>>
  PROVE  FR!FRNext
<1>1. FR!Revise(s)
  BY SameBackup DEF FR!Revise
<1> QED BY <1>1 DEF FR!FRNext

(* So is a step that changes neither what is stored nor where the search   *)
(* is.                                                                     *)
LEMMA StutterFR ==
  ASSUME UNCHANGED base_vars, UNCHANGED initial_state, Phase' = Phase
  PROVE  UNCHANGED FR!fr_vars
BY DEF FR!fr_vars, FR!base_vars, base_vars

(* Every step of the search is a step of Find-and-Revise or changes        *)
(* nothing there.                                                          *)
LEMMA SimulationStep ==
  ASSUME IInv, IInv', Enclosing, Established, Established',
         config.label_solved => config.use_interval \/ Improving,
         [Next]_vars
  PROVE  [FR!FRNext]_FR!fr_vars
<1>1. CASE Solve
  <2>1. Phase = "start" /\ Phase' = "search"
    BY <1>1 DEF Solve, Phase
  <2>2. FR!Start
    BY <1>1, <2>1, SameBackup DEF Solve, FR!Start
  <2> QED BY <2>2 DEF FR!FRNext
<1>2. CASE PolicyExploration \/ InitializeSolved \/ InitializeFollow
           \/ PushSuccessor \/ AdvanceNext \/ AdvanceFinish \/ Backtrack
  <2>1. Phase = "search" /\ Phase' = "search"
    BY <1>2 DEF Phase, PolicyExploration, InitializeSolved, InitializeFollow,
                PushSuccessor, AdvanceNext, AdvanceFinish, Backtrack
  <2>2. UNCHANGED base_vars /\ UNCHANGED initial_state
    BY <1>2 DEF PolicyExploration, InitializeSolved, InitializeFollow,
                PushSuccessor, AdvanceNext, AdvanceFinish, Backtrack
  <2> QED BY <2>1, <2>2, StutterFR
<1>3. CASE InitializeUpdate \/ AdvanceUpdate
  <2>1. /\ Phase = "search" /\ Phase' = "search"
        /\ pc \in Exploring /\ Backup(Top.state)
        /\ UNCHANGED <<config, initial_state>>
    BY <1>3 DEF Phase, InitializeUpdate, AdvanceUpdate, Exploring
  <2>2. ~IsSolved(Top.state)
    BY <1>3, TopActive DEF InitializeUpdate, AdvanceUpdate
  <2>3. PICK x \in State : x = Top.state
    BY <2>1, TopType DEF IInv
  <2>4. flag[x] \in {"fringe", "initialized"}
    BY <2>1, <2>2, <2>3, TopUnsolved
  <2> QED BY <2>1, <2>3, <2>4, ReviseStep
<1>4. CASE ViUpdate
  <2>1. PICK s \in vi.pending : Backup(s)
    BY <1>4 DEF ViUpdate
  <2>2. s \in State /\ flag[s] = "initialized"
    BY <1>4, <2>1 DEF IInv, WorkExpanded, TypeOK, ViUpdate
  <2>3. Phase = "search" /\ Phase' = "search" /\ UNCHANGED <<config, initial_state>>
    BY <1>4 DEF ViUpdate, Phase
  <2> QED BY <2>1, <2>2, <2>3, ReviseStep
<1>5. CASE EndExploration \/ ViSweepEnd
  <2>1. /\ Phase = "search" /\ UNCHANGED base_vars /\ UNCHANGED initial_state
        /\ pc' # "done" => Phase' = "search"
        /\ pc' = "done" => Phase' = "solved"
    BY <1>5 DEF Phase, EndExploration, ViSweepEnd
  <2>2. CASE pc' = "done"
    <3>1. FR!HasSolution(initial_state)
      BY <1>5, <2>2, FinishSolution, SameSolution
    <3>2. FR!Finish
      BY <2>1, <2>2, <3>1 DEF FR!Finish, FR!base_vars, base_vars
    <3> QED BY <3>2 DEF FR!FRNext
  <2>3. CASE pc' # "done"
    BY <2>1, <2>3, StutterFR
  <2> QED BY <2>2, <2>3
<1>6. CASE Timeout \/ BacktrackTimeout
  <2>1. Phase = "search" /\ Phase' = "stopped"
        /\ UNCHANGED base_vars /\ UNCHANGED initial_state
    BY <1>6 DEF Phase, Timeout, BacktrackTimeout
  <2>2. FR!GiveUp
    BY <2>1 DEF FR!GiveUp, FR!base_vars, base_vars
  <2> QED BY <2>2 DEF FR!FRNext
<1>7. CASE Stop \/ UNCHANGED vars
  <2>1. UNCHANGED base_vars /\ UNCHANGED initial_state /\ pc' = pc
    BY <1>7 DEF Stop, vars
  <2> QED BY <2>1, StutterFR DEF Phase
<1> QED BY <1>1, <1>2, <1>3, <1>4, <1>5, <1>6, <1>7
        DEF Next, Step, Initialize, Advance

(* With sound parameters the search implements Find-and-Revise.            *)
THEOREM RefinesFindAndRevise ==
  ASSUME SoundConfigurations
  PROVE  Spec => ImplementsFindAndRevise
<1> DEFINE Inv == /\ IInv /\ Enclosing /\ Established
                  /\ config.label_solved => config.use_interval \/ Improving
<1>1. Init => Inv
  <2> SUFFICES ASSUME Init PROVE Inv
    OBVIOUS
  <2>1. config \in Configs /\ BaseInit
    BY DEF Init, BaseInit
  <2>2. config.label_solved => config.use_interval \/ ConsistentBounds
    BY <2>1 DEF SoundConfigurations
  <2> QED BY <2>1, <2>2, InitIInv, InitEstablished, InitialEnclosing, InitialImproving
<1>2. Inv /\ [Next]_vars => Inv'
  <2> SUFFICES ASSUME Inv, [Next]_vars PROVE Inv'
    OBVIOUS
  <2>1. IInv' /\ Enclosing' /\ Established'
    BY NextIInv, NextEnclosing, NextEstablished
  <2>2. config' = config
    <3>1. \A s : InitializeInitialState(s) => config' = config
      BY DEF InitializeInitialState, base_vars
    <3> QED BY <3>1, StepOnBounds DEF base_vars
  <2>3. Improving => Improving'
    BY NextImproving
  <2> QED BY <2>1, <2>2, <2>3
<1>3. Inv /\ Inv' /\ [Next]_vars => [FR!FRNext]_FR!fr_vars
  BY SimulationStep
<1>4. Init => FR!FRInit
  BY SameBackup, SearchAssumption DEF Init, FR!FRInit, Phase
<1> HIDE DEF Inv
<1> QED BY <1>1, <1>2, <1>3, <1>4, PTL DEF Spec, ImplementsFindAndRevise, FR!FRSpec

-----------------------------------------------------------------------------
(* The result.                                                             *)

LEMMA NextFinal ==
  ASSUME IInv, Enclosing, FinalExact, [Next]_vars
  PROVE  FinalExact'
<1>1. BaseTypeOK
  BY DEF IInv, TypeOK
<1>2. \A s \in State : flag[s] \in {"fringe", "initialized"} => s \notin Goal
  BY DEF Enclosing
<1> QED BY <1>1, <1>2, StepOnBounds, SameFinal, InitializeFinal, BackupFinal

(* When the search ends, what it returns is the optimal value of the       *)
(* initial state: with intervals up to the tolerance, in every MDP; with   *)
(* single values exactly, where no way leads back to a state left before.  *)
THEOREM SearchIsOptimal ==
  ASSUME SoundConfigurations, \A k \in Configs : k.use_interval \/ Layered
  PROVE  Spec => []Optimal
<1> DEFINE Inv == /\ IInv /\ Enclosing /\ Established /\ FinalExact
                  /\ config.label_solved => config.use_interval \/ Improving
                  /\ config.use_interval \/ (Epsilon = 0 /\ Layered)
<1>1. Init => Inv /\ Optimal
  <2> SUFFICES ASSUME Init PROVE Inv /\ Optimal
    OBVIOUS
  <2>1. config \in Configs /\ BaseInit /\ pc = "solve"
    BY DEF Init, BaseInit
  <2>2. /\ config.label_solved => config.use_interval \/ ConsistentBounds
        /\ config.use_interval \/ (Epsilon = 0 /\ Layered)
    BY <2>1 DEF SoundConfigurations
  <2>3. Optimal
    BY <2>1 DEF Optimal
  <2> QED BY <2>1, <2>2, <2>3, InitIInv, InitEstablished, InitialEnclosing,
             InitialImproving, InitialFinal
<1>2. Inv /\ [Next]_vars => Inv'
  <2> SUFFICES ASSUME Inv, [Next]_vars PROVE Inv'
    OBVIOUS
  <2>1. IInv' /\ Enclosing' /\ Established' /\ FinalExact'
    BY NextIInv, NextEnclosing, NextEstablished, NextFinal
  <2>2. config' = config
    <3>1. \A s : InitializeInitialState(s) => config' = config
      BY DEF InitializeInitialState, base_vars
    <3> QED BY <3>1, StepOnBounds DEF base_vars
  <2>3. Improving => Improving'
    BY NextImproving
  <2> QED BY <2>1, <2>2, <2>3
<1>3. Inv /\ Inv' /\ Optimal /\ [Next]_vars => Optimal'
  <2> SUFFICES ASSUME Inv, Inv', Optimal, [Next]_vars, pc' = "done" PROVE Optimal'
    BY DEF Optimal
  <2>1. CASE EndExploration \/ ViSweepEnd
    <3>1. /\ UNCHANGED base_vars /\ initial_state' = initial_state
          /\ initial_state \in State
      BY <2>1, SearchAssumption DEF EndExploration, ViSweepEnd, IInv, TypeOK
    <3>2. HasSolution(initial_state)
      BY <2>1, FinishSolution
    <3>3. ApproxEqual(value[initial_state].lower, OptimalValue[initial_state])
      BY <3>1, <3>2, SolutionOptimal DEF IInv, TypeOK
    <3> QED BY <3>1, <3>3 DEF Optimal, base_vars
  <2>2. CASE Stop \/ UNCHANGED vars
    <3>1. pc = "done" /\ UNCHANGED <<value, initial_state>>
      BY <2>2 DEF Stop, vars, base_vars
    <3> QED BY <3>1 DEF Optimal
  <2> QED BY <2>1, <2>2
          DEF Next, Step, Initialize, Advance, Solve, PolicyExploration,
              InitializeSolved, InitializeFollow, InitializeUpdate,
              PushSuccessor, AdvanceNext, AdvanceUpdate, AdvanceFinish,
              Backtrack, ViUpdate, Timeout, BacktrackTimeout
<1> HIDE DEF Inv
<1> QED BY <1>1, <1>2, <1>3, PTL DEF Spec
=============================================================================
