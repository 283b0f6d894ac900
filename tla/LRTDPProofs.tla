---------------------------- MODULE LRTDPProofs ----------------------------
(***************************************************************************)
(* Proofs about LRTDP, for every MDP, every heuristic, every configuration *)
(* and every sampler, whether the search runs out of time or not.          *)
(*                                                                         *)
(* First what the search does by itself: its types, NoStaleMarks and       *)
(* LabelsClosed.  Then what it stores: for an admissible heuristic its     *)
(* bounds are bounds, for a consistent one they only ever tighten, and the *)
(* labels it sets are right for good wherever single values cannot be      *)
(* disturbed behind them.                                                  *)
(***************************************************************************)
EXTENDS LRTDPCorrectness, HeuristicSearchBaseProofs

-----------------------------------------------------------------------------
(* The inductive invariant.                                                *)

(* Each list is in use in its part of the search only.                     *)
ListShape ==
  /\ pc \in {"solve", "do_solve"} =>
       solved = {} /\ on_trial = {} /\ policy_queue = {}
  /\ pc = "trial" \/ pc = "check" \/ pc = "label" => current_trial # <<>>
  /\ pc \notin {"check", "label"} => visited = <<>>
  /\ pc = "label" => policy_queue = {}

(* The states in the lists are initialised.                                *)
ListedKnown ==
  /\ pc # "solve" => flag[initial_state] # "uninitialized"
  /\ \A s \in Range(current_trial) : flag[s] # "uninitialized"
  /\ \A s \in policy_queue : flag[s] # "uninitialized"
  /\ \A s \in Range(visited) : flag[s] # "uninitialized"

(* The marks of a trial are those of its states.                           *)
TrialMarks ==
  /\ pc \in {"trial", "end_trial"} =>
       \A s \in on_trial :
         \/ IsSolved(s)
         \/ config.stop_consistent = "REVISITED" /\ s \in Range(current_trial)
  /\ pc = "begin_check" /\ current_trial = <<>> =>
       \A s \in on_trial : IsSolved(s)

(* A check visits a state once: what it has visited is marked, and not in  *)
(* its queue any more.                                                     *)
VisitedOnce ==
  /\ IsInjective(visited)
  /\ pc = "check" => \A s \in Range(visited) : s \in on_trial \ policy_queue

(* As long as a check has not failed, it has the successors of everything  *)
(* it visited in its lists.                                                *)
CheckClosed ==
  pc \in {"check", "label"} /\ rv =>
    \A s \in Range(visited) : \A t \in PolicySuccessors(s) :
      IsSolved(t) \/ t \in policy_queue \/ t \in Range(visited)

(* LabelsClosed, while the labels of a check are being set.                *)
LabelsClosing ==
  \A s \in solved : \A t \in PolicySuccessors(s) :
    IsSolved(t) \/ (pc = "label" /\ rv /\ t \in Range(visited))

IInv ==
  /\ TypeOK
  /\ PolicyApplicable
  /\ InfoOK
  /\ ListShape
  /\ ListedKnown
  /\ TrialMarks
  /\ VisitedOnce
  /\ CheckClosed
  /\ LabelsClosing
  /\ NoStaleMarks

-----------------------------------------------------------------------------
(* Lists.                                                                  *)

(* visited_ grows and shrinks at its front ...                             *)
LEMMA PushFirst ==
  ASSUME NEW S, NEW q \in Seq(S), NEW x \in S
  PROVE  LET r == <<x>> \o q
         IN  /\ r \in Seq(S)
             /\ Range(r) = {x} \union Range(q)
             /\ IsInjective(q) /\ x \notin Range(q) => IsInjective(r)
<1> DEFINE r == <<x>> \o q
<1>1. /\ r \in Seq(S) /\ Len(r) = Len(q) + 1 /\ r[1] = x
      /\ \A i \in 1..Len(q) : r[i + 1] = q[i]
      /\ Len(q) \in Nat
  OBVIOUS
<1> HIDE DEF r
<1>2. \A i \in DOMAIN r : \/ r[i] = x /\ i = 1
                          \/ i - 1 \in DOMAIN q /\ r[i] = q[i - 1]
  BY <1>1
<1>3. Range(r) = {x} \union Range(q)
  <2>1. Range(r) \subseteq {x} \union Range(q)
    BY <1>2 DEF Range
  <2>2. x \in Range(r)
    BY <1>1 DEF Range
  <2>3. ASSUME NEW i \in DOMAIN q PROVE q[i] \in Range(r)
    <3>1. i + 1 \in DOMAIN r /\ r[i + 1] = q[i]
      BY <1>1
    <3> QED BY <3>1 DEF Range
  <2> QED BY <2>1, <2>2, <2>3 DEF Range
<1>4. ASSUME IsInjective(q), x \notin Range(q) PROVE IsInjective(r)
  <2> SUFFICES ASSUME NEW i \in DOMAIN r, NEW j \in DOMAIN r, r[i] = r[j]
               PROVE  i = j
    BY DEF IsInjective
  <2>1. i \in Int /\ j \in Int
    BY <1>1
  <2>2. CASE i = 1 \/ j = 1
    BY <1>1, <1>2, <1>4, <2>2 DEF Range
  <2>3. CASE i # 1 /\ j # 1
    BY <1>2, <1>4, <2>1, <2>3 DEF IsInjective
  <2> QED BY <2>2, <2>3
<1> QED BY <1>1, <1>3, <1>4 DEF r

LEMMA PopFirst ==
  ASSUME NEW S, NEW q \in Seq(S), q # <<>>
  PROVE  /\ Head(q) \in S
         /\ Tail(q) \in Seq(S)
         /\ Range(q) = {Head(q)} \union Range(Tail(q))
         /\ IsInjective(q) => IsInjective(Tail(q)) /\ Head(q) \notin Range(Tail(q))
<1> DEFINE r == Tail(q)
<1>1. /\ r \in Seq(S) /\ Len(r) = Len(q) - 1 /\ Head(q) = q[1] /\ Head(q) \in S
      /\ \A i \in 1..Len(r) : r[i] = q[i + 1]
      /\ Len(q) \in Nat /\ Len(q) # 0
  OBVIOUS
<1> HIDE DEF r
<1>2. \A i \in DOMAIN q : i = 1 \/ (i - 1 \in DOMAIN r /\ q[i] = r[i - 1])
  BY <1>1
<1>3. Range(q) = {Head(q)} \union Range(r)
  <2>1. Range(q) \subseteq {Head(q)} \union Range(r)
    BY <1>1, <1>2 DEF Range
  <2>2. Head(q) \in Range(q)
    BY <1>1 DEF Range
  <2>3. ASSUME NEW i \in DOMAIN r PROVE r[i] \in Range(q)
    <3>1. i + 1 \in DOMAIN q /\ r[i] = q[i + 1]
      BY <1>1
    <3> QED BY <3>1 DEF Range
  <2> QED BY <2>1, <2>2, <2>3 DEF Range
<1>4. ASSUME IsInjective(q)
      PROVE  IsInjective(r) /\ Head(q) \notin Range(r)
  <2>1. \A i \in DOMAIN r : i \in Int /\ i # 0 /\ i + 1 \in DOMAIN q /\ r[i] = q[i + 1]
    BY <1>1
  <2>2. 1 \in DOMAIN q
    BY <1>1
  <2>3. \A i, j \in DOMAIN r : r[i] = r[j] => i + 1 = j + 1
    BY <1>4, <2>1 DEF IsInjective
  <2>4. \A i \in DOMAIN r : r[i] = q[1] => i + 1 = 1
    BY <1>4, <2>1, <2>2 DEF IsInjective
  <2>5. IsInjective(r)
    BY <2>1, <2>3 DEF IsInjective
  <2>6. Head(q) \notin Range(r)
    BY <1>1, <2>1, <2>4 DEF Range
  <2> QED BY <2>5, <2>6
<1> QED BY <1>1, <1>3, <1>4 DEF r

(* A prefix has the entries of the list.                                   *)
LEMMA Prefix ==
  ASSUME NEW S, NEW q \in Seq(S), NEW n \in 0..Len(q)
  PROVE  /\ SubSeq(q, 1, n) \in Seq(S)
         /\ Len(SubSeq(q, 1, n)) = n
         /\ DOMAIN SubSeq(q, 1, n) = 1..n
         /\ \A i \in 1..n : SubSeq(q, 1, n)[i] = q[i]
OBVIOUS

(* ... and current_trial_ at its end.                                      *)
LEMMA PushLast ==
  ASSUME NEW S, NEW q \in Seq(S), NEW x \in S
  PROVE  /\ Append(q, x) \in Seq(S)
         /\ Append(q, x) # <<>>
         /\ Range(Append(q, x)) = Range(q) \union {x}
<1> DEFINE r == Append(q, x)
<1>1. /\ r \in Seq(S) /\ Len(r) = Len(q) + 1 /\ r[Len(q) + 1] = x
      /\ \A i \in 1..Len(q) : r[i] = q[i]
      /\ Len(q) \in Nat
  OBVIOUS
<1> HIDE DEF r
<1>2. \A i \in DOMAIN r : r[i] = x \/ (i \in DOMAIN q /\ r[i] = q[i])
  BY <1>1
<1>3. Range(r) \subseteq Range(q) \union {x}
  BY <1>2 DEF Range
<1>4. x \in Range(r)
  <2>1. Len(q) + 1 \in DOMAIN r
    BY <1>1
  <2> QED BY <1>1, <2>1 DEF Range
<1>5. \A i \in DOMAIN q : i \in DOMAIN r /\ q[i] = r[i]
  BY <1>1
<1>6. Range(q) \subseteq Range(r)
  BY <1>5 DEF Range
<1>7. r # <<>>
  BY <1>1
<1> QED BY <1>1, <1>3, <1>4, <1>6, <1>7 DEF r

LEMMA PopLast ==
  ASSUME NEW S, NEW q \in Seq(S), q # <<>>
  PROVE  /\ Last(q) \in S
         /\ Front(q) \in Seq(S)
         /\ Range(q) = Range(Front(q)) \union {Last(q)}
<1> DEFINE r == Front(q)
           n == Len(q) - 1
<1>1. /\ Len(q) \in Nat /\ Len(q) # 0 /\ Last(q) = q[Len(q)] /\ Last(q) \in S
      /\ DOMAIN q = 1..Len(q)
  BY DEF Last
<1>2. n \in 0..Len(q) /\ Len(q) = n + 1
  BY <1>1
<1>3. r = SubSeq(q, 1, n)
  BY DEF Front
<1> HIDE DEF n, r
<1>4. /\ r \in Seq(S) /\ Len(r) = n /\ DOMAIN r = 1..n
      /\ \A i \in 1..n : r[i] = q[i]
  BY <1>2, <1>3, Prefix
<1>5. \A i \in DOMAIN q : i = Len(q) \/ (i \in DOMAIN r /\ q[i] = r[i])
  BY <1>1, <1>2, <1>4
<1>6. Range(q) \subseteq Range(r) \union {Last(q)}
  BY <1>1, <1>5 DEF Range
<1>7. Last(q) \in Range(q)
  <2>1. Len(q) \in DOMAIN q
    BY <1>1
  <2> QED BY <1>1, <2>1 DEF Range
<1>8. \A i \in DOMAIN r : i \in DOMAIN q /\ q[i] = r[i]
  BY <1>1, <1>2, <1>4
<1>9. Range(r) \subseteq Range(q)
  BY <1>8 DEF Range
<1> QED BY <1>1, <1>4, <1>6, <1>7, <1>9 DEF r

(* A list has the states it is made of; an empty one has none.             *)
LEMMA ListRange ==
  ASSUME NEW S
  PROVE  /\ Range(<<>>) = {}
         /\ IsInjective(<<>>)
         /\ \A x : Range(<<x>>) = {x}
         /\ \A q \in Seq(S) : Range(q) \subseteq S
BY DEF Range, IsInjective

-----------------------------------------------------------------------------
(* What a backup does to the labels.                                       *)

LEMMA BackupKeeps ==
  ASSUME BaseTypeOK, PolicyApplicable, InfoOK, UNCHANGED config,
         NEW s \in State, flag[s] # "uninitialized", ~IsSolved(s), Backup(s),
         solved \subseteq solved'
  PROVE  /\ BaseTypeOK' /\ PolicyApplicable' /\ InfoOK'
         /\ \A t \in State : flag[t] # "uninitialized" => flag'[t] # "uninitialized"
         /\ \A t \in State : IsSolved(t) => IsSolved(t)'
         /\ \A t \in State : IsSolvedAfter(t) => IsSolved(t)'
         /\ \A t \in State :
              /\ ~IsSolvedAfter(t) /\ t \notin solved' => ~IsSolved(t)'
              /\ t # s /\ flag[t] # "uninitialized" /\ ~IsSolved(t)
                   /\ t \notin solved' => ~IsSolved(t)'
         /\ \A t \in State : t # s => PolicySuccessors(t)' = PolicySuccessors(t)
         /\ PolicySuccessors(s)' =
              IF policy'[s] = NoAction THEN {} ELSE NonSource(s, policy'[s])
         /\ \A t \in PolicySuccessors(s)' :
              t \in State /\ t # s /\ flag'[t] # "uninitialized"
<1>1. flag[s] \in {"fringe", "initialized"}
  BY DEF IsSolved, IsGoalOrTerminal, BaseTypeOK, Flags
<1>2. /\ BaseTypeOK' /\ PolicyApplicable'
      /\ \A t \in State \ {s} : policy'[t] = policy[t]
  BY BackupType
<1>3. /\ InfoOK'
      /\ \A t \in State : t # s /\ flag[t] # "uninitialized" =>
           flag'[t] = flag[t]
      /\ flag'[s] \in {"initialized", "terminal"}
      /\ policy'[s] # NoAction => flag'[s] = "initialized"
  BY <1>1, BackupInfo
<1>4. \A t \in State : IsSolved(t) => IsSolved(t)'
  BY <1>1, <1>3 DEF IsSolved, IsGoalOrTerminal
<1>5. \A t \in State :
        /\ IsSolvedAfter(t) => IsSolved(t)'
        /\ ~IsSolvedAfter(t) /\ t \notin solved' => ~IsSolved(t)'
        /\ t # s /\ flag[t] # "uninitialized" /\ ~IsSolved(t)
             /\ t \notin solved' => ~IsSolved(t)'
  BY <1>3 DEF IsSolved, IsSolvedAfter, IsGoalOrTerminal
<1>6. \A t \in State : t # s => PolicySuccessors(t)' = PolicySuccessors(t)
  BY <1>2 DEF PolicySuccessors
<1>7. ASSUME NEW t \in PolicySuccessors(s)'
      PROVE  t \in State /\ t # s /\ flag'[t] # "uninitialized"
  <2>1. policy'[s] \in TransitionTails(s) /\ t \in NonSource(s, policy'[s])
    BY <1>2, <1>7 DEF PolicySuccessors, PolicyApplicable
  <2>2. t \in State /\ t \in Neighbours(s)
    BY <2>1, TailsType DEF Neighbours
  <2>3. flag'[s] = "initialized"
    BY <1>3, <1>7 DEF PolicySuccessors
  <2>4. t # s
    BY <2>1 DEF NonSource
  <2> QED BY <1>3, <2>2, <2>3, <2>4 DEF InfoOK
<1>8. PolicySuccessors(s)' =
        IF policy'[s] = NoAction THEN {} ELSE NonSource(s, policy'[s])
  BY DEF PolicySuccessors
<1>9. \A t \in State : flag[t] # "uninitialized" => flag'[t] # "uninitialized"
  BY <1>3
<1> QED BY <1>2, <1>3, <1>4, <1>5, <1>6, <1>7, <1>8, <1>9

(* The frame conditions of the actions that leave the base variables alone.*)
LEMMA BaseSame ==
  ASSUME UNCHANGED base_vars, solved \subseteq solved'
  PROVE  /\ BaseTypeOK => BaseTypeOK'
         /\ PolicyApplicable => PolicyApplicable'
         /\ InfoOK => InfoOK'
         /\ config' = config /\ flag' = flag
         /\ \A s : PolicySuccessors(s)' = PolicySuccessors(s)
         /\ \A s : IsSolved(s) => IsSolved(s)'
         /\ \A s : s \notin solved' /\ ~IsSolved(s) => ~IsSolved(s)'
BY DEF base_vars, BaseTypeOK, PolicyApplicable, InfoOK, PolicySuccessors,
       IsSolved, IsGoalOrTerminal

(* The invariant holds before the first trial.                             *)
THEOREM InitIInv == Init => IInv
<1> SUFFICES ASSUME Init PROVE IInv
  OBVIOUS
<1> USE DEF Init, BaseInit
<1>1. TypeOK
  <2>1. BaseTypeOK
    BY DEF BaseTypeOK, Flags, Bounds, Point
  <2> QED BY <2>1 DEF TypeOK, PCs
<1>2. PolicyApplicable /\ InfoOK
  BY DEF PolicyApplicable, InfoOK
<1>3. ListShape /\ ListedKnown /\ VisitedOnce
  BY ListRange DEF ListShape, ListedKnown, VisitedOnce
<1>4. TrialMarks /\ CheckClosed /\ LabelsClosing /\ NoStaleMarks
  BY DEF TrialMarks, CheckClosed, LabelsClosing, NoStaleMarks
<1> QED BY <1>1, <1>2, <1>3, <1>4 DEF IInv

-----------------------------------------------------------------------------
(* The steps.                                                              *)

(* The types of the lists.                                                 *)
LEMMA ListTypes ==
  ASSUME TypeOK
  PROVE  /\ initial_state \in State
         /\ Range(current_trial) \subseteq State
         /\ Range(visited) \subseteq State
         /\ policy_queue \subseteq State
         /\ solved \subseteq State /\ on_trial \subseteq State
         /\ flag \in [State -> Flags]
BY ListRange, LRTDPAssumption DEF TypeOK, BaseTypeOK

(* Evaluating the initial state preserves the invariant.                   *)
LEMMA SolveStep ==
  ASSUME IInv, Solve
  PROVE  IInv'
<1> USE DEF Solve
<1>1. initial_state \in State /\ BaseTypeOK
  BY ListTypes DEF IInv, TypeOK
<1>2. /\ config' = config /\ policy' = policy
      /\ flag' \in [State -> Flags] /\ value' \in [State -> Bounds]
      /\ \A s \in State : s # initial_state => flag'[s] = flag[s]
      /\ flag'[initial_state] # "uninitialized"
      /\ flag[initial_state] # "uninitialized" =>
           flag'[initial_state] = flag[initial_state]
      /\ flag[initial_state] = "uninitialized" =>
           flag'[initial_state] # "initialized"
  <2>1. CASE flag[initial_state] = "uninitialized"
    <3>1. /\ InitialValue(initial_state) \in Bounds
          /\ InitialFlag(initial_state) \in {"goal", "terminal", "fringe"}
          /\ InitialFlag(initial_state) \in Flags
      BY <1>1, InitialType DEF InitialFlag
    <3>2. /\ flag' = [flag EXCEPT ![initial_state] = InitialFlag(initial_state)]
          /\ value' = [value EXCEPT ![initial_state] = InitialValue(initial_state)]
          /\ config' = config /\ policy' = policy
      BY <2>1 DEF InitializeInitialState
    <3> QED BY <1>1, <2>1, <3>1, <3>2 DEF BaseTypeOK
  <2>2. CASE flag[initial_state] # "uninitialized"
    BY <1>1, <2>2 DEF InitializeInitialState, base_vars, BaseTypeOK
  <2> QED BY <2>1, <2>2
<1>3. TypeOK'
  BY <1>2 DEF IInv, TypeOK, BaseTypeOK, search_vars, PCs
<1>4. PolicyApplicable'
  BY <1>2 DEF IInv, PolicyApplicable
<1>5. InfoOK'
  <2>1. \A s \in State : Neighbours(s) \subseteq State
    BY TailsType DEF Neighbours
  <2> QED BY <1>1, <1>2, <2>1 DEF IInv, InfoOK
<1>6. /\ solved' = {} /\ on_trial' = {} /\ policy_queue' = {}
      /\ visited' = <<>> /\ current_trial' = current_trial
      /\ pc' = "do_solve" /\ initial_state' = initial_state
  BY DEF IInv, ListShape, search_vars
<1>7. ListShape'
  BY <1>6 DEF ListShape
<1>8. ListedKnown'
  <2>1. \A s \in Range(current_trial) : flag'[s] # "uninitialized"
    BY <1>1, <1>2, ListTypes DEF IInv, ListedKnown
  <2> QED BY <1>2, <1>6, <2>1, ListRange DEF ListedKnown
<1>9. TrialMarks' /\ CheckClosed' /\ LabelsClosing' /\ NoStaleMarks'
  BY <1>6 DEF TrialMarks, CheckClosed, LabelsClosing, NoStaleMarks
<1>10. VisitedOnce'
  BY <1>6, ListRange DEF VisitedOnce
<1> QED BY <1>3, <1>4, <1>5, <1>7, <1>8, <1>9, <1>10 DEF IInv

(* What the steps that neither change a value nor set a label keep.        *)
LEMMA QuietStep ==
  ASSUME IInv, UNCHANGED <<base_vars, initial_state, solved>>,
         pc = "label" => visited = <<>>
  PROVE  /\ BaseTypeOK' /\ PolicyApplicable' /\ InfoOK' /\ LabelsClosing'
         /\ initial_state' \in InitialStates /\ solved' \subseteq State
         /\ config' = config /\ flag' = flag
         /\ \A s : IsSolved(s)' <=> IsSolved(s)
         /\ \A s : PolicySuccessors(s)' = PolicySuccessors(s)
<1>1. /\ BaseTypeOK' /\ PolicyApplicable' /\ InfoOK'
      /\ config' = config /\ flag' = flag
      /\ \A s : PolicySuccessors(s)' = PolicySuccessors(s)
  BY BaseSame DEF IInv, TypeOK
<1>2. \A s : IsSolved(s)' <=> IsSolved(s)
  BY <1>1 DEF IsSolved, IsGoalOrTerminal
<1>3. LabelsClosing'
  BY <1>1, <1>2, ListRange DEF IInv, LabelsClosing
<1> QED BY <1>1, <1>2, <1>3 DEF IInv, TypeOK

LEMMA DoSolveStep ==
  ASSUME IInv, DoSolve
  PROVE  IInv'
<1>1. /\ UNCHANGED <<base_vars, initial_state, search_vars>>
      /\ pc = "do_solve" /\ pc' \in {"done", "start_trial"}
  BY DEF DoSolve
<1>2. /\ visited = <<>> /\ solved = {} /\ on_trial = {} /\ policy_queue = {}
      /\ UNCHANGED <<solved, on_trial, current_trial, policy_queue, visited, rv,
                     initial_state>>
  BY <1>1 DEF IInv, ListShape, search_vars
<1>3. /\ BaseTypeOK' /\ PolicyApplicable' /\ InfoOK' /\ LabelsClosing'
      /\ config' = config /\ flag' = flag
  BY <1>1, <1>2, QuietStep
<1>4. TypeOK'
  BY <1>1, <1>2, <1>3 DEF IInv, TypeOK, PCs
<1>5. ListShape' /\ VisitedOnce' /\ TrialMarks' /\ CheckClosed' /\ NoStaleMarks'
  BY <1>1, <1>2, ListRange
     DEF IInv, ListShape, VisitedOnce, TrialMarks, CheckClosed, NoStaleMarks
<1>6. ListedKnown'
  BY <1>1, <1>2, <1>3 DEF IInv, ListedKnown
<1> QED BY <1>3, <1>4, <1>5, <1>6 DEF IInv

LEMMA StartTrialStep ==
  ASSUME IInv, StartTrial
  PROVE  IInv'
<1>1. /\ UNCHANGED <<base_vars, initial_state, solved, on_trial, policy_queue,
                     visited, rv>>
      /\ pc = "start_trial" /\ pc' = "trial"
      /\ current_trial' = <<initial_state>>
      /\ visited = <<>>
  BY DEF StartTrial, IInv, ListShape
<1>2. /\ BaseTypeOK' /\ PolicyApplicable' /\ InfoOK' /\ LabelsClosing'
      /\ config' = config /\ flag' = flag
      /\ \A s : IsSolved(s)' <=> IsSolved(s)
  BY <1>1, QuietStep
<1>3. initial_state \in State
  BY ListTypes DEF IInv
<1>4. current_trial' \in Seq(State) /\ current_trial' # <<>>
  BY <1>1, <1>3
<1>5. TypeOK'
  BY <1>1, <1>2, <1>4 DEF IInv, TypeOK, PCs
<1>6. ListShape' /\ VisitedOnce' /\ CheckClosed' /\ NoStaleMarks'
  BY <1>1, <1>4, ListRange
     DEF IInv, ListShape, VisitedOnce, CheckClosed, NoStaleMarks
<1>7. ListedKnown'
  BY <1>1, <1>2, ListRange DEF IInv, ListedKnown
<1>8. TrialMarks'
  BY <1>1, <1>2 DEF IInv, TrialMarks, NoStaleMarks
<1> QED BY <1>2, <1>5, <1>6, <1>7, <1>8 DEF IInv

LEMMA TrialSolvedStep ==
  ASSUME IInv, TrialSolved
  PROVE  IInv'
<1>1. /\ UNCHANGED <<base_vars, initial_state, solved, on_trial, policy_queue,
                     visited, rv>>
      /\ pc = "trial" /\ pc' = "end_trial"
      /\ IsSolved(Last(current_trial))
      /\ current_trial' = Front(current_trial)
      /\ current_trial \in Seq(State) /\ current_trial # <<>> /\ visited = <<>>
  BY DEF TrialSolved, IInv, TypeOK, ListShape
<1>2. /\ BaseTypeOK' /\ PolicyApplicable' /\ InfoOK' /\ LabelsClosing'
      /\ config' = config /\ flag' = flag
      /\ \A s : IsSolved(s)' <=> IsSolved(s)
  BY <1>1, QuietStep
<1>3. /\ current_trial' \in Seq(State)
      /\ Range(current_trial) = Range(current_trial') \union {Last(current_trial)}
  BY <1>1, PopLast
<1>4. TypeOK'
  BY <1>1, <1>2, <1>3 DEF IInv, TypeOK, PCs
<1>5. ListShape' /\ VisitedOnce' /\ CheckClosed' /\ NoStaleMarks'
  BY <1>1, ListRange DEF IInv, ListShape, VisitedOnce, CheckClosed, NoStaleMarks
<1>6. ListedKnown'
  BY <1>1, <1>2, <1>3 DEF IInv, ListedKnown
<1>7. TrialMarks'
  BY <1>1, <1>2, <1>3 DEF IInv, TrialMarks
<1> QED BY <1>2, <1>4, <1>5, <1>6, <1>7 DEF IInv

(* A backup of an unsolved state, which is labelled at most if it has no   *)
(* action, leaves the labels closed.                                       *)
LEMMA BackupLabels ==
  ASSUME IInv, UNCHANGED config, pc # "label",
         NEW s \in State, flag[s] # "uninitialized", ~IsSolved(s), Backup(s),
         \/ solved' = solved
         \/ solved' = solved \union {s} /\ policy'[s] = NoAction
  PROVE  LabelsClosing' /\ solved' \subseteq State /\ solved \subseteq solved'
<1>1. solved' \subseteq State /\ solved \subseteq solved'
  BY DEF IInv, TypeOK
<1>2. /\ \A t \in State : IsSolved(t) => IsSolved(t)'
      /\ \A t \in State : t # s => PolicySuccessors(t)' = PolicySuccessors(t)
      /\ PolicySuccessors(s)' =
           IF policy'[s] = NoAction THEN {} ELSE NonSource(s, policy'[s])
  BY <1>1, BackupKeeps DEF IInv, TypeOK
<1>3. ASSUME NEW u \in solved', NEW t \in PolicySuccessors(u)'
      PROVE  IsSolved(t)'
  <2>1. s \notin solved
    BY DEF IsSolved
  <2>2. u # s /\ u \in solved /\ u \in State
    BY <1>1, <1>2, <1>3, <2>1
  <2>3. t \in PolicySuccessors(u) /\ t \in State
    BY <1>2, <1>3, <2>2, PolicySuccessorsType DEF IInv
  <2>4. IsSolved(t)
    BY <2>2, <2>3 DEF IInv, LabelsClosing
  <2> QED BY <1>2, <2>3, <2>4
<1> QED BY <1>1, <1>3 DEF LabelsClosing

LEMMA TrialStepStep ==
  ASSUME IInv, TrialStep
  PROVE  IInv'
<1>0. PICK s \in State : s = Last(current_trial)
  BY PopLast DEF TrialStep, IInv, TypeOK, ListShape
<1>1. /\ pc = "trial" /\ ~IsSolved(s) /\ Backup(s)
      /\ UNCHANGED <<config, initial_state, policy_queue, visited, rv>>
      /\ current_trial \in Seq(State) /\ current_trial # <<>> /\ visited = <<>>
  BY <1>0 DEF TrialStep, IInv, TypeOK, ListShape
<1>2. /\ s \in State /\ Range(current_trial) \subseteq State
      /\ Range(current_trial) = Range(Front(current_trial)) \union {s}
      /\ Front(current_trial) \in Seq(State)
      /\ flag[s] # "uninitialized"
  BY <1>0, <1>1, PopLast, ListTypes DEF IInv, ListedKnown
<1>3. \/ /\ policy'[s] = NoAction
         /\ solved' = solved \union {s}
         /\ current_trial' = Front(current_trial)
         /\ pc' = "end_trial"
         /\ on_trial' = on_trial
      \/ /\ pc' = "end_trial"
         /\ UNCHANGED <<solved, on_trial, current_trial>>
      \/ /\ policy'[s] # NoAction
         /\ on_trial' = IF config.stop_consistent = "REVISITED"
                        THEN on_trial \union {s} ELSE on_trial
         /\ \E t \in NonSource(s, policy'[s]) :
              current_trial' = Append(current_trial, t)
         /\ pc' = pc /\ solved' = solved
  BY <1>0 DEF TrialStep
<1>4. LabelsClosing' /\ solved' \subseteq State /\ solved \subseteq solved'
  BY <1>1, <1>2, <1>3, BackupLabels
<1>5. /\ BaseTypeOK' /\ PolicyApplicable' /\ InfoOK'
      /\ \A t \in State : flag[t] # "uninitialized" => flag'[t] # "uninitialized"
      /\ \A t \in State : IsSolved(t) => IsSolved(t)'
      /\ PolicySuccessors(s)' =
           IF policy'[s] = NoAction THEN {} ELSE NonSource(s, policy'[s])
      /\ \A t \in PolicySuccessors(s)' : t \in State /\ flag'[t] # "uninitialized"
  BY <1>1, <1>2, <1>4, BackupKeeps DEF IInv, TypeOK
<1>6. /\ current_trial' \in Seq(State)
      /\ \A t \in Range(current_trial') : t \in State /\ flag'[t] # "uninitialized"
      /\ pc' = "trial" => current_trial' # <<>>
      /\ on_trial' \subseteq State
      /\ pc' \in {"trial", "end_trial"}
      /\ \A u \in on_trial' :
           \/ IsSolved(u)'
           \/ config.stop_consistent = "REVISITED" /\ u \in Range(current_trial')
  <2>1. /\ \A t \in Range(current_trial) : flag[t] # "uninitialized"
        /\ \A u \in on_trial :
             \/ IsSolved(u)
             \/ config.stop_consistent = "REVISITED" /\ u \in Range(current_trial)
        /\ on_trial \subseteq State
    BY <1>1 DEF IInv, ListedKnown, TrialMarks, TypeOK
  <2>2. CASE /\ solved' = solved \union {s}
             /\ current_trial' = Front(current_trial)
             /\ pc' = "end_trial"
             /\ on_trial' = on_trial
    <3>1. IsSolved(s)'
      BY <2>2 DEF IsSolved
    <3> QED BY <1>2, <1>5, <2>1, <2>2, <3>1
  <2>3. CASE /\ pc' = "end_trial"
             /\ UNCHANGED <<solved, on_trial, current_trial>>
    BY <1>1, <1>2, <1>5, <2>1, <2>3
  <2>4. CASE /\ policy'[s] # NoAction
             /\ on_trial' = IF config.stop_consistent = "REVISITED"
                            THEN on_trial \union {s} ELSE on_trial
             /\ \E t \in NonSource(s, policy'[s]) :
                  current_trial' = Append(current_trial, t)
             /\ pc' = pc /\ solved' = solved
    <3>1. PICK t \in NonSource(s, policy'[s]) :
             current_trial' = Append(current_trial, t)
      BY <2>4
    <3>2. t \in State /\ flag'[t] # "uninitialized"
      BY <1>5, <2>4
    <3>3. /\ current_trial' \in Seq(State) /\ current_trial' # <<>>
          /\ Range(current_trial') = Range(current_trial) \union {t}
      BY <1>1, <3>1, <3>2, PushLast
    <3>4. \A u \in on_trial' :
            \/ IsSolved(u)'
            \/ config.stop_consistent = "REVISITED" /\ u \in Range(current_trial')
      BY <1>2, <1>5, <2>1, <2>4, <3>3
    <3> QED BY <1>1, <1>2, <1>5, <2>1, <2>4, <3>2, <3>3, <3>4
  <2> QED BY <1>3, <2>2, <2>3, <2>4
<1>7. TypeOK'
  BY <1>1, <1>4, <1>5, <1>6 DEF IInv, TypeOK, PCs
<1>8. ListShape' /\ VisitedOnce' /\ CheckClosed' /\ NoStaleMarks'
  BY <1>1, <1>6, ListRange
     DEF IInv, ListShape, VisitedOnce, CheckClosed, NoStaleMarks
<1>9. ListedKnown'
  <2>1. initial_state \in State /\ policy_queue \subseteq State
    BY ListTypes DEF IInv
  <2> QED BY <1>1, <1>5, <1>6, <2>1, ListRange DEF IInv, ListedKnown
<1>10. TrialMarks'
  BY <1>1, <1>6 DEF TrialMarks
<1> QED BY <1>4, <1>5, <1>7, <1>8, <1>9, <1>10 DEF IInv

LEMMA EndTrialStep ==
  ASSUME IInv, EndTrial
  PROVE  IInv'
<1>1. /\ UNCHANGED <<base_vars, initial_state, solved, current_trial,
                     policy_queue, visited, rv>>
      /\ pc = "end_trial" /\ pc' = "begin_check"
      /\ on_trial' = IF config.stop_consistent = "REVISITED"
                        /\ current_trial # <<>>
                     THEN on_trial \ Range(Front(current_trial))
                     ELSE on_trial
      /\ current_trial \in Seq(State) /\ visited = <<>>
  BY DEF EndTrial, IInv, TypeOK, ListShape
<1>2. /\ BaseTypeOK' /\ PolicyApplicable' /\ InfoOK' /\ LabelsClosing'
      /\ config' = config /\ flag' = flag
      /\ \A s : IsSolved(s)' <=> IsSolved(s)
  BY <1>1, QuietStep
<1>3. \A s \in on_trial' :
        IsSolved(s) \/ (current_trial # <<>> /\ s = Last(current_trial))
  <2>1. \A s \in on_trial :
          \/ IsSolved(s)
          \/ config.stop_consistent = "REVISITED" /\ s \in Range(current_trial)
    BY <1>1 DEF IInv, TrialMarks
  <2>2. CASE current_trial = <<>>
    BY <1>1, <2>1, <2>2, ListRange
  <2>3. CASE current_trial # <<>>
    <3>1. Range(current_trial) =
            Range(Front(current_trial)) \union {Last(current_trial)}
      BY <1>1, <2>3, PopLast
    <3> QED BY <1>1, <2>1, <2>3, <3>1
  <2> QED BY <2>2, <2>3
<1>4. TypeOK'
  BY <1>1, <1>2 DEF IInv, TypeOK, PCs
<1>5. ListShape' /\ VisitedOnce' /\ CheckClosed'
  BY <1>1, ListRange DEF IInv, ListShape, VisitedOnce, CheckClosed
<1>6. ListedKnown'
  BY <1>1, <1>2 DEF IInv, ListedKnown
<1>7. TrialMarks' /\ NoStaleMarks'
  BY <1>1, <1>2, <1>3 DEF TrialMarks, NoStaleMarks
<1> QED BY <1>2, <1>4, <1>5, <1>6, <1>7 DEF IInv

(* What is left when a check succeeds for a solved state.                  *)
LEMMA CheckSucceedsStep ==
  ASSUME IInv, UNCHANGED <<base_vars, initial_state, solved, on_trial,
                           policy_queue, visited, rv>>,
         pc \in {"begin_check", "label"}, visited = <<>>, current_trial # <<>>,
         \A s \in on_trial : IsSolved(s), CheckSucceeds
  PROVE  IInv'
<1>1. /\ pc' = IF current_trial' = <<>> THEN "done" ELSE "begin_check"
      /\ current_trial' = Front(current_trial)
      /\ current_trial \in Seq(State)
  BY DEF CheckSucceeds, IInv, TypeOK
<1>2. /\ BaseTypeOK' /\ PolicyApplicable' /\ InfoOK' /\ LabelsClosing'
      /\ config' = config /\ flag' = flag
      /\ \A s : IsSolved(s)' <=> IsSolved(s)
  BY QuietStep
<1>3. /\ current_trial' \in Seq(State)
      /\ Range(current_trial') \subseteq Range(current_trial)
  BY <1>1, PopLast
<1>4. TypeOK'
  BY <1>1, <1>2, <1>3 DEF IInv, TypeOK, PCs
<1>5. ListShape' /\ VisitedOnce' /\ CheckClosed'
  BY <1>1, ListRange DEF IInv, ListShape, VisitedOnce, CheckClosed
<1>6. ListedKnown'
  BY <1>1, <1>2, <1>3 DEF IInv, ListedKnown
<1>7. TrialMarks' /\ NoStaleMarks'
  BY <1>1, <1>2 DEF TrialMarks, NoStaleMarks
<1> QED BY <1>2, <1>4, <1>5, <1>6, <1>7 DEF IInv

(* The search stops because of an empty trial, a time limit, or does       *)
(* nothing more.                                                           *)
LEMMA CheckNothingStep ==
  ASSUME IInv, CheckNothing
  PROVE  IInv'
<1>1. /\ UNCHANGED <<base_vars, initial_state, solved, on_trial, current_trial,
                     policy_queue, visited, rv>>
      /\ pc = "begin_check" /\ pc' = "undefined" /\ visited = <<>>
  BY DEF CheckNothing, search_vars, IInv, ListShape
<1>2. /\ BaseTypeOK' /\ PolicyApplicable' /\ InfoOK' /\ LabelsClosing'
      /\ config' = config /\ flag' = flag
  BY <1>1, QuietStep
<1>3. TypeOK'
  BY <1>1, <1>2 DEF IInv, TypeOK, PCs
<1>4. ListShape' /\ VisitedOnce' /\ CheckClosed' /\ TrialMarks' /\ NoStaleMarks'
  BY <1>1, ListRange
     DEF IInv, ListShape, VisitedOnce, CheckClosed, TrialMarks, NoStaleMarks
<1>5. ListedKnown'
  BY <1>1, <1>2 DEF IInv, ListedKnown
<1> QED BY <1>2, <1>3, <1>4, <1>5 DEF IInv

LEMMA TimeoutStep ==
  ASSUME IInv, Timeout
  PROVE  IInv'
<1>1. /\ UNCHANGED <<base_vars, initial_state, solved, on_trial, policy_queue, rv>>
      /\ pc \in {"trial", "begin_check", "check"} /\ pc' = "timeout"
      /\ current_trial' = <<>> /\ visited' = <<>>
  BY DEF Timeout
<1>2. /\ BaseTypeOK' /\ PolicyApplicable' /\ InfoOK' /\ LabelsClosing'
      /\ config' = config /\ flag' = flag
  BY <1>1, QuietStep
<1>3. TypeOK'
  BY <1>1, <1>2 DEF IInv, TypeOK, PCs
<1>4. ListShape' /\ VisitedOnce' /\ CheckClosed' /\ TrialMarks' /\ NoStaleMarks'
  BY <1>1, ListRange
     DEF IInv, ListShape, VisitedOnce, CheckClosed, TrialMarks, NoStaleMarks
<1>5. ListedKnown'
  BY <1>1, <1>2, ListRange DEF IInv, ListedKnown
<1> QED BY <1>2, <1>3, <1>4, <1>5 DEF IInv

LEMMA StutterStep ==
  ASSUME IInv, UNCHANGED vars
  PROVE  IInv'
<1>1. /\ UNCHANGED <<base_vars, initial_state, solved, on_trial, current_trial,
                     policy_queue, visited, rv, pc>>
  BY DEF vars, search_vars
<1>2. /\ BaseTypeOK' /\ PolicyApplicable' /\ InfoOK'
      /\ config' = config /\ flag' = flag
      /\ \A s : PolicySuccessors(s)' = PolicySuccessors(s)
  BY <1>1, BaseSame DEF IInv, TypeOK
<1>3. \A s : IsSolved(s)' <=> IsSolved(s)
  BY <1>1, <1>2 DEF IsSolved, IsGoalOrTerminal
<1>4. TypeOK'
  BY <1>1, <1>2 DEF IInv, TypeOK
<1>5. ListShape' /\ VisitedOnce' /\ ListedKnown'
  BY <1>1, <1>2 DEF IInv, ListShape, VisitedOnce, ListedKnown
<1>6. CheckClosed' /\ LabelsClosing'
  BY <1>1, <1>2, <1>3 DEF IInv, CheckClosed, LabelsClosing
<1>7. TrialMarks' /\ NoStaleMarks'
  BY <1>1, <1>2, <1>3 DEF IInv, TrialMarks, NoStaleMarks
<1> QED BY <1>2, <1>4, <1>5, <1>6, <1>7 DEF IInv

LEMMA BeginCheckStep ==
  ASSUME IInv, BeginCheck
  PROVE  IInv'
<1>0. PICK s \in State : s = Last(current_trial)
  BY PopLast DEF BeginCheck, IInv, TypeOK
<1>1. /\ UNCHANGED <<base_vars, initial_state, solved, visited>>
      /\ pc = "begin_check" /\ visited = <<>>
      /\ current_trial \in Seq(State) /\ current_trial # <<>>
  BY DEF BeginCheck, IInv, ListShape, TypeOK
<1>2. \A u \in on_trial : IsSolved(u) \/ u = s
  BY <1>0, <1>1 DEF IInv, NoStaleMarks
<1>3. CASE IsSolved(s)
  <2>1. CheckSucceeds /\ UNCHANGED <<on_trial, policy_queue, rv>>
    BY <1>0, <1>3 DEF BeginCheck
  <2>2. \A u \in on_trial : IsSolved(u)
    BY <1>2, <1>3
  <2> QED BY <1>1, <2>1, <2>2, CheckSucceedsStep
<1>4. CASE ~IsSolved(s)
  <2>1. /\ policy_queue' = {s} /\ on_trial' = on_trial \union {s}
        /\ rv' = TRUE /\ pc' = "check" /\ current_trial' = current_trial
    BY <1>0, <1>4 DEF BeginCheck
  <2>2. /\ BaseTypeOK' /\ PolicyApplicable' /\ InfoOK' /\ LabelsClosing'
        /\ config' = config /\ flag' = flag
        /\ \A u : IsSolved(u)' <=> IsSolved(u)
    BY <1>1, QuietStep
  <2>3. TypeOK'
    BY <1>0, <1>1, <2>1, <2>2 DEF IInv, TypeOK, PCs
  <2>4. ListShape' /\ VisitedOnce' /\ CheckClosed' /\ TrialMarks'
    BY <1>1, <2>1, ListRange
       DEF IInv, ListShape, VisitedOnce, CheckClosed, TrialMarks
  <2>5. ListedKnown'
    <3>1. s \in Range(current_trial)
      BY <1>0, <1>1, PopLast
    <3> QED BY <1>1, <2>1, <2>2, <3>1 DEF IInv, ListedKnown
  <2>6. NoStaleMarks'
    BY <1>1, <1>2, <1>4, <2>1, <2>2, ListRange DEF NoStaleMarks
  <2> QED BY <2>2, <2>3, <2>4, <2>5, <2>6 DEF IInv
<1> QED BY <1>3, <1>4

LEMMA EndCheckStep ==
  ASSUME IInv, EndCheck
  PROVE  IInv'
<1>1. /\ UNCHANGED <<base_vars, initial_state, solved, on_trial, policy_queue,
                     visited, rv>>
      /\ pc = "label" /\ visited = <<>>
      /\ policy_queue = {} /\ current_trial # <<>>
  BY DEF EndCheck, IInv, ListShape
<1>2. \A u \in on_trial : IsSolved(u)
  BY <1>1, ListRange DEF IInv, NoStaleMarks
<1>3. CASE CheckSucceeds
  BY <1>1, <1>2, <1>3, CheckSucceedsStep
<1>4. CASE current_trial' = <<>> /\ pc' = "start_trial"
  <2>1. /\ BaseTypeOK' /\ PolicyApplicable' /\ InfoOK' /\ LabelsClosing'
        /\ config' = config /\ flag' = flag
        /\ \A u : IsSolved(u)' <=> IsSolved(u)
    BY <1>1, QuietStep
  <2>2. TypeOK'
    BY <1>1, <1>4, <2>1 DEF IInv, TypeOK, PCs
  <2>3. ListShape' /\ VisitedOnce' /\ CheckClosed' /\ TrialMarks'
    BY <1>1, <1>4, ListRange
       DEF IInv, ListShape, VisitedOnce, CheckClosed, TrialMarks
  <2>4. ListedKnown'
    BY <1>1, <1>4, <2>1, ListRange DEF IInv, ListedKnown
  <2>5. NoStaleMarks'
    BY <1>1, <1>2, <1>4, <2>1 DEF NoStaleMarks
  <2> QED BY <2>1, <2>2, <2>3, <2>4, <2>5 DEF IInv
<1> QED BY <1>3, <1>4 DEF EndCheck

(* Visiting a state of the policy graph.                                   *)
LEMMA CheckStepStep ==
  ASSUME IInv, CheckStep
  PROVE  IInv'
<1>0. PICK s \in policy_queue :
        LET new     == {t \in NonSource(s, policy'[s]) :
                          t \notin on_trial /\ ~IsSolvedAfter(t)}
            rest    == policy_queue \ {s}
            changed == Changed(value[s], value'[s])
        IN  /\ Backup(s)
            /\ visited' = <<s>> \o visited
            /\ \/ /\ policy'[s] = NoAction
                  /\ solved' = solved \union {s}
                  /\ policy_queue' = rest
                  /\ UNCHANGED <<on_trial, rv>>
               \/ /\ policy'[s] # NoAction /\ ~changed
                  /\ rv' = (rv /\ ValueConverged(s))
                  /\ policy_queue' = rest \union new
                  /\ on_trial' = on_trial \union new
                  /\ UNCHANGED solved
               \/ /\ policy'[s] # NoAction /\ changed
                  /\ rv' = FALSE
                  /\ policy_queue' = rest
                  /\ UNCHANGED <<solved, on_trial>>
  BY DEF CheckStep
<1> DEFINE new == {t \in NonSource(s, policy'[s]) :
                     t \notin on_trial /\ ~IsSolvedAfter(t)}
<1>1. /\ pc = "check" /\ Backup(s) /\ visited' = <<s>> \o visited
      /\ UNCHANGED <<config, initial_state, current_trial>>
      /\ pc' = IF policy_queue' = {} THEN "label" ELSE "check"
      /\ visited \in Seq(State)
  BY <1>0 DEF CheckStep, IInv, TypeOK
<1>2. \/ /\ policy'[s] = NoAction
         /\ solved' = solved \union {s}
         /\ policy_queue' = policy_queue \ {s}
         /\ on_trial' = on_trial /\ rv' = rv
      \/ /\ policy'[s] # NoAction
         /\ rv' \in BOOLEAN /\ (rv' => rv)
         /\ policy_queue' = (policy_queue \ {s}) \union new
         /\ on_trial' = on_trial \union new
         /\ solved' = solved
      \/ /\ rv' = FALSE
         /\ policy_queue' = policy_queue \ {s}
         /\ solved' = solved /\ on_trial' = on_trial
  <2>1. rv \in BOOLEAN
    BY DEF IInv, TypeOK
  <2> QED BY <1>0, <2>1
<1>3. /\ s \in State /\ s \in on_trial /\ ~IsSolved(s)
      /\ flag[s] # "uninitialized" /\ s \notin Range(visited)
      /\ policy_queue \subseteq State /\ on_trial \subseteq State
      /\ Range(visited) \subseteq State
  BY <1>1, ListTypes DEF IInv, NoStaleMarks, ListedKnown, VisitedOnce
<1>4. LabelsClosing' /\ solved' \subseteq State /\ solved \subseteq solved'
  BY <1>1, <1>2, <1>3, BackupLabels
<1>5. /\ BaseTypeOK' /\ PolicyApplicable' /\ InfoOK'
      /\ \A t \in State : flag[t] # "uninitialized" => flag'[t] # "uninitialized"
      /\ \A t \in State : IsSolved(t) => IsSolved(t)'
      /\ \A t \in State : IsSolvedAfter(t) => IsSolved(t)'
      /\ \A t \in State :
           /\ ~IsSolvedAfter(t) /\ t \notin solved' => ~IsSolved(t)'
           /\ t # s /\ flag[t] # "uninitialized" /\ ~IsSolved(t)
                /\ t \notin solved' => ~IsSolved(t)'
      /\ \A t \in State : t # s => PolicySuccessors(t)' = PolicySuccessors(t)
      /\ PolicySuccessors(s)' =
           IF policy'[s] = NoAction THEN {} ELSE NonSource(s, policy'[s])
      /\ \A t \in PolicySuccessors(s)' :
           t \in State /\ t # s /\ flag'[t] # "uninitialized"
  BY <1>1, <1>3, <1>4, BackupKeeps DEF IInv, TypeOK
<1>6. /\ policy'[s] # NoAction =>
           /\ new = {t \in PolicySuccessors(s)' :
                       t \notin on_trial /\ ~IsSolvedAfter(t)}
           /\ \A t \in new : /\ t \in State /\ t # s /\ t \notin on_trial
                             /\ flag'[t] # "uninitialized" /\ ~IsSolvedAfter(t)
  BY <1>5
<1> HIDE DEF new
<1>7. /\ visited' \in Seq(State)
      /\ Range(visited') = {s} \union Range(visited)
      /\ IsInjective(visited')
  BY <1>1, <1>3, PushFirst DEF IInv, VisitedOnce
<1>8. /\ policy_queue' \subseteq State /\ on_trial' \subseteq State
      /\ on_trial \subseteq on_trial' /\ policy_queue \ {s} \subseteq policy_queue'
      /\ rv' \in BOOLEAN /\ (rv' => rv)
      /\ s \notin policy_queue'
      /\ \A t \in policy_queue' : t \in policy_queue \/ t \notin on_trial
  <2>1. rv \in BOOLEAN
    BY DEF IInv, TypeOK
  <2>2. rv' \in BOOLEAN /\ (rv' => rv)
    <3>1. CASE rv' = rv
      BY <2>1, <3>1
    <3>2. CASE rv' = FALSE
      BY <3>2
    <3> QED BY <1>2, <3>1, <3>2
  <2>3. CASE policy'[s] # NoAction /\ policy_queue' = (policy_queue \ {s}) \union new
             /\ on_trial' = on_trial \union new
    <3>1. new \subseteq State /\ s \notin new
          /\ \A t \in new : t \notin on_trial
      BY <1>6, <2>3
    <3>2. /\ policy_queue' \subseteq State /\ on_trial' \subseteq State
          /\ on_trial \subseteq on_trial' /\ s \notin policy_queue'
          /\ policy_queue \ {s} \subseteq policy_queue'
          /\ \A t \in policy_queue' : t \in policy_queue \/ t \notin on_trial
      BY <1>3, <2>3, <3>1
    <3> QED BY <2>2, <3>2
  <2>4. CASE policy_queue' = policy_queue \ {s} /\ on_trial' = on_trial
    BY <1>3, <2>2, <2>4
  <2> QED BY <1>2, <2>3, <2>4
<1>9. TypeOK'
  BY <1>1, <1>4, <1>5, <1>7, <1>8 DEF IInv, TypeOK, PCs
<1>10. ListShape'
  BY <1>1 DEF IInv, ListShape
<1>11. ListedKnown'
  <2>1. \A t \in policy_queue' : flag'[t] # "uninitialized"
    BY <1>2, <1>3, <1>5, <1>6 DEF IInv, ListedKnown
  <2>2. \A t \in Range(visited') : flag'[t] # "uninitialized"
    BY <1>3, <1>5, <1>7 DEF IInv, ListedKnown
  <2>3. initial_state \in State /\ Range(current_trial) \subseteq State
    BY ListTypes DEF IInv
  <2> QED BY <1>1, <1>5, <2>1, <2>2, <2>3 DEF IInv, ListedKnown
<1>12. TrialMarks'
  BY <1>1 DEF TrialMarks
<1>13. VisitedOnce'
  <2>1. \A t \in Range(visited) : t \in on_trial /\ t \notin policy_queue
    BY <1>1 DEF IInv, VisitedOnce
  <2>2. \A t \in Range(visited') : t \in on_trial' /\ t \notin policy_queue'
    BY <1>3, <1>7, <1>8, <2>1
  <2> QED BY <1>7, <2>2 DEF VisitedOnce
<1>14. CheckClosed'
  <2> SUFFICES ASSUME rv', NEW u \in Range(visited'),
                      NEW t \in PolicySuccessors(u)'
               PROVE  IsSolved(t)' \/ t \in policy_queue' \/ t \in Range(visited')
    BY DEF CheckClosed
  <2>1. CASE u # s
    <3>1. u \in Range(visited) /\ u \in State
      BY <1>3, <1>7, <2>1
    <3>2. t \in PolicySuccessors(u) /\ t \in State
      BY <1>5, <2>1, <3>1, PolicySuccessorsType DEF IInv
    <3>3. IsSolved(t) \/ t \in policy_queue \/ t \in Range(visited)
      BY <1>1, <1>8, <3>1, <3>2 DEF IInv, CheckClosed
    <3> QED BY <1>5, <1>7, <1>8, <3>2, <3>3
  <2>2. CASE u = s
    <3>1. t \in State /\ t # s /\ t \in PolicySuccessors(s)'
      BY <1>5, <2>2
    <3>2. policy'[s] # NoAction
      BY <1>5, <3>1
    <3>3. CASE IsSolvedAfter(t)
      BY <1>5, <3>1, <3>3
    <3>4. CASE t \in on_trial
      <4>1. IsSolved(t) \/ t \in policy_queue \/ t \in Range(visited)
        BY <1>1, <3>4 DEF IInv, NoStaleMarks
      <4> QED BY <1>5, <1>7, <1>8, <3>1, <4>1
    <3>5. CASE t \notin on_trial /\ ~IsSolvedAfter(t)
      <4>1. t \in new
        BY <1>6, <3>1, <3>2, <3>5
      <4>2. policy_queue' = (policy_queue \ {s}) \union new
        BY <1>2, <3>2
      <4> QED BY <4>1, <4>2
    <3> QED BY <3>3, <3>4, <3>5
  <2> QED BY <2>1, <2>2
<1>15. NoStaleMarks'
  <2>1. pc' \in {"check", "label"}
    BY <1>1
  <2>2. ASSUME NEW t \in on_trial'
        PROVE  IsSolved(t)' \/ t \in policy_queue' \/ t \in Range(visited')
    <3>1. CASE t \in on_trial
      <4>1. IsSolved(t) \/ t \in policy_queue \/ t \in Range(visited)
        BY <1>1, <3>1 DEF IInv, NoStaleMarks
      <4> QED BY <1>3, <1>5, <1>7, <1>8, <3>1, <4>1
    <3>2. CASE t \notin on_trial
      BY <1>2, <2>2, <3>2
    <3> QED BY <3>1, <3>2
  <2>3. ASSUME NEW t \in policy_queue'
        PROVE  t \in on_trial' /\ ~IsSolved(t)'
    <3>1. CASE t \in policy_queue
      <4>1. /\ t # s /\ t \in State /\ t \in on_trial /\ ~IsSolved(t)
            /\ flag[t] # "uninitialized"
        BY <1>1, <1>3, <1>8, <3>1 DEF IInv, NoStaleMarks, ListedKnown
      <4>2. t \notin solved'
        BY <1>2, <4>1 DEF IsSolved
      <4> QED BY <1>5, <1>8, <4>1, <4>2
    <3>2. CASE t \notin policy_queue
      <4>1. /\ t \in new /\ on_trial' = on_trial \union new /\ solved' = solved
            /\ policy'[s] # NoAction
        BY <1>2, <2>3, <3>2
      <4>2. t \in State /\ ~IsSolvedAfter(t) /\ t \notin solved
        BY <1>6, <4>1 DEF IsSolvedAfter
      <4> QED BY <1>5, <4>1, <4>2
    <3> QED BY <3>1, <3>2
  <2>4. ASSUME NEW t \in Range(visited')
        PROVE  t \in on_trial' \/ IsSolved(t)'
    BY <1>1, <1>3, <1>7, <1>8 DEF IInv, VisitedOnce
  <2> QED BY <2>1, <2>2, <2>3, <2>4 DEF NoStaleMarks
<1> QED BY <1>4, <1>5, <1>9, <1>10, <1>11, <1>12, <1>13, <1>14, <1>15 DEF IInv

(* Labelling a state, or backing it up once more.                          *)
LEMMA LabelStepStep ==
  ASSUME IInv, LabelStep
  PROVE  IInv'
<1>0. PICK s \in State : s = Head(visited)
  BY PopFirst DEF LabelStep, IInv, TypeOK
<1>1. /\ pc = "label" /\ pc' = "label" /\ policy_queue = {}
      /\ UNCHANGED <<initial_state, current_trial, policy_queue, rv>>
      /\ visited \in Seq(State) /\ visited' = Tail(visited)
      /\ current_trial # <<>>
  BY DEF LabelStep, IInv, TypeOK, ListShape
<1>2. /\ visited' \in Seq(State)
      /\ Range(visited) = {s} \union Range(visited')
      /\ IsInjective(visited') /\ s \notin Range(visited')
      /\ Range(visited) \subseteq State
  <2>1. visited # <<>> /\ IsInjective(visited)
    BY DEF LabelStep, IInv, VisitedOnce
  <2> QED BY <1>0, <1>1, <2>1, PopFirst, ListTypes DEF IInv
<1>3. \/ IsSolved(s) /\ UNCHANGED <<base_vars, solved, on_trial>>
      \/ /\ ~IsSolved(s) /\ rv /\ UNCHANGED base_vars
         /\ on_trial' = on_trial \ {s} /\ solved' = solved \union {s}
      \/ /\ ~IsSolved(s) /\ ~rv /\ Backup(s) /\ UNCHANGED <<config, solved>>
         /\ on_trial' = on_trial \ {s}
  BY <1>0 DEF LabelStep
<1>4. /\ solved \subseteq solved' /\ solved' \subseteq solved \union {s}
      /\ solved' \subseteq State /\ on_trial' \subseteq on_trial
      /\ on_trial \ {s} \subseteq on_trial' /\ on_trial \subseteq State
  BY <1>3 DEF IInv, TypeOK
<1>5. /\ BaseTypeOK' /\ PolicyApplicable' /\ InfoOK'
      /\ \A t \in State : flag[t] # "uninitialized" => flag'[t] # "uninitialized"
      /\ \A t \in State : IsSolved(t) => IsSolved(t)'
      /\ \A t \in State : t # s \/ rv \/ IsSolved(s) =>
           PolicySuccessors(t)' = PolicySuccessors(t)
  <2>1. CASE UNCHANGED base_vars
    BY <1>4, <2>1, BaseSame DEF IInv, TypeOK
  <2>2. CASE ~IsSolved(s) /\ ~rv /\ Backup(s) /\ UNCHANGED <<config, solved>>
    <3>1. flag[s] # "uninitialized"
      BY <1>2 DEF IInv, ListedKnown
    <3> QED BY <2>2, <3>1, BackupKeeps DEF IInv, TypeOK
  <2> QED BY <1>3, <2>1, <2>2
<1>6. s \in on_trial' \/ rv => IsSolved(s)'
  BY <1>3, <1>5 DEF IsSolved
<1>7. TypeOK'
  BY <1>1, <1>2, <1>4, <1>5 DEF IInv, TypeOK, PCs
<1>8. ListShape' /\ TrialMarks'
  BY <1>1 DEF IInv, ListShape, TrialMarks
<1>9. ListedKnown'
  <2>1. initial_state \in State /\ Range(current_trial) \subseteq State
    BY ListTypes DEF IInv
  <2> QED BY <1>1, <1>2, <1>5, <2>1 DEF IInv, ListedKnown
<1>10. VisitedOnce'
  BY <1>1, <1>2 DEF VisitedOnce
<1>11. CheckClosed'
  <2> SUFFICES ASSUME rv', NEW u \in Range(visited'),
                      NEW t \in PolicySuccessors(u)'
               PROVE  IsSolved(t)' \/ t \in Range(visited')
    BY DEF CheckClosed
  <2>1. u \in State /\ u \in Range(visited) /\ rv
    BY <1>1, <1>2
  <2>2. t \in PolicySuccessors(u) /\ t \in State
    BY <1>5, <2>1, PolicySuccessorsType DEF IInv
  <2>3. IsSolved(t) \/ t \in Range(visited)
    BY <1>1, <2>1, <2>2 DEF IInv, CheckClosed
  <2> QED BY <1>2, <1>5, <1>6, <2>1, <2>2, <2>3
<1>12. LabelsClosing'
  <2> SUFFICES ASSUME NEW u \in solved', NEW t \in PolicySuccessors(u)'
               PROVE  IsSolved(t)' \/ (rv /\ t \in Range(visited'))
    BY <1>1 DEF LabelsClosing
  <2>1. u \in State /\ (u # s \/ rv \/ IsSolved(s))
    BY <1>3, <1>4 DEF IsSolved
  <2>2. t \in PolicySuccessors(u) /\ t \in State
    BY <1>5, <2>1, PolicySuccessorsType DEF IInv
  <2>3. IsSolved(t) \/ (rv /\ t \in Range(visited))
    <3>1. CASE u \in solved
      BY <2>2, <3>1 DEF IInv, LabelsClosing
    <3>2. CASE u \notin solved
      <4>1. u = s /\ rv
        BY <1>3, <3>2
      <4> QED BY <1>1, <1>2, <2>2, <4>1 DEF IInv, CheckClosed
    <3> QED BY <3>1, <3>2
  <2> QED BY <1>2, <1>5, <1>6, <2>2, <2>3
<1>13. NoStaleMarks'
  <2>1. ASSUME NEW t \in on_trial'
        PROVE  IsSolved(t)' \/ t \in Range(visited')
    <3>1. IsSolved(t) \/ t \in Range(visited)
      BY <1>1, <1>4, <2>1 DEF IInv, NoStaleMarks
    <3> QED BY <1>2, <1>4, <1>5, <1>6, <2>1, <3>1
  <2>2. ASSUME NEW t \in Range(visited')
        PROVE  t \in on_trial' \/ IsSolved(t)'
    <3>1. t \in Range(visited) /\ t # s /\ t \in State
      BY <1>2, <2>2
    <3>2. t \in on_trial \/ IsSolved(t)
      BY <1>1, <3>1 DEF IInv, NoStaleMarks
    <3> QED BY <1>4, <1>5, <3>1, <3>2
  <2> QED BY <1>1, <2>1, <2>2 DEF NoStaleMarks
<1> QED BY <1>5, <1>7, <1>8, <1>9, <1>10, <1>11, <1>12, <1>13 DEF IInv

-----------------------------------------------------------------------------

(* The invariant is inductive.                                             *)
THEOREM NextIInv == IInv /\ [Next]_vars => IInv'
<1> SUFFICES ASSUME IInv, [Next]_vars PROVE IInv'
  OBVIOUS
<1>1. CASE Solve
  BY <1>1, SolveStep
<1>2. CASE DoSolve
  BY <1>2, DoSolveStep
<1>3. CASE StartTrial
  BY <1>3, StartTrialStep
<1>4. CASE TrialSolved
  BY <1>4, TrialSolvedStep
<1>5. CASE TrialStep
  BY <1>5, TrialStepStep
<1>6. CASE EndTrial
  BY <1>6, EndTrialStep
<1>7. CASE CheckNothing
  BY <1>7, CheckNothingStep
<1>8. CASE BeginCheck
  BY <1>8, BeginCheckStep
<1>9. CASE CheckStep
  BY <1>9, CheckStepStep
<1>10. CASE LabelStep
  BY <1>10, LabelStepStep
<1>11. CASE EndCheck
  BY <1>11, EndCheckStep
<1>12. CASE Timeout
  BY <1>12, TimeoutStep
<1>13. CASE Stop
  BY <1>13, StutterStep DEF Stop
<1>14. CASE UNCHANGED vars
  BY <1>14, StutterStep
<1> QED BY <1>1, <1>2, <1>3, <1>4, <1>5, <1>6, <1>7, <1>8, <1>9, <1>10,
           <1>11, <1>12, <1>13, <1>14 DEF Next, Step

(* The inductive invariant holds throughout every run of the search.       *)
THEOREM Invariance == Spec => []IInv
BY InitIInv, NextIInv, PTL DEF Spec

(* The variables of the search keep their types.                           *)
THEOREM TypeCorrect == Spec => []TypeOK
<1>1. IInv => TypeOK
  BY DEF IInv
<1> QED BY <1>1, Invariance, PTL

(* No VISITED bit outlives its trial or its check, so that check_and_solve *)
(* never passes over a state that it has not seen.                         *)
THEOREM MarksAreCurrent == Spec => []NoStaleMarks
<1>1. IInv => NoStaleMarks
  BY DEF IInv
<1> QED BY <1>1, Invariance, PTL

(* The SOLVED labels are closed under the stored policy except while a     *)
(* successful check is setting them, in every MDP, for every heuristic,    *)
(* sampler and parameter combination, and after a time limit too.          *)
THEOREM LabelsAreClosed == Spec => []LabelsClosed
<1>1. IInv => LabelsClosed
  BY DEF IInv, LabelsClosing, LabelsClosed
<1> QED BY <1>1, Invariance, PTL

-----------------------------------------------------------------------------
(* The stored bounds.                                                      *)

(* An unsolved state that is known is on the fringe or was expanded before.*)
LEMMA KnownUnsolved ==
  ASSUME IInv, NEW s \in State, flag[s] # "uninitialized", ~IsSolved(s)
  PROVE  flag[s] \in {"fringe", "initialized"}
BY DEF IInv, TypeOK, BaseTypeOK, Flags, IsSolved, IsGoalOrTerminal

(* A step leaves the stored information alone, evaluates the initial       *)
(* state, or backs up one state on the fringe or expanded before.          *)
LEMMA StepOnBounds ==
  ASSUME IInv, [Next]_vars
  PROVE  \/ UNCHANGED base_vars
         \/ \E s \in State : InitializeInitialState(s)
         \/ /\ UNCHANGED config
            /\ \E s \in State : /\ flag[s] \in {"fringe", "initialized"}
                               /\ Backup(s)
<1>1. CASE Solve
  BY <1>1, LRTDPAssumption DEF Solve, IInv, TypeOK
<1>2. CASE TrialStep
  <2>1. PICK s \in State : s = Last(current_trial)
    BY <1>2, PopLast DEF TrialStep, IInv, TypeOK, ListShape
  <2>2. flag[s] # "uninitialized"
    BY <1>2, <2>1, PopLast
       DEF TrialStep, IInv, TypeOK, ListShape, ListedKnown
  <2>3. ~IsSolved(s) /\ Backup(s) /\ UNCHANGED config
    BY <1>2, <2>1 DEF TrialStep
  <2> QED BY <2>2, <2>3, KnownUnsolved
<1>3. CASE CheckStep
  <2>1. PICK s \in policy_queue : Backup(s)
    BY <1>3 DEF CheckStep
  <2>2. /\ s \in State /\ flag[s] # "uninitialized" /\ ~IsSolved(s)
        /\ UNCHANGED config
    BY <1>3, <2>1 DEF CheckStep, IInv, TypeOK, ListedKnown, NoStaleMarks
  <2> QED BY <2>1, <2>2, KnownUnsolved
<1>4. CASE LabelStep
  <2>1. PICK s \in State : s = Head(visited)
    BY <1>4, PopFirst DEF LabelStep, IInv, TypeOK
  <2>2. flag[s] # "uninitialized"
    BY <1>4, <2>1, PopFirst DEF LabelStep, IInv, TypeOK, ListedKnown
  <2>3. \/ UNCHANGED base_vars
        \/ ~IsSolved(s) /\ Backup(s) /\ UNCHANGED config
    BY <1>4, <2>1 DEF LabelStep
  <2> QED BY <2>2, <2>3, KnownUnsolved
<1>5. CASE DoSolve \/ StartTrial \/ TrialSolved \/ EndTrial
  BY <1>5 DEF DoSolve, StartTrial, TrialSolved, EndTrial
<1>6. CASE CheckNothing \/ BeginCheck \/ EndCheck
  BY <1>6 DEF CheckNothing, BeginCheck, EndCheck
<1>7. CASE Timeout \/ Stop \/ UNCHANGED vars
  BY <1>7 DEF Timeout, Stop, vars
<1> QED BY <1>1, <1>2, <1>3, <1>4, <1>5, <1>6, <1>7 DEF Next, Step

(* Every step of the search keeps the bounds.                              *)
LEMMA NextEnclosing ==
  ASSUME IInv, Enclosing, [Next]_vars
  PROVE  Enclosing'
<1>1. BaseTypeOK /\ InfoOK
  BY DEF IInv, TypeOK
<1>2. CASE UNCHANGED base_vars
  BY <1>1, <1>2, SameEnclosing
<1>3. CASE \E s \in State : InitializeInitialState(s)
  BY <1>1, <1>3, InitializeEnclosing
<1>4. CASE /\ UNCHANGED config
           /\ \E s \in State : /\ flag[s] \in {"fringe", "initialized"}
                              /\ Backup(s)
  BY <1>1, <1>4, BackupEnclosing
<1> QED BY <1>2, <1>3, <1>4, StepOnBounds

(* At every step of every run the stored bounds enclose the optimal values *)
(* of all states evaluated so far.                                         *)
THEOREM BoundsAreAdmissible == Spec => []Admissible
<1>1. Init => IInv /\ Enclosing
  BY InitIInv, InitialEnclosing DEF Init
<1>2. IInv /\ Enclosing /\ [Next]_vars => IInv' /\ Enclosing'
  BY NextIInv, NextEnclosing
<1>3. Enclosing => Admissible
  BY EnclosingAdmissible DEF Admissible
<1> QED BY <1>1, <1>2, <1>3, PTL DEF Spec

(* With a consistent heuristic every step keeps or improves the bounds.    *)
LEMMA NextImproving ==
  ASSUME IInv, Enclosing, Improving, [Next]_vars
  PROVE  Improving' /\ BoundsTighten
<1>1. BaseTypeOK /\ InfoOK
  BY DEF IInv, TypeOK
<1>2. CASE UNCHANGED base_vars
  BY <1>1, <1>2, SameImproving
<1>3. CASE \E s \in State : InitializeInitialState(s)
  BY <1>1, <1>3, InitializeImproving
<1>4. CASE /\ UNCHANGED config
           /\ \E s \in State : /\ flag[s] \in {"fringe", "initialized"}
                              /\ Backup(s)
  BY <1>1, <1>4, BackupImproving
<1> QED BY <1>2, <1>3, <1>4, StepOnBounds

(* With a consistent heuristic no step ever widens the bounds of a state   *)
(* that was evaluated, whatever order the backups of the trials are        *)
(* performed in.                                                           *)
THEOREM BoundsOnlyTighten ==
  ASSUME ConsistentBounds
  PROVE  Spec => [][BoundsTighten]_vars
<1>1. Init => IInv /\ Enclosing /\ Improving
  BY InitIInv, InitialEnclosing, InitialImproving DEF Init
<1>2. /\ IInv /\ Enclosing /\ Improving /\ [Next]_vars
        => (IInv /\ Enclosing /\ Improving)'
  BY NextIInv, NextEnclosing, NextImproving
<1>3. IInv /\ Enclosing /\ Improving /\ [Next]_vars => BoundsTighten
  BY NextImproving
<1> QED BY <1>1, <1>2, <1>3, PTL DEF Spec

-----------------------------------------------------------------------------
(* Solved states stay converged.                                           *)

(* The heuristic recognises every state where terminating is best.         *)
DeadEndsSeen ==
  \A s \in State \ Goal :
    OptimalValue[s] = TerminationCost[s] => Estimate[s] = TerminationCost[s]

(* The configurations whose labels can be trusted.  Bounds that met cannot *)
(* be disturbed; single values can: by the residuals that a tolerance lets *)
(* pass, by values that fall and make another action greedy, and by a dead *)
(* end that check_and_solve comes upon, which counts as no change.         *)
TrustedLabels ==
  \A k \in Configs :
    k.use_interval \/ (Epsilon = 0 /\ ConsistentBounds /\ DeadEndsSeen)

(* With single values only states with a greedy action are backed up.      *)
NoDeadEndExpanded ==
  ~config.use_interval =>
    \A s \in State : flag[s] \in {"fringe", "initialized"} =>
      OptimalValue[s] # TerminationCost[s]

(* The value of s is settled and, with single values, not that of a dead   *)
(* end.                                                                    *)
Settled(s) ==
  /\ flag[s] # "uninitialized"
  /\ Valued(s)
  /\ ~config.use_interval => flag[s] = "initialized"

(* What is labelled is settled, and so is what a check is going to label.  *)
Settling ==
  /\ \A s \in solved : Settled(s)
  /\ pc \in {"check", "label"} /\ rv => \A s \in Range(visited) : Settled(s)

Trusted ==
  /\ Enclosing
  /\ config.use_interval \/ Improving
  /\ NoDeadEndExpanded
  /\ Settling

(* A state with its first flag may become one that is backed up only if    *)
(* terminating is not best.                                                *)
LEMMA InitialFlagSeen ==
  ASSUME DeadEndsSeen, NEW s \in State,
         InitialFlag(s) \in {"fringe", "initialized"}
  PROVE  OptimalValue[s] # TerminationCost[s]
BY DEF DeadEndsSeen, InitialFlag

(* With single values every backup finds a greedy action.                  *)
LEMMA BackupActs ==
  ASSUME IInv, Enclosing, NoDeadEndExpanded, ~config.use_interval,
         NEW s \in State, flag[s] \in {"fringe", "initialized"}, Backup(s),
         UNCHANGED config
  PROVE  policy'[s] # NoAction /\ flag'[s] = "initialized"
<1>1. BaseTypeOK /\ PolicyApplicable /\ InfoOK
  BY DEF IInv, TypeOK
<1>2. OptimalValue[s] # TerminationCost[s]
  BY DEF NoDeadEndExpanded
<1>3. /\ Enclosing' /\ flag'[s] \in {"initialized", "terminal"}
      /\ policy'[s] # NoAction => flag'[s] = "initialized"
  BY <1>1, BackupEnclosing, BackupInfo
<1>4. SUFFICES ASSUME policy'[s] = NoAction PROVE FALSE
  BY <1>3
<1>5. value'[s]["lower"] = TerminationCost[s]
  <2>1. value'[s] = Point(TerminationCost[s])
    BY <1>1, <1>4, BackupLeaves
  <2> QED BY <2>1 DEF Point
<1>6. value'[s]["lower"] <= OptimalValue[s]
  BY <1>3 DEF Enclosing, Encloses, Known
<1>7. /\ OptimalValue[s] \in Int /\ TerminationCost[s] \in Int
      /\ OptimalValue[s] <= TerminationCost[s]
  BY StarType, StarEquation, MDPAssumption
<1> QED BY <1>2, <1>5, <1>6, <1>7

(* Steps do not expand dead ends.                                          *)
LEMMA NextNoDeadEnd ==
  ASSUME TrustedLabels, IInv, NoDeadEndExpanded, [Next]_vars
  PROVE  NoDeadEndExpanded' /\ config' = config
<1>1. config' = config
  BY StepOnBounds DEF base_vars, InitializeInitialState
<1>2. SUFFICES ASSUME ~config.use_interval, NEW t \in State,
                      flag'[t] \in {"fringe", "initialized"}
               PROVE  OptimalValue[t] # TerminationCost[t]
  BY <1>1 DEF NoDeadEndExpanded
<1>3. DeadEndsSeen
  BY <1>2 DEF TrustedLabels, IInv, TypeOK, BaseTypeOK
<1>4. BaseTypeOK
  BY DEF IInv, TypeOK
<1>5. CASE flag[t] \in {"fringe", "initialized"}
  BY <1>2, <1>5 DEF NoDeadEndExpanded
<1>6. CASE flag'[t] = InitialFlag(t)
  BY <1>2, <1>3, <1>6, InitialFlagSeen
<1>7. CASE UNCHANGED base_vars
  BY <1>2, <1>5, <1>7 DEF base_vars
<1>8. CASE \E s \in State : InitializeInitialState(s)
  <2>1. flag'[t] = flag[t] \/ flag'[t] = InitialFlag(t)
    BY <1>4, <1>8 DEF InitializeInitialState, base_vars, BaseTypeOK
  <2> QED BY <1>2, <1>5, <1>6, <2>1
<1>9. CASE \E s \in State : /\ flag[s] \in {"fringe", "initialized"}
                           /\ Backup(s)
  <2>1. PICK s \in State : /\ flag[s] \in {"fringe", "initialized"}
                           /\ Backup(s)
    BY <1>9
  <2>2. flag' = ExpandedFlag(s)
    BY <2>1 DEF Backup
  <2>3. \/ flag'[t] = flag[t] \/ flag'[t] = InitialFlag(t)
        \/ flag[t] = "fringe"
    BY <2>2 DEF ExpandedFlag
  <2> QED BY <1>2, <1>5, <1>6, <2>3
<1> QED BY <1>1, <1>7, <1>8, <1>9, StepOnBounds

(* A state that is settled stays so in a step that leaves it alone.        *)
LEMMA SameSettled ==
  ASSUME UNCHANGED base_vars, NEW s, Settled(s)
  PROVE  Settled(s)'
BY DEF Settled, Valued, base_vars

(* A backup of an unsolved state leaves the settled states settled whose   *)
(* policy does not lead there, and all of them if its value is the same.   *)
LEMMA BackupKeepsSettled ==
  ASSUME IInv, NEW s \in State, flag[s] \in {"fringe", "initialized"},
         Backup(s), UNCHANGED config,
         NEW t \in State, t # s, Settled(t),
         \/ config.use_interval
         \/ s \notin PolicySuccessors(t)
         \/ value'[s]["lower"] = value[s]["lower"]
  PROVE  Settled(t)'
<1>1. BaseTypeOK /\ PolicyApplicable /\ InfoOK
  BY DEF IInv, TypeOK
<1>2. Valued(t)'
  BY <1>1, BackupKeepsValued DEF Settled
<1>3. flag'[t] = flag[t]
  BY <1>1, BackupInfo DEF Settled
<1> QED BY <1>2, <1>3 DEF Settled

(* A backup settles its state, with intervals if the bounds meet.          *)
LEMMA BackupSettles ==
  ASSUME IInv, Enclosing, NoDeadEndExpanded,
         NEW s \in State, flag[s] \in {"fringe", "initialized"}, Backup(s),
         UNCHANGED config,
         config.use_interval /\ policy'[s] # NoAction => ValueConverged(s)
  PROVE  Settled(s)'
<1>1. BaseTypeOK /\ PolicyApplicable
  BY DEF IInv, TypeOK
<1>2. Valued(s)'
  BY <1>1, BackupValues
<1>3. ~config.use_interval => flag'[s] = "initialized"
  BY BackupActs
<1>4. flag'[s] # "uninitialized"
  BY <1>1, BackupInfo DEF IInv
<1> QED BY <1>2, <1>3, <1>4 DEF Settled

(* What BackupKeepsSettled and StepOnBounds need to know about the state   *)
(* that is backed up: it is not final and no solved state leads to it.     *)
LEMMA UnsolvedFree ==
  ASSUME IInv, NEW s \in State, flag[s] # "uninitialized", ~IsSolved(s),
         pc # "label" \/ ~rv
  PROVE  /\ flag[s] \in {"fringe", "initialized"}
         /\ \A t \in solved : t # s /\ s \notin PolicySuccessors(t)
BY KnownUnsolved DEF IInv, LabelsClosing, IsSolved

(* Steps that leave the stored information alone.                          *)
LEMMA SameSettling ==
  ASSUME Settling, UNCHANGED base_vars, solved' = solved,
         pc' \in {"check", "label"} /\ rv' =>
           \/ visited' = <<>>
           \/ pc \in {"check", "label"} /\ rv /\ visited' = visited
  PROVE  Settling'
<1>1. \A s \in solved' : Settled(s)'
  BY SameSettled DEF Settling
<1>2. ASSUME pc' \in {"check", "label"}, rv', NEW s \in Range(visited')
      PROVE  Settled(s)'
  <2>1. s \in Range(visited) /\ pc \in {"check", "label"} /\ rv
    BY <1>2, ListRange
  <2> QED BY <2>1, SameSettled DEF Settling
<1> QED BY <1>1, <1>2 DEF Settling

(* Evaluating the initial state.                                           *)
LEMMA SolveSettling ==
  ASSUME IInv, Solve
  PROVE  Settling'
BY DEF Solve, IInv, ListShape, Settling, search_vars

(* A backup on a trial labels its state only if it is a dead end, and that *)
(* only happens with intervals.                                            *)
LEMMA TrialStepSettling ==
  ASSUME IInv, Trusted, TrialStep
  PROVE  Settling'
<1>1. PICK s \in State : s = Last(current_trial)
  BY PopLast DEF TrialStep, IInv, TypeOK, ListShape
<1>2. /\ ~IsSolved(s) /\ Backup(s) /\ UNCHANGED config
      /\ \/ policy'[s] = NoAction /\ solved' = solved \union {s}
         \/ solved' = solved
      /\ pc = "trial" /\ pc' \in {"trial", "end_trial"}
  BY <1>1 DEF TrialStep
<1>3. flag[s] # "uninitialized"
  BY <1>1, PopLast DEF TrialStep, IInv, TypeOK, ListShape, ListedKnown
<1>4. /\ flag[s] \in {"fringe", "initialized"}
      /\ \A t \in solved : t # s /\ s \notin PolicySuccessors(t)
  BY <1>2, <1>3, UnsolvedFree
<1>5. ASSUME NEW t \in solved PROVE Settled(t)'
  <2>1. t \in State /\ Settled(t)
    BY ListTypes DEF IInv, Trusted, Settling
  <2> QED BY <1>2, <1>4, <2>1, BackupKeepsSettled
<1>6. ASSUME policy'[s] = NoAction PROVE Settled(s)'
  BY <1>2, <1>4, <1>6, BackupSettles DEF Trusted
<1>7. \A t \in solved' : Settled(t)'
  BY <1>2, <1>5, <1>6
<1> QED BY <1>2, <1>7 DEF Settling

(* A backup in a check settles its state, and changes the value of no      *)
(* state unless the check fails.                                           *)
LEMMA CheckStepSettling ==
  ASSUME TrustedLabels, IInv, Trusted, CheckStep
  PROVE  Settling'
<1>1. PICK s \in policy_queue :
        /\ Backup(s)
        /\ visited' = <<s>> \o visited
        /\ \/ policy'[s] = NoAction /\ solved' = solved \union {s} /\ rv' = rv
           \/ /\ policy'[s] # NoAction /\ ~Changed(value[s], value'[s])
              /\ rv' = (rv /\ ValueConverged(s))
              /\ solved' = solved
           \/ policy'[s] # NoAction /\ rv' = FALSE /\ solved' = solved
  BY DEF CheckStep
<1>2. /\ pc = "check" /\ UNCHANGED config
      /\ s \in State /\ flag[s] # "uninitialized" /\ ~IsSolved(s)
      /\ s \notin Range(visited)
  BY <1>1 DEF CheckStep, IInv, TypeOK, ListedKnown, NoStaleMarks, VisitedOnce
<1>3. /\ flag[s] \in {"fringe", "initialized"}
      /\ \A t \in solved : t # s /\ s \notin PolicySuccessors(t)
  BY <1>2, UnsolvedFree
<1>4. ASSUME NEW t \in solved PROVE Settled(t)'
  <2>1. t \in State /\ Settled(t)
    BY ListTypes DEF IInv, Trusted, Settling
  <2> QED BY <1>1, <1>2, <1>3, <2>1, BackupKeepsSettled
<1>5. ASSUME policy'[s] = NoAction PROVE Settled(s)'
  BY <1>1, <1>2, <1>3, <1>5, BackupSettles DEF Trusted
<1>6. \A t \in solved' : Settled(t)'
  BY <1>1, <1>4, <1>5
<1>7. ASSUME rv'
      PROVE  /\ rv /\ Settled(s)'
             /\ config.use_interval \/ value'[s]["lower"] = value[s]["lower"]
  <2>1. CASE policy'[s] = NoAction
    <3>1. config.use_interval
      BY <1>1, <1>2, <1>3, <2>1, BackupActs DEF Trusted
    <3> QED BY <1>1, <1>5, <1>7, <2>1, <3>1
  <2>2. CASE policy'[s] # NoAction
    <3>1. rv /\ ValueConverged(s) /\ ~Changed(value[s], value'[s])
      BY <1>1, <1>7, <2>2
    <3>2. Settled(s)'
      BY <1>1, <1>2, <1>3, <3>1, BackupSettles DEF Trusted
    <3>3. ASSUME ~config.use_interval
          PROVE  value'[s]["lower"] = value[s]["lower"]
      <4>1. Epsilon = 0
        BY <3>3 DEF TrustedLabels, IInv, TypeOK, BaseTypeOK
      <4>2. value[s] \in Bounds /\ value'[s] \in Bounds
        <5>1. BaseTypeOK /\ BaseTypeOK'
          BY <1>1, <1>2, BackupType DEF IInv, TypeOK
        <5> QED BY <1>2, <5>1 DEF BaseTypeOK
      <4> QED BY <3>1, <4>1, <4>2 DEF Changed, ApproxEqual, Bounds
    <3> QED BY <3>1, <3>2, <3>3
  <2> QED BY <2>1, <2>2
<1>8. ASSUME rv', NEW t \in Range(visited') PROVE Settled(t)'
  <2>1. t = s \/ t \in Range(visited)
    BY <1>1, <1>2, PushFirst DEF IInv, TypeOK
  <2>2. CASE t = s
    BY <1>7, <1>8, <2>2
  <2>3. CASE t \in Range(visited)
    <3>1. t \in State /\ t # s /\ Settled(t)
      BY <1>2, <1>7, <1>8, <2>3, ListTypes DEF IInv, Trusted, Settling
    <3> QED BY <1>1, <1>2, <1>3, <1>7, <1>8, <3>1, BackupKeepsSettled
  <2> QED BY <2>1, <2>2, <2>3
<1> QED BY <1>6, <1>8 DEF Settling

(* Labels go to settled states; the backups after a failed check are those *)
(* of unsolved states.                                                     *)
LEMMA LabelStepSettling ==
  ASSUME IInv, Trusted, LabelStep
  PROVE  Settling'
<1>1. /\ pc = "label" /\ pc' = pc /\ rv' = rv /\ visited # <<>>
      /\ visited' = Tail(visited)
  BY DEF LabelStep
<1>2. PICK s \in State : s = Head(visited)
  BY <1>1, PopFirst DEF IInv, TypeOK
<1>3. /\ s \in Range(visited) /\ Range(visited') \subseteq Range(visited)
      /\ flag[s] # "uninitialized"
  BY <1>1, <1>2, PopFirst DEF IInv, TypeOK, ListedKnown
<1>4. CASE UNCHANGED base_vars /\ solved' \subseteq solved \union {s}
                               /\ (solved' = solved \/ rv)
  <2>1. \A t \in solved' : Settled(t)
    BY <1>1, <1>3, <1>4 DEF Trusted, Settling
  <2>2. rv => \A t \in Range(visited') : Settled(t)
    BY <1>1, <1>3 DEF Trusted, Settling
  <2> QED BY <1>1, <1>4, <2>1, <2>2, SameSettled DEF Settling
<1>5. CASE ~IsSolved(s) /\ ~rv /\ Backup(s) /\ UNCHANGED <<config, solved>>
  <2>1. /\ flag[s] \in {"fringe", "initialized"}
        /\ \A t \in solved : t # s /\ s \notin PolicySuccessors(t)
    BY <1>3, <1>5, UnsolvedFree
  <2>2. ASSUME NEW t \in solved PROVE Settled(t)'
    <3>1. t \in State /\ Settled(t)
      BY ListTypes DEF IInv, Trusted, Settling
    <3> QED BY <1>5, <2>1, <3>1, BackupKeepsSettled
  <2> QED BY <1>1, <1>5, <2>2 DEF Settling
<1> QED BY <1>2, <1>4, <1>5 DEF LabelStep

(* The other steps only move states between the lists.                     *)
LEMMA NextSettling ==
  ASSUME TrustedLabels, IInv, Trusted, [Next]_vars
  PROVE  Settling'
<1> USE DEF Trusted
<1>1. CASE Solve
  BY <1>1, SolveSettling
<1>2. CASE TrialStep
  BY <1>2, TrialStepSettling
<1>3. CASE CheckStep
  BY <1>3, CheckStepSettling
<1>4. CASE LabelStep
  BY <1>4, LabelStepSettling
<1>5. CASE DoSolve \/ StartTrial \/ TrialSolved \/ EndTrial
  BY <1>5, SameSettling
     DEF DoSolve, StartTrial, TrialSolved, EndTrial, search_vars
<1>6. CASE CheckNothing \/ EndCheck
  BY <1>6, SameSettling DEF CheckNothing, EndCheck, CheckSucceeds, search_vars
<1>7. CASE BeginCheck
  BY <1>7, SameSettling DEF BeginCheck, CheckSucceeds, IInv, ListShape
<1>8. CASE Timeout \/ Stop \/ UNCHANGED vars
  BY <1>8, SameSettling DEF Timeout, Stop, Finished, vars, search_vars
<1> QED BY <1>1, <1>2, <1>3, <1>4, <1>5, <1>6, <1>7, <1>8 DEF Next, Step

(* The invariant holds at first, and every step preserves it.              *)
LEMMA InitTrusted ==
  ASSUME TrustedLabels, Init
  PROVE  Trusted
<1>1. Enclosing /\ (config.use_interval \/ Improving)
  BY InitialEnclosing, InitialImproving DEF Init, BaseInit, TrustedLabels
<1>2. NoDeadEndExpanded /\ Settling
  BY ListRange DEF Init, BaseInit, NoDeadEndExpanded, Settling
<1> QED BY <1>1, <1>2 DEF Trusted

LEMMA NextTrusted ==
  ASSUME TrustedLabels, IInv, Trusted, [Next]_vars
  PROVE  Trusted'
<1>1. Enclosing' /\ NoDeadEndExpanded' /\ config' = config
  BY NextEnclosing, NextNoDeadEnd DEF Trusted
<1>2. (config.use_interval \/ Improving)'
  BY <1>1, NextImproving DEF Trusted
<1>3. Settling'
  BY NextSettling
<1> QED BY <1>1, <1>2, <1>3 DEF Trusted

(* What is settled and cannot be disturbed has converged.                  *)
LEMMA TrustedConverged ==
  ASSUME IInv, Trusted
  PROVE  LabelsConverged
<1> SUFFICES ASSUME NEW s \in solved PROVE IsConverged(s)
  BY DEF LabelsConverged
<1>1. Settled(s) /\ s \in State
  BY ListTypes DEF Trusted, Settling, IInv
<1>2. CASE config.use_interval
  BY <1>1, <1>2 DEF Settled, Valued, IsConverged
<1>3. CASE ~config.use_interval
  <2>1. flag[s] = "initialized"
    BY <1>1, <1>3 DEF Settled
  <2>2. s \notin Goal /\ \A t \in Neighbours(s) : flag[t] # "uninitialized"
    BY <1>1, <2>1 DEF Trusted, Enclosing, IInv, InfoOK
  <2> QED BY <1>1, <1>3, <2>1, <2>2, ValuedConverged
          DEF Settled, Trusted, IInv, TypeOK
<1> QED BY <1>2, <1>3

(* The labels are right at every step of every run: a solved state has     *)
(* converged and stays so although no backup ever looks at it again.       *)
THEOREM LabelsStayConverged ==
  ASSUME TrustedLabels
  PROVE  Spec => []LabelsConverged
<1>1. Init => IInv /\ Trusted
  BY InitIInv, InitTrusted
<1>2. IInv /\ Trusted /\ [Next]_vars => (IInv /\ Trusted)'
  BY NextIInv, NextTrusted
<1>3. IInv /\ Trusted => LabelsConverged
  BY TrustedConverged
<1> QED BY <1>1, <1>2, <1>3, PTL DEF Spec

-----------------------------------------------------------------------------
(* The result.                                                             *)

LEMMA NextFinal ==
  ASSUME IInv, Enclosing, FinalExact, [Next]_vars
  PROVE  FinalExact'
<1>1. BaseTypeOK
  BY DEF IInv, TypeOK
<1>2. \A s \in State : flag[s] \in {"fringe", "initialized"} => s \notin Goal
  BY DEF Enclosing
<1> QED BY <1>1, <1>2, StepOnBounds, SameFinal, InitializeFinal, BackupFinal

(* A trial begins in the initial state, a check that has not failed is     *)
(* going to label the state it was called on, and the search ends with the *)
(* initial state solved.                                                   *)
Answered ==
  /\ /\ pc \in {"trial", "end_trial", "begin_check", "check", "label"}
     /\ current_trial # <<>>
     => current_trial[1] = initial_state
  /\ pc = "check" =>
       \/ Last(current_trial) \in policy_queue \union Range(visited)
       \/ IsSolved(Last(current_trial))
  /\ pc = "label" /\ rv =>
       Last(current_trial) \in Range(visited) \/ IsSolved(Last(current_trial))
  /\ pc = "done" => IsSolved(initial_state)

LEMMA SolvedSame ==
  ASSUME UNCHANGED base_vars, solved \subseteq solved'
  PROVE  \A s : IsSolved(s) => IsSolved(s)'
BY DEF base_vars, IsSolved, IsGoalOrTerminal

(* The ends of a trial.                                                    *)
LEMMA TrialEnds ==
  ASSUME NEW q \in Seq(State), q # <<>>
  PROVE  /\ Last(q) \in State /\ Last(q) = q[Len(q)]
         /\ Front(q) # <<>> => Front(q)[1] = q[1]
         /\ Front(q) = <<>> => Last(q) = q[1]
         /\ \A t \in State : Append(q, t)[1] = q[1] /\ Append(q, t) # <<>>
<1> DEFINE n == Len(q) - 1
<1>1. /\ Len(q) \in Nat \ {0} /\ DOMAIN q = 1 .. Len(q)
      /\ \A i \in 1 .. Len(q) : q[i] \in State
  OBVIOUS
<1>2. n \in 0 .. Len(q) /\ Len(q) = n + 1
  BY <1>1
<1>3. Front(q) = SubSeq(q, 1, n) /\ Last(q) = q[Len(q)]
  BY DEF Front, Last
<1> HIDE DEF n
<1>4. /\ Front(q) \in Seq(State) /\ Len(Front(q)) = n
      /\ \A i \in 1 .. n : Front(q)[i] = q[i]
  BY <1>2, <1>3, Prefix
<1>5. Front(q) # <<>> => n >= 1
  BY <1>2, <1>4
<1>6. Front(q) = <<>> => n = 0
  BY <1>4
<1>7. Front(q) # <<>> => Front(q)[1] = q[1]
  BY <1>1, <1>2, <1>4, <1>5
<1>8. Front(q) = <<>> => Last(q) = q[1]
  BY <1>1, <1>2, <1>3, <1>6
<1>9. \A t \in State : Append(q, t)[1] = q[1] /\ Append(q, t) # <<>>
  OBVIOUS
<1>10. Last(q) \in State
  BY <1>1, <1>3
<1> QED BY <1>3, <1>7, <1>8, <1>9, <1>10

(* A check that succeeds ends the search only at the initial state.        *)
LEMMA SucceedsAnswered ==
  ASSUME IInv, Answered, current_trial # <<>>, pc \in {"begin_check", "label"},
         UNCHANGED <<base_vars, solved, initial_state>>,
         IsSolved(Last(current_trial)), CheckSucceeds
  PROVE  Answered'
<1>1. current_trial \in Seq(State) /\ current_trial[1] = initial_state
  BY DEF IInv, TypeOK, Answered
<1>2. /\ current_trial' = Front(current_trial)
      /\ pc' = IF current_trial' = <<>> THEN "done" ELSE "begin_check"
  BY DEF CheckSucceeds
<1>3. current_trial' # <<>> => current_trial'[1] = initial_state
  BY <1>1, <1>2, TrialEnds
<1>4. current_trial' = <<>> => IsSolved(initial_state)
  BY <1>1, <1>2, TrialEnds
<1>5. IsSolved(initial_state) => IsSolved(initial_state)'
  BY DEF base_vars, IsSolved, IsGoalOrTerminal
<1> QED BY <1>2, <1>3, <1>4, <1>5 DEF Answered

LEMMA CheckStepAnswered ==
  ASSUME IInv, Answered, CheckStep
  PROVE  Answered'
<1>1. PICK s \in policy_queue :
        /\ Backup(s) /\ visited' = <<s>> \o visited
        /\ policy_queue \ {s} \subseteq policy_queue'
        /\ solved \subseteq solved'
  BY DEF CheckStep
<1>2. /\ pc = "check" /\ UNCHANGED <<config, initial_state, current_trial>>
      /\ pc' = IF policy_queue' = {} THEN "label" ELSE "check"
      /\ visited \in Seq(State) /\ current_trial \in Seq(State)
      /\ current_trial # <<>>
  BY DEF CheckStep, IInv, TypeOK, ListShape
<1>3. s \in State /\ ~IsSolved(s) /\ flag[s] # "uninitialized"
  BY <1>2, ListTypes DEF IInv, NoStaleMarks, ListedKnown
<1>4. \A t \in State : IsSolved(t) => IsSolved(t)'
  BY <1>1, <1>2, <1>3, BackupKeeps DEF IInv, TypeOK
<1>5. PICK l \in State : l = Last(current_trial)
  BY <1>2, TrialEnds
<1>6. l \in policy_queue \union Range(visited) \/ IsSolved(l)
  BY <1>2, <1>5 DEF Answered
<1>7. Range(visited') = {s} \union Range(visited)
  BY <1>1, <1>2, <1>3, PushFirst, ListTypes DEF IInv, VisitedOnce
<1>8. l \in policy_queue' \union Range(visited') \/ IsSolved(l)'
  BY <1>1, <1>4, <1>6, <1>7
<1>9. l = Last(current_trial')
  BY <1>2, <1>5
<1> QED BY <1>2, <1>8, <1>9 DEF Answered

LEMMA LabelStepAnswered ==
  ASSUME IInv, Answered, LabelStep
  PROVE  Answered'
<1>1. /\ pc = "label" /\ visited # <<>> /\ visited \in Seq(State)
      /\ UNCHANGED <<initial_state, pc, current_trial, policy_queue, rv>>
      /\ visited' = Tail(visited) /\ current_trial \in Seq(State)
      /\ current_trial # <<>>
  BY DEF LabelStep, IInv, TypeOK, ListShape
<1>2. PICK s \in State : s = Head(visited)
  BY <1>1, PopFirst
<1>3. Range(visited) \subseteq {s} \union Range(visited')
  BY <1>1, <1>2, PopFirst
<1>4. rv => /\ UNCHANGED base_vars /\ solved \subseteq solved'
            /\ IsSolved(s)'
  BY <1>2 DEF LabelStep, IsSolved, IsGoalOrTerminal, base_vars
<1>5. rv => \A t : IsSolved(t) => IsSolved(t)'
  BY <1>4, SolvedSame
<1>6. PICK l : l = Last(current_trial)
  OBVIOUS
<1>7. rv => l \in Range(visited') \/ IsSolved(l)'
  BY <1>1, <1>3, <1>4, <1>5, <1>6 DEF Answered
<1>8. l = Last(current_trial')
  BY <1>1, <1>6
<1> QED BY <1>1, <1>7, <1>8 DEF Answered

LEMMA NextAnswered ==
  ASSUME IInv, Answered, [Next]_vars
  PROVE  Answered'
<1>1. current_trial \in Seq(State) /\ initial_state \in State
  BY ListTypes DEF IInv, TypeOK
<1>2. CASE Solve \/ StartTrial
  BY <1>2 DEF Solve, StartTrial, Answered
<1>3. CASE DoSolve
  <2>1. IsSolved(initial_state) => IsSolved(initial_state)'
    BY <1>3, SolvedSame DEF DoSolve, search_vars
  <2> QED BY <1>3, <2>1 DEF DoSolve, Answered, search_vars, IInv, ListShape
<1>4. CASE TrialSolved
  <2>1. current_trial # <<>> /\ pc = "trial"
    BY <1>4 DEF TrialSolved, IInv, ListShape
  <2> QED BY <1>1, <1>4, <2>1, TrialEnds DEF TrialSolved, Answered
<1>5. CASE TrialStep
  <2>1. current_trial # <<>> /\ pc = "trial"
    BY <1>5 DEF TrialStep, IInv, ListShape
  <2>2. /\ \/ current_trial' = Front(current_trial) \/ current_trial' = current_trial
           \/ \E t : current_trial' = Append(current_trial, t)
        /\ pc' \in {"trial", "end_trial"} /\ initial_state' = initial_state
        /\ current_trial' \in Seq(State)
    <3>1. TypeOK'
      BY <1>5, TrialStepStep DEF IInv
    <3> QED BY <1>5, <2>1, <3>1 DEF TrialStep, TypeOK
  <2>3. current_trial' # <<>> => current_trial'[1] = current_trial[1]
    <3>1. ASSUME NEW t, current_trial' = Append(current_trial, t)
          PROVE  current_trial'[1] = current_trial[1]
      BY <1>1, <2>1, <3>1
    <3> QED BY <1>1, <2>1, <2>2, <3>1, TrialEnds
  <2> QED BY <2>1, <2>2, <2>3 DEF Answered
<1>6. CASE EndTrial \/ CheckNothing
  BY <1>6 DEF EndTrial, CheckNothing, Answered, search_vars
<1>7. CASE BeginCheck
  <2>1. /\ pc = "begin_check" /\ current_trial # <<>>
        /\ UNCHANGED <<base_vars, solved, initial_state, visited>>
        /\ \/ IsSolved(Last(current_trial)) /\ CheckSucceeds
           \/ /\ policy_queue' = {Last(current_trial)}
              /\ pc' = "check" /\ UNCHANGED current_trial
    BY <1>7 DEF BeginCheck
  <2>2. CASE IsSolved(Last(current_trial)) /\ CheckSucceeds
    BY <2>1, <2>2, SucceedsAnswered
  <2>3. CASE /\ policy_queue' = {Last(current_trial)}
             /\ pc' = "check" /\ UNCHANGED current_trial
    BY <2>1, <2>3 DEF Answered
  <2> QED BY <2>1, <2>2, <2>3
<1>8. CASE EndCheck
  <2>1. /\ pc = "label" /\ visited = <<>> /\ current_trial # <<>>
        /\ UNCHANGED <<base_vars, solved, initial_state>>
        /\ \/ rv /\ CheckSucceeds
           \/ current_trial' = <<>> /\ pc' = "start_trial"
    BY <1>8 DEF EndCheck, IInv, ListShape
  <2>2. rv => IsSolved(Last(current_trial))
    BY <2>1, ListRange DEF Answered
  <2>3. CASE rv /\ CheckSucceeds
    BY <2>1, <2>2, <2>3, SucceedsAnswered
  <2>4. CASE current_trial' = <<>> /\ pc' = "start_trial"
    BY <2>4 DEF Answered
  <2> QED BY <2>1, <2>3, <2>4
<1>9. CASE Timeout
  BY <1>9 DEF Timeout, Answered
<1>10. CASE Stop \/ UNCHANGED vars
  BY <1>10 DEF Stop, vars, search_vars, base_vars, Answered, IsSolved, IsGoalOrTerminal
<1> QED BY <1>2, <1>3, <1>4, <1>5, <1>6, <1>7, <1>8, <1>9, <1>10,
           CheckStepAnswered, LabelStepAnswered
        DEF Next, Step

(* When the search ends, the initial state has its optimal value: with     *)
(* intervals up to the tolerance, in every MDP; with single values         *)
(* exactly, where labels can be trusted and no way leads back to a state   *)
(* left before.                                                            *)
THEOREM SearchIsOptimal ==
  ASSUME TrustedLabels, \A k \in Configs : k.use_interval \/ Layered
  PROVE  Spec => []Optimal
<1> DEFINE Inv == /\ IInv /\ Trusted /\ FinalExact /\ Answered
                  /\ config.use_interval \/ (Epsilon = 0 /\ Layered)
<1>1. Init => Inv
  <2> SUFFICES ASSUME Init PROVE Inv
    OBVIOUS
  <2>1. config \in Configs /\ BaseInit
    BY DEF Init, BaseInit
  <2>2. config.use_interval \/ (Epsilon = 0 /\ Layered)
    BY <2>1 DEF TrustedLabels
  <2>3. Answered
    BY DEF Init, Answered
  <2> QED BY <2>1, <2>2, <2>3, InitIInv, InitTrusted, InitialFinal
<1>2. Inv /\ [Next]_vars => Inv'
  <2> SUFFICES ASSUME Inv, [Next]_vars PROVE Inv'
    OBVIOUS
  <2>1. config' = config
    <3>1. \A s : InitializeInitialState(s) => config' = config
      BY DEF InitializeInitialState, base_vars
    <3> QED BY <3>1, StepOnBounds DEF base_vars
  <2> QED BY <2>1, NextIInv, NextTrusted, NextFinal, NextAnswered DEF Trusted
<1>3. Inv => Optimal
  <2> SUFFICES ASSUME Inv, pc = "done"
               PROVE  ApproxEqual(value[initial_state].lower,
                                  OptimalValue[initial_state])
    BY DEF Optimal
  <2>1. /\ IsSolved(initial_state) /\ initial_state \in State
        /\ \A s \in solved : /\ s \in State /\ flag[s] # "uninitialized"
                             /\ \A t \in PolicySuccessors(s) : IsSolved(t)
                             /\ PolicySuccessors(s) \subseteq State
    BY ListTypes, PolicySuccessorsType
       DEF Answered, IInv, LabelsClosing, Trusted, Settling, Settled
  <2>2. \A s \in solved : IsConverged(s)
    BY TrustedConverged DEF LabelsConverged
  <2>3. PICK S \in SUBSET State : S = solved
    BY <2>1
  <2>4. HasSolution(initial_state)
    BY <2>1, <2>2, <2>3, ClosedSolution DEF IsSolved
  <2> QED BY <2>1, <2>4, SolutionOptimal DEF IInv, TypeOK, Trusted
<1> HIDE DEF Inv
<1> QED BY <1>1, <1>2, <1>3, PTL DEF Spec
=============================================================================
