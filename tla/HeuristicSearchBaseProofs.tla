--------------------- MODULE HeuristicSearchBaseProofs ---------------------
(***************************************************************************)
(* Lemmas that the proofs about every heuristic search rest on.            *)
(*                                                                         *)
(* What an expansion and a backup store has its type.  Whatever state is   *)
(* backed up, the stored bounds go on enclosing the optimal values; and if *)
(* the first bounds are consistent, backups only ever tighten them.  A     *)
(* state that was backed up stays worth what its policy is worth until the *)
(* value of a policy successor changes, and has converged as long as it    *)
(* is.  A policy graph that has converged yields the optimal value.        *)
(***************************************************************************)
EXTENDS ReferenceValues, BellmanEquationsProofs

(* The stored policy consists of transitions the search may follow.        *)
PolicyApplicable ==
  policy \in [State -> Action \union {NoAction}] /\
  \A s \in State : policy[s] \in TransitionTails(s) \union {NoAction}

(* Expanding a state initialises its neighbours, and only expanded states  *)
(* have a policy.                                                          *)
InfoOK ==
  \A s \in State :
     /\ flag[s] = "initialized" =>
          \A t \in Neighbours(s) : flag[t] # "uninitialized"
     /\ flag[s] # "initialized" => policy[s] = NoAction

(* The greedy actions are transitions the search may follow.               *)
LEMMA GreedyType ==
  ASSUME NEW v, NEW s \in State
  PROVE  GreedyChoices(v, s) \subseteq TransitionTails(s) \union {NoAction}
BY DEF GreedyChoices, Greedy

(* What initialize stores for a new state is a value and a flag.           *)
LEMMA InitialType ==
  ASSUME NEW s \in State
  PROVE  InitialValue(s) \in Bounds /\ InitialFlag(s) \in Flags
<1>1. TerminationCost[s] \in Int /\ Estimate[s] \in Int
  BY MDPAssumption, HeuristicAssumption
<1> QED BY <1>1 DEF InitialValue, InitialFlag, Point, Bounds, Flags

(* What an expansion stores are values and flags.                          *)
LEMMA ExpandedType ==
  ASSUME BaseTypeOK, NEW s \in State
  PROVE  /\ ExpandedFlag(s) \in [State -> Flags]
         /\ ExpandedValue(s) \in [State -> Bounds]
<1>1. \A t \in State : InitialValue(t) \in Bounds /\ InitialFlag(t) \in Flags
  BY InitialType
<1>2. ExpandedFlag(s) \in [State -> Flags]
  BY <1>1 DEF ExpandedFlag, BaseTypeOK, Flags
<1>3. ExpandedValue(s) \in [State -> Bounds]
  BY <1>1 DEF ExpandedValue, BaseTypeOK
<1> QED BY <1>2, <1>3

(* What every backup of s does to the stored information.                  *)
LEMMA BackupType ==
  ASSUME BaseTypeOK, PolicyApplicable, NEW s \in State, Backup(s),
         UNCHANGED config
  PROVE  /\ BaseTypeOK'
         /\ PolicyApplicable'
         /\ \A t \in State \ {s} : policy'[t] = policy[t]
<1>1. PICK v \in {ExpandedValue(s)} :
        /\ flag' = ExpandedFlag(s)
        /\ value' = [v EXCEPT ![s] = Bellman(v, s)]
        /\ \E a \in GreedyChoices(v, s) : policy' = [policy EXCEPT ![s] = a]
  BY DEF Backup
<1>2. PICK a \in GreedyChoices(v, s) : policy' = [policy EXCEPT ![s] = a]
  BY <1>1
<1>3. v \in [State -> Bounds]
  BY ExpandedType
<1>4. Bellman(v, s) \in Bounds
  BY <1>3, BellmanType
<1>5. value' \in [State -> Bounds]
  BY <1>1, <1>3, <1>4
<1>6. flag' \in [State -> Flags]
  BY <1>1, ExpandedType
<1>7. a \in TransitionTails(s) \union {NoAction}
  BY GreedyType
<1>8. a \in Action \union {NoAction}
  BY <1>7, TailsType
<1>9. policy' \in [State -> Action \union {NoAction}]
  BY <1>2, <1>8 DEF BaseTypeOK
<1>10. \A t \in State \ {s} : policy'[t] = policy[t]
  BY <1>2 DEF BaseTypeOK
<1>11. \A t \in State : policy'[t] \in TransitionTails(t) \union {NoAction}
  BY <1>2, <1>7 DEF BaseTypeOK, PolicyApplicable
<1>12. config' \in Configs
  BY DEF BaseTypeOK
<1>13. BaseTypeOK'
  BY <1>5, <1>6, <1>9, <1>12 DEF BaseTypeOK
<1>14. PolicyApplicable'
  BY <1>9, <1>11 DEF PolicyApplicable
<1> QED BY <1>10, <1>13, <1>14

(* A backup of an initialised state expands it and evaluates its           *)
(* neighbours; the flags of all other known states stay.                   *)
LEMMA BackupInfo ==
  ASSUME BaseTypeOK, PolicyApplicable, InfoOK,
         NEW s \in State, flag[s] \in {"fringe", "initialized"}, Backup(s)
  PROVE  /\ InfoOK'
         /\ \A t \in State : t # s /\ flag[t] # "uninitialized" =>
              flag'[t] = flag[t]
         /\ flag'[s] \in {"initialized", "terminal"}
         /\ flag[s] = "initialized" => flag'[s] = "initialized"
         /\ policy'[s] # NoAction => flag'[s] = "initialized"
<1>1. PICK v \in {ExpandedValue(s)} :
        /\ flag' = ExpandedFlag(s)
        /\ value' = [v EXCEPT ![s] = Bellman(v, s)]
        /\ \E a \in GreedyChoices(v, s) : policy' = [policy EXCEPT ![s] = a]
  BY DEF Backup
<1>2. PICK a \in GreedyChoices(v, s) : policy' = [policy EXCEPT ![s] = a]
  BY <1>1
<1>3. flag \in [State -> Flags] /\ policy \in [State -> Action \union {NoAction}]
  BY DEF BaseTypeOK
<1>4. \A t \in State : t # s => policy'[t] = policy[t]
  BY <1>2, <1>3
<1>5. policy'[s] = a
  BY <1>2, <1>3
<1>6. \A t \in Evaluated(s) : t \in State /\ flag[t] = "uninitialized"
                              /\ InitialFlag(t) \in {"goal", "terminal", "fringe"}
  <2>1. Neighbours(s) \subseteq State
    BY TailsType DEF Neighbours
  <2> QED BY <2>1 DEF Evaluated, InitialFlag
<1>7. s \notin Evaluated(s)
  BY DEF Evaluated
<1>8. \A t \in State : flag'[t] =
         IF t \in Evaluated(s) THEN InitialFlag(t)
         ELSE IF t = s /\ flag[s] = "fringe"
         THEN IF TransitionTails(s) = {} THEN "terminal" ELSE "initialized"
         ELSE flag[t]
  BY <1>1 DEF ExpandedFlag
<1>9. \A t \in State : t # s /\ flag[t] # "uninitialized" => flag'[t] = flag[t]
  BY <1>6, <1>8
<1>10. flag'[s] \in {"initialized", "terminal"}
  BY <1>7, <1>8
<1>11. flag[s] = "initialized" => flag'[s] = "initialized"
  BY <1>7, <1>8
<1>12. TransitionTails(s) = {} => a = NoAction
  BY DEF GreedyChoices, Terminates
<1>13. policy'[s] # NoAction => flag'[s] = "initialized"
  BY <1>5, <1>7, <1>8, <1>10, <1>12
<1>14. \A t \in Neighbours(s) : flag'[t] # "uninitialized"
  <2> SUFFICES ASSUME NEW t \in Neighbours(s) PROVE flag'[t] # "uninitialized"
    OBVIOUS
  <2>1. t \in State
    BY TailsType DEF Neighbours
  <2>2. CASE flag[s] = "initialized"
    <3>1. flag[t] # "uninitialized"
      BY <2>2 DEF InfoOK
    <3> QED BY <2>1, <3>1, <1>9, <1>10
  <2>3. CASE flag[s] = "fringe"
    <3>1. t \in Evaluated(s) \/ flag[t] # "uninitialized"
      BY <2>3 DEF Evaluated
    <3> QED BY <2>1, <3>1, <1>6, <1>8, <1>9, <1>10
  <2> QED BY <2>2, <2>3
<1>15. InfoOK'
  <2> SUFFICES ASSUME NEW u \in State
               PROVE  /\ flag'[u] = "initialized" =>
                           \A t \in Neighbours(u) : flag'[t] # "uninitialized"
                      /\ flag'[u] # "initialized" => policy'[u] = NoAction
    BY DEF InfoOK
  <2>1. CASE u = s
    BY <2>1, <1>13, <1>14
  <2>2. CASE u # s
    <3>1. flag'[u] = "initialized" <=> flag[u] = "initialized"
      BY <2>2, <1>6, <1>8
    <3>2. \A t \in Neighbours(u) : t \in State
      BY TailsType DEF Neighbours
    <3>3. flag[u] = "initialized" =>
            \A t \in Neighbours(u) : flag'[t] # "uninitialized"
      BY <3>2, <1>9, <1>10 DEF InfoOK
    <3> QED BY <2>2, <3>1, <3>3, <1>4 DEF InfoOK
  <2> QED BY <2>1, <2>2
<1> QED BY <1>9, <1>10, <1>11, <1>13, <1>15

(* The states the stored policy leads to are states that are initialised.  *)
LEMMA PolicySuccessorsType ==
  ASSUME PolicyApplicable, NEW s \in State
  PROVE  /\ PolicySuccessors(s) \subseteq State
         /\ PolicySuccessors(s) \subseteq Neighbours(s)
         /\ InfoOK => \A t \in PolicySuccessors(s) : flag[t] # "uninitialized"
<1>1. PolicySuccessors(s) \subseteq Neighbours(s)
  BY DEF PolicyApplicable, PolicySuccessors, Neighbours
<1>2. Neighbours(s) \subseteq State
  BY TailsType DEF Neighbours
<1>3. ASSUME InfoOK, NEW t \in PolicySuccessors(s)
      PROVE  flag[t] # "uninitialized"
  <2>1. policy[s] # NoAction
    BY <1>3 DEF PolicySuccessors
  <2>2. flag[s] = "initialized"
    BY <1>3, <2>1 DEF InfoOK
  <2> QED BY <1>1, <1>3, <2>2 DEF InfoOK
<1> QED BY <1>1, <1>2, <1>3

-----------------------------------------------------------------------------
(* Backups and the optimal values.                                         *)

(* v encloses the optimal values of the states in S.                       *)
Encloses(v, S) ==
  \A t \in S : /\ v[t]["lower"] <= OptimalValue[t]
               /\ config.use_interval => OptimalValue[t] <= v[t]["upper"]
               /\ v[t]["lower"] <= Infinite /\ v[t]["upper"] <= Infinite

(* Bounds that enclose the optimal values of the neighbours of s are       *)
(* backed up to bounds that enclose the optimal value of s.                *)
LEMMA BellmanEncloses ==
  ASSUME NEW v \in [State -> Bounds], NEW s \in State, s \notin Goal,
         Encloses(v, Neighbours(s))
  PROVE  LET b == Bellman(v, s)
         IN  /\ b.lower <= OptimalValue[s]
             /\ config.use_interval => OptimalValue[s] <= b.upper
             /\ b.lower <= Infinite /\ b.upper <= Infinite
<1>1. /\ TerminationCost[s] \in Int /\ Infinite \in Int
      /\ TerminationCost[s] <= Infinite
      /\ OptimalValue[s] \in Int
      /\ OptimalValue[s] <= TerminationCost[s]
  BY MDPAssumption, StarType, StarEquation
<1>2. Neighbours(s) \subseteq State
  BY TailsType DEF Neighbours
<1>3. TransitionTails(s) # {} =>
        /\ Best(v, "lower", s) \in Int /\ Best(v, "upper", s) \in Int
        /\ Best(StarValue, "lower", s) \in Int
        /\ Best(v, "lower", s) <= Infinite /\ Best(v, "upper", s) <= Infinite
  <2> SUFFICES ASSUME TransitionTails(s) # {}
               PROVE  /\ Best(v, "lower", s) \in Int /\ Best(v, "upper", s) \in Int
                      /\ Best(StarValue, "lower", s) \in Int
                      /\ Best(v, "lower", s) <= Infinite /\ Best(v, "upper", s) <= Infinite
    OBVIOUS
  <2>1. "lower" \in BoundNames /\ "upper" \in BoundNames
    BY DEF BoundNames
  <2>2. PICK a \in TransitionTails(s) : Best(v, "lower", s) = QValue(v, "lower", s, a)
    BY <2>1, BestType
  <2>3. PICK a2 \in TransitionTails(s) : Best(v, "upper", s) = QValue(v, "upper", s, a2)
    BY <2>1, BestType
  <2>4. Best(StarValue, "lower", s) \in Int
    BY <2>1, StarType, BestType
  <2> QED BY <2>1, <2>2, <2>3, <2>4, QValueType
<1>4. TransitionTails(s) # {} => Best(v, "lower", s) <= Best(StarValue, "lower", s)
  <2>1. \A t \in Neighbours(s) : /\ v[t]["lower"] <= StarValue[t]["lower"]
                                 /\ StarValue[t]["lower"] <= Infinite
    BY <1>2, StarType, StarEquation DEF Encloses
  <2> QED BY <2>1, StarType, BestMonotone DEF BoundNames
<1>5. TransitionTails(s) # {} /\ config.use_interval =>
        Best(StarValue, "lower", s) <= Best(v, "upper", s)
  <2>1. config.use_interval =>
          \A t \in Neighbours(s) : /\ StarValue[t]["lower"] <= v[t]["upper"]
                                   /\ v[t]["upper"] <= Infinite
    BY <1>2, StarType DEF Encloses
  <2> QED BY <2>1, StarType, BestMonotone DEF BoundNames
<1>6. CASE Terminates(v, s)
  <2>1. Bellman(v, s) = Point(TerminationCost[s])
    BY <1>6 DEF Bellman
  <2>2. Terminates(StarValue, s)
    BY <1>1, <1>3, <1>4, <1>6 DEF Terminates
  <2>3. OptimalValue[s] = TerminationCost[s]
    BY <2>2, StarEquation
  <2> QED BY <1>1, <2>1, <2>3 DEF Point
<1>7. CASE ~Terminates(v, s)
  <2>1. /\ Bellman(v, s).lower = Best(v, "lower", s)
        /\ Bellman(v, s).upper = Best(v, "upper", s)
    BY <1>7 DEF Bellman
  <2>2. TransitionTails(s) # {} /\ Best(v, "lower", s) < TerminationCost[s]
    BY <1>1, <1>3, <1>7 DEF Terminates
  <2>3. CASE Terminates(StarValue, s)
    <3>1. OptimalValue[s] = TerminationCost[s]
      BY <2>3, StarEquation
    <3>2. Best(StarValue, "lower", s) >= TerminationCost[s]
      BY <2>2, <2>3 DEF Terminates
    <3> QED BY <1>1, <1>3, <1>5, <2>1, <2>2, <3>1, <3>2
  <2>4. CASE ~Terminates(StarValue, s)
    <3>1. OptimalValue[s] = Best(StarValue, "lower", s)
      BY <2>4, StarEquation
    <3> QED BY <1>3, <1>4, <1>5, <2>1, <2>2, <3>1
  <2> QED BY <2>3, <2>4
<1> QED BY <1>6, <1>7

-----------------------------------------------------------------------------
(* The invariant of all searches: the states known so far have bounds that *)
(* enclose their optimal values, and only goals are treated as goals.      *)

Known == {s \in State : flag[s] # "uninitialized"}

Enclosing ==
  /\ Encloses(value, Known)
  /\ \A s \in Goal : flag[s] \in {"uninitialized", "goal"}

(* Enclosing is what BoundsAdmissible asks for, and more.                  *)
LEMMA EnclosingAdmissible == Enclosing => BoundsAdmissible
BY DEF Enclosing, Encloses, Known, BoundsAdmissible

(* Nothing is known initially.                                             *)
LEMMA InitialEnclosing == BaseInit => Enclosing
<1> SUFFICES ASSUME BaseInit PROVE Enclosing
  OBVIOUS
<1>1. \A s \in State : flag[s] = "uninitialized"
  BY DEF BaseInit
<1>2. Known = {}
  BY <1>1 DEF Known
<1>3. \A s \in Goal : flag[s] = "uninitialized"
  BY <1>1, MDPAssumption
<1> QED BY <1>2, <1>3 DEF Enclosing, Encloses

(* Steps that leave the stored information alone keep the bounds.          *)
LEMMA SameEnclosing ==
  ASSUME Enclosing, UNCHANGED base_vars
  PROVE  Enclosing'
BY DEF Enclosing, Encloses, Known, base_vars

(* The value that initialize gives a state encloses its optimal value.     *)
LEMMA InitialValueEncloses ==
  ASSUME NEW s \in State
  PROVE  LET b == InitialValue(s)
         IN  /\ b.lower <= OptimalValue[s]
             /\ config.use_interval => OptimalValue[s] <= b.upper
             /\ b.lower <= Infinite /\ b.upper <= Infinite
<1>1. /\ TerminationCost[s] \in Int /\ Infinite \in Int
      /\ TerminationCost[s] <= Infinite
      /\ Estimate[s] \in Int /\ Estimate[s] <= Infinite
      /\ Estimate[s] <= OptimalValue[s]
      /\ OptimalValue[s] <= TerminationCost[s]
  BY MDPAssumption, HeuristicAssumption, ReferenceAssumption, StarEquation
<1>2. s \in Goal => OptimalValue[s] = TerminationCost[s]
  BY StarEquation
<1> QED BY <1>1, <1>2 DEF InitialValue, Point

(* Evaluating the initial state keeps the bounds.                          *)
LEMMA InitializeEnclosing ==
  ASSUME BaseTypeOK, Enclosing, NEW s \in State, InitializeInitialState(s)
  PROVE  Enclosing'
<1>1. CASE flag[s] # "uninitialized"
  BY <1>1, SameEnclosing DEF InitializeInitialState
<1>2. CASE flag[s] = "uninitialized"
  <2>1. /\ flag' = [flag EXCEPT ![s] = InitialFlag(s)]
        /\ value' = [value EXCEPT ![s] = InitialValue(s)]
        /\ config' = config
    BY <1>2 DEF InitializeInitialState
  <2>2. /\ \A t \in State : t # s => flag'[t] = flag[t] /\ value'[t] = value[t]
        /\ flag'[s] = InitialFlag(s) /\ value'[s] = InitialValue(s)
    BY <2>1 DEF BaseTypeOK
  <2>3. \A t \in Known' : t \in Known \/ t = s
    BY <2>2 DEF Known
  <2>4. Encloses(value', Known')
    BY <2>1, <2>2, <2>3, InitialValueEncloses DEF Enclosing, Encloses, Known
  <2>5. \A t \in Goal : flag'[t] \in {"uninitialized", "goal"}
    <3>1. Goal \subseteq State
      BY MDPAssumption
    <3> QED BY <2>2, <3>1 DEF Enclosing, InitialFlag
  <2> QED BY <2>1, <2>4, <2>5 DEF Enclosing, Encloses
<1> QED BY <1>1, <1>2

(* A backup of a state that is not final keeps the bounds.                 *)
LEMMA BackupEnclosing ==
  ASSUME BaseTypeOK, InfoOK, Enclosing, NEW s \in State,
         flag[s] \in {"fringe", "initialized"}, Backup(s), UNCHANGED config
  PROVE  Enclosing'
<1>1. PICK v \in {ExpandedValue(s)} :
        /\ flag' = ExpandedFlag(s)
        /\ value' = [v EXCEPT ![s] = Bellman(v, s)]
  BY DEF Backup
<1>2. v \in [State -> Bounds] /\ v = ExpandedValue(s)
  BY ExpandedType
<1>3. s \notin Goal
  BY DEF Enclosing
<1>4. Neighbours(s) \subseteq State
  BY TailsType DEF Neighbours
<1>5. /\ Evaluated(s) \subseteq Neighbours(s)
      /\ \A t \in Evaluated(s) : flag[t] = "uninitialized"
      /\ \A t \in Neighbours(s) : t \in Known \/ t \in Evaluated(s)
  BY <1>4 DEF Evaluated, InfoOK, Known
<1>6. \A t \in State : v[t] = IF t \in Evaluated(s) THEN InitialValue(t) ELSE value[t]
  BY <1>2 DEF ExpandedValue
<1>7. Encloses(v, Known \union Evaluated(s))
  <2>1. Encloses(v, Evaluated(s))
    BY <1>4, <1>5, <1>6, InitialValueEncloses DEF Encloses
  <2>2. \A t \in Known : t \in State /\ t \notin Evaluated(s)
    BY <1>5 DEF Known
  <2>3. \A t \in Known : v[t] = value[t]
    BY <1>6, <2>2
  <2>4. Encloses(v, Known)
    BY <2>3 DEF Enclosing, Encloses
  <2> QED BY <2>1, <2>4 DEF Encloses
<1>8. Encloses(v, Neighbours(s))
  BY <1>5, <1>7 DEF Encloses
<1>9. \A t \in State : flag'[t] =
         IF t \in Evaluated(s) THEN InitialFlag(t)
         ELSE IF t = s /\ flag[s] = "fringe"
         THEN IF TransitionTails(s) = {} THEN "terminal" ELSE "initialized"
         ELSE flag[t]
  BY <1>1 DEF ExpandedFlag
<1>10. \A t \in Known' : t \in State /\ (t \in Known \union Evaluated(s))
  BY <1>9 DEF Known
<1>11. /\ value'[s] = Bellman(v, s)
       /\ \A t \in State : t # s => value'[t] = v[t]
  BY <1>1, <1>2
<1>12. LET b == Bellman(v, s)
       IN  /\ b.lower <= OptimalValue[s]
           /\ config.use_interval => OptimalValue[s] <= b.upper
           /\ b.lower <= Infinite /\ b.upper <= Infinite
  BY <1>2, <1>3, <1>8, BellmanEncloses
<1>13. \A t \in Known' : /\ value'[t]["lower"] <= OptimalValue[t]
                         /\ config.use_interval => OptimalValue[t] <= value'[t]["upper"]
                         /\ value'[t]["lower"] <= Infinite
                         /\ value'[t]["upper"] <= Infinite
  BY <1>7, <1>10, <1>11, <1>12 DEF Encloses
<1>14. \A t \in Goal : flag'[t] \in {"uninitialized", "goal"}
  <2>1. Goal \subseteq State
    BY MDPAssumption
  <2> QED BY <1>3, <1>9, <2>1 DEF Enclosing, InitialFlag
<1> QED BY <1>13, <1>14 DEF Enclosing, Encloses
-----------------------------------------------------------------------------
(* Consistent heuristics: the bounds only improve.                         *)

(* The bounds that a state has before the search comes to it: the estimate *)
(* and the termination cost, but for the goals.                            *)
EstimateValue ==
  [s \in State |-> Point(IF s \in Goal THEN TerminationCost[s] ELSE Estimate[s])]
TerminationValue == [s \in State |-> Point(TerminationCost[s])]

(* No transition makes the first bounds of a state worse.  For the upper   *)
(* bound, which only matters with intervals, this is a condition on the    *)
(* costs; it holds in MaxProb problems and where termination costs are     *)
(* infinite.                                                               *)
ConsistentBounds ==
  \A s \in State \ Goal : TransitionTails(s) # {} =>
    /\ Estimate[s] <= Best(EstimateValue, "lower", s)
    /\ (\E k \in Configs : k.use_interval) =>
         Best(TerminationValue, "upper", s) <= TerminationCost[s]

(* The bounds of every state, evaluated or not.                            *)
Stored ==
  [s \in State |-> IF flag[s] = "uninitialized" THEN InitialValue(s) ELSE value[s]]

(* A backup of any state would improve its bounds.                         *)
Improving ==
  \A s \in State \ Goal :
    /\ TransitionTails(s) # {} => Stored[s]["lower"] <= Best(Stored, "lower", s)
    /\ config.use_interval =>
         /\ Stored[s]["upper"] <= TerminationCost[s]
         /\ TransitionTails(s) # {} =>
              Best(Stored, "upper", s) <= Stored[s]["upper"]

(* The stored bounds are bounds of all states.                             *)
LEMMA StoredEncloses ==
  ASSUME BaseTypeOK, Enclosing
  PROVE  Stored \in [State -> Bounds] /\ Encloses(Stored, State)
<1>1. Stored \in [State -> Bounds]
  BY InitialType DEF BaseTypeOK, Stored
<1>2. \A s \in State : flag[s] = "uninitialized" => Stored[s] = InitialValue(s)
  BY DEF Stored
<1>3. \A s \in State : flag[s] # "uninitialized" =>
        Stored[s] = value[s] /\ s \in Known
  BY DEF Stored, Known
<1>4. Encloses(value, Known)
  BY DEF Enclosing
<1>5. ASSUME NEW s \in State
      PROVE  /\ Stored[s]["lower"] <= OptimalValue[s]
             /\ config.use_interval => OptimalValue[s] <= Stored[s]["upper"]
             /\ Stored[s]["lower"] <= Infinite /\ Stored[s]["upper"] <= Infinite
  <2>1. CASE flag[s] = "uninitialized"
    BY <1>2, <2>1, InitialValueEncloses
  <2>2. CASE flag[s] # "uninitialized"
    BY <1>3, <1>4, <2>2 DEF Encloses
  <2> QED BY <2>1, <2>2
<1> QED BY <1>1, <1>5 DEF Encloses

(* The fields of the value that initialize gives a state.                  *)
LEMMA InitialFields ==
  ASSUME NEW s \in State
  PROVE  /\ TerminationCost[s] \in Int /\ TerminationCost[s] <= Infinite
         /\ Estimate[s] \in Int /\ Estimate[s] <= Infinite
         /\ InitialValue(s)["lower"] =
               IF s \in Goal THEN TerminationCost[s] ELSE Estimate[s]
         /\ config.use_interval =>
               InitialValue(s)["upper"] = TerminationCost[s]
<1>1. /\ TerminationCost[s] \in Int /\ TerminationCost[s] <= Infinite
      /\ Estimate[s] \in Int /\ Estimate[s] <= Infinite
  BY MDPAssumption, HeuristicAssumption
<1>2. /\ InitialValue(s)["lower"] =
            IF s \in Goal THEN TerminationCost[s] ELSE Estimate[s]
      /\ config.use_interval => InitialValue(s)["upper"] = TerminationCost[s]
  BY DEF InitialValue, Point
<1> QED BY <1>1, <1>2

(* Before anything is evaluated, this is what a consistent heuristic means.*)
LEMMA InitialImproving ==
  ASSUME BaseInit, ConsistentBounds
  PROVE  Improving
<1>1. \A s \in State : Stored[s] = InitialValue(s)
  BY DEF BaseInit, Stored
<1>2. Stored \in [State -> Bounds]
  BY <1>1, InitialType DEF Stored
<1>3. /\ EstimateValue \in [State -> Bounds]
      /\ TerminationValue \in [State -> Bounds]
  BY MDPAssumption, HeuristicAssumption
     DEF EstimateValue, TerminationValue, Point, Bounds
<1>4. \A s \in State : /\ EstimateValue[s]["lower"] <= Stored[s]["lower"]
                       /\ Stored[s]["lower"] <= Infinite
  <2>1. \A s \in State : EstimateValue[s]["lower"] =
          IF s \in Goal THEN TerminationCost[s] ELSE Estimate[s]
    BY DEF EstimateValue, Point
  <2> QED BY <1>1, InitialFields, <2>1
<1>5. config.use_interval =>
        \A s \in State : /\ Stored[s]["upper"] <= TerminationValue[s]["upper"]
                         /\ TerminationValue[s]["upper"] <= Infinite
  <2>1. \A s \in State : TerminationValue[s]["upper"] = TerminationCost[s]
    BY DEF TerminationValue, Point
  <2> QED BY <1>1, InitialFields, <2>1
<1> SUFFICES ASSUME NEW s \in State \ Goal
             PROVE  /\ TransitionTails(s) # {} =>
                         Stored[s]["lower"] <= Best(Stored, "lower", s)
                    /\ config.use_interval =>
                         /\ Stored[s]["upper"] <= TerminationCost[s]
                         /\ TransitionTails(s) # {} =>
                              Best(Stored, "upper", s) <= Stored[s]["upper"]
  BY DEF Improving
<1>6. /\ TerminationCost[s] \in Int
      /\ Stored[s]["lower"] = Estimate[s] /\ Estimate[s] \in Int
      /\ config.use_interval => Stored[s]["upper"] = TerminationCost[s]
  BY <1>1, InitialFields
<1>7. Neighbours(s) \subseteq State
  BY TailsType DEF Neighbours
<1>8. ASSUME TransitionTails(s) # {}
      PROVE  /\ Estimate[s] <= Best(Stored, "lower", s)
             /\ config.use_interval =>
                  Best(Stored, "upper", s) <= TerminationCost[s]
  <2>1. /\ Estimate[s] <= Best(EstimateValue, "lower", s)
        /\ config.use_interval =>
             Best(TerminationValue, "upper", s) <= TerminationCost[s]
    BY <1>8 DEF ConsistentBounds, BaseInit
  <2>2. "lower" \in BoundNames /\ "upper" \in BoundNames
    BY DEF BoundNames
  <2>3. Best(EstimateValue, "lower", s) <= Best(Stored, "lower", s)
    BY <1>2, <1>3, <1>4, <1>7, <1>8, <2>2, BestMonotone
  <2>4. config.use_interval =>
          Best(Stored, "upper", s) <= Best(TerminationValue, "upper", s)
    BY <1>2, <1>3, <1>5, <1>7, <1>8, <2>2, BestMonotone
  <2>5. /\ Best(EstimateValue, "lower", s) \in Int
        /\ Best(TerminationValue, "upper", s) \in Int
        /\ Best(Stored, "lower", s) \in Int
        /\ Best(Stored, "upper", s) \in Int
    BY <1>2, <1>3, <1>8, <2>2, BestType
  <2> QED BY <1>6, <2>1, <2>3, <2>4, <2>5
<1> QED BY <1>6, <1>8

(* Steps that leave the stored information alone improve nothing.          *)
LEMMA SameImproving ==
  ASSUME BaseTypeOK, Improving, UNCHANGED base_vars
  PROVE  Improving' /\ BoundsTighten
<1>1. /\ Stored' = Stored /\ config' = config /\ flag' = flag /\ value' = value
  BY DEF Stored, base_vars, InitialValue
<1>2. Improving'
  BY <1>1 DEF Improving
<1>3. \A s \in State : value[s].lower \in Int /\ value[s].upper \in Int
  BY DEF BaseTypeOK, Bounds
<1> QED BY <1>1, <1>2, <1>3 DEF BoundsTighten

(* Evaluating the initial state gives it the bounds it was taken to have.  *)
LEMMA InitializeImproving ==
  ASSUME BaseTypeOK, Improving, NEW s \in State, InitializeInitialState(s)
  PROVE  Improving' /\ BoundsTighten
<1>1. CASE flag[s] # "uninitialized"
  BY <1>1, SameImproving DEF InitializeInitialState
<1>2. CASE flag[s] = "uninitialized"
  <2>1. /\ flag' = [flag EXCEPT ![s] = InitialFlag(s)]
        /\ value' = [value EXCEPT ![s] = InitialValue(s)]
        /\ config' = config
    BY <1>2 DEF InitializeInitialState
  <2>2. InitialFlag(s) # "uninitialized"
    BY DEF InitialFlag
  <2>3. \A t \in State : InitialValue(t)' = InitialValue(t)
    BY <2>1 DEF InitialValue
  <2>4. \A t \in State : t # s => flag'[t] = flag[t] /\ value'[t] = value[t]
    BY <2>1 DEF BaseTypeOK
  <2>5. flag'[s] = InitialFlag(s) /\ value'[s] = InitialValue(s)
    BY <2>1 DEF BaseTypeOK
  <2>6. Stored' = Stored
    BY <1>2, <2>2, <2>3, <2>4, <2>5 DEF Stored
  <2>7. Improving'
    BY <2>1, <2>6 DEF Improving
  <2>8. \A t \in State : value[t].lower \in Int /\ value[t].upper \in Int
    BY DEF BaseTypeOK, Bounds
  <2> QED BY <1>2, <2>4, <2>7, <2>8 DEF BoundsTighten
<1> QED BY <1>1, <1>2

(* Where bounds of the neighbours say that terminating is best, it is.     *)
LEMMA TerminatesOptimal ==
  ASSUME NEW v \in [State -> Bounds], NEW s \in State, s \notin Goal,
         Encloses(v, Neighbours(s)), Terminates(v, s)
  PROVE  OptimalValue[s] = TerminationCost[s]
<1>1. Terminates(StarValue, s)
  <2>1. CASE TransitionTails(s) = {}
    BY <2>1 DEF Terminates
  <2>2. CASE TransitionTails(s) # {}
    <3>1. "lower" \in BoundNames
      BY DEF BoundNames
    <3>2. Neighbours(s) \subseteq State
      BY TailsType DEF Neighbours
    <3>3. \A t \in Neighbours(s) : /\ v[t]["lower"] <= StarValue[t]["lower"]
                                   /\ StarValue[t]["lower"] <= Infinite
      BY <3>2, StarType, StarEquation DEF Encloses
    <3>4. Best(v, "lower", s) <= Best(StarValue, "lower", s)
      BY <2>2, <3>1, <3>3, StarType, BestMonotone
    <3>5. Best(v, "lower", s) \in Int /\ Best(StarValue, "lower", s) \in Int
      BY <2>2, <3>1, StarType, BestType
    <3>6. Best(v, "lower", s) >= TerminationCost[s] /\ TerminationCost[s] \in Int
      BY <2>2, MDPAssumption DEF Terminates
    <3> QED BY <3>4, <3>5, <3>6 DEF Terminates
  <2> QED BY <2>1, <2>2
<1> QED BY <1>1, StarEquation

(* Values that agree on the neighbours of s have the same best Q-value.    *)
LEMMA BestSame ==
  ASSUME NEW v \in [State -> Bounds], NEW w \in [State -> Bounds],
         NEW b \in BoundNames, NEW s \in State, TransitionTails(s) # {},
         \A t \in Neighbours(s) : v[t] = w[t] /\ w[t][b] <= Infinite
  PROVE  Best(v, b, s) = Best(w, b, s)
<1>1. \A t \in Neighbours(s) : v[t][b] \in Int /\ w[t][b] \in Int
  <2>1. Neighbours(s) \subseteq State
    BY TailsType DEF Neighbours
  <2>2. \A t \in Neighbours(s) : v[t] \in Bounds /\ w[t] \in Bounds
    BY <2>1
  <2> QED BY <2>2, BoundType
<1>2. \A t \in Neighbours(s) : v[t][b] <= w[t][b] /\ w[t][b] <= Infinite
  BY <1>1
<1>3. \A t \in Neighbours(s) : w[t][b] <= v[t][b] /\ v[t][b] <= Infinite
  BY <1>1
<1>4. Best(v, b, s) <= Best(w, b, s)
  BY <1>2, BestMonotone
<1>5. Best(w, b, s) <= Best(v, b, s)
  BY <1>3, BestMonotone
<1>6. Best(v, b, s) \in Int /\ Best(w, b, s) \in Int
  BY BestType
<1> QED BY <1>4, <1>5, <1>6

(* A backup improves the bounds of its state, and leaves all others where  *)
(* a backup would improve them.                                            *)
LEMMA BackupImproving ==
  ASSUME BaseTypeOK, InfoOK, Enclosing, Improving, NEW s \in State,
         flag[s] \in {"fringe", "initialized"}, Backup(s), UNCHANGED config
  PROVE  Improving' /\ BoundsTighten
<1>1. PICK v \in {ExpandedValue(s)} :
        /\ flag' = ExpandedFlag(s)
        /\ value' = [v EXCEPT ![s] = Bellman(v, s)]
  BY DEF Backup
<1>2. v \in [State -> Bounds] /\ v = ExpandedValue(s)
  BY ExpandedType
<1>3. s \notin Goal
  BY DEF Enclosing
<1>4. /\ Stored \in [State -> Bounds]
      /\ Encloses(Stored, State)
      /\ Neighbours(s) \subseteq State
  BY StoredEncloses, TailsType DEF Neighbours
<1>5. /\ \A t \in Evaluated(s) : flag[t] = "uninitialized"
      /\ \A t \in Neighbours(s) : flag[t] # "uninitialized" \/ t \in Evaluated(s)
  BY <1>4 DEF Evaluated, InfoOK
<1>6. \A t \in State : v[t] = IF t \in Evaluated(s) THEN InitialValue(t) ELSE value[t]
  BY <1>2 DEF ExpandedValue
<1>7. \A t \in State : flag'[t] =
         IF t \in Evaluated(s) THEN InitialFlag(t)
         ELSE IF t = s /\ flag[s] = "fringe"
         THEN IF TransitionTails(s) = {} THEN "terminal" ELSE "initialized"
         ELSE flag[t]
  BY <1>1 DEF ExpandedFlag
<1> DEFINE b == Bellman(v, s)
           after == Stored'
<1>8. /\ value'[s] = b
      /\ \A t \in State : t # s => value'[t] = v[t]
  BY <1>1, <1>2
<1>9. \A t \in Neighbours(s) : v[t] = Stored[t]
  BY <1>4, <1>5, <1>6 DEF Stored
<1>10. after[s] = b /\ \A t \in State : t # s => after[t] = Stored[t]
  <2>1. \A t \in State : InitialValue(t)' = InitialValue(t)
    BY DEF InitialValue
  <2>2. \A t \in State : InitialFlag(t) # "uninitialized"
    BY DEF InitialFlag
  <2>3. flag'[s] # "uninitialized"
    BY <1>5, <1>7
  <2>4. after[s] = b
    BY <1>8, <2>3 DEF Stored
  <2>5. ASSUME NEW t \in State, t # s PROVE after[t] = Stored[t]
    <3>1. CASE t \in Evaluated(s)
      <4>1. flag'[t] # "uninitialized" /\ value'[t] = InitialValue(t)
        BY <1>6, <1>7, <1>8, <2>2, <2>5, <3>1
      <4> QED BY <1>5, <3>1, <4>1 DEF Stored
    <3>2. CASE t \notin Evaluated(s)
      <4>1. flag'[t] = flag[t] /\ value'[t] = value[t]
        BY <1>6, <1>7, <1>8, <2>5, <3>2
      <4> QED BY <2>1, <4>1 DEF Stored
    <3> QED BY <3>1, <3>2
  <2> QED BY <2>4, <2>5
<1>11. /\ b \in Bounds
       /\ b.lower <= Infinite /\ b.upper <= Infinite
  <2>1. Encloses(v, Neighbours(s))
    BY <1>4, <1>9 DEF Encloses
  <2> QED BY <1>2, <1>3, <2>1, BellmanEncloses, BellmanType
<1>12. /\ TerminationCost[s] \in Int /\ OptimalValue[s] \in Int
       /\ OptimalValue[s] <= TerminationCost[s]
  BY MDPAssumption, StarType, StarEquation
<1>13. "lower" \in BoundNames /\ "upper" \in BoundNames
  BY DEF BoundNames
<1>14. TransitionTails(s) # {} =>
         /\ Best(v, "lower", s) = Best(Stored, "lower", s)
         /\ Best(v, "upper", s) = Best(Stored, "upper", s)
         /\ Best(v, "lower", s) \in Int /\ Best(v, "upper", s) \in Int
  <2>1. \A t \in Neighbours(s) : /\ Stored[t]["lower"] <= Infinite
                                 /\ Stored[t]["upper"] <= Infinite
    BY <1>4 DEF Encloses
  <2>2. TransitionTails(s) # {} => Best(v, "lower", s) = Best(Stored, "lower", s)
    BY <1>2, <1>4, <1>9, <1>13, <2>1, BestSame
  <2>3. TransitionTails(s) # {} => Best(v, "upper", s) = Best(Stored, "upper", s)
    BY <1>2, <1>4, <1>9, <1>13, <2>1, BestSame
  <2>4. TransitionTails(s) # {} =>
          Best(v, "lower", s) \in Int /\ Best(v, "upper", s) \in Int
    BY <1>2, <1>13, BestType
  <2> QED BY <2>2, <2>3, <2>4
<1>15. /\ Stored[s]["lower"] \in Int /\ Stored[s]["upper"] \in Int
       /\ b.lower \in Int /\ b.upper \in Int
  <2>1. Stored[s] \in Bounds
    BY <1>4
  <2> QED BY <1>11, <2>1 DEF Bounds
<1>16. /\ Stored[s]["lower"] <= OptimalValue[s]
       /\ config.use_interval => OptimalValue[s] <= Stored[s]["upper"]
       /\ TransitionTails(s) # {} => Stored[s]["lower"] <= Best(Stored, "lower", s)
       /\ config.use_interval =>
            /\ Stored[s]["upper"] <= TerminationCost[s]
            /\ TransitionTails(s) # {} =>
                 Best(Stored, "upper", s) <= Stored[s]["upper"]
  BY <1>3, <1>4 DEF Encloses, Improving
<1>17. /\ Stored[s]["lower"] <= b.lower
       /\ TransitionTails(s) # {} => b.lower <= Best(Stored, "lower", s)
       /\ config.use_interval =>
            /\ b.upper <= Stored[s]["upper"]
            /\ TransitionTails(s) # {} => Best(Stored, "upper", s) <= b.upper
  <2>1. CASE Terminates(v, s)
    <3>1. b.lower = TerminationCost[s] /\ b.upper = TerminationCost[s]
      BY <2>1 DEF Bellman, Point
    <3>2. TransitionTails(s) # {} => TerminationCost[s] <= Best(v, "lower", s)
      BY <1>12, <1>14, <2>1 DEF Terminates
    <3>3. OptimalValue[s] = TerminationCost[s]
      <4>1. Encloses(v, Neighbours(s))
        BY <1>4, <1>9 DEF Encloses
      <4> QED BY <1>2, <1>3, <2>1, <4>1, TerminatesOptimal
    <3> HIDE DEF b
    <3> QED BY <1>12, <1>14, <1>15, <1>16, <3>1, <3>2, <3>3
  <2>2. CASE ~Terminates(v, s)
    <3>1. b.lower = Best(v, "lower", s) /\ b.upper = Best(v, "upper", s)
      BY <2>2 DEF Bellman
    <3>2. TransitionTails(s) # {}
      BY <2>2 DEF Terminates
    <3> HIDE DEF b
    <3> QED BY <1>14, <1>15, <1>16, <3>1, <3>2
  <2> QED BY <2>1, <2>2
<1> HIDE DEF b, after
<1>18. \A t \in State :
         /\ Stored[t]["lower"] \in Int /\ Stored[t]["upper"] \in Int
         /\ Stored[t]["lower"] <= Infinite /\ Stored[t]["upper"] <= Infinite
  <2>1. \A t \in State : Stored[t] \in Bounds
    BY <1>4
  <2> QED BY <1>4, <2>1 DEF Bounds, Encloses
<1>19. \A t \in State :
         /\ after[t] \in Bounds
         /\ after[t]["lower"] <= Infinite
         /\ Stored[t]["lower"] <= after[t]["lower"]
         /\ config.use_interval => after[t]["upper"] <= Stored[t]["upper"]
  <2> SUFFICES ASSUME NEW t \in State
               PROVE  /\ after[t] \in Bounds
                      /\ after[t]["lower"] <= Infinite
                      /\ Stored[t]["lower"] <= after[t]["lower"]
                      /\ config.use_interval =>
                           after[t]["upper"] <= Stored[t]["upper"]
    OBVIOUS
  <2>1. CASE t = s
    BY <1>10, <1>11, <1>17, <2>1
  <2>2. CASE t # s
    <3>1. after[t] = Stored[t] /\ Stored[t] \in Bounds
      BY <1>4, <1>10, <2>2
    <3> QED BY <1>18, <3>1
  <2> QED BY <2>1, <2>2
<1>20. after \in [State -> Bounds]
  <2>1. after = [t \in State |-> after[t]]
    BY DEF after, Stored
  <2> QED BY <1>19, <2>1
<1>21. ASSUME NEW t \in State, TransitionTails(t) # {}
       PROVE  /\ Best(Stored, "lower", t) <= Best(after, "lower", t)
              /\ config.use_interval =>
                   Best(after, "upper", t) <= Best(Stored, "upper", t)
              /\ Best(Stored, "lower", t) \in Int /\ Best(after, "lower", t) \in Int
              /\ Best(Stored, "upper", t) \in Int /\ Best(after, "upper", t) \in Int
  <2>1. Neighbours(t) \subseteq State
    BY TailsType DEF Neighbours
  <2>2. Best(Stored, "lower", t) <= Best(after, "lower", t)
    BY <1>4, <1>13, <1>19, <1>20, <1>21, <2>1, BestMonotone
  <2>3. config.use_interval =>
          Best(after, "upper", t) <= Best(Stored, "upper", t)
    BY <1>4, <1>13, <1>18, <1>19, <1>20, <1>21, <2>1, BestMonotone
  <2>4. /\ Best(Stored, "lower", t) \in Int /\ Best(after, "lower", t) \in Int
        /\ Best(Stored, "upper", t) \in Int /\ Best(after, "upper", t) \in Int
    BY <1>4, <1>13, <1>20, <1>21, BestType
  <2> QED BY <2>2, <2>3, <2>4
<1>22. ASSUME NEW t \in State \ Goal
       PROVE  /\ TransitionTails(t) # {} =>
                   after[t]["lower"] <= Best(after, "lower", t)
              /\ config.use_interval =>
                   /\ after[t]["upper"] <= TerminationCost[t]
                   /\ TransitionTails(t) # {} =>
                        Best(after, "upper", t) <= after[t]["upper"]
  <2>1. /\ TransitionTails(t) # {} =>
             Stored[t]["lower"] <= Best(Stored, "lower", t)
        /\ config.use_interval =>
             /\ Stored[t]["upper"] <= TerminationCost[t]
             /\ TransitionTails(t) # {} =>
                  Best(Stored, "upper", t) <= Stored[t]["upper"]
    BY DEF Improving
  <2>2. /\ after[t]["lower"] \in Int /\ after[t]["upper"] \in Int
        /\ TerminationCost[t] \in Int
    <3>1. after[t] \in Bounds
      BY <1>19
    <3> QED BY <3>1, MDPAssumption DEF Bounds
  <2>3. CASE t = s
    <3>1. after[t] = b
      BY <1>10, <2>3
    <3> QED BY <1>15, <1>17, <1>16, <1>12, <1>21, <2>2, <2>3, <3>1
  <2>4. CASE t # s
    <3>1. after[t] = Stored[t]
      BY <1>10, <2>4
    <3> QED BY <1>21, <2>1, <2>2, <3>1
  <2> QED BY <2>3, <2>4
<1>23. Improving'
  BY <1>22 DEF Improving, after
<1>24. BoundsTighten
  <2>1. ASSUME NEW t \in State, flag[t] # "uninitialized"
        PROVE  Stored[t] = value[t] /\ after[t] = value'[t]
    <3>1. flag'[t] # "uninitialized"
      BY <1>5, <1>7, <2>1
    <3> QED BY <2>1, <3>1 DEF Stored, after
  <2> QED BY <1>19, <2>1 DEF BoundsTighten
<1> QED BY <1>23, <1>24

-----------------------------------------------------------------------------
(* Converged states: what a backup leaves behind, and what disturbs it.    *)

(* The value of s is that of its policy or, with intervals, known up to    *)
(* the tolerance.  Only the policy successors of s matter to it.           *)
Valued(s) ==
  IF config.use_interval
  THEN ApproxEqual(value[s]["lower"], value[s]["upper"])
  ELSE IF policy[s] = NoAction
  THEN value[s]["lower"] = TerminationCost[s]
  ELSE /\ value[s]["lower"] < TerminationCost[s]
       /\ value[s]["lower"] = QValue(value, "lower", s, policy[s])

(* An expanded state without a policy is worth its termination.            *)
NoActionValued ==
  \A s \in State : flag[s] = "initialized" /\ policy[s] = NoAction =>
     value[s] = Point(TerminationCost[s])

(* A state without a policy that is worth its termination is valued.       *)
LEMMA TerminationValued ==
  ASSUME NEW s \in State, policy[s] = NoAction,
         value[s] = Point(TerminationCost[s])
  PROVE  Valued(s)
BY ApproxEqualReflexive DEF Valued, Point

(* What a backup of s leaves of s and of the states known before.          *)
LEMMA BackupLeaves ==
  ASSUME BaseTypeOK, PolicyApplicable, NEW s \in State, Backup(s)
  PROVE  /\ \A t \in State : t # s /\ flag[t] # "uninitialized" =>
              value'[t] = value[t] /\ policy'[t] = policy[t]
         /\ policy'[s] = NoAction => value'[s] = Point(TerminationCost[s])
         /\ policy'[s] # NoAction =>
              /\ policy'[s] \in TransitionTails(s)
              /\ value'[s]["lower"] < TerminationCost[s]
              /\ value'[s]["lower"] = QValue(value', "lower", s, policy'[s])
<1>1. PICK v \in {ExpandedValue(s)} :
        /\ value' = [v EXCEPT ![s] = Bellman(v, s)]
        /\ \E a \in GreedyChoices(v, s) : policy' = [policy EXCEPT ![s] = a]
  BY DEF Backup
<1>2. PICK a \in GreedyChoices(v, s) : policy' = [policy EXCEPT ![s] = a]
  BY <1>1
<1>3. /\ v \in [State -> Bounds] /\ v = ExpandedValue(s)
      /\ policy \in [State -> Action \union {NoAction}]
  BY ExpandedType DEF BaseTypeOK
<1>4. /\ policy'[s] = a /\ \A t \in State : t # s => policy'[t] = policy[t]
      /\ value'[s] = Bellman(v, s) /\ \A t \in State : t # s => value'[t] = v[t]
  BY <1>1, <1>2, <1>3
<1>5. \A t \in State : flag[t] # "uninitialized" => v[t] = value[t]
  BY <1>3 DEF ExpandedValue, Evaluated
<1>6. CASE Terminates(v, s)
  BY <1>4, <1>5, <1>6 DEF GreedyChoices, Bellman
<1>7. CASE ~Terminates(v, s)
  <2>1. TransitionTails(s) # {} /\ ~(Best(v, "lower", s) >= TerminationCost[s])
    BY <1>7 DEF Terminates
  <2>2. a \in Greedy(v, s)
    BY <1>7 DEF GreedyChoices
  <2>3. a \in TransitionTails(s) /\ QValue(v, "lower", s, a) = Best(v, "lower", s)
    BY <1>7, <2>2 DEF Greedy
  <2>4. a # NoAction
    BY <2>3, TailsType, HeuristicAssumption
  <2>5. value'[s]["lower"] = Best(v, "lower", s)
    BY <1>4, <1>7 DEF Bellman
  <2>6. Best(v, "lower", s) \in Int /\ TerminationCost[s] \in Int
    BY <1>3, <2>1, BestType, MDPAssumption DEF BoundNames
  <2>7. NonSource(s, a) \subseteq State \ {s}
    BY <2>3, TailsType DEF NonSource
  <2>8. QValue(v, "lower", s, a) = QValue(value', "lower", s, a)
    BY <1>4, <2>7, QValueSame
  <2> QED BY <1>4, <1>5, <2>1, <2>3, <2>4, <2>5, <2>6, <2>8
<1> QED BY <1>6, <1>7

(* A backup leaves its state valued, with intervals if it converged.       *)
LEMMA BackupValues ==
  ASSUME BaseTypeOK, PolicyApplicable, NEW s \in State, Backup(s),
         UNCHANGED config,
         config.use_interval /\ policy'[s] # NoAction => ValueConverged(s)
  PROVE  Valued(s)'
<1>1. CASE policy'[s] = NoAction
  <2>1. value'[s] = Point(TerminationCost[s])
    BY <1>1, BackupLeaves
  <2> QED BY <1>1, <2>1, ApproxEqualReflexive DEF Valued, Point
<1>2. CASE policy'[s] # NoAction
  BY <1>2, BackupLeaves DEF Valued, ValueConverged, Converged
<1> QED BY <1>1, <1>2

(* A backup of s leaves another state valued unless it changes the value   *)
(* of s and the policy of that state leads to s.                           *)
LEMMA BackupKeepsValued ==
  ASSUME BaseTypeOK, PolicyApplicable, InfoOK, NEW s \in State, Backup(s),
         UNCHANGED config, NEW t \in State, t # s, flag[t] # "uninitialized",
         Valued(t),
         \/ config.use_interval
         \/ s \notin PolicySuccessors(t)
         \/ value'[s]["lower"] = value[s]["lower"]
  PROVE  Valued(t)'
<1>1. value'[t] = value[t] /\ policy'[t] = policy[t]
  BY BackupLeaves
<1>2. CASE config.use_interval \/ policy[t] = NoAction
  BY <1>1, <1>2 DEF Valued
<1>3. CASE ~config.use_interval /\ policy[t] # NoAction
  <2>1. PolicySuccessors(t) = NonSource(t, policy[t])
    BY <1>3 DEF PolicySuccessors
  <2>2. \A u \in PolicySuccessors(t) : value'[u]["lower"] = value[u]["lower"]
    BY <1>3, BackupLeaves, PolicySuccessorsType
  <2>3. QValue(value', "lower", t, policy[t]) = QValue(value, "lower", t, policy[t])
    BY <2>1, <2>2, QValueSame
  <2> QED BY <1>1, <1>3, <2>3 DEF Valued
<1> QED BY <1>2, <1>3

(* A backup keeps NoActionValued.                                          *)
LEMMA BackupNoAction ==
  ASSUME BaseTypeOK, PolicyApplicable, InfoOK, NoActionValued,
         NEW s \in State, flag[s] \in {"fringe", "initialized"}, Backup(s)
  PROVE  NoActionValued'
<1> SUFFICES ASSUME NEW t \in State, flag'[t] = "initialized",
                    policy'[t] = NoAction
             PROVE  value'[t] = Point(TerminationCost[t])
  BY DEF NoActionValued
<1>1. CASE t = s
  BY <1>1, BackupLeaves
<1>2. CASE t # s
  <2>1. flag[t] = "initialized"
    BY <1>2 DEF Backup, ExpandedFlag, InitialFlag
  <2> QED BY <1>2, <2>1, BackupLeaves DEF NoActionValued
<1> QED BY <1>1, <1>2

(* If a backup would improve bounds everywhere, then a state whose value   *)
(* is that of its policy has converged: its policy is greedy.              *)
LEMMA ValuedConverged ==
  ASSUME BaseTypeOK, PolicyApplicable, Enclosing,
         config.use_interval \/ Improving,
         NEW s \in State \ Goal, flag[s] # "uninitialized",
         \A t \in Neighbours(s) : flag[t] # "uninitialized", Valued(s)
  PROVE  IsConverged(s)
<1>1. CASE config.use_interval
  BY <1>1 DEF Valued, IsConverged
<1>2. CASE ~config.use_interval
  <2>1. /\ value \in [State -> Bounds] /\ value[s]["lower"] \in Int
        /\ TerminationCost[s] \in Int
    BY MDPAssumption DEF BaseTypeOK, Bounds
  <2>2. TransitionTails(s) # {} => value[s]["lower"] <= Best(value, "lower", s)
    <3> SUFFICES ASSUME TransitionTails(s) # {}
                 PROVE  value[s]["lower"] <= Best(value, "lower", s)
      OBVIOUS
    <3>1. Neighbours(s) \subseteq State
      BY TailsType DEF Neighbours
    <3>2. Stored \in [State -> Bounds] /\ Encloses(Stored, State)
      BY StoredEncloses
    <3>3. \A t \in Neighbours(s) : Stored[t] = value[t]
      BY <3>1 DEF Stored
    <3>4. \A t \in Neighbours(s) : Stored[t]["lower"] <= Infinite
      BY <3>1, <3>2 DEF Encloses
    <3>5. Best(value, "lower", s) = Best(Stored, "lower", s)
      BY <2>1, <3>2, <3>3, <3>4, BestSame DEF BoundNames
    <3>6. Stored[s]["lower"] <= Best(Stored, "lower", s)
      BY <1>2 DEF Improving
    <3>7. Stored[s] = value[s]
      BY DEF Stored
    <3> QED BY <3>5, <3>6, <3>7
  <2>3. TransitionTails(s) # {} =>
          /\ Best(value, "lower", s) \in Int
          /\ \A a \in TransitionTails(s) :
               Best(value, "lower", s) <= QValue(value, "lower", s, a)
    BY <2>1, BestType DEF BoundNames
  <2>4. CASE policy[s] = NoAction
    <3>1. value[s]["lower"] = TerminationCost[s]
      BY <1>2, <2>4 DEF Valued
    <3>2. Terminates(value, s)
      BY <2>1, <2>2, <2>3, <3>1 DEF Terminates
    <3>3. Greedy(value, s) = {} /\ Bellman(value, s).lower = value[s].lower
      BY <3>1, <3>2 DEF Greedy, Bellman, Point
    <3> QED BY <1>2, <2>4, <3>3, ApproxEqualReflexive DEF IsConverged
  <2>5. CASE policy[s] # NoAction
    <3>1. /\ value[s]["lower"] < TerminationCost[s]
          /\ value[s]["lower"] = QValue(value, "lower", s, policy[s])
      BY <1>2, <2>5 DEF Valued
    <3>2. policy[s] \in TransitionTails(s)
      BY <2>5 DEF PolicyApplicable
    <3>3. value[s]["lower"] = Best(value, "lower", s)
      BY <2>1, <2>2, <2>3, <3>1, <3>2
    <3>4. ~Terminates(value, s)
      BY <2>1, <3>1, <3>2, <3>3 DEF Terminates
    <3>5. policy[s] \in Greedy(value, s)
      BY <3>1, <3>2, <3>3, <3>4 DEF Greedy
    <3>6. Bellman(value, s).lower = value[s].lower
      BY <3>3, <3>4 DEF Bellman
    <3> QED BY <1>2, <3>5, <3>6, ApproxEqualReflexive DEF IsConverged
  <2> QED BY <2>4, <2>5
<1> QED BY <1>1, <1>2

-----------------------------------------------------------------------------
(* Solutions: what a converged policy graph says about its first state.    *)

(* A state that is final when it is evaluated has its optimal value.       *)
LEMMA InitialExact ==
  ASSUME NEW s \in State, InitialFlag(s) \in {"goal", "terminal"}
  PROVE  InitialValue(s) = Point(OptimalValue[s])
<1>1. /\ TerminationCost[s] \in Int /\ Estimate[s] \in Int
      /\ OptimalValue[s] \in Int /\ Estimate[s] <= OptimalValue[s]
      /\ OptimalValue[s] <= TerminationCost[s]
      /\ s \in Goal => OptimalValue[s] = TerminationCost[s]
  BY MDPAssumption, HeuristicAssumption, ReferenceAssumption, StarEquation
<1>2. CASE s \in Goal
  BY <1>1, <1>2 DEF InitialValue
<1>3. CASE s \notin Goal
  <2>1. Estimate[s] = TerminationCost[s]
    BY <1>3 DEF InitialFlag
  <2>2. OptimalValue[s] = Estimate[s]
    BY <1>1, <2>1
  <2> QED BY <1>3, <2>1, <2>2 DEF InitialValue, Point
<1> QED BY <1>2, <1>3

(* Final states are not backed up again, and need not be: their values are *)
(* optimal.                                                                *)
FinalExact ==
  \A s \in State : IsGoalOrTerminal(s) => value[s] = Point(OptimalValue[s])

LEMMA InitialFinal == BaseInit => FinalExact
BY DEF BaseInit, FinalExact, IsGoalOrTerminal

LEMMA SameFinal ==
  ASSUME FinalExact, UNCHANGED base_vars
  PROVE  FinalExact'
BY DEF FinalExact, IsGoalOrTerminal, base_vars

LEMMA InitializeFinal ==
  ASSUME BaseTypeOK, FinalExact, NEW s \in State, InitializeInitialState(s)
  PROVE  FinalExact'
<1>1. CASE flag[s] # "uninitialized"
  BY <1>1, SameFinal DEF InitializeInitialState
<1>2. CASE flag[s] = "uninitialized"
  <2>1. /\ \A t \in State : t # s => flag'[t] = flag[t] /\ value'[t] = value[t]
        /\ flag'[s] = InitialFlag(s) /\ value'[s] = InitialValue(s)
    BY <1>2 DEF BaseTypeOK, InitializeInitialState
  <2> QED BY <2>1, InitialExact DEF FinalExact, IsGoalOrTerminal
<1> QED BY <1>1, <1>2

(* An expanded state becomes final only if it has no transitions.          *)
LEMMA BackupFinal ==
  ASSUME BaseTypeOK, FinalExact, NEW s \in State, s \notin Goal,
         flag[s] \in {"fringe", "initialized"}, Backup(s)
  PROVE  FinalExact'
<1>1. PICK v \in {ExpandedValue(s)} :
        /\ flag' = ExpandedFlag(s)
        /\ value' = [v EXCEPT ![s] = Bellman(v, s)]
  BY DEF Backup
<1>2. v \in [State -> Bounds] /\ v = ExpandedValue(s)
  BY ExpandedType
<1>3. /\ value'[s] = Bellman(v, s)
      /\ \A t \in State : t # s => value'[t] = v[t]
  BY <1>1, <1>2
<1>4. \A t \in State : v[t] = IF t \in Evaluated(s) THEN InitialValue(t) ELSE value[t]
  BY <1>2 DEF ExpandedValue
<1>5. \A t \in State : flag'[t] =
         IF t \in Evaluated(s) THEN InitialFlag(t)
         ELSE IF t = s /\ flag[s] = "fringe"
         THEN IF TransitionTails(s) = {} THEN "terminal" ELSE "initialized"
         ELSE flag[t]
  BY <1>1 DEF ExpandedFlag
<1>6. s \notin Evaluated(s)
  BY DEF Evaluated
<1> SUFFICES ASSUME NEW t \in State, flag'[t] \in {"goal", "terminal"}
             PROVE  value'[t] = Point(OptimalValue[t])
  BY DEF FinalExact, IsGoalOrTerminal
<1>7. CASE t = s
  <2>1. TransitionTails(s) = {}
    BY <1>5, <1>6, <1>7
  <2>2. Terminates(v, s) /\ Terminates(StarValue, s)
    BY <2>1 DEF Terminates
  <2> QED BY <1>3, <1>7, <2>2, StarEquation DEF Bellman
<1>8. CASE t # s /\ t \in Evaluated(s)
  BY <1>3, <1>4, <1>5, <1>8, InitialExact
<1>9. CASE t # s /\ t \notin Evaluated(s)
  BY <1>3, <1>4, <1>5, <1>9 DEF FinalExact, IsGoalOrTerminal
<1> QED BY <1>7, <1>8, <1>9

(* A lower bound that the policy of a state attains is its optimal value   *)
(* if the values of the policy successors are.                             *)
LEMMA AttainedOptimal ==
  ASSUME BaseTypeOK, Enclosing, Epsilon = 0, ~config.use_interval,
         NEW s \in State \ Goal, flag[s] # "uninitialized", IsConverged(s),
         \A t \in PolicySuccessors(s) : value[t]["lower"] = OptimalValue[t]
  PROVE  value[s]["lower"] = OptimalValue[s]
<1>1. /\ value \in [State -> Bounds] /\ value[s]["lower"] \in Int
      /\ value[s]["lower"] <= OptimalValue[s]
      /\ OptimalValue[s] <= TerminationCost[s]
      /\ OptimalValue[s] \in Int /\ TerminationCost[s] \in Int
  BY StarType, StarEquation, MDPAssumption
     DEF BaseTypeOK, Bounds, Enclosing, Encloses, Known
<1>2. Bellman(value, s) \in Bounds
  BY <1>1, BellmanType
<1>3. value[s]["lower"] = Bellman(value, s)["lower"]
  BY <1>1, <1>2 DEF IsConverged, ApproxEqual, Bounds
<1>4. CASE Terminates(value, s)
  BY <1>1, <1>3, <1>4 DEF Bellman, Point
<1>5. CASE ~Terminates(value, s)
  <2>1. TransitionTails(s) # {} /\ Bellman(value, s)["lower"] = Best(value, "lower", s)
    BY <1>5 DEF Terminates, Bellman
  <2>2. PICK best \in TransitionTails(s) :
          QValue(value, "lower", s, best) = Best(value, "lower", s)
    BY <1>1, <2>1, BestType DEF BoundNames
  <2>3. Greedy(value, s) # {}
    BY <1>5, <2>2 DEF Greedy
  <2>4. policy[s] \in Greedy(value, s)
    BY <2>3 DEF IsConverged
  <2>5. PICK a \in TransitionTails(s) :
          policy[s] = a /\ QValue(value, "lower", s, a) = Best(value, "lower", s)
    BY <1>5, <2>4 DEF Greedy
  <2>6. a # NoAction
    BY <2>5, TailsType, HeuristicAssumption
  <2>7. PolicySuccessors(s) = NonSource(s, a) /\ NonSource(s, a) \subseteq State
    BY <2>5, <2>6, TailsType DEF PolicySuccessors
  <2>8. \A t \in NonSource(s, a) : value[t]["lower"] = StarValue[t]["lower"]
    BY <2>7, StarType
  <2>9. QValue(value, "lower", s, a) = QValue(StarValue, "lower", s, a)
    BY <2>8, QValueSame
  <2>10. /\ Best(StarValue, "lower", s) <= QValue(StarValue, "lower", s, a)
         /\ Best(StarValue, "lower", s) \in Int
         /\ QValue(StarValue, "lower", s, a) \in Int
    BY <2>1, StarType, BestType, QValueType DEF BoundNames
  <2>11. OptimalValue[s] <= Best(StarValue, "lower", s)
    <3>1. CASE Terminates(StarValue, s)
      BY <1>1, <2>1, <3>1, StarEquation DEF Terminates
    <3>2. CASE ~Terminates(StarValue, s)
      BY <1>1, <3>2, StarEquation
    <3> QED BY <3>1, <3>2
  <2> QED BY <1>1, <1>3, <2>1, <2>5, <2>9, <2>10, <2>11
<1> QED BY <1>4, <1>5

(* A converged policy graph gives its first state its optimal value: with  *)
(* intervals up to the tolerance, in every MDP; with single values and     *)
(* without a tolerance, where no way leads back.                           *)
LEMMA SolutionOptimal ==
  ASSUME BaseTypeOK, Enclosing, FinalExact,
         config.use_interval \/ (Epsilon = 0 /\ Layered),
         NEW r \in State, HasSolution(r)
  PROVE  ApproxEqual(value[r].lower, OptimalValue[r])
<1>1. PICK W \in SUBSET {t \in State : flag[t] # "uninitialized"} :
        r \in W /\ IsSolution(W)
  BY DEF HasSolution
<1>2. ASSUME NEW s \in W, IsGoalOrTerminal(s)
      PROVE  value[s]["lower"] = OptimalValue[s]
  <2>1. s \in State
    BY <1>1
  <2>2. value[s] = Point(OptimalValue[s])
    BY <1>2, <2>1 DEF FinalExact
  <2> QED BY <2>2 DEF Point
<1>3. CASE config.use_interval
  <2>1. CASE IsGoalOrTerminal(r)
    BY <1>1, <1>2, <2>1, ApproxEqualReflexive
  <2>2. CASE ~IsGoalOrTerminal(r)
    <3>1. ApproxEqual(value[r].lower, value[r].upper)
      BY <1>1, <1>3, <2>2 DEF IsSolution, IsConverged
    <3>2. /\ value[r].lower \in Int /\ value[r].upper \in Int /\ OptimalValue[r] \in Int
          /\ value[r].lower <= OptimalValue[r] /\ OptimalValue[r] <= value[r].upper
          /\ Epsilon \in Nat
      BY <1>1, <1>3, StarType, HeuristicAssumption
         DEF BaseTypeOK, Bounds, Enclosing, Encloses, Known
    <3> QED BY <3>1, <3>2 DEF ApproxEqual
  <2> QED BY <2>1, <2>2
<1>4. CASE ~config.use_interval
  <2>1. PICK layer \in [State -> Nat] :
          \A s \in State : \A t \in Neighbours(s) : layer[t] < layer[s]
    BY <1>4 DEF Layered
  <2> DEFINE Wrong == {s \in W : value[s]["lower"] # OptimalValue[s]}
  <2>2. SUFFICES Wrong = {}
    BY <1>1, ApproxEqualReflexive
  <2>3. SUFFICES ASSUME Wrong # {} PROVE FALSE
    OBVIOUS
  <2>4. Wrong \in SUBSET State
    BY <1>1
  <2>5. PICK s \in Wrong : \A t \in Wrong : layer[s] <= layer[t]
    <3> HIDE DEF Wrong
    <3> QED BY <2>3, <2>4, FirstLayer
  <2>6. s \in Wrong /\ \A t \in Wrong : layer[s] <= layer[t]
    BY <2>5
  <2>7. /\ s \in State /\ s \in W /\ flag[s] # "uninitialized"
        /\ ~IsGoalOrTerminal(s)
    BY <1>2, <2>6
  <2>8. IsConverged(s) /\ PolicySuccessors(s) \subseteq W
    BY <1>1, <2>7 DEF IsSolution
  <2>9. s \notin Goal
    BY <2>7 DEF Enclosing, IsGoalOrTerminal
  <2>10. PolicySuccessors(s) \subseteq Neighbours(s)
    <3>1. CASE policy[s] = NoAction
      BY <3>1 DEF PolicySuccessors
    <3>2. CASE policy[s] # NoAction
      BY <1>4, <2>8, <3>2 DEF PolicySuccessors, IsConverged, Greedy, Neighbours
    <3> QED BY <3>1, <3>2
  <2>11. \A t \in PolicySuccessors(s) : value[t]["lower"] = OptimalValue[t]
    <3> SUFFICES ASSUME NEW t \in PolicySuccessors(s), t \in Wrong PROVE FALSE
      BY <2>8
    <3>1. layer[t] < layer[s] /\ layer[s] <= layer[t]
      BY <2>1, <2>6, <2>7, <2>10
    <3> QED BY <2>4, <2>6, <3>1
  <2>12. value[s]["lower"] = OptimalValue[s]
    BY <1>4, <2>7, <2>8, <2>9, <2>11, AttainedOptimal
  <2> QED BY <2>6, <2>12
<1> QED BY <1>3, <1>4

(* A set of states that are known and have converged, closed under the     *)
(* policy up to final states, makes a solution.                            *)
LEMMA ClosedSolution ==
  ASSUME NEW S \in SUBSET State,
         \A s \in S : /\ flag[s] # "uninitialized"
                      /\ IsConverged(s)
                      /\ PolicySuccessors(s) \subseteq State
                      /\ \A t \in PolicySuccessors(s) : t \in S \/ IsGoalOrTerminal(t),
         NEW r \in State, r \in S \/ IsGoalOrTerminal(r)
  PROVE  HasSolution(r)
<1> DEFINE states == S \union {t \in State : IsGoalOrTerminal(t)}
<1>1. states \in SUBSET {t \in State : flag[t] # "uninitialized"}
  BY DEF IsGoalOrTerminal
<1>2. IsSolution(states)
  BY DEF IsSolution
<1>3. r \in states
  OBVIOUS
<1> HIDE DEF states
<1> QED BY <1>1, <1>2, <1>3 DEF HasSolution
=============================================================================
