------------------------- MODULE ExhaustiveAOProofs -------------------------
(***************************************************************************)
(* Proofs about the exhaustive AO* search, for every MDP, every heuristic, *)
(* any order of expansions and updates, whether the search runs out of     *)
(* time or not.  What is counted, linked and labelled agrees at every step;*)
(* a solved state has its optimal value; and between two expansions every  *)
(* value follows from those of the successors.                             *)
(***************************************************************************)
EXTENDS ExhaustiveAOCorrectness, HeuristicSearchBaseProofs

-----------------------------------------------------------------------------
(* The inductive invariant.                                                *)

(* s was expanded and waits for some of its successors.                    *)
Waits(s) == flag[s] = "initialized" /\ s \notin solved

(* The states that know s as a parent.                                     *)
Children(s) == {t \in State : s \in parents[t]}

(* The neighbours of expanded states are evaluated.                        *)
NeighboursKnown ==
  \A s \in State : flag[s] = "initialized" =>
     \A t \in Neighbours(s) : flag[t] # "uninitialized"

(* A state is linked to exactly the unsolved states that wait for it.      *)
Linked ==
  \A s, t \in State :
     s \in parents[t] <=> Waits(s) /\ t \in Neighbours(s) /\ ~IsSolved(t)

(* The counters are up to date; an expansion starts from zero.             *)
Counted ==
  \A s \in State :
     /\ Waits(s) => unsolved[s] = Cardinality(Children(s))
     /\ flag[s] \in {"uninitialized", "fringe"} => unsolved[s] = 0

(* Solved bits are set bottom up.                                          *)
SolvedClosed ==
  \A s \in solved : /\ flag[s] = "initialized"
                    /\ \A t \in Neighbours(s) : IsSolved(t)

(* The queue is used by the propagations only, and holds expanded states.  *)
QueueOK ==
  /\ \A e \in queue : flag[e[2]] = "initialized"
  /\ pc \in {"solve", "loop", "done"} => queue = {}
  /\ pc = "solve" => open = {}
  /\ pc = "update_order" => Waits(tip.state)

(* A state that waits is marked only while it is in the queue.             *)
MarksOK ==
  /\ pc \in {"solve", "loop", "update_order", "done"} =>
       \A s \in marked : IsSolved(s)
  /\ pc = "tip_value" =>
       \A s \in marked : IsSolved(s) \/ \E e \in queue : e[2] = s

IInv ==
  /\ TypeOK
  /\ NeighboursKnown
  /\ Linked
  /\ Counted
  /\ SolvedClosed
  /\ QueueOK
  /\ MarksOK

-----------------------------------------------------------------------------
(* Updates.                                                                *)

(* What an update of s leaves of the stored information.                   *)
LEMMA UpdateLeaves ==
  ASSUME BaseTypeOK, NeighboursKnown, NEW s \in State,
         flag[s] \in {"fringe", "initialized"}, UpdateValue(s)
  PROVE  /\ BaseTypeOK' /\ NeighboursKnown' /\ config' = config
         /\ \A t \in State : t # s /\ flag[t] # "uninitialized" =>
              flag'[t] = flag[t] /\ value'[t] = value[t]
         /\ \A t \in State : flag[t] = "uninitialized" =>
              \/ flag'[t] = "uninitialized"
              \/ flag'[t] = InitialFlag(t) /\ value'[t] = InitialValue(t)
         /\ flag[s] = "initialized" => flag' = flag
         /\ flag[s] = "fringe" =>
              flag'[s] = IF Neighbours(s) = {} THEN "terminal" ELSE "initialized"
         /\ \A t \in Neighbours(s) : t \in State /\ flag'[t] # "uninitialized"
         /\ value'[s] = BellmanValue(value', s)
<1>1. PICK v \in {ExpandedValue(s)} : value' = [v EXCEPT ![s] = BellmanValue(v, s)]
  BY DEF UpdateValue
<1>2. /\ flag' = ExpandedFlag(s) /\ UNCHANGED <<config, policy>>
      /\ v = ExpandedValue(s) /\ v \in [State -> Bounds]
      /\ flag \in [State -> Flags]
  BY ExpandedType DEF UpdateValue, BaseTypeOK
<1>3. /\ value'[s] = BellmanValue(v, s) /\ value' \in [State -> Bounds]
      /\ \A t \in State : t # s => value'[t] = v[t]
  BY <1>1, <1>2, BellmanValueBounds
<1>4. /\ Neighbours(s) \subseteq State /\ s \notin Neighbours(s)
      /\ TransitionTails(s) = {} <=> Neighbours(s) = {}
  BY NeighboursType
<1>5. /\ \A t \in Evaluated(s) : t \in State /\ flag[t] = "uninitialized"
      /\ flag[s] = "initialized" => Evaluated(s) = {}
      /\ \A t \in Neighbours(s) : t \in Evaluated(s) \/ flag[t] # "uninitialized"
  BY <1>4 DEF Evaluated, NeighboursKnown
<1>6. /\ \A t \in State : v[t] = IF t \in Evaluated(s) THEN InitialValue(t) ELSE value[t]
      /\ \A t \in State : flag'[t] =
           IF t \in Evaluated(s) THEN InitialFlag(t)
           ELSE IF t = s /\ flag[s] = "fringe"
           THEN IF TransitionTails(s) = {} THEN "terminal" ELSE "initialized"
           ELSE flag[t]
  BY <1>2 DEF ExpandedValue, ExpandedFlag
<1>7. \A t \in State : InitialFlag(t) \in {"goal", "terminal", "fringe"}
  BY DEF InitialFlag
<1>8. BaseTypeOK'
  BY <1>2, <1>3, ExpandedType DEF BaseTypeOK
<1>9. value'[s] = BellmanValue(value', s)
  <2>1. \A t \in Neighbours(s) : v[t] = value'[t]
    BY <1>3, <1>4
  <2> QED BY <1>3, <2>1, BellmanValueSame
<1>10. \A t \in State : t # s /\ flag[t] # "uninitialized" =>
         flag'[t] = flag[t] /\ value'[t] = value[t]
  BY <1>3, <1>5, <1>6
<1>11. \A t \in State : flag[t] = "uninitialized" =>
         \/ flag'[t] = "uninitialized"
         \/ flag'[t] = InitialFlag(t) /\ value'[t] = InitialValue(t)
  BY <1>3, <1>5, <1>6
<1>12. flag[s] = "initialized" => flag' = flag
  BY <1>2, <1>5 DEF ExpandedFlag
<1>13. flag[s] = "fringe" =>
         flag'[s] = IF Neighbours(s) = {} THEN "terminal" ELSE "initialized"
  BY <1>4, <1>5, <1>6
<1>14. \A t \in Neighbours(s) : t \in State /\ flag'[t] # "uninitialized"
  <2>1. \A t \in Neighbours(s) : t \in State /\ t # s
    BY <1>4
  <2> QED BY <1>5, <1>6, <1>7, <2>1
<1>15. NeighboursKnown'
  <2> SUFFICES ASSUME NEW u \in State, flag'[u] = "initialized",
                      NEW t \in Neighbours(u)
               PROVE  flag'[t] # "uninitialized"
    BY DEF NeighboursKnown
  <2>1. CASE u = s
    BY <1>14, <2>1
  <2>2. CASE u # s
    <3>1. flag[u] = "initialized"
      BY <1>6, <1>7, <2>2
    <3>2. t \in State /\ flag[t] # "uninitialized"
      BY <3>1, NeighboursType DEF NeighboursKnown
    <3> QED BY <1>7, <1>6, <3>2
  <2> QED BY <2>1, <2>2
<1> QED BY <1>2, <1>8, <1>9, <1>10, <1>11, <1>12, <1>13, <1>14, <1>15

-----------------------------------------------------------------------------
(* Links and counts.                                                       *)

(* The flags after an update of s.                                         *)
FlagsAfter(s) ==
  /\ \A t \in State : t # s /\ flag[t] # "uninitialized" => flag'[t] = flag[t]
  /\ \A t \in State : flag[t] = "uninitialized" =>
       flag'[t] \in {"uninitialized", "goal", "terminal", "fringe"}
  /\ flag'[s] \in {"initialized", "terminal"}
  /\ flag[s] = "initialized" => flag'[s] = "initialized"

(* What the propagations and expansions must not lose.                     *)
LinksOK == Linked /\ Counted /\ SolvedClosed

LEMMA UpdateFlags ==
  ASSUME BaseTypeOK, NeighboursKnown, NEW s \in State,
         flag[s] \in {"fringe", "initialized"}, UpdateValue(s)
  PROVE  FlagsAfter(s)
BY UpdateLeaves DEF FlagsAfter, InitialFlag

(* Which states are waiting and solved after an update of s, if no label   *)
(* but that of s is set.                                                   *)
LEMMA StatusAfter ==
  ASSUME IInv, NEW s \in State, flag[s] \in {"fringe", "initialized"},
         s \notin solved, FlagsAfter(s),
         solved' = solved \/ solved' = solved \union {s}
  PROVE  /\ \A u \in State : u # s => (Waits(u)' <=> Waits(u))
         /\ \A u \in State : u # s /\ flag[u] # "uninitialized" =>
              (IsSolved(u)' <=> IsSolved(u))
         /\ \A u \in State : Waits(u) => \A t \in Neighbours(u) :
              t \in State /\ flag[t] # "uninitialized"
         /\ \A u \in State : flag[u] # "uninitialized" /\ IsSolved(u) =>
              IsSolved(u)'
         /\ solved \subseteq State
         /\ ~IsSolved(s)
<1>1. solved \subseteq State
  BY DEF IInv, TypeOK, AOTypeOK
<1>2. \A u \in State : u # s => (Waits(u)' <=> Waits(u))
  BY DEF FlagsAfter, Waits
<1>3. \A u \in State : u # s /\ flag[u] # "uninitialized" =>
        (IsSolved(u)' <=> IsSolved(u))
  BY DEF FlagsAfter, IsSolved, IsGoalOrTerminal
<1>4. \A u \in State : Waits(u) => \A t \in Neighbours(u) :
        t \in State /\ flag[t] # "uninitialized"
  BY NeighboursType DEF Waits, IInv, NeighboursKnown
<1>5. ~IsSolved(s)
  BY DEF IsSolved, IsGoalOrTerminal
<1> QED BY <1>1, <1>2, <1>3, <1>4, <1>5

(* The parents of a state wait for it, and are not queued twice.           *)
LEMMA ParentsWait ==
  ASSUME IInv, NEW s \in State
  PROVE  /\ \A p \in parents[s] :
              p \in State /\ Waits(p) /\ p # s /\ s \in Neighbours(p)
         /\ ~IsSolved(s) => \A p \in State : Waits(p) /\ s \in Neighbours(p) =>
              p \in parents[s]
<1>1. parents[s] \subseteq State
  BY DEF IInv, TypeOK, AOTypeOK
<1> QED BY <1>1, NeighboursType DEF IInv, Linked

(* A state that is solved takes itself out of the counts of its parents.   *)
LEMMA PushSolved ==
  ASSUME ~StorePolicy, IInv, NEW s \in State,
         flag[s] \in {"fringe", "initialized"}, s \notin solved, FlagsAfter(s),
         \A t \in Neighbours(s) : t \in State /\ IsSolvedAfter(t),
         NEW labels,
         labels = IF flag'[s] = "terminal" THEN solved ELSE solved \union {s},
         NEW rest, PushParents(s, TRUE, labels, rest)
  PROVE  /\ solved' = labels /\ IsSolved(s)'
         /\ parents' \in [State -> SUBSET State]
         /\ unsolved' \in [State -> Nat]
         /\ LinksOK'
<1>1. /\ parents \in [State -> SUBSET State] /\ unsolved \in [State -> Nat]
      /\ solved \subseteq State /\ IsFiniteSet(State)
  BY MDPAssumption DEF IInv, TypeOK, AOTypeOK
<1>2. /\ solved' = labels \ (parents[s] \ marked)
      /\ parents' = [parents EXCEPT ![s] = {}]
      /\ unsolved' = [p \in State |-> IF p \in parents[s]
                                      THEN unsolved[p] - 1 ELSE unsolved[p]]
  BY DEF PushParents, ToQueue, ToCount
<1>3. \A p \in parents[s] : p \in State /\ Waits(p) /\ p # s /\ s \in Neighbours(p)
  BY ParentsWait
<1>4. solved' = labels
  BY <1>2, <1>3 DEF Waits
<1>5. /\ \A u \in State : u # s => (Waits(u)' <=> Waits(u))
      /\ \A u \in State : u # s /\ flag[u] # "uninitialized" =>
           (IsSolved(u)' <=> IsSolved(u))
      /\ \A u \in State : Waits(u) => \A t \in Neighbours(u) :
           t \in State /\ flag[t] # "uninitialized"
      /\ \A u \in State : flag[u] # "uninitialized" /\ IsSolved(u) => IsSolved(u)'
  BY <1>4, StatusAfter
<1>6. IsSolved(s)' /\ ~Waits(s)'
  BY <1>4 DEF FlagsAfter, IsSolved, IsGoalOrTerminal, Waits
<1>7. /\ parents' \in [State -> SUBSET State] /\ parents'[s] = {}
      /\ \A t \in State : t # s => parents'[t] = parents[t]
  BY <1>1, <1>2
<1>8. \A t \in Neighbours(s) : t # s /\ s \notin parents[t]
  <2> SUFFICES ASSUME NEW t \in Neighbours(s), s \in parents[t] PROVE FALSE
    BY NeighboursType
  <2>1. t \in State /\ t # s
    BY NeighboursType
  <2>2. Waits(s) /\ ~IsSolved(t)
    BY <2>1 DEF IInv, Linked
  <2>3. flag[t] # "uninitialized"
    BY <1>5, <2>2
  <2>4. IsSolved(t)
    BY <2>1, <2>3 DEF IsSolvedAfter, FlagsAfter, IsSolved, IsGoalOrTerminal
  <2> QED BY <2>2, <2>4
<1>9. Linked'
  <2> SUFFICES ASSUME NEW u \in State, NEW t \in State
               PROVE  u \in parents'[t] <=>
                        Waits(u)' /\ t \in Neighbours(u) /\ ~IsSolved(t)'
    BY DEF Linked
  <2>1. CASE t = s
    BY <1>6, <1>7, <2>1
  <2>2. CASE t # s /\ u = s
    <3>1. s \notin parents[t]
      BY <1>8, <2>2 DEF IInv, Linked
    <3> QED BY <1>6, <1>7, <2>2, <3>1
  <2>3. CASE t # s /\ u # s
    <3>1. u \in parents[t] <=> Waits(u) /\ t \in Neighbours(u) /\ ~IsSolved(t)
      BY DEF IInv, Linked
    <3> QED BY <1>5, <1>7, <2>3, <3>1
  <2> QED BY <2>1, <2>2, <2>3
<1>10. ASSUME NEW p \in State, Waits(p)
       PROVE  /\ unsolved[p] = Cardinality(Children(p))
              /\ IsFiniteSet(Children(p))
              /\ p \in parents[s] =>
                   /\ s \in Children(p) /\ Children(p)' = Children(p) \ {s}
              /\ p \notin parents[s] => Children(p)' = Children(p)
  <2>1. IsFiniteSet(Children(p))
    BY <1>1, FS_Subset DEF Children
  <2> QED BY <1>7, <1>10, <2>1 DEF Children, IInv, Counted
<1>11. ASSUME NEW p \in parents[s]
       PROVE  unsolved'[p] \in Nat /\ unsolved'[p] = Cardinality(Children(p)')
  <2>1. p \in State /\ Waits(p)
    BY <1>3
  <2>2. /\ unsolved[p] = Cardinality(Children(p)) /\ IsFiniteSet(Children(p))
        /\ s \in Children(p) /\ Children(p)' = Children(p) \ {s}
    BY <1>10, <2>1
  <2>3. /\ Cardinality(Children(p) \ {s}) = Cardinality(Children(p)) - 1
        /\ IsFiniteSet(Children(p) \ {s})
    BY <2>2, FS_RemoveElement
  <2>4. Cardinality(Children(p) \ {s}) \in Nat
    BY <2>3, FS_CardinalityType
  <2> QED BY <1>2, <2>1, <2>2, <2>3, <2>4
<1>12. \A p \in State : p \notin parents[s] => unsolved'[p] = unsolved[p]
  BY <1>2
<1>13. unsolved' \in [State -> Nat]
  <2>1. \A p \in State : unsolved'[p] \in Nat
    BY <1>1, <1>11, <1>12
  <2> QED BY <1>2, <2>1
<1>14. Counted'
  <2> SUFFICES ASSUME NEW p \in State
               PROVE  /\ Waits(p)' => unsolved'[p] = Cardinality(Children(p)')
                      /\ flag'[p] \in {"uninitialized", "fringe"} => unsolved'[p] = 0
    BY DEF Counted
  <2>1. Waits(p)' => unsolved'[p] = Cardinality(Children(p)')
    BY <1>5, <1>6, <1>10, <1>11, <1>12
  <2>2. ASSUME flag'[p] \in {"uninitialized", "fringe"} PROVE unsolved'[p] = 0
    <3>1. flag[p] \in {"uninitialized", "fringe"}
      BY <2>2 DEF FlagsAfter
    <3>2. p \notin parents[s]
      BY <1>3, <3>1 DEF Waits
    <3> QED BY <1>12, <3>1, <3>2 DEF IInv, Counted
  <2> QED BY <2>1, <2>2
<1>15. SolvedClosed'
  <2> SUFFICES ASSUME NEW u \in labels
               PROVE  /\ flag'[u] = "initialized"
                      /\ \A t \in Neighbours(u) : IsSolved(t)'
    BY <1>4 DEF SolvedClosed
  <2>1. CASE u = s
    <3>1. flag'[s] = "initialized"
      BY <2>1 DEF FlagsAfter
    <3>2. \A t \in Neighbours(s) : IsSolved(t)'
      BY <1>4 DEF IsSolvedAfter, IsSolved, IsGoalOrTerminal
    <3> QED BY <2>1, <3>1, <3>2
  <2>2. CASE u # s
    <3>1. u \in solved /\ u \in State
      BY <1>1, <2>2
    <3>2. flag[u] = "initialized" /\ \A t \in Neighbours(u) : IsSolved(t)
      BY <3>1 DEF IInv, SolvedClosed
    <3>3. \A t \in Neighbours(u) : t \in State /\ flag[t] # "uninitialized"
      BY <3>1, <3>2, NeighboursType DEF IInv, NeighboursKnown
    <3> QED BY <1>5, <2>2, <3>1, <3>2, <3>3 DEF FlagsAfter
  <2> QED BY <2>1, <2>2
<1> QED BY <1>4, <1>6, <1>7, <1>9, <1>13, <1>14, <1>15 DEF LinksOK

(* A state that is not solved yet only puts its parents in the queue.      *)
LEMMA PushUnsolved ==
  ASSUME ~StorePolicy, IInv, NEW s \in State, NEW rest,
         PushParents(s, FALSE, solved, rest)
  PROVE  solved' = solved /\ parents' = parents /\ unsolved' = unsolved
<1>1. unsolved \in [State -> Nat]
  BY DEF IInv, TypeOK, AOTypeOK
<1>2. \A p \in parents[s] : p \notin solved
  BY ParentsWait DEF Waits
<1> QED BY <1>1, <1>2 DEF PushParents, ToQueue, ToCount

(* The queue and the marks after either.                                   *)
LEMMA PushQueue ==
  ASSUME IInv, NEW s \in State, NEW rest, rest \subseteq Nat \X State,
         marked' = (marked \ {s}) \union (parents[s] \ marked),
         queue' = rest \union
                    {<<update_order[p], p>> : p \in parents[s] \ marked}
  PROVE  /\ queue' \subseteq Nat \X State
         /\ \A e \in rest : e \in queue'
         /\ \A e \in queue' : e \in rest \/ e[2] \in parents[s]
         /\ marked' \subseteq State
         /\ \A p \in marked' : \/ p \in marked /\ p # s
                               \/ \E e \in queue' : e[2] = p
         /\ \A p \in parents[s] \ marked : \E e \in queue' : e[2] = p
<1>1. /\ update_order \in [State -> Nat] /\ marked \subseteq State
      /\ parents[s] \subseteq State
  BY DEF IInv, TypeOK, AOTypeOK
<1>2. \A p \in parents[s] \ marked :
        /\ <<update_order[p], p>> \in queue' /\ <<update_order[p], p>>[2] = p
        /\ <<update_order[p], p>> \in Nat \X State
  BY <1>1
<1>3. queue' \subseteq Nat \X State
  BY <1>2
<1>4. \A e \in queue' : e \in rest \/ e[2] \in parents[s]
  BY <1>2
<1>5. \A p \in parents[s] \ marked : \E e \in queue' : e[2] = p
  BY <1>2
<1> QED BY <1>1, <1>3, <1>4, <1>5

(* An expanded state that has to wait is linked to what it waits for.      *)
LEMMA LinkKeeps ==
  ASSUME IInv, NEW s \in State, flag[s] = "fringe", FlagsAfter(s),
         NEW new, new = {t \in Neighbours(s) : ~IsSolvedAfter(t)}, new # {},
         \A t \in Neighbours(s) : t \in State,
         flag'[s] = "initialized", solved' = solved,
         LinkSuccessors(s, new),
         unsolved' = [unsolved EXCEPT ![s] = @ + Cardinality(new)]
  PROVE  /\ parents' \in [State -> SUBSET State]
         /\ unsolved' \in [State -> Nat]
         /\ update_order' \in [State -> Nat]
         /\ queue' \subseteq Nat \X State
         /\ \A e \in queue' : e[2] = s
         /\ Waits(s)'
         /\ LinksOK'
<1>1. /\ parents \in [State -> SUBSET State] /\ unsolved \in [State -> Nat]
      /\ update_order \in [State -> Nat]
      /\ solved \subseteq State /\ IsFiniteSet(State)
  BY MDPAssumption DEF IInv, TypeOK, AOTypeOK
<1>2. /\ parents' = [t \in State |-> IF t \in new THEN parents[t] \union {s}
                                     ELSE parents[t]]
      /\ update_order' = [update_order EXCEPT ![s] = FirstOrder(new)]
      /\ queue' = {<<FirstOrder(new), s>>}
  BY DEF LinkSuccessors
<1>3. new \subseteq State /\ IsFiniteSet(new) /\ Cardinality(new) \in Nat
  <2>1. new \subseteq State
    OBVIOUS
  <2>2. IsFiniteSet(new)
    BY <1>1, <2>1, FS_Subset
  <2> QED BY <2>1, <2>2, FS_CardinalityType
<1>4. FirstOrder(new) \in Nat
  <2>1. \A t \in new : update_order[t] \in Int /\ update_order[t] \in Nat
    BY <1>1, <1>3
  <2>2. LET m == Min({update_order[t] : t \in new})
        IN  m \in Int /\ \E t \in new : m = update_order[t]
    BY <1>3, <2>1, MinOfImage
  <2>3. Min({update_order[t] : t \in new}) \in Nat
    BY <2>1, <2>2
  <2> QED BY <2>3 DEF FirstOrder
<1>5. s \notin solved
  BY DEF IInv, SolvedClosed
<1>6. /\ \A u \in State : u # s => (Waits(u)' <=> Waits(u))
      /\ \A u \in State : u # s /\ flag[u] # "uninitialized" =>
           (IsSolved(u)' <=> IsSolved(u))
      /\ \A u \in State : Waits(u) => \A t \in Neighbours(u) :
           t \in State /\ flag[t] # "uninitialized"
      /\ \A u \in State : flag[u] # "uninitialized" /\ IsSolved(u) => IsSolved(u)'
      /\ ~IsSolved(s)
  BY <1>5, StatusAfter
<1>7. Waits(s)' /\ ~Waits(s) /\ ~IsSolved(s)'
  BY <1>5 DEF Waits, IsSolved, IsGoalOrTerminal
<1>8. \A t \in State : t \in new <=> t \in Neighbours(s) /\ ~IsSolved(t)'
  BY DEF IsSolvedAfter, IsSolved, IsGoalOrTerminal
<1>9. \A t \in State : s \notin parents[t]
  BY <1>7 DEF IInv, Linked
<1>10. /\ parents' \in [State -> SUBSET State]
       /\ \A t \in State : s \in parents'[t] <=> t \in new
       /\ \A t \in State : \A u \in State : u # s =>
            (u \in parents'[t] <=> u \in parents[t])
  <2>1. \A t \in State : parents'[t] = IF t \in new THEN parents[t] \union {s}
                                       ELSE parents[t]
    BY <1>2
  <2>2. parents' \in [State -> SUBSET State]
    BY <1>1, <1>2
  <2> QED BY <1>9, <2>1, <2>2
<1>11. Linked'
  <2> SUFFICES ASSUME NEW u \in State, NEW t \in State
               PROVE  u \in parents'[t] <=>
                        Waits(u)' /\ t \in Neighbours(u) /\ ~IsSolved(t)'
    BY DEF Linked
  <2>1. CASE u = s
    BY <1>7, <1>8, <1>10, <2>1
  <2>2. CASE u # s
    <3>1. u \in parents[t] <=> Waits(u) /\ t \in Neighbours(u) /\ ~IsSolved(t)
      BY DEF IInv, Linked
    <3>2. CASE t = s
      BY <1>6, <1>7, <1>10, <2>2, <3>1, <3>2
    <3>3. CASE t # s
      BY <1>6, <1>10, <2>2, <3>1, <3>3
    <3> QED BY <3>2, <3>3
  <2> QED BY <2>1, <2>2
<1>12. unsolved[s] = 0
  BY DEF IInv, Counted
<1>13. unsolved' \in [State -> Nat] /\ unsolved'[s] = Cardinality(new)
       /\ \A p \in State : p # s => unsolved'[p] = unsolved[p]
  BY <1>1, <1>2, <1>3, <1>12
<1>14. Counted'
  <2> SUFFICES ASSUME NEW p \in State
               PROVE  /\ Waits(p)' => unsolved'[p] = Cardinality(Children(p)')
                      /\ flag'[p] \in {"uninitialized", "fringe"} => unsolved'[p] = 0
    BY DEF Counted
  <2>1. CASE p = s
    <3>1. Children(s)' = new
      BY <1>3, <1>10 DEF Children
    <3> QED BY <1>13, <2>1, <3>1
  <2>2. CASE p # s
    <3>1. Children(p)' = Children(p)
      BY <1>10, <2>2 DEF Children
    <3>2. flag'[p] \in {"uninitialized", "fringe"} =>
            flag[p] \in {"uninitialized", "fringe"}
      BY <2>2 DEF FlagsAfter
    <3> QED BY <1>6, <1>13, <2>2, <3>1, <3>2 DEF IInv, Counted
  <2> QED BY <2>1, <2>2
<1>15. SolvedClosed'
  <2> SUFFICES ASSUME NEW u \in solved
               PROVE  /\ flag'[u] = "initialized"
                      /\ \A t \in Neighbours(u) : IsSolved(t)'
    BY DEF SolvedClosed
  <2>1. u \in State /\ u # s
    BY <1>1, <1>5
  <2>2. flag[u] = "initialized" /\ \A t \in Neighbours(u) : IsSolved(t)
    BY DEF IInv, SolvedClosed
  <2>3. \A t \in Neighbours(u) : t \in State /\ flag[t] # "uninitialized"
    BY <2>1, <2>2, NeighboursType DEF IInv, NeighboursKnown
  <2> QED BY <1>6, <2>1, <2>2, <2>3 DEF FlagsAfter
<1>16. /\ update_order' \in [State -> Nat] /\ queue' \subseteq Nat \X State
       /\ \A e \in queue' : e[2] = s
  BY <1>1, <1>2, <1>4
<1> QED BY <1>7, <1>10, <1>11, <1>13, <1>14, <1>15, <1>16 DEF LinksOK

(* The frame of the steps that leave flags and labels alone.               *)
LEMMA SameLinks ==
  ASSUME IInv, flag' = flag, solved' = solved, parents' = parents,
         unsolved' = unsolved
  PROVE  LinksOK'
BY DEF IInv, LinksOK, Linked, Counted, SolvedClosed, Waits, Children, IsSolved,
       IsGoalOrTerminal

-----------------------------------------------------------------------------
(* The invariant holds at first, and every step preserves it.              *)

LEMMA InitIInv == Init => IInv
<1> SUFFICES ASSUME Init PROVE IInv
  OBVIOUS
<1> USE DEF Init, AOInit, BaseInit
<1>1. BaseTypeOK
  BY DEF BaseTypeOK, Flags, Bounds, Point
<1>2. TypeOK
  BY <1>1, AOAssumption DEF TypeOK, AOTypeOK, PCs
<1>3. NeighboursKnown /\ Linked /\ Counted /\ SolvedClosed /\ QueueOK /\ MarksOK
  BY DEF NeighboursKnown, Linked, Counted, SolvedClosed, QueueOK, MarksOK, Waits
<1> QED BY <1>2, <1>3 DEF IInv

(* Evaluating the initial state.                                           *)
LEMMA SolveKeeps ==
  ASSUME IInv, Solve
  PROVE  IInv'
<1> DEFINE s == initial_state
<1>1. /\ s \in State /\ BaseTypeOK
      /\ UNCHANGED <<initial_state, ao_vars>> /\ open' = {s} /\ pc' = "loop"
      /\ pc = "solve"
  BY AOAssumption DEF Solve, IInv, TypeOK, AOTypeOK
<1>2. /\ BaseTypeOK'
      /\ \A t \in State : flag[t] # "uninitialized" => flag'[t] = flag[t]
      /\ \A t \in State : flag[t] = "uninitialized" =>
           flag'[t] \in {"uninitialized", "goal", "terminal", "fringe"}
  <2>1. CASE flag[s] # "uninitialized"
    BY <1>1, <2>1 DEF Solve, InitializeInitialState, base_vars, BaseTypeOK
  <2>2. CASE flag[s] = "uninitialized"
    <3>1. /\ flag' = [flag EXCEPT ![s] = InitialFlag(s)]
          /\ value' = [value EXCEPT ![s] = InitialValue(s)]
          /\ UNCHANGED <<config, policy>>
      BY <2>2 DEF Solve, InitializeInitialState
    <3>2. InitialFlag(s) \in {"goal", "terminal", "fringe"}
      BY DEF InitialFlag
    <3> QED BY <1>1, <2>2, <3>1, <3>2, InitialType DEF BaseTypeOK
  <2> QED BY <2>1, <2>2
<1>3. TypeOK'
  BY <1>1, <1>2 DEF IInv, TypeOK, AOTypeOK, ao_vars, PCs
<1>4. /\ parents' = parents /\ solved' = solved /\ unsolved' = unsolved
      /\ marked' = marked /\ queue' = queue /\ solved \subseteq State
  BY <1>1 DEF ao_vars, IInv, TypeOK, AOTypeOK
<1>5. /\ \A u \in State : Waits(u)' <=> Waits(u)
      /\ \A u \in State : flag[u] # "uninitialized" => (IsSolved(u)' <=> IsSolved(u))
      /\ \A u \in State : flag[u] = "initialized" => \A t \in Neighbours(u) :
           t \in State /\ flag[t] # "uninitialized"
      /\ \A u \in State : flag'[u] = "initialized" <=> flag[u] = "initialized"
  BY <1>2, <1>4, NeighboursType
     DEF Waits, IsSolved, IsGoalOrTerminal, IInv, NeighboursKnown
<1>6. NeighboursKnown'
  BY <1>2, <1>5 DEF NeighboursKnown
<1>7. Linked'
  <2>1. \A u, t \in State : u \in parents[t] <=>
          Waits(u) /\ t \in Neighbours(u) /\ ~IsSolved(t)
    BY DEF IInv, Linked
  <2> QED BY <1>4, <1>5, <2>1 DEF Linked, Waits
<1>8. Counted'
  BY <1>2, <1>4, <1>5 DEF Counted, IInv, Children
<1>9. SolvedClosed'
  BY <1>4, <1>5 DEF SolvedClosed, IInv
<1>10. QueueOK' /\ MarksOK'
  <2>1. queue = {} /\ \A u \in marked : IsSolved(u) /\ u \in State
    BY <1>1 DEF IInv, QueueOK, MarksOK, TypeOK, AOTypeOK
  <2>2. \A u \in State : IsSolved(u) => IsSolved(u)'
    BY <1>2, <1>4 DEF IsSolved, IsGoalOrTerminal
  <2> QED BY <1>1, <1>4, <2>1, <2>2 DEF QueueOK, MarksOK
<1> QED BY <1>3, <1>6, <1>7, <1>8, <1>9, <1>10 DEF IInv

(* Steps that propagate nothing.                                           *)
LEMMA LoopKeeps ==
  ASSUME IInv, Skip \/ EndTipValue
  PROVE  IInv'
<1>1. /\ UNCHANGED <<base_vars, initial_state, ao_vars>>
      /\ pc' \in {"loop", "done"} /\ queue = {}
      /\ open' \subseteq State
  BY DEF Skip, EndTipValue, LoopAgain, IInv, TypeOK, AOTypeOK, QueueOK
<1>2. TypeOK'
  BY <1>1 DEF IInv, TypeOK, AOTypeOK, BaseTypeOK, ao_vars, base_vars, PCs
<1>3. NeighboursKnown' /\ LinksOK'
  BY <1>1, SameLinks DEF ao_vars, base_vars, NeighboursKnown, IInv
<1>4. \A u \in marked : IsSolved(u)
  BY <1>1 DEF Skip, EndTipValue, IInv, MarksOK
<1>5. QueueOK' /\ MarksOK'
  BY <1>1, <1>4
     DEF QueueOK, MarksOK, ao_vars, base_vars, IsSolved, IsGoalOrTerminal
<1> QED BY <1>2, <1>3, <1>5 DEF IInv, LinksOK

(* An expansion, facts about both cases.                                   *)
LEMMA ExpandFacts ==
  ASSUME IInv, Expand
  PROVE  \E s \in State :
           /\ flag[s] = "fringe" /\ s \notin solved /\ UpdateValue(s)
           /\ FlagsAfter(s) /\ BaseTypeOK' /\ NeighboursKnown'
           /\ \A t \in Neighbours(s) : t \in State
           /\ queue = {} /\ \A u \in marked : IsSolved(u)
           /\ initial_state' = initial_state
           /\ open' = OpenAfter(s, OpenSuccessors(s)) /\ open' \subseteq State
           /\ \/ /\ OpenSuccessors(s) = {}
                 /\ PushParents(s, TRUE,
                      IF flag'[s] = "terminal" THEN solved
                      ELSE solved \union {s}, {})
                 /\ pc' = "tip_value"
                 /\ UNCHANGED <<update_order, tip>>
              \/ /\ OpenSuccessors(s) # {}
                 /\ LinkSuccessors(s, OpenSuccessors(s))
                 /\ unsolved' = [unsolved EXCEPT
                                   ![s] = @ + Cardinality(OpenSuccessors(s))]
                 /\ tip' = [state |-> s,
                            value_changed |-> Changed(value[s], value'[s])]
                 /\ pc' = "update_order"
                 /\ UNCHANGED <<solved, marked>>
<1>1. PICK s \in open :
        /\ flag[s] = "fringe" /\ ~IsSolved(s)
        /\ UpdateValue(s)
        /\ open' = OpenAfter(s, OpenSuccessors(s))
        /\ \/ /\ OpenSuccessors(s) = {}
              /\ PushParents(s, TRUE,
                   IF flag'[s] = "terminal" THEN solved
                   ELSE solved \union {s}, {})
              /\ pc' = "tip_value"
              /\ UNCHANGED <<update_order, tip>>
           \/ /\ OpenSuccessors(s) # {}
              /\ LinkSuccessors(s, OpenSuccessors(s))
              /\ unsolved' = [unsolved EXCEPT
                                ![s] = @ + Cardinality(OpenSuccessors(s))]
              /\ tip' = [state |-> s,
                         value_changed |-> Changed(value[s], value'[s])]
              /\ pc' = "update_order"
              /\ UNCHANGED <<solved, marked>>
  BY DEF Expand
<1>2. /\ s \in State /\ BaseTypeOK /\ NeighboursKnown /\ open \subseteq State
      /\ queue = {} /\ \A u \in marked : IsSolved(u)
      /\ initial_state' = initial_state
  BY DEF Expand, IInv, TypeOK, AOTypeOK, QueueOK, MarksOK
<1>3. \A t \in Neighbours(s) : t \in State
  BY <1>2, NeighboursType
<1>4. OpenAfter(s, OpenSuccessors(s)) \subseteq State
  BY <1>2, <1>3 DEF OpenAfter, OpenSuccessors
<1>5. FlagsAfter(s) /\ BaseTypeOK' /\ NeighboursKnown'
  BY <1>1, <1>2, UpdateFlags, UpdateLeaves
<1> QED BY <1>1, <1>2, <1>3, <1>4, <1>5 DEF IsSolved

LEMMA ExpandKeeps ==
  ASSUME ~StorePolicy, IInv, Expand
  PROVE  IInv'
<1>1. PICK s \in State :
           /\ flag[s] = "fringe" /\ s \notin solved /\ UpdateValue(s)
           /\ FlagsAfter(s) /\ BaseTypeOK' /\ NeighboursKnown'
           /\ \A t \in Neighbours(s) : t \in State
           /\ queue = {} /\ \A u \in marked : IsSolved(u)
           /\ initial_state' = initial_state
           /\ open' \subseteq State
           /\ \/ /\ OpenSuccessors(s) = {}
                 /\ PushParents(s, TRUE,
                      IF flag'[s] = "terminal" THEN solved
                      ELSE solved \union {s}, {})
                 /\ pc' = "tip_value"
                 /\ UNCHANGED <<update_order, tip>>
              \/ /\ OpenSuccessors(s) # {}
                 /\ LinkSuccessors(s, OpenSuccessors(s))
                 /\ unsolved' = [unsolved EXCEPT
                                   ![s] = @ + Cardinality(OpenSuccessors(s))]
                 /\ tip' = [state |-> s,
                            value_changed |-> Changed(value[s], value'[s])]
                 /\ pc' = "update_order"
                 /\ UNCHANGED <<solved, marked>>
  BY ExpandFacts
<1>2. \A u \in State : IsSolved(u) => u # s /\ flag[u] # "uninitialized"
  BY <1>1 DEF IsSolved, IsGoalOrTerminal, IInv, SolvedClosed
<1>3. CASE OpenSuccessors(s) = {} /\ pc' = "tip_value"
  <2> DEFINE labels == IF flag'[s] = "terminal" THEN solved ELSE solved \union {s}
  <2>1. PushParents(s, TRUE, labels, {}) /\ UNCHANGED <<update_order, tip>>
    BY <1>1, <1>3
  <2>2. \A t \in Neighbours(s) : t \in State /\ IsSolvedAfter(t)
    BY <1>1, <1>3 DEF OpenSuccessors
  <2>3. /\ solved' = labels
        /\ parents' \in [State -> SUBSET State]
        /\ unsolved' \in [State -> Nat]
        /\ LinksOK'
    BY <1>1, <2>1, <2>2, PushSolved
  <2>4. /\ queue' \subseteq Nat \X State
        /\ \A e \in queue' : e[2] \in parents[s]
        /\ marked' \subseteq State
        /\ \A p \in marked' : p \in marked \/ \E e \in queue' : e[2] = p
    <3>1. PICK rest : rest = {}
      OBVIOUS
    <3>2. /\ marked' = (marked \ {s}) \union (parents[s] \ marked)
          /\ queue' = rest \union
                        {<<update_order[p], p>> : p \in parents[s] \ marked}
      BY <2>1, <3>1 DEF PushParents, ToQueue, Unmarked
    <3>3. rest \subseteq Nat \X State
      BY <3>1
    <3> HIDE DEF labels
    <3>4. /\ queue' \subseteq Nat \X State
          /\ \A e \in queue' : e \in rest \/ e[2] \in parents[s]
          /\ marked' \subseteq State
      BY ONLY IInv, <3>2, <3>3, PushQueue
    <3>5. \A p \in marked' : \/ p \in marked /\ p # s
                             \/ \E e \in queue' : e[2] = p
      BY ONLY IInv, <3>2, <3>3, PushQueue
    <3> QED BY <3>1, <3>4, <3>5
  <2>5. TypeOK'
    BY <1>1, <1>3, <2>1, <2>3, <2>4 DEF IInv, TypeOK, AOTypeOK, PCs
  <2>6. \A p \in marked : p \in State /\ IsSolved(p)'
    <3>1. \A p \in marked : p \in State /\ IsSolved(p)
      BY <1>1 DEF IInv, TypeOK, AOTypeOK
    <3> QED BY <1>1, <1>2, <2>3, <3>1, StatusAfter
  <2>7. MarksOK'
    BY <1>3, <2>4, <2>6 DEF MarksOK
  <2>8. QueueOK'
    <3>1. \A e \in queue' : e[2] \in State /\ Waits(e[2]) /\ e[2] # s
      BY <2>4, ParentsWait
    <3> QED BY <1>1, <1>3, <3>1 DEF QueueOK, Waits, FlagsAfter
  <2> QED BY <1>1, <2>3, <2>5, <2>7, <2>8 DEF IInv, LinksOK
<1>4. CASE OpenSuccessors(s) # {} /\ pc' = "update_order"
  <2> DEFINE new == OpenSuccessors(s)
  <2>1. /\ LinkSuccessors(s, new)
        /\ unsolved' = [unsolved EXCEPT ![s] = @ + Cardinality(new)]
        /\ tip' = [state |-> s, value_changed |-> Changed(value[s], value'[s])]
        /\ solved' = solved /\ marked' = marked
    BY <1>1, <1>4
  <2>2. new = {t \in Neighbours(s) : ~IsSolvedAfter(t)} /\ new # {}
    BY <1>4 DEF OpenSuccessors
  <2>3. flag'[s] = "initialized"
    <3>1. Neighbours(s) # {} /\ BaseTypeOK /\ NeighboursKnown
      BY <2>2 DEF IInv, TypeOK, AOTypeOK
    <3> QED BY <1>1, <3>1, UpdateLeaves
  <2>4. /\ parents' \in [State -> SUBSET State]
        /\ unsolved' \in [State -> Nat]
        /\ update_order' \in [State -> Nat]
        /\ queue' \subseteq Nat \X State
        /\ \A e \in queue' : e[2] = s
        /\ Waits(s)'
        /\ LinksOK'
    <3> HIDE DEF new
    <3> QED BY <1>1, <2>1, <2>2, <2>3, LinkKeeps
  <2>5. tip' \in [state : State, value_changed : BOOLEAN]
    <3>1. Changed(value[s], value'[s]) \in BOOLEAN
      BY DEF Changed
    <3> QED BY <2>1, <3>1
  <2>6. TypeOK'
    BY <1>1, <1>4, <2>1, <2>4, <2>5 DEF IInv, TypeOK, AOTypeOK, PCs
  <2>7. QueueOK'
    BY <1>4, <2>1, <2>3, <2>4 DEF QueueOK
  <2>8. MarksOK'
    <3>1. \A p \in marked : p \in State /\ IsSolved(p)
      BY <1>1 DEF IInv, TypeOK, AOTypeOK
    <3>2. \A p \in marked : IsSolved(p)'
      BY <1>1, <1>2, <2>1, <3>1, StatusAfter
    <3> QED BY <1>4, <2>1, <3>2 DEF MarksOK
  <2> QED BY <1>1, <2>4, <2>6, <2>7, <2>8 DEF IInv, LinksOK
<1> QED BY <1>1, <1>3, <1>4

(* No parent of a state is solved: raising orders drops none.              *)
LEMMA UpdateOrderKeeps ==
  ASSUME IInv, UpdateOrder
  PROVE  IInv'
<1>1. PICK e \in queue :
        \/ /\ queue' = queue \ {e}
           /\ UNCHANGED <<update_order, parents>>
        \/ LET kept   == {p \in parents[e[2]] : ~IsSolved(p)}
               raised == {p \in kept : update_order[p] <= e[1]}
           IN  /\ parents' = [parents EXCEPT ![e[2]] = kept]
               /\ update_order' = [p \in State |-> IF p \in raised
                                     THEN e[1] + 1 ELSE update_order[p]]
               /\ queue' = (queue \ {e}) \union
                             {<<e[1] + 1, p>> : p \in raised}
  BY DEF UpdateOrder, RaiseOrder
<1>2. /\ pc = "update_order" /\ pc' = pc
      /\ UNCHANGED <<base_vars, initial_state, solved, marked, unsolved, tip, open>>
      /\ e[1] \in Nat /\ e[2] \in State
      /\ queue \subseteq Nat \X State
      /\ update_order \in [State -> Nat]
      /\ parents \in [State -> SUBSET State]
  BY DEF UpdateOrder, IInv, TypeOK, AOTypeOK
<1>3. \A p \in parents[e[2]] : p \in State /\ Waits(p) /\ ~IsSolved(p)
  BY <1>2, ParentsWait DEF Waits, IsSolved, IsGoalOrTerminal
<1>4. /\ parents' = parents
      /\ update_order' \in [State -> Nat]
      /\ queue' \subseteq Nat \X State
      /\ \A f \in queue' : f \in queue \/ f[2] \in parents[e[2]]
  <2>1. CASE queue' = queue \ {e} /\ UNCHANGED <<update_order, parents>>
    BY <1>2, <2>1
  <2>2. CASE /\ parents' = [parents EXCEPT
                              ![e[2]] = {p \in parents[e[2]] : ~IsSolved(p)}]
             /\ \E raised \in SUBSET parents[e[2]] :
                  /\ update_order' = [p \in State |-> IF p \in raised
                                     THEN e[1] + 1 ELSE update_order[p]]
                  /\ queue' = (queue \ {e}) \union
                             {<<e[1] + 1, p>> : p \in raised}
    <3>1. parents' = parents
      BY <1>2, <1>3, <2>2
    <3>2. PICK raised \in SUBSET parents[e[2]] :
                  /\ update_order' = [p \in State |-> IF p \in raised
                                     THEN e[1] + 1 ELSE update_order[p]]
                  /\ queue' = (queue \ {e}) \union
                             {<<e[1] + 1, p>> : p \in raised}
      BY <2>2
    <3>3. update_order' \in [State -> Nat]
      BY <1>2, <3>2
    <3>4. queue' \subseteq Nat \X State
      BY <1>2, <1>3, <3>2
    <3>5. \A f \in queue' : f \in queue \/ f[2] \in parents[e[2]]
      BY <3>2
    <3> QED BY <3>1, <3>3, <3>4, <3>5
  <2>3. {p \in {q \in parents[e[2]] : ~IsSolved(q)} : update_order[p] <= e[1]}
          \in SUBSET parents[e[2]]
    OBVIOUS
  <2> QED BY <1>1, <2>1, <2>2, <2>3
<1>5. TypeOK'
  BY <1>2, <1>4 DEF IInv, TypeOK, AOTypeOK, BaseTypeOK, base_vars
<1>6. NeighboursKnown' /\ LinksOK'
  BY <1>2, <1>4, SameLinks DEF base_vars, NeighboursKnown, IInv
<1>7. QueueOK'
  BY <1>2, <1>3, <1>4 DEF IInv, QueueOK, base_vars, Waits
<1>8. MarksOK'
  BY <1>2 DEF IInv, MarksOK, base_vars, IsSolved, IsGoalOrTerminal
<1> QED BY <1>5, <1>6, <1>7, <1>8 DEF IInv, LinksOK

(* The parents of the tip are queued, if its value changed.                *)
LEMMA EndUpdateOrderKeeps ==
  ASSUME ~StorePolicy, IInv, EndUpdateOrder
  PROVE  IInv'
<1>1. /\ pc = "update_order" /\ queue = {} /\ tip.state \in State
      /\ UNCHANGED <<base_vars, initial_state, update_order, tip, open>>
      /\ \A p \in marked : IsSolved(p)
  BY DEF EndUpdateOrder, IInv, TypeOK, AOTypeOK, MarksOK
<1>2. CASE PushParents(tip.state, FALSE, solved, {}) /\ pc' = "tip_value"
  <2>1. PICK s \in State : s = tip.state
    BY <1>1
  <2>2. PICK rest : rest = {}
    OBVIOUS
  <2>3. /\ marked' = (marked \ {s}) \union (parents[s] \ marked)
        /\ queue' = rest \union
                      {<<update_order[p], p>> : p \in parents[s] \ marked}
        /\ solved' = solved \ (parents[s] \ marked) /\ parents' = parents
        /\ unsolved' = [p \in State |-> unsolved[p]]
    BY <1>2, <2>1, <2>2 DEF PushParents, ToQueue, ToCount, Unmarked
  <2>4. /\ \A p \in parents[s] : p \in State /\ Waits(p)
        /\ unsolved \in [State -> Nat]
    BY ParentsWait DEF IInv, TypeOK, AOTypeOK
  <2>5. solved' = solved /\ parents' = parents /\ unsolved' = unsolved
    BY <2>3, <2>4 DEF Waits
  <2>6. rest \subseteq Nat \X State
    BY <2>2
  <2>7. /\ queue' \subseteq Nat \X State
        /\ \A e \in queue' : e \in rest \/ e[2] \in parents[s]
        /\ marked' \subseteq State
    BY ONLY IInv, <2>3, <2>6, PushQueue
  <2>8. \A p \in marked' : \/ p \in marked /\ p # s
                           \/ \E e \in queue' : e[2] = p
    BY ONLY IInv, <2>3, <2>6, PushQueue
  <2>9. TypeOK'
    BY <1>1, <1>2, <2>5, <2>7 DEF IInv, TypeOK, AOTypeOK, BaseTypeOK, base_vars, PCs
  <2>10. NeighboursKnown' /\ LinksOK'
    BY <1>1, <2>5, SameLinks DEF base_vars, NeighboursKnown, IInv
  <2>11. QueueOK'
    BY <1>1, <1>2, <2>2, <2>4, <2>7 DEF QueueOK, base_vars, Waits
  <2>12. MarksOK'
    BY <1>1, <1>2, <2>5, <2>8 DEF MarksOK, base_vars, IsSolved, IsGoalOrTerminal
  <2> QED BY <2>9, <2>10, <2>11, <2>12 DEF IInv, LinksOK
<1>3. CASE /\ LoopAgain(IsSolved(initial_state))
           /\ UNCHANGED <<solved, marked, parents, unsolved, queue>>
  <2>1. pc' \in {"loop", "done"}
    BY <1>3 DEF LoopAgain
  <2>2. TypeOK'
    BY <1>1, <1>3, <2>1 DEF IInv, TypeOK, AOTypeOK, BaseTypeOK, base_vars, PCs
  <2>3. NeighboursKnown' /\ LinksOK'
    BY <1>1, <1>3, SameLinks DEF base_vars, NeighboursKnown, IInv
  <2>4. QueueOK' /\ MarksOK'
    BY <1>1, <1>3, <2>1
       DEF QueueOK, MarksOK, base_vars, IsSolved, IsGoalOrTerminal
  <2> QED BY <2>2, <2>3, <2>4 DEF IInv, LinksOK
<1> QED BY <1>2, <1>3 DEF EndUpdateOrder

(* A state whose count is zero waits for none of its neighbours.           *)
LEMMA AllSolved ==
  ASSUME IInv, NEW s \in State, Waits(s), AllSuccessorsSolved(s)
  PROVE  \A t \in Neighbours(s) : t \in State /\ IsSolved(t)
<1>1. IsFiniteSet(Children(s))
  BY MDPAssumption, FS_Subset DEF Children
<1>2. Children(s) = {}
  BY <1>1, FS_EmptySet DEF IInv, Counted, AllSuccessorsSolved
<1> QED BY <1>2, NeighboursType DEF Children, IInv, Linked

(* The cases of one turn of the propagation of values.                     *)
LEMMA TipValueCases ==
  ASSUME IInv, TipValue
  PROVE  \E e \in queue, s \in State :
           /\ e[2] = s
           /\ \/ /\ IsSolved(s) /\ queue' = queue \ {e}
                 /\ UNCHANGED <<base_vars, solved, marked, parents, unsolved>>
              \/ /\ Waits(s) /\ UpdateValue(s)
                 /\ \/ /\ AllSuccessorsSolved(s)
                       /\ PushParents(s, TRUE, solved \union {s}, queue \ {e})
                    \/ /\ ~AllSuccessorsSolved(s)
                       /\ Changed(value[s], value'[s])
                       /\ PushParents(s, FALSE, solved, queue \ {e})
                    \/ /\ ~AllSuccessorsSolved(s)
                       /\ ~Changed(value[s], value'[s])
                       /\ queue' = queue \ {e}
                       /\ marked' = marked \ {s}
                       /\ UNCHANGED <<solved, parents, unsolved>>
<1>1. \A e \in queue : /\ e[2] \in State
                       /\ IsSolved(e[2]) \/ Waits(e[2])
  BY DEF IInv, TypeOK, AOTypeOK, QueueOK, Waits, IsSolved
<1>2. CASE SkipSolved
  <2>1. PICK e \in queue : IsSolved(e[2]) /\ queue' = queue \ {e}
    BY <1>2 DEF SkipSolved
  <2>2. UNCHANGED <<base_vars, solved, marked, parents, unsolved>>
    BY <1>2 DEF SkipSolved
  <2> QED BY <1>1, <2>1, <2>2
<1>3. CASE \E e \in queue : /\ IsTop(e)
                            /\ ~IsSolved(e[2])
                            /\ UpdateValue(e[2])
                            /\ Propagate(e, AllSuccessorsSolved(e[2]))
  <2>1. PICK e \in queue : /\ ~IsSolved(e[2])
                           /\ UpdateValue(e[2])
                           /\ Propagate(e, AllSuccessorsSolved(e[2]))
    BY <1>3
  <2>2. PICK s \in State : s = e[2] /\ Waits(s)
    BY <1>1, <2>1
  <2>3. UpdateValue(s)
    BY <2>1, <2>2
  <2>4. \/ /\ AllSuccessorsSolved(s)
           /\ PushParents(s, TRUE, solved \union {s}, queue \ {e})
        \/ /\ ~AllSuccessorsSolved(s)
           /\ Changed(value[s], value'[s])
           /\ PushParents(s, FALSE, solved, queue \ {e})
        \/ /\ ~AllSuccessorsSolved(s)
           /\ ~Changed(value[s], value'[s])
           /\ queue' = queue \ {e}
           /\ marked' = marked \ {s}
           /\ UNCHANGED <<solved, parents, unsolved>>
    <3>1. CASE AllSuccessorsSolved(s)
      BY <2>1, <2>2, <3>1 DEF Propagate, AllSuccessorsSolved, PushParents, ToQueue, ToCount
    <3>2. CASE ~AllSuccessorsSolved(s)
      BY <2>1, <2>2, <3>2 DEF Propagate, AllSuccessorsSolved, Unmarked, PushParents, ToQueue, ToCount
    <3> QED BY <3>1, <3>2
  <2> QED BY <2>2, <2>3, <2>4
<1> QED BY <1>2, <1>3 DEF TipValue

(* An update of a state in the queue, and what follows it.                 *)
LEMMA UpdateQueued ==
  ASSUME IInv, pc = "tip_value", pc' = pc, UNCHANGED <<initial_state, open>>,
         update_order' = update_order, tip' = tip,
         NEW e \in queue, NEW s \in State, e[2] = s, Waits(s), UpdateValue(s),
         NEW rest, rest = queue \ {e},
         queue' \subseteq Nat \X State,
         \A f \in rest : f \in queue',
         \A f \in queue' : f \in rest \/ f[2] \in parents[s],
         marked' \subseteq State,
         \A p \in marked' : (p \in marked /\ p # s) \/ \E f \in queue' : f[2] = p,
         solved' = solved \/ solved' = solved \union {s},
         parents' \in [State -> SUBSET State], unsolved' \in [State -> Nat],
         LinksOK'
  PROVE  IInv'
<1>1. /\ BaseTypeOK' /\ NeighboursKnown' /\ flag' = flag
  BY UpdateLeaves DEF IInv, TypeOK, AOTypeOK, Waits
<1>2. TypeOK'
  BY <1>1 DEF IInv, TypeOK, AOTypeOK, PCs
<1>3. QueueOK'
  <2>1. \A p \in parents[s] : flag[p] = "initialized"
    BY ParentsWait DEF Waits
  <2>2. \A f \in queue : flag[f[2]] = "initialized"
    BY DEF IInv, QueueOK
  <2> QED BY <1>1, <2>1, <2>2 DEF QueueOK
<1>4. \A p \in marked : IsSolved(p) => IsSolved(p)'
  BY <1>1 DEF IsSolved, IsGoalOrTerminal
<1>5. \A p \in marked : IsSolved(p) \/ \E f \in queue : f[2] = p
  BY DEF IInv, MarksOK
<1>6. MarksOK'
  <2> SUFFICES ASSUME NEW p \in marked'
               PROVE  IsSolved(p)' \/ \E f \in queue' : f[2] = p
    BY DEF MarksOK
  <2>1. CASE p \in marked /\ p # s
    BY <1>4, <1>5, <2>1
  <2> QED BY <2>1
<1> QED BY <1>1, <1>2, <1>3, <1>6 DEF IInv, LinksOK

LEMMA TipValueKeeps ==
  ASSUME ~StorePolicy, IInv, TipValue
  PROVE  IInv'
<1>1. /\ pc = "tip_value" /\ pc' = pc /\ UNCHANGED <<initial_state, open>>
      /\ update_order' = update_order /\ tip' = tip
  BY DEF TipValue
<1>2. PICK e \in queue, s \in State :
           /\ e[2] = s
           /\ \/ /\ IsSolved(s) /\ queue' = queue \ {e}
                 /\ UNCHANGED <<base_vars, solved, marked, parents, unsolved>>
              \/ /\ Waits(s) /\ UpdateValue(s)
                 /\ \/ /\ AllSuccessorsSolved(s)
                       /\ PushParents(s, TRUE, solved \union {s}, queue \ {e})
                    \/ /\ ~AllSuccessorsSolved(s)
                       /\ Changed(value[s], value'[s])
                       /\ PushParents(s, FALSE, solved, queue \ {e})
                    \/ /\ ~AllSuccessorsSolved(s)
                       /\ ~Changed(value[s], value'[s])
                       /\ queue' = queue \ {e}
                       /\ marked' = marked \ {s}
                       /\ UNCHANGED <<solved, parents, unsolved>>
  BY TipValueCases
<1>3. PICK rest : rest = queue \ {e}
  OBVIOUS
<1>4. rest \subseteq Nat \X State
  BY <1>3 DEF IInv, TypeOK, AOTypeOK
<1>5. CASE /\ IsSolved(s) /\ queue' = queue \ {e}
           /\ UNCHANGED <<base_vars, solved, marked, parents, unsolved>>
  <2>1. TypeOK'
    BY <1>1, <1>5 DEF IInv, TypeOK, AOTypeOK, BaseTypeOK, base_vars, PCs
  <2>2. NeighboursKnown' /\ LinksOK'
    BY <1>5, SameLinks DEF base_vars, NeighboursKnown, IInv
  <2>3. QueueOK' /\ MarksOK'
    BY <1>1, <1>2, <1>5
       DEF IInv, QueueOK, MarksOK, base_vars, IsSolved, IsGoalOrTerminal
  <2> QED BY <2>1, <2>2, <2>3 DEF IInv, LinksOK
<1>6. CASE Waits(s) /\ UpdateValue(s)
  <2>1. /\ BaseTypeOK /\ NeighboursKnown /\ flag[s] \in {"fringe", "initialized"}
        /\ flag[s] = "initialized" /\ s \notin solved
        /\ parents \in [State -> SUBSET State] /\ unsolved \in [State -> Nat]
        /\ marked \subseteq State
    BY <1>6 DEF IInv, TypeOK, AOTypeOK, Waits
  <2>2. FlagsAfter(s) /\ flag' = flag
    BY <1>6, <2>1, UpdateFlags, UpdateLeaves
  <2>3. CASE /\ AllSuccessorsSolved(s)
             /\ PushParents(s, TRUE, solved \union {s}, queue \ {e})
    <3>1. PICK labels : labels = solved \union {s}
      OBVIOUS
    <3>2. PushParents(s, TRUE, labels, rest)
      BY <1>3, <2>3, <3>1
    <3>3. \A t \in Neighbours(s) : t \in State /\ IsSolvedAfter(t)
      BY <1>6, <2>2, <2>3, AllSolved DEF IsSolvedAfter, IsSolved, IsGoalOrTerminal
    <3>4. labels = IF flag'[s] = "terminal" THEN solved ELSE solved \union {s}
      BY <2>1, <2>2, <3>1
    <3>5. /\ solved' = labels
          /\ parents' \in [State -> SUBSET State]
          /\ unsolved' \in [State -> Nat]
          /\ LinksOK'
      BY <2>1, <2>2, <3>2, <3>3, <3>4, PushSolved
    <3>6. /\ marked' = (marked \ {s}) \union (parents[s] \ marked)
          /\ queue' = rest \union
                        {<<update_order[p], p>> : p \in parents[s] \ marked}
      BY <3>2 DEF PushParents, ToQueue, Unmarked
    <3>7. /\ queue' \subseteq Nat \X State
          /\ \A f \in rest : f \in queue'
          /\ \A f \in queue' : f \in rest \/ f[2] \in parents[s]
          /\ marked' \subseteq State
          /\ \A p \in marked' : \/ p \in marked /\ p # s
                                \/ \E f \in queue' : f[2] = p
      BY ONLY IInv, <1>4, <3>6, PushQueue
    <3> QED BY <1>1, <1>2, <1>3, <1>6, <3>1, <3>5, <3>7, UpdateQueued
  <2>4. CASE PushParents(s, FALSE, solved, queue \ {e})
    <3>1. PushParents(s, FALSE, solved, rest)
      BY <1>3, <2>4
    <3>2. solved' = solved /\ parents' = parents /\ unsolved' = unsolved
      BY <3>1, PushUnsolved
    <3>3. /\ marked' = (marked \ {s}) \union (parents[s] \ marked)
          /\ queue' = rest \union
                        {<<update_order[p], p>> : p \in parents[s] \ marked}
      BY <3>1 DEF PushParents, ToQueue, Unmarked
    <3>4. /\ queue' \subseteq Nat \X State
          /\ \A f \in rest : f \in queue'
          /\ \A f \in queue' : f \in rest \/ f[2] \in parents[s]
          /\ marked' \subseteq State
          /\ \A p \in marked' : \/ p \in marked /\ p # s
                                \/ \E f \in queue' : f[2] = p
      BY ONLY IInv, <1>4, <3>3, PushQueue
    <3>5. LinksOK'
      BY <2>2, <3>2, SameLinks
    <3> QED BY <1>1, <1>2, <1>3, <1>6, <2>1, <3>2, <3>4, <3>5, UpdateQueued
  <2>5. CASE /\ queue' = queue \ {e}
             /\ marked' = marked \ {s}
             /\ UNCHANGED <<solved, parents, unsolved>>
    <3>1. LinksOK'
      BY <2>2, <2>5, SameLinks
    <3>2. /\ queue' \subseteq Nat \X State
          /\ \A f \in rest : f \in queue'
          /\ \A f \in queue' : f \in rest \/ f[2] \in parents[s]
          /\ marked' \subseteq State
          /\ \A p \in marked' : \/ p \in marked /\ p # s
                                \/ \E f \in queue' : f[2] = p
      BY <1>3, <1>4, <2>1, <2>5
    <3> QED BY <1>1, <1>2, <1>3, <1>6, <2>1, <2>5, <3>1, <3>2, UpdateQueued
  <2> QED BY <1>2, <1>6, <2>3, <2>4, <2>5 DEF Waits, IsSolved, IsGoalOrTerminal
<1> QED BY <1>2, <1>5, <1>6

LEMMA NextIInv ==
  ASSUME ~StorePolicy, IInv, [Next]_vars
  PROVE  IInv'
<1>1. CASE Timeout
  <2>1. UNCHANGED <<base_vars, initial_state, ao_vars, open>> /\ pc' = "timeout"
    BY <1>1 DEF Timeout
  <2>2. TypeOK'
    BY <2>1 DEF IInv, TypeOK, AOTypeOK, BaseTypeOK, ao_vars, base_vars, PCs
  <2>3. NeighboursKnown' /\ LinksOK'
    BY <2>1, SameLinks DEF ao_vars, base_vars, NeighboursKnown, IInv
  <2>4. QueueOK' /\ MarksOK'
    BY <2>1 DEF IInv, QueueOK, MarksOK, base_vars, ao_vars
  <2> QED BY <2>2, <2>3, <2>4 DEF IInv, LinksOK
<1>2. CASE UNCHANGED vars
  <2>1. UNCHANGED <<base_vars, initial_state, ao_vars, open, pc>>
    BY <1>2 DEF vars
  <2>2. TypeOK'
    BY <2>1 DEF IInv, TypeOK, AOTypeOK, BaseTypeOK, ao_vars, base_vars, PCs
  <2>3. NeighboursKnown' /\ LinksOK'
    BY <2>1, SameLinks DEF ao_vars, base_vars, NeighboursKnown, IInv
  <2>4. QueueOK' /\ MarksOK'
    BY <2>1 DEF IInv, QueueOK, MarksOK, base_vars, ao_vars, Waits, IsSolved,
                IsGoalOrTerminal
  <2> QED BY <2>2, <2>3, <2>4 DEF IInv, LinksOK
<1> QED BY <1>1, <1>2, SolveKeeps, LoopKeeps, ExpandKeeps, UpdateOrderKeeps,
           EndUpdateOrderKeeps, TipValueKeeps
        DEF Next, Step, Stop

(* The types of the search are preserved, for every MDP and heuristic.     *)
THEOREM TypeCorrect ==
  ASSUME ~StorePolicy
  PROVE  Spec => []TypeOK
<1>1. Init => IInv
  BY InitIInv
<1>2. IInv /\ [Next]_vars => IInv'
  BY NextIInv
<1>3. IInv => TypeOK
  BY DEF IInv
<1> QED BY <1>1, <1>2, <1>3, PTL DEF Spec

(* What every reachable state satisfies.                                   *)
THEOREM Invariance ==
  ASSUME ~StorePolicy
  PROVE  Spec => []IInv
<1>1. Init => IInv
  BY InitIInv
<1>2. IInv /\ [Next]_vars => IInv'
  BY NextIInv
<1> QED BY <1>1, <1>2, PTL DEF Spec

(* A state always knows how many of its successors it waits for: exactly   *)
(* those that are not solved know it as a parent, and unsolved counts them.*)
THEOREM CountsAgree ==
  ASSUME ~StorePolicy
  PROVE  Spec => []UnsolvedCount
<1>1. IInv => UnsolvedCount
  <2> SUFFICES ASSUME IInv, NEW s \in State, flag[s] = "initialized", ~IsSolved(s)
               PROVE  /\ unsolved[s] = Cardinality(Children(s))
                      /\ Children(s) = {t \in Neighbours(s) : ~IsSolved(t)}
    BY DEF UnsolvedCount, Children
  <2>1. Waits(s)
    BY DEF Waits, IsSolved
  <2>2. unsolved[s] = Cardinality(Children(s))
    BY <2>1 DEF IInv, Counted
  <2>3. Children(s) = {t \in Neighbours(s) : ~IsSolved(t)}
    BY <2>1, NeighboursType DEF IInv, Linked, Children
  <2> QED BY <2>2, <2>3
<1> QED BY <1>1, Invariance, PTL

-----------------------------------------------------------------------------
(* The values of solved states.                                            *)

(* The steps, as far as the stored information is concerned.               *)
LEMMA StepCases ==
  ASSUME IInv, [Next]_vars
  PROVE  \/ UNCHANGED base_vars /\ solved' \subseteq solved
         \/ InitializeInitialState(initial_state) /\ solved' = solved
         \/ \E s \in State :
              /\ flag[s] \in {"fringe", "initialized"} /\ s \notin solved
              /\ UpdateValue(s) /\ solved' \subseteq solved \union {s}
<1>1. CASE Solve
  BY <1>1 DEF Solve, ao_vars
<1>2. CASE Skip \/ UpdateOrder \/ EndTipValue \/ Timeout \/ UNCHANGED vars
  BY <1>2 DEF Skip, UpdateOrder, EndTipValue, Timeout, vars, ao_vars
<1>3. CASE EndUpdateOrder
  BY <1>3 DEF EndUpdateOrder, PushParents
<1>4. CASE Expand
  <2>1. PICK s \in State :
           /\ flag[s] = "fringe" /\ s \notin solved /\ UpdateValue(s)
           /\ \/ PushParents(s, TRUE,
                      IF flag'[s] = "terminal" THEN solved
                      ELSE solved \union {s}, {})
              \/ solved' = solved
    BY <1>4, ExpandFacts
  <2>2. solved' \subseteq solved \union {s}
    BY <2>1 DEF PushParents
  <2> QED BY <2>1, <2>2
<1>5. CASE TipValue
  <2>1. PICK e \in queue, s \in State :
           \/ UNCHANGED <<base_vars, solved>>
           \/ /\ Waits(s) /\ UpdateValue(s)
              /\ \/ PushParents(s, TRUE, solved \union {s}, queue \ {e})
                 \/ PushParents(s, FALSE, solved, queue \ {e})
                 \/ solved' = solved
    BY <1>5, TipValueCases
  <2> QED BY <2>1 DEF PushParents, Waits
<1> QED BY <1>1, <1>2, <1>3, <1>4, <1>5 DEF Next, Step, Stop

(* A state that is solved stores its optimal value.                        *)
Exact(s) == value[s] = Point(OptimalValue[s])

SolvedExact ==
  /\ \A s \in Goal : flag[s] \in {"uninitialized", "goal"}
  /\ \A s \in State : flag[s] # "uninitialized" /\ IsSolved(s) => Exact(s)

LEMMA UpdateExact ==
  ASSUME IInv, IInv', SolvedExact, NEW s \in State,
         flag[s] \in {"fringe", "initialized"}, s \notin solved,
         UpdateValue(s), solved' \subseteq solved \union {s}
  PROVE  SolvedExact'
<1>1. BaseTypeOK /\ NeighboursKnown /\ s \notin Goal
  BY DEF IInv, TypeOK, AOTypeOK, SolvedExact
<1>2. /\ \A t \in State : t # s /\ flag[t] # "uninitialized" =>
           flag'[t] = flag[t] /\ value'[t] = value[t]
      /\ \A t \in State : flag[t] = "uninitialized" =>
           \/ flag'[t] = "uninitialized"
           \/ flag'[t] = InitialFlag(t) /\ value'[t] = InitialValue(t)
      /\ flag[s] = "initialized" => flag' = flag
      /\ flag[s] = "fringe" =>
           flag'[s] = IF Neighbours(s) = {} THEN "terminal" ELSE "initialized"
      /\ \A t \in Neighbours(s) : t \in State /\ flag'[t] # "uninitialized"
      /\ value'[s] = BellmanValue(value', s)
  BY <1>1, UpdateLeaves
<1>3. \A t \in Goal : flag'[t] \in {"uninitialized", "goal"}
  BY <1>1, <1>2, MDPAssumption DEF SolvedExact, InitialFlag
<1>4. ASSUME NEW t \in State, t # s, flag'[t] # "uninitialized", IsSolved(t)'
      PROVE  Exact(t)'
  <2>1. CASE flag[t] # "uninitialized"
    <3>1. IsSolved(t)
      BY <1>2, <1>4, <2>1 DEF IsSolved, IsGoalOrTerminal
    <3> QED BY <1>2, <1>4, <2>1, <3>1 DEF SolvedExact, Exact
  <2>2. CASE flag[t] = "uninitialized"
    <3>1. flag'[t] = InitialFlag(t) /\ value'[t] = InitialValue(t)
      BY <1>2, <1>4, <2>2
    <3>2. t \notin solved
      BY <2>2 DEF IInv, SolvedClosed
    <3>3. InitialFlag(t) \in {"goal", "terminal"}
      BY <1>4, <3>1, <3>2 DEF IsSolved, IsGoalOrTerminal
    <3> QED BY <3>1, <3>3, InitialExact DEF Exact
  <2> QED BY <2>1, <2>2
<1>5. ASSUME IsSolved(s)' PROVE Exact(s)'
  <2>1. \A t \in Neighbours(s) : IsSolved(t)'
    <3>1. CASE s \in solved'
      BY <3>1 DEF IInv, SolvedClosed
    <3>2. CASE s \notin solved'
      BY <1>2, <1>5, <3>2 DEF IsSolved, IsGoalOrTerminal
    <3> QED BY <3>1, <3>2
  <2>2. \A t \in Neighbours(s) : t # s
    BY NeighboursType
  <2>3. \A t \in Neighbours(s) : value'[t] = StarValue[t]
    BY <1>2, <1>4, <2>1, <2>2 DEF Exact, StarValue
  <2>4. PICK v : v = value'
    OBVIOUS
  <2>5. BellmanValue(v, s) = BellmanValue(StarValue, s)
    BY <2>3, <2>4, BellmanValueSame
  <2>6. BellmanValue(StarValue, s) = Point(OptimalValue[s])
    BY <1>1, StarBellman
  <2> QED BY <1>2, <2>4, <2>5, <2>6 DEF Exact
<1> QED BY <1>3, <1>4, <1>5 DEF SolvedExact

LEMMA InitializeExact ==
  ASSUME IInv, SolvedExact, InitializeInitialState(initial_state),
         solved' = solved
  PROVE  SolvedExact'
<1>1. PICK s \in State : s = initial_state
  BY AOAssumption DEF IInv, TypeOK, AOTypeOK
<1>2. CASE UNCHANGED base_vars
  BY <1>2 DEF SolvedExact, Exact, base_vars, IsSolved, IsGoalOrTerminal
<1>3. CASE /\ flag[s] = "uninitialized"
           /\ flag' = [flag EXCEPT ![s] = InitialFlag(s)]
           /\ value' = [value EXCEPT ![s] = InitialValue(s)]
  <2>1. /\ \A t \in State : t # s => flag'[t] = flag[t] /\ value'[t] = value[t]
        /\ flag'[s] = InitialFlag(s) /\ value'[s] = InitialValue(s)
    BY <1>3 DEF IInv, TypeOK, AOTypeOK, BaseTypeOK
  <2>2. s \notin solved
    BY <1>3 DEF IInv, SolvedClosed
  <2>3. IsSolved(s)' => Exact(s)'
    <3>1. IsSolved(s)' => InitialFlag(s) \in {"goal", "terminal"}
      BY <2>1, <2>2 DEF IsSolved, IsGoalOrTerminal
    <3> QED BY <2>1, <3>1, InitialExact DEF Exact
  <2>4. \A t \in Goal : flag'[t] \in {"uninitialized", "goal"}
    BY <2>1, MDPAssumption DEF SolvedExact, InitialFlag
  <2>5. \A t \in State : t # s /\ flag'[t] # "uninitialized" /\ IsSolved(t)'
          => Exact(t)'
    BY <2>1 DEF SolvedExact, Exact, IsSolved, IsGoalOrTerminal
  <2> QED BY <2>3, <2>4, <2>5 DEF SolvedExact
<1> QED BY <1>1, <1>2, <1>3 DEF InitializeInitialState

(* A solved state has its optimal value from then on, whatever the order   *)
(* in which states are expanded and updated, and the search need not end.  *)
THEOREM SolvedStatesOptimal ==
  ASSUME ~StorePolicy
  PROVE  Spec => []SolvedOptimal
<1>1. Init => SolvedExact
  <2> SUFFICES ASSUME Init PROVE SolvedExact
    OBVIOUS
  <2>1. \A s \in State : flag[s] = "uninitialized"
    BY DEF Init, AOInit, BaseInit
  <2> QED BY <2>1, MDPAssumption DEF SolvedExact
<1>2. IInv /\ IInv' /\ SolvedExact /\ [Next]_vars => SolvedExact'
  <2> SUFFICES ASSUME IInv, IInv', SolvedExact, [Next]_vars PROVE SolvedExact'
    OBVIOUS
  <2>1. CASE UNCHANGED base_vars /\ solved' \subseteq solved
    BY <2>1 DEF SolvedExact, Exact, base_vars, IsSolved, IsGoalOrTerminal
  <2> QED BY <2>1, StepCases, InitializeExact, UpdateExact
<1>3. SolvedExact => SolvedOptimal
  BY ApproxEqualReflexive DEF SolvedExact, SolvedOptimal, Exact, Changed
<1> QED BY <1>1, <1>2, <1>3, Invariance, PTL DEF Spec

-----------------------------------------------------------------------------
(* What values follow from, when the tolerance is zero.                    *)

(* s is known to have a value that may have to be updated: it is in the    *)
(* queue, or about to be, or will never be updated.                        *)
Due(s) ==
  \/ /\ pc = "tip_value"
     /\ s \notin solved
     /\ \E e \in queue : e[2] = s
  \/ /\ pc = "update_order"
     /\ tip.value_changed
     /\ tip.state \in Neighbours(s)
  \/ pc = "timeout"

Follow(s) == value[s] = BellmanValue(value, s)

AllFollow == \A s \in State : flag[s] = "initialized" => Follow(s) \/ Due(s)

(* Without a tolerance, what is not changed is the same.                   *)
LEMMA UnchangedSame ==
  ASSUME Epsilon = 0, NEW x \in Bounds, NEW y \in Bounds, ~Changed(x, y)
  PROVE  x = y
<1>1. /\ x.lower \in Int /\ y.lower \in Int /\ x.upper \in Int /\ y.upper \in Int
      /\ x = [lower |-> x.lower, upper |-> x.upper]
      /\ y = [lower |-> y.lower, upper |-> y.upper]
  BY DEF Bounds
<1>2. x.lower = y.lower /\ x.upper = y.upper
  BY <1>1 DEF Changed, ApproxEqual
<1> QED BY <1>1, <1>2

(* After an update of s its value follows, and so does that of every state *)
(* that is not waiting for s, or not for a new value.                      *)
LEMMA UpdateFollow ==
  ASSUME IInv, NEW s \in State, flag[s] \in {"fringe", "initialized"},
         s \notin solved, UpdateValue(s)
  PROVE  /\ Follow(s)'
         /\ \A p \in State : p # s /\ flag'[p] = "initialized" =>
              /\ flag[p] = "initialized"
              /\ s \in Neighbours(p) => p \in parents[s] /\ Waits(p)
              /\ Follow(p) /\ (s \in Neighbours(p) => value'[s] = value[s]) =>
                   Follow(p)'
<1>1. BaseTypeOK /\ NeighboursKnown
  BY DEF IInv, TypeOK, AOTypeOK
<1>2. /\ \A t \in State : t # s /\ flag[t] # "uninitialized" =>
           flag'[t] = flag[t] /\ value'[t] = value[t]
      /\ value'[s] = BellmanValue(value', s)
  BY <1>1, UpdateLeaves
<1>3. FlagsAfter(s)
  BY <1>1, UpdateFlags
<1>4. ASSUME NEW p \in State, p # s, flag'[p] = "initialized"
      PROVE  /\ flag[p] = "initialized"
             /\ s \in Neighbours(p) => p \in parents[s] /\ Waits(p)
             /\ Follow(p) /\ (s \in Neighbours(p) => value'[s] = value[s]) =>
                  Follow(p)'
  <2>1. flag[p] = "initialized"
    BY <1>3, <1>4 DEF FlagsAfter
  <2>2. ASSUME s \in Neighbours(p) PROVE p \in parents[s] /\ Waits(p)
    <3>1. ~IsSolved(s)
      BY DEF IsSolved, IsGoalOrTerminal
    <3>2. Waits(p)
      BY <2>1, <2>2, <3>1 DEF Waits, IInv, SolvedClosed
    <3> QED BY <2>2, <3>1, <3>2 DEF IInv, Linked
  <2>3. ASSUME Follow(p), s \in Neighbours(p) => value'[s] = value[s]
        PROVE  Follow(p)'
    <3>1. \A t \in Neighbours(p) : t \in State /\ flag[t] # "uninitialized"
      BY <1>1, <2>1, NeighboursType DEF NeighboursKnown
    <3>2. PICK v, w : v = value /\ w = value'
      OBVIOUS
    <3>3. \A t \in Neighbours(p) : v[t] = w[t]
      BY <1>2, <2>3, <3>1, <3>2
    <3>4. BellmanValue(v, p) = BellmanValue(w, p)
      BY <3>3, BellmanValueSame
    <3>5. value'[p] = value[p]
      BY <1>2, <1>4, <2>1
    <3> QED BY <2>3, <3>2, <3>4, <3>5 DEF Follow
  <2> QED BY <2>1, <2>2, <2>3
<1> QED BY <1>2, <1>4 DEF Follow

(* What is put in the queue: all parents of s are in it afterwards, if it  *)
(* holds the marked ones but s.                                            *)
LEMMA PushAll ==
  ASSUME IInv, NEW s \in State, NEW is_solved, NEW labels, NEW rest,
         PushParents(s, is_solved, labels, rest),
         \A p \in marked : IsSolved(p) \/ p = s \/ \E e \in rest : e[2] = p
  PROVE  \A p \in parents[s] : \E e \in queue' : e[2] = p
<1> SUFFICES ASSUME NEW p \in parents[s] PROVE \E e \in queue' : e[2] = p
  OBVIOUS
<1>1. queue' = rest \union {<<update_order[q], q>> : q \in parents[s] \ marked}
  BY DEF PushParents, ToQueue
<1>2. p # s /\ ~IsSolved(p)
  BY ParentsWait DEF Waits, IsSolved, IsGoalOrTerminal
<1>3. CASE p \in marked
  BY <1>1, <1>2, <1>3
<1>4. CASE p \notin marked
  <2>1. <<update_order[p], p>> \in queue' /\ <<update_order[p], p>>[2] = p
    BY <1>1, <1>4
  <2> QED BY <2>1
<1> QED BY <1>3, <1>4

(* An expansion: values of other states follow still, or from the tip.     *)
LEMMA ExpandFollow ==
  ASSUME Epsilon = 0, IInv, IInv', AllFollow, Expand
  PROVE  AllFollow'
<1>1. PICK s \in State :
           /\ flag[s] = "fringe" /\ s \notin solved /\ UpdateValue(s)
           /\ \A u \in marked : IsSolved(u)
           /\ \/ /\ PushParents(s, TRUE,
                      IF flag'[s] = "terminal" THEN solved
                      ELSE solved \union {s}, {})
                 /\ pc' = "tip_value"
              \/ /\ tip' = [state |-> s,
                            value_changed |-> Changed(value[s], value'[s])]
                 /\ pc' = "update_order"
  BY ExpandFacts
<1>2. /\ Follow(s)'
      /\ \A p \in State : p # s /\ flag'[p] = "initialized" =>
           /\ flag[p] = "initialized"
           /\ s \in Neighbours(p) => p \in parents[s] /\ Waits(p)
           /\ Follow(p) /\ (s \in Neighbours(p) => value'[s] = value[s]) =>
                Follow(p)'
  BY <1>1, UpdateFollow
<1>3. pc = "loop" /\ value[s] \in Bounds /\ value'[s] \in Bounds
  BY DEF Expand, IInv, TypeOK, AOTypeOK, BaseTypeOK
<1> SUFFICES ASSUME NEW p \in State, flag'[p] = "initialized", p # s
             PROVE  Follow(p)' \/ Due(p)'
  BY <1>2 DEF AllFollow
<1>4. Follow(p)
  BY <1>2, <1>3 DEF AllFollow, Due
<1>5. CASE s \notin Neighbours(p) \/ value'[s] = value[s]
  BY <1>2, <1>4, <1>5
<1>6. CASE s \in Neighbours(p) /\ value'[s] # value[s]
  <2>1. p \in parents[s] /\ Waits(p)
    BY <1>2, <1>6
  <2>2. CASE PushParents(s, TRUE, IF flag'[s] = "terminal" THEN solved
                                  ELSE solved \union {s}, {})
             /\ pc' = "tip_value"
    <3>1. PICK labels, rest :
            /\ rest = {}
            /\ labels = IF flag'[s] = "terminal" THEN solved
                        ELSE solved \union {s}
      OBVIOUS
    <3>2. PushParents(s, TRUE, labels, rest)
      BY <2>2, <3>1
    <3>3. \E e \in queue' : e[2] = p
      BY <1>1, <2>1, <3>2, PushAll
    <3>4. p \notin solved'
      BY <2>1, <2>2 DEF PushParents, Waits
    <3> QED BY <2>2, <3>3, <3>4 DEF Due
  <2>3. CASE /\ tip' = [state |-> s,
                        value_changed |-> Changed(value[s], value'[s])]
             /\ pc' = "update_order"
    <3>1. Changed(value[s], value'[s])
      BY <1>3, <1>6, UnchangedSame
    <3> QED BY <1>6, <2>3, <3>1 DEF Due
  <2> QED BY <1>1, <2>2, <2>3
<1> QED BY <1>5, <1>6

(* A turn of the propagation of values.                                    *)
LEMMA TipValueFollow ==
  ASSUME Epsilon = 0, IInv, IInv', AllFollow, TipValue
  PROVE  AllFollow'
<1>1. pc = "tip_value" /\ pc' = pc
  BY DEF TipValue
<1>2. PICK e \in queue, s \in State :
           /\ e[2] = s
           /\ \/ /\ IsSolved(s) /\ queue' = queue \ {e}
                 /\ UNCHANGED <<base_vars, solved, marked, parents, unsolved>>
              \/ /\ Waits(s) /\ UpdateValue(s)
                 /\ \/ /\ AllSuccessorsSolved(s)
                       /\ PushParents(s, TRUE, solved \union {s}, queue \ {e})
                    \/ /\ ~AllSuccessorsSolved(s)
                       /\ Changed(value[s], value'[s])
                       /\ PushParents(s, FALSE, solved, queue \ {e})
                    \/ /\ ~AllSuccessorsSolved(s)
                       /\ ~Changed(value[s], value'[s])
                       /\ queue' = queue \ {e}
                       /\ marked' = marked \ {s}
                       /\ UNCHANGED <<solved, parents, unsolved>>
  BY TipValueCases
<1>3. CASE /\ IsSolved(s) /\ queue' = queue \ {e}
           /\ UNCHANGED <<base_vars, solved, marked, parents, unsolved>>
  <2> SUFFICES ASSUME NEW p \in State, flag'[p] = "initialized"
               PROVE  Follow(p)' \/ Due(p)'
    BY DEF AllFollow
  <2>1. flag[p] = "initialized" /\ (Follow(p)' <=> Follow(p))
    BY <1>3 DEF base_vars, Follow
  <2>2. CASE p = s
    <3>1. ~Due(p)
      BY <1>1, <1>3, <2>1, <2>2 DEF Due, IsSolved, IsGoalOrTerminal
    <3> QED BY <2>1, <3>1 DEF AllFollow
  <2>3. CASE p # s
    <3>1. Due(p) => Due(p)'
      BY <1>1, <1>2, <1>3, <2>3 DEF Due
    <3> QED BY <2>1, <3>1 DEF AllFollow
  <2> QED BY <2>2, <2>3
<1>4. CASE Waits(s) /\ UpdateValue(s)
  <2>1. flag[s] = "initialized" /\ s \notin solved
    BY <1>4 DEF Waits
  <2>2. /\ Follow(s)'
        /\ \A p \in State : p # s /\ flag'[p] = "initialized" =>
             /\ flag[p] = "initialized"
             /\ s \in Neighbours(p) => p \in parents[s] /\ Waits(p)
             /\ Follow(p) /\ (s \in Neighbours(p) => value'[s] = value[s]) =>
                  Follow(p)'
    BY <1>4, <2>1, UpdateFollow
  <2>3. PICK rest : rest = queue \ {e}
    OBVIOUS
  <2>4. PICK labels : labels = solved \union {s}
    OBVIOUS
  <2>5. \/ PushParents(s, TRUE, labels, rest)
        \/ PushParents(s, FALSE, solved, rest)
        \/ /\ ~Changed(value[s], value'[s]) /\ queue' = rest /\ solved' = solved
    BY <1>2, <1>4, <2>1, <2>3, <2>4 DEF IsSolved, IsGoalOrTerminal
  <2>6. /\ solved' \subseteq solved \union {s}
        /\ \A f \in rest : f \in queue'
    BY <2>4, <2>5 DEF PushParents
  <2> SUFFICES ASSUME NEW p \in State, flag'[p] = "initialized", p # s
               PROVE  Follow(p)' \/ Due(p)'
    BY <2>2 DEF AllFollow
  <2>7. Due(p) => Due(p)'
    BY <1>1, <1>2, <2>3, <2>6 DEF Due
  <2>8. CASE Due(p) \/ s \notin Neighbours(p) \/ value'[s] = value[s]
    BY <2>2, <2>7, <2>8 DEF AllFollow
  <2>9. CASE s \in Neighbours(p) /\ value'[s] # value[s]
    <3>1. p \in parents[s] /\ Waits(p)
      BY <2>2, <2>9
    <3>2. Changed(value[s], value'[s])
      <4>1. value[s] \in Bounds /\ value'[s] \in Bounds
        BY DEF IInv, TypeOK, AOTypeOK, BaseTypeOK
      <4> QED BY <2>9, <4>1, UnchangedSame
    <3>3. \A q \in marked : IsSolved(q) \/ q = s \/ \E f \in rest : f[2] = q
      BY <1>1, <1>2, <2>3 DEF IInv, MarksOK
    <3>4. \E f \in queue' : f[2] = p
      <4>1. CASE PushParents(s, TRUE, labels, rest)
        BY <3>1, <3>3, <4>1, PushAll
      <4>2. CASE PushParents(s, FALSE, solved, rest)
        BY <3>1, <3>3, <4>2, PushAll
      <4> QED BY <2>5, <3>2, <4>1, <4>2
    <3>5. p \notin solved'
      BY <2>6, <3>1 DEF Waits
    <3> QED BY <1>1, <3>4, <3>5 DEF Due
  <2> QED BY <2>8, <2>9
<1> QED BY <1>2, <1>3, <1>4

(* The parents of the tip are queued, or its value is what it was.         *)
LEMMA EndUpdateOrderFollow ==
  ASSUME IInv, AllFollow, EndUpdateOrder
  PROVE  AllFollow'
<1>1. /\ pc = "update_order" /\ queue = {} /\ UNCHANGED <<base_vars, tip>>
      /\ \A p \in marked : IsSolved(p)
      /\ tip.state \in State /\ Waits(tip.state)
  BY DEF EndUpdateOrder, IInv, TypeOK, AOTypeOK, MarksOK, QueueOK
<1>2. PICK s \in State : s = tip.state
  BY <1>1
<1> SUFFICES ASSUME NEW p \in State, flag'[p] = "initialized"
             PROVE  Follow(p)' \/ Due(p)'
  BY DEF AllFollow
<1>3. flag[p] = "initialized" /\ (Follow(p)' <=> Follow(p))
  BY <1>1 DEF base_vars, Follow
<1>4. CASE Follow(p)
  BY <1>3, <1>4
<1>5. CASE Due(p)
  <2>1. tip.value_changed /\ s \in Neighbours(p)
    BY <1>1, <1>2, <1>5 DEF Due
  <2>2. PICK rest : rest = {}
    OBVIOUS
  <2>3. PushParents(s, FALSE, solved, rest) /\ pc' = "tip_value"
    BY <1>2, <2>1, <2>2 DEF EndUpdateOrder
  <2>4. ~IsSolved(s)
    BY <1>1, <1>2 DEF Waits, IsSolved, IsGoalOrTerminal
  <2>5. Waits(p)
    BY <1>3, <2>1, <2>4 DEF Waits, IInv, SolvedClosed
  <2>6. p \in parents[s]
    BY <2>1, <2>4, <2>5 DEF IInv, Linked
  <2>7. \E e \in queue' : e[2] = p
    BY <1>1, <2>3, <2>6, PushAll
  <2>8. p \notin solved'
    BY <2>3, <2>5 DEF PushParents, Waits
  <2> QED BY <2>3, <2>7, <2>8 DEF Due
<1> QED BY <1>3, <1>4, <1>5 DEF AllFollow

LEMMA SolveFollow ==
  ASSUME IInv, AllFollow, Solve
  PROVE  AllFollow'
<1>1. PICK s \in State : s = initial_state
  BY AOAssumption DEF IInv, TypeOK, AOTypeOK
<1>2. pc = "solve" /\ InitializeInitialState(s)
  BY <1>1 DEF Solve
<1>3. /\ \A t \in State : flag[t] # "uninitialized" =>
           flag'[t] = flag[t] /\ value'[t] = value[t]
      /\ \A t \in State : flag[t] = "uninitialized" =>
           flag'[t] # "initialized"
  BY <1>2 DEF InitializeInitialState, base_vars, InitialFlag, IInv, TypeOK,
              AOTypeOK, BaseTypeOK
<1> SUFFICES ASSUME NEW p \in State, flag'[p] = "initialized"
             PROVE  Follow(p)'
  BY DEF AllFollow
<1>4. flag[p] = "initialized" /\ value'[p] = value[p] /\ Follow(p)
  BY <1>2, <1>3 DEF AllFollow, Due
<1>5. \A t \in Neighbours(p) : t \in State /\ flag[t] # "uninitialized"
  BY <1>4, NeighboursType DEF IInv, NeighboursKnown
<1>6. PICK v, w : v = value /\ w = value'
  OBVIOUS
<1>7. \A t \in Neighbours(p) : v[t] = w[t]
  BY <1>3, <1>5, <1>6
<1>8. BellmanValue(v, p) = BellmanValue(w, p)
  BY <1>7, BellmanValueSame
<1> QED BY <1>4, <1>6, <1>8 DEF Follow

(* Whenever an expansion begins or the search ends with a solution, the    *)
(* value of every expanded state is the one that follows from the values   *)
(* of its successors: the propagation that stops at unchanged values and   *)
(* passes over marked states forgets none.                                 *)
THEOREM PropagationComplete ==
  ASSUME ~StorePolicy, Epsilon = 0
  PROVE  Spec => []ValuesPropagated
<1>1. Init => AllFollow
  BY DEF Init, AOInit, BaseInit, AllFollow
<1>2. IInv /\ IInv' /\ AllFollow /\ [Next]_vars => AllFollow'
  <2> SUFFICES ASSUME IInv, IInv', AllFollow, [Next]_vars PROVE AllFollow'
    OBVIOUS
  <2>1. CASE Skip \/ EndTipValue
    <3>1. pc = "loop" \/ (pc = "tip_value" /\ queue = {})
      BY <2>1 DEF Skip, EndTipValue
    <3>2. UNCHANGED base_vars
      BY <2>1 DEF Skip, EndTipValue
    <3> QED BY <3>1, <3>2 DEF AllFollow, Due, Follow, base_vars
  <2>2. CASE UpdateOrder
    BY <2>2 DEF UpdateOrder, AllFollow, Due, Follow, base_vars
  <2>3. CASE Timeout
    BY <2>3 DEF Timeout, AllFollow, Due, Follow, base_vars
  <2>4. CASE UNCHANGED vars
    BY <2>4 DEF vars, AllFollow, Due, Follow, base_vars, ao_vars
  <2> QED BY <2>1, <2>2, <2>3, <2>4, SolveFollow, ExpandFollow, TipValueFollow,
             EndUpdateOrderFollow
          DEF Next, Step, Stop
<1>3. AllFollow => ValuesPropagated
  BY ApproxEqualReflexive DEF AllFollow, Due, Follow, ValuesPropagated, Changed
<1> QED BY <1>1, <1>2, <1>3, Invariance, PTL DEF Spec
=============================================================================
