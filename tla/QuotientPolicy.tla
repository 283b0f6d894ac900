--------------------------- MODULE QuotientPolicy ---------------------------
(***************************************************************************)
(* compute_policy after a search on a quotient system: the policy of the   *)
(* quotient states is turned into a policy of the original states, which   *)
(* leads every member of a collapsed trap to the one that has the greedy   *)
(* action of the quotient.  FRET and the trap-aware searches share it.     *)
(***************************************************************************)
EXTENDS QuotientSearch

VARIABLES
  queue,             \* queue: quotient states to visit
  visited,           \* visited
  decision           \* policy: the decisions for the original states

extract_vars == <<queue, visited, decision>>

ExtractInit ==
  /\ queue = {}
  /\ visited = {}
  /\ decision = [s \in State |-> NoAction]

BeginExtract(s) ==
  /\ queue' = {s}
  /\ visited' = {s}
  /\ UNCHANGED decision

(* The members from which the actions in acts lead to exit, in at most n   *)
(* steps.                                                                  *)
TowardsExit(exit, acts, n) ==
  LET parents(t) == {qa[1] : qa \in {x \in acts : t \in NonSource(x[1], x[2])}}
      within[k \in Nat] ==
        {exit} \union
        (IF k = 0 THEN {} ELSE UNION {parents(t) : t \in within[k - 1]})
  IN  within[n]

(* Mutant of InnerChoices: any inner action will do.                       *)
InnerChoicesAny(m, exit, acts) == {a \in Action : <<m, a>> \in acts}

(* The inner actions the backward search from exit may choose for m: those *)
(* that may come one step closer to it.                                    *)
InnerChoices(m, exit, acts) ==
  LET depth == Min({n \in 1..Cardinality(State) :
                      m \in TowardsExit(exit, acts, n)})
  IN  {a \in Action : /\ <<m, a>> \in acts
                      /\ NonSource(m, a)
                           \intersect TowardsExit(exit, acts, depth - 1) # {}}

(* A quotient state is visited that has no action.                         *)
VisitTerminal(s) ==
  /\ policy[s] = NoAction
  /\ queue' = queue \ {s}
  /\ UNCHANGED <<visited, decision>>

(* ... or that has one: its owner is the exit of the trap, and every other *)
(* member that can is directed there.                                      *)
VisitDecision(s) ==
  /\ policy[s] # NoAction
  /\ LET exit  == policy[s][1]
         acts  == CollapsedActions(s)
         inner == TowardsExit(exit, acts, Cardinality(State)) \ {exit}
         next  == QNonSource(policy[s])
     IN  /\ \E choice \in [inner -> Action] :
              /\ \A m \in inner : choice[m] \in InnerChoices(m, exit, acts)
              /\ decision' = [m \in State |->
                   IF m = exit THEN policy[s][2]
                   ELSE IF m \in inner THEN choice[m] ELSE decision[m]]
         /\ queue' = (queue \ {s}) \union (next \ visited)
         /\ visited' = visited \union next

ExtractTypeOK ==
  /\ queue \subseteq visited
  /\ visited \subseteq State
  /\ decision \in [State -> Action \union {NoAction}]
=============================================================================
