------------------------ MODULE QuotientCorrectness -------------------------
(***************************************************************************)
(* What a search that collapses traps achieves, stated against the optimal *)
(* values.                                                                 *)
(***************************************************************************)
EXTENDS QuotientPolicy, TrapOptimalValues

(* The inner actions of a set that was collapsed do not leave it and       *)
(* connect all of its members, whatever is merged into it.                 *)
CollapsedConnected ==
  \A r \in DOMAIN quotients :
    /\ \A qa \in CollapsedActions(r) :
         NonSource(qa[1], qa[2]) \subseteq MembersOf(r)
    /\ \A m \in MembersOf(r) :
         TowardsExit(m, CollapsedActions(r), Cardinality(State)) = MembersOf(r)

(* They also cost nothing: the set is a trap.  So its members have one     *)
(* optimal value, which is never exceeded by the value that is stored for  *)
(* all of them.                                                            *)
CollapsedAreTraps ==
  /\ CollapsedConnected
  /\ \A r \in DOMAIN quotients :
       /\ \A qa \in CollapsedActions(r) : ActionCost[qa[2]] = 0
       /\ \A m \in MembersOf(r) : OptimalValue[m] = OptimalValue[r]
       /\ value[r] <= OptimalValue[r]

(* The states that the extracted policy may visit from s.                  *)
Visits(s) ==
  LET within[n \in Nat] ==
        {s} \union
        (IF n = 0 THEN {}
         ELSE UNION {NonSource(t, decision[t]) :
                       t \in {u \in within[n - 1] : decision[u] # NoAction}})
  IN  within[Cardinality(State)]

(* The value of s is optimal, and in every state it may lead to from s the *)
(* policy has a decision that is greedy for the optimal values, unless     *)
(* terminating is best; and it never stays away from termination for ever. *)
PolicyOptimalFrom(s) ==
  LET states == Visits(s)
      active == {t \in states : decision[t] # NoAction}
  IN  /\ value[s] = OptimalValue[s]
      /\ \A t \in active : decision[t] \in Greedy(OptimalBounds, t)
      /\ \A t \in states \ active : OptimalValue[t] = TerminationCost[t]
      /\ \A loop \in (SUBSET active) \ {{}} : \E t \in loop :
           ~(NonSource(t, decision[t]) \subseteq loop)
=============================================================================
