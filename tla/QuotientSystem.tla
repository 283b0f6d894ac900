--------------------------- MODULE QuotientSystem ---------------------------
(***************************************************************************)
(* The class QuotientSystem: a view of a decision process in which sets of *)
(* states, the quotients, are collapsed to one of their members.           *)
(*                                                                         *)
(* quotient_ids gives each state the ID of its representative, and a flag  *)
(* that tells members of a quotient from single states.  quotients gives   *)
(* each representative its QuotientInformation: the members, each with its *)
(* outer actions (those the quotient offers) and its inner actions (those  *)
(* that were used to collapse it), and how terminating in it is valued.    *)
(* An action of the view is a QAction, a pair of a member and an action.   *)
(***************************************************************************)
EXTENDS BellmanEquations, SequencesExt

VARIABLES
  quotient_ids,
  quotients

quotient_vars == <<quotient_ids, quotients>>

QAction == State \X Action

QuotientInit ==
  /\ quotient_ids = [s \in State |-> [id |-> s, flag |-> FALSE]]
  /\ quotients = [r \in {} |-> <<>>]

IsCollapsed(s) == quotient_ids[s].flag

(* translate_state_id.                                                     *)
Translated(s) == quotient_ids[s].id

(* get_state accepts these IDs.                                            *)
Representatives == {s \in State : Translated(s) = s}

(* What get_state looks up for a member of a quotient, whether or not it   *)
(* is the representative.                                                  *)
QuotientInfo(s) == quotients[Translated(s)]

MemberInfos(s) == ToSet(QuotientInfo(s).state_infos)

(* member_ids, and the only member of a single state.                      *)
MembersOf(r) ==
  IF IsCollapsed(r) THEN {i.state_id : i \in MemberInfos(r)} ELSE {r}

(* generate_applicable_actions: the outer actions.                         *)
QApplicable(r) ==
  IF IsCollapsed(r)
  THEN UNION {{i.state_id} \X i.outer_acts : i \in MemberInfos(r)}
  ELSE {r} \X Applicable(r)

(* get_collapsed_actions: the inner actions.                               *)
CollapsedActions(r) ==
  IF IsCollapsed(r)
  THEN UNION {{i.state_id} \X i.inner_acts : i \in MemberInfos(r)}
  ELSE {}

(* generate_action_transitions: the successors of qa that are not members  *)
(* of its own quotient, and the representatives that stand for them.       *)
QLeaving(qa) ==
  {u \in Successors(qa[1], qa[2]) : Translated(u) # Translated(qa[1])}

QNonSource(qa) == {Translated(u) : u \in QLeaving(qa)}

(* get_termination_info.                                                   *)
QIsGoal(s) == IF IsCollapsed(s) THEN QuotientInfo(s).is_goal ELSE s \in Goal

QTerminationCost(s) ==
  IF IsCollapsed(s) THEN QuotientInfo(s).termination_cost ELSE TerminationCost[s]

(* QuotientMaxHeuristic.                                                   *)
QEstimate(r) == Max({Estimate[m] : m \in MembersOf(r)})

-----------------------------------------------------------------------------
(* The Bellman equations of the view, for values v of the representatives. *)

QTails(r) == {qa \in QApplicable(r) : QLeaving(qa) # {}}

QQValue(v, qa) ==
  LET dist == Transition[qa[1]][qa[2]]
      out  == QLeaving(qa)
  IN  IF \E u \in out : v[Translated(u)] = Infinite THEN Infinite
      ELSE Saturated(
             ( TotalWeight[qa[1]][qa[2]] * ActionCost[qa[2]]
               + SumFunction([u \in out |-> dist[u] * v[Translated(u)]]) )
             \div SumFunction([u \in out |-> dist[u]]) )

(* The new value of r, and the greedy actions: none where terminating is   *)
(* at least as good.                                                       *)
QBackup(v, r) ==
  LET q    == [qa \in QTails(r) |-> QQValue(v, qa)]
      best == Min({Infinite} \union {q[qa] : qa \in DOMAIN q})
  IN  IF DOMAIN q = {} \/ best >= QTerminationCost(r)
      THEN [value |-> QTerminationCost(r), greedy |-> {}]
      ELSE [value |-> best, greedy |-> {qa \in DOMAIN q : q[qa] = best}]

-----------------------------------------------------------------------------
(* Collapsing.                                                             *)

(* partition_actions for a state that was single: the actions in filter    *)
(* become inner ones; all of them, if there is no filter.                  *)
NewMember(s, filter) ==
  LET inner == {a \in Applicable(s) : filter = {} \/ <<s, a>> \in filter}
  IN  [state_id |-> s, inner_acts |-> inner,
       outer_acts |-> Applicable(s) \ inner]

(* Mutant of FilterActions: outer actions in the filter are forgotten.     *)
FilterActionsForgetful(infos, filter) ==
  [i \in DOMAIN infos |->
     [infos[i] EXCEPT
        !.outer_acts = {a \in @ : <<infos[i].state_id, a>> \notin filter}]]

(* filter_actions for the members of a quotient: outer actions in the      *)
(* filter become inner ones.                                               *)
FilterActions(infos, filter) ==
  LET gone(i) == {a \in i.outer_acts : <<i.state_id, a>> \in filter}
  IN  [i \in DOMAIN infos |->
         [infos[i] EXCEPT !.outer_acts = @ \ gone(infos[i]),
                          !.inner_acts = @ \union gone(infos[i])]]

(* What an entry of the sub-MDP, a representative and the actions to be    *)
(* made inner, contributes to the member list.                             *)
Contribution(entry) ==
  IF IsCollapsed(entry.state_id)
  THEN FilterActions(quotients[entry.state_id].state_infos, entry.aops)
  ELSE <<NewMember(entry.state_id, entry.aops)>>

MergedTermination(submdp) ==
  Min({QTerminationCost(submdp[i].state_id) : i \in DOMAIN submdp})

(* build_quotient: collapse the states of submdp, a sequence of entries, to the first one. *)
BuildQuotient(submdp) ==
  LET rid     == Head(submdp).state_id
      entries == {submdp[i].state_id : i \in DOMAIN submdp}
      infos   == FlattenSeq([i \in DOMAIN submdp |-> Contribution(submdp[i])])
      members == {infos[i].state_id : i \in DOMAIN infos}
      info    == [state_infos |-> infos,
                  termination_cost |-> MergedTermination(submdp),
                  is_goal |-> \E s \in entries : QIsGoal(s)]
  IN  /\ quotients' =
           [r \in (DOMAIN quotients \ entries) \union {rid} |->
              IF r = rid THEN info ELSE quotients[r]]
      /\ quotient_ids' =
           [s \in State |-> IF s \in members THEN [id |-> rid, flag |-> TRUE]
                            ELSE quotient_ids[s]]

-----------------------------------------------------------------------------

(* The IDs and the member lists tell the same story after any number of    *)
(* quotients were merged into others: the members of a quotient, and only  *)
(* they, have its ID and the flag, its representative is the first of      *)
(* them, each member has all its actions exactly once, and terminating     *)
(* counts as in the best member.                                           *)
QuotientConsistent ==
  /\ \A s \in State : IsCollapsed(s) => Translated(s) \in DOMAIN quotients
  /\ \A r \in DOMAIN quotients :
       LET infos == quotients[r].state_infos
       IN  /\ r = Head(infos).state_id
           /\ MembersOf(r) = {s \in State : Translated(s) = r /\ IsCollapsed(s)}
           /\ Len(infos) = Cardinality(MembersOf(r))
           /\ quotients[r].is_goal <=> MembersOf(r) \intersect Goal # {}
           /\ quotients[r].termination_cost =
                Min({TerminationCost[m] : m \in MembersOf(r)})
  /\ \A r \in DOMAIN quotients : \A i \in MemberInfos(r) :
       /\ i.outer_acts \union i.inner_acts = Applicable(i.state_id)
       /\ i.outer_acts \intersect i.inner_acts = {}
=============================================================================
