-------------------------- MODULE SearchInstances --------------------------
(***************************************************************************)
(* One small MDP for the model checking of the search algorithms.  It is   *)
(* made of parts that share only their goals, one per situation a search   *)
(* has to cope with; a run chooses parts by its initial states.  Costs are *)
(* multiples of 4 grains; the number in the name of an action is its cost. *)
(*                                                                         *)
(*  r0 r1 r2   a cycle through r0 and r1, a self-loop at r2, and an        *)
(*             alternative at r0 that becomes greedy once values rise;     *)
(*  d0 d1 d2   a dead end d1 the heuristic does not see (its only action   *)
(*             is a self-loop), and one, d2, that it does see;             *)
(*  k0         an alternative to a dead end, d2, that it sees;             *)
(*  e0         a dead end without actions;                                 *)
(*  t0 t1      t0 is led to t1 and back, which is dearer than its          *)
(*             alternative;                                                *)
(*  c0 c1      a chain whose first state looks converged at first;         *)
(*  n0 n1      a heuristic that is admissible but not consistent;          *)
(*  m0 .. m3   MaxProb: action costs are 0, goal mg is worth -8; m1 leads  *)
(*             only to the dead end m2, m0 and m3 form a cycle;            *)
(*  p0 p1 p2   the same with a heuristic that sees the dead end p1.        *)
(***************************************************************************)
EXTENDS Integers, TLC

CONSTANTS r0, r1, r2, d0, d1, d2, e0, t0, t1, c0, c1, n0, n1, k0,
          m0, m1, m2, m3, p0, p1, p2, g, mg
CONSTANTS a4, a12, a8, y0, z0, none

TheAction == {a4, a12, a8, y0, z0}
TheActionCost == (a4 :> 4) @@ (a12 :> 12) @@ (a8 :> 8) @@ (y0 :> 0) @@ (z0 :> 0)

TheGoal == {g, mg}

Even(s, t) == (s :> 1) @@ (t :> 1)
Sure(s) == s :> 1
DeadEnd == [x \in {} |-> {}]

TheTransition ==
     (r0 :> ((a4 :> Even(r1, r2)) @@ (a12 :> Sure(g))))
  @@ (r1 :> ((a4 :> Even(r0, g)) @@ (z0 :> Sure(r1))))
  @@ (r2 :> ((a4 :> Even(r2, g)) @@ (a8 :> Sure(r1))))
  @@ (d0 :> ((a4 :> Even(d1, g)) @@ (a8 :> Even(d2, g)) @@ (a12 :> Sure(g))))
  @@ (d1 :> (z0 :> Sure(d1)))
  @@ (d2 :> DeadEnd)
  @@ (e0 :> DeadEnd)
  @@ (t0 :> ((a4 :> Sure(t1)) @@ (a8 :> Sure(g))))
  @@ (t1 :> (a4 :> Sure(t0)))
  @@ (c0 :> (a4 :> Sure(c1)))
  @@ (c1 :> (a8 :> Sure(g)))
  @@ (n0 :> ((a4 :> Sure(n1)) @@ (a12 :> Sure(g))))
  @@ (n1 :> (a8 :> Sure(g)))
  @@ (m0 :> ((z0 :> Even(mg, m1)) @@ (y0 :> Even(m3, m2))))
  @@ (m1 :> (z0 :> Sure(m2)))
  @@ (m2 :> DeadEnd)
  @@ (m3 :> (z0 :> Even(m0, mg)))
  @@ (k0 :> ((a8 :> Even(d2, g)) @@ (a12 :> Sure(g))))
  @@ (p0 :> ((z0 :> Even(mg, p1)) @@ (y0 :> Even(p2, p1))))
  @@ (p1 :> DeadEnd)
  @@ (p2 :> (z0 :> Even(p0, mg)))
  @@ (g :> DeadEnd)
  @@ (mg :> DeadEnd)

TheState == DOMAIN TheTransition
MaxProbState == {m0, m1, m2, m3, p0, p1, p2, mg}

INFINITE_VALUE == 1000

TheTerminationCost ==
  [s \in TheState |-> CASE s = g -> 0
                        [] s = mg -> -8
                        [] s \in MaxProbState -> 0
                        [] OTHER -> INFINITE_VALUE]

TheEstimate ==
  [s \in TheState |-> CASE s = p1 -> 0
                        [] s \in MaxProbState -> -8
                        [] s \in {r2, c0} -> 4
                        [] s = n0 -> 12
                        [] s = d2 -> INFINITE_VALUE
                        [] OTHER -> 0]

TheOptimalValue ==
     (r0 :> 12) @@ (r1 :> 10) @@ (r2 :> 8)
  @@ (d0 :> 12) @@ (c0 :> 12) @@ (c1 :> 8) @@ (n0 :> 12) @@ (n1 :> 8)
  @@ (m0 :> -4) @@ (m1 :> 0) @@ (m2 :> 0) @@ (m3 :> -6)
  @@ (k0 :> 12) @@ (t0 :> 8) @@ (t1 :> 12) @@ (p0 :> -4) @@ (p1 :> 0) @@ (p2 :> -6)
  @@ (g :> 0) @@ (mg :> -8)
  @@ [s \in {d1, d2, e0} |-> INFINITE_VALUE]
=============================================================================
