--------------------------- MODULE TrapInstances ---------------------------
(***************************************************************************)
(* One small MDP with traps, for the model checking of the algorithms that *)
(* remove them.  It is made of parts that share only their goals and a     *)
(* dead end; a run chooses parts by its initial states.  Costs are         *)
(* multiples of 4 grains; the number in the name of an action is its cost. *)
(*                                                                         *)
(*  x0 x1      a trap with two ways out, the better one not at its entry;  *)
(*  j0         a state before that trap;                                   *)
(*  v0 .. v3   v0 and v1 form a cycle at no cost that may be left to v2    *)
(*             by chance; v1 and v3 form the trap that remains;            *)
(*  w0 .. w5   a component where w2 and w3 cannot end, w4 can by chance    *)
(*             only, and w5 has an alternative to that;                    *)
(*  i0 i1      a component that cannot end;                                *)
(*  q0 q1 q2   MaxProb: action costs are 0, goal mg is worth -8; q0 and q1 *)
(*             form a trap, q2 is worth 0 and loops;                       *)
(*  u0 u1      MaxProb without a goal;                                     *)
(*  h0 h1      two actions with the same successor in the component, one   *)
(*             of them with a self-loop;                                   *)
(*  s0 s1 s2   a trap that may be found in two steps, first without s2;    *)
(*  c0 d0 d1   c0 is lured into d0 and d1, a trap without an exit;         *)
(*  p0 p1 p2   p1 and p2 form a cycle that costs something, and p0 has two *)
(*             equally good actions, of which one leads to p1;             *)
(*  f0 f1 f2   no cycle, but two ways to f1;                               *)
(*  r0 r1      a cycle with one free action, that ends by chance;          *)
(*  l0 l1      a cycle at no cost that is no trap: l0 may fall out of it   *)
(*             to f1 and l1 to f2 by chance, and l0 has another way out;   *)
(*  b0 b1      b1 cannot end, which shows when it is explored; b0 can, or  *)
(*             else may go on to b1.                                       *)
(***************************************************************************)
EXTENDS Integers, TLC

CONSTANTS x0, x1, j0, v0, v1, v2, v3, w0, w2, w3, w4, w5, i0, i1, q0, q1,
          q2, u0, u1, h0, h1, s0, s1, s2, c0, d0, d1, p0,
          p1, p2, f0, f1, f2, r0, r1, l0, l1, b0, b1, dd, g, mg
CONSTANTS a4, a8, a12, y0, z0, none

TheAction == {a4, a8, a12, y0, z0}
TheActionCost == (a4 :> 4) @@ (a12 :> 12) @@ (a8 :> 8) @@ (y0 :> 0) @@ (z0 :> 0)

TheGoal == {g, mg}

TheDenominator == 4

Sure(s) == s :> 4
Even(s, t) == (s :> 2) @@ (t :> 2)
Skewed(s, t, r) == (s :> 2) @@ (t :> 1) @@ (r :> 1)
DeadEnd == [x \in {} |-> {}]

TheTransition ==
     (x0 :> ((z0 :> Sure(x1)) @@ (a12 :> Sure(g))))
  @@ (x1 :> ((z0 :> Sure(x0)) @@ (a4 :> Even(x1, g))))
  @@ (j0 :> ((a4 :> Even(x0, g)) @@ (a12 :> Sure(g))))
  @@ (v0 :> (z0 :> Even(v1, v2)))
  @@ (v1 :> ((z0 :> Sure(v0)) @@ (y0 :> Sure(v3))))
  @@ (v2 :> ((a4 :> Sure(v0)) @@ (a8 :> Sure(g))))
  @@ (v3 :> ((z0 :> Sure(v1)) @@ (a4 :> Sure(g))))
  @@ (w0 :> ((a12 :> Sure(g)) @@ (z0 :> Sure(w4)) @@ (y0 :> Sure(w5))))
  @@ (w2 :> (a4 :> Sure(w3)))
  @@ (w3 :> ((a4 :> Sure(w2)) @@ (y0 :> Even(w0, dd))))
  @@ (w4 :> ((a4 :> Even(w2, g)) @@ (y0 :> Even(w0, dd))))
  @@ (w5 :> ((a4 :> Even(w2, g)) @@ (a8 :> Sure(w0)) @@ (a12 :> Sure(w0))))
  @@ (i0 :> (a4 :> Sure(i1)))
  @@ (i1 :> ((a4 :> Sure(i0)) @@ (y0 :> Sure(dd))))
  @@ (q0 :> (z0 :> Sure(q1)))
  @@ (q1 :> ((z0 :> Sure(q0)) @@ (y0 :> Even(mg, q2))))
  @@ (q2 :> (z0 :> Sure(q2)))
  @@ (u0 :> (z0 :> Sure(u1)))
  @@ (u1 :> (z0 :> Sure(u0)))
  @@ (h0 :> ((a4 :> Even(h1, g)) @@ (a8 :> Skewed(h1, h0, g))))
  @@ (h1 :> (a4 :> Sure(h0)))
  @@ (s0 :> (z0 :> Sure(s1)))
  @@ (s1 :> ((z0 :> Sure(s0)) @@ (y0 :> Sure(s2)) @@ (a12 :> Sure(g))))
  @@ (s2 :> ((z0 :> Sure(s0)) @@ (a4 :> Even(s1, g))))
  @@ (c0 :> ((a4 :> Sure(d0)) @@ (a12 :> Sure(g))))
  @@ (d0 :> (z0 :> Sure(d1)))
  @@ (d1 :> (z0 :> Sure(d0)))
  @@ (p0 :> ((y0 :> Sure(p1)) @@ (a12 :> Sure(g))))
  @@ (p1 :> ((a4 :> Sure(p2)) @@ (a12 :> Sure(g))))
  @@ (p2 :> ((y0 :> Sure(p1)) @@ (a8 :> Sure(g))))
  @@ (f0 :> (a4 :> Even(f1, f2)))
  @@ (f1 :> (a12 :> Sure(g)))
  @@ (f2 :> (a4 :> Sure(f1)))
  @@ (r0 :> (z0 :> Sure(r1)))
  @@ (r1 :> (a4 :> Even(r0, g)))
  @@ (l0 :> ((z0 :> Even(l1, f1)) @@ (a8 :> Sure(g))))
  @@ (l1 :> (z0 :> Even(l0, f2)))
  @@ (b0 :> ((a4 :> Even(b1, g)) @@ (a12 :> Sure(g))))
  @@ (b1 :> (a4 :> Even(b0, dd)))
  @@ (dd :> (a4 :> Sure(dd)))
  @@ (g :> DeadEnd)
  @@ (mg :> DeadEnd)

TheState == DOMAIN TheTransition
MaxProbState == {q0, q1, q2, u0, u1, mg}

INFINITE_VALUE == 200

TheTerminationCost ==
  [s \in TheState |-> CASE s = g -> 0
                        [] s = mg -> -8
                        [] s \in MaxProbState -> 0
                        [] OTHER -> INFINITE_VALUE]

TheEstimate ==
  [s \in TheState |-> CASE s \in MaxProbState -> -8
                        [] s = dd -> INFINITE_VALUE
                        [] s = p1 -> 12
                        [] s \in {r0, r1} -> 8
                        [] OTHER -> 0]

TheOptimalValue ==
     (x0 :> 8) @@ (x1 :> 8) @@ (j0 :> 8)
  @@ (v0 :> 6) @@ (v1 :> 4) @@ (v2 :> 8) @@ (v3 :> 4)
  @@ (w0 :> 12) @@ (w5 :> 20)
  @@ (q0 :> -4) @@ (q1 :> -4) @@ (q2 :> 0)
  @@ (u0 :> 0) @@ (u1 :> 0)
  @@ (h0 :> 12) @@ (h1 :> 16)
  @@ (s0 :> 8) @@ (s1 :> 8) @@ (s2 :> 8)
  @@ (c0 :> 12) @@ (p0 :> 12) @@ (p1 :> 12) @@ (p2 :> 8)
  @@ (f0 :> 18) @@ (f1 :> 12) @@ (f2 :> 16)
  @@ (r0 :> 8) @@ (r1 :> 8) @@ (l0 :> 8) @@ (l1 :> 12) @@ (b0 :> 12)
  @@ (g :> 0) @@ (mg :> -8)
  @@ [s \in {w2, w3, w4, i0, i1, d0, d1, b1, dd} |-> INFINITE_VALUE]
=============================================================================
