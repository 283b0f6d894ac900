----------------------------- MODULE FRETProofs -----------------------------
(***************************************************************************)
(* Proofs about the quotient system and FRET, for every MDP, heuristic and *)
(* greedy graph: collapsing keeps the quotients a consistent view whose    *)
(* traps are closed and connected; the search for traps finds leaf         *)
(* components and nothing else, although IDs change under its stacks; and  *)
(* the extracted policy covers what it leads to and leads out of traps.    *)
(***************************************************************************)
EXTENDS FRET, QuotientCorrectness, BellmanEquationsProofs

-----------------------------------------------------------------------------
(* Minima and maxima of sets of integers.                                  *)

(* A nonempty set of naturals has a least element.                         *)
LEMMA LeastNat ==
  ASSUME NEW S \in SUBSET Nat, S # {}
  PROVE  \E n \in S : \A m \in S : n <= m
<1>1. PICK n \in S : \A m \in S : ~(<<m, n>> \in OpToRel(<, Nat))
  <2>1. IsWellFoundedOn(OpToRel(<, Nat), Nat)
    BY NatLessThanWellFounded
  <2> HIDE DEF OpToRel
  <2> QED BY <2>1, WFMin
<1>2. \A m \in S : ~(m < n)
  BY <1>1 DEF OpToRel
<1> QED BY <1>2

(* ... and a bounded one a greatest.                                       *)
LEMMA GreatestNat ==
  ASSUME NEW S \in SUBSET Nat, S # {}, NEW b \in Nat, \A m \in S : m <= b
  PROVE  \E n \in S : \A m \in S : m <= n
<1> DEFINE T == {b - m : m \in S}
<1>1. T \in SUBSET Nat /\ T # {}
  <2>1. \A m \in S : b - m \in Nat
    OBVIOUS
  <2> QED BY <2>1
<1>2. PICK k \in T : \A j \in T : k <= j
  <2> HIDE DEF T
  <2> QED BY <1>1, LeastNat
<1>3. PICK n \in S : k = b - n
  OBVIOUS
<1>4. \A m \in S : b - n <= b - m
  BY <1>2, <1>3
<1>5. \A m \in S : m \in Int /\ n \in Int /\ b \in Int
  OBVIOUS
<1> QED BY <1>4, <1>5

(* The maximum of a finite, nonempty set of integers.                      *)
LEMMA MaxInSet ==
  ASSUME NEW S, IsFiniteSet(S), S # {}, \A x \in S : x \in Int
  PROVE  Max(S) \in S /\ \A y \in S : Max(S) >= y
<1> DEFINE T == {0 - x : x \in S}
           h == [x \in S |-> 0 - x]
<1>1. IsFiniteSet(T)
  <2>1. h \in Surjection(S, T)
    BY DEF Surjection
  <2> HIDE DEF h, T
  <2> QED BY <2>1, FS_Surjection
<1>2. T # {} /\ \A x \in T : x \in Int
  OBVIOUS
<1>3. Min(T) \in T /\ \A y \in T : Min(T) <= y
  <2> HIDE DEF T
  <2> QED BY <1>1, <1>2, MinInSet
<1>4. PICK x \in S : Min(T) = 0 - x
  BY <1>3
<1>5. \A y \in S : 0 - x <= 0 - y
  BY <1>3, <1>4
<1>6. \A y \in S : x >= y
  BY <1>5
<1> QED BY <1>6 DEF Max

-----------------------------------------------------------------------------
(* Sequences put together from sequences.                                  *)

(* flat[i] is what the first i of the sequences give.                      *)
IsFlattening(seqs, flat, n) ==
  flat = [i \in 1..n |-> IF i = 1 THEN seqs[i] ELSE flat[i - 1] \o seqs[i]]

LEMMA FlatteningExists ==
  ASSUME NEW seqs, NEW n \in Nat
  PROVE  \E flat : IsFlattening(seqs, flat, n)
<1> DEFINE Bad == {k \in Nat : ~ \E flat : IsFlattening(seqs, flat, k)}
<1> SUFFICES ASSUME Bad # {} PROVE FALSE
  OBVIOUS
<1>1. PICK k \in Bad : \A j \in Bad : k <= j
  <2>1. Bad \in SUBSET Nat
    OBVIOUS
  <2> HIDE DEF Bad
  <2> QED BY <2>1, LeastNat
<1>2. k \in Nat /\ k # 0
  <2>1. IsFlattening(seqs, [i \in 1..0 |-> i], 0)
    BY DEF IsFlattening
  <2> QED BY <2>1
<1>3. k - 1 \in Nat /\ k - 1 \notin Bad
  BY <1>1, <1>2
<1>4. PICK f : IsFlattening(seqs, f, k - 1)
  BY <1>3
<1> DEFINE g == [i \in 1..k |-> IF i = 1 THEN seqs[i] ELSE f[i - 1] \o seqs[i]]
<1>5. \A i \in 1..(k - 1) : g[i] = f[i]
  <2> TAKE i \in 1..(k - 1)
  <2>1. f[i] = IF i = 1 THEN seqs[i] ELSE f[i - 1] \o seqs[i]
    BY <1>4 DEF IsFlattening
  <2>2. i \in 1..k
    BY <1>2
  <2> QED BY <2>1, <2>2
<1>6. \A i \in 1..k : i # 1 => g[i - 1] = f[i - 1]
  <2> TAKE i \in 1..k
  <2> HAVE i # 1
  <2>1. i - 1 \in 1..(k - 1)
    BY <1>2
  <2> HIDE DEF g
  <2> QED BY <1>5, <2>1
<1>7. IsFlattening(seqs, g, k)
  BY <1>6 DEF IsFlattening
<1> QED BY <1>7

(* FlattenSeq satisfies its recursion.                                     *)
LEMMA FlattenUnfold ==
  ASSUME NEW seqs, Len(seqs) \in Nat \ {0}
  PROVE  \E flat : /\ IsFlattening(seqs, flat, Len(seqs))
                   /\ FlattenSeq(seqs) = flat[Len(seqs)]
<1> DEFINE flat == CHOOSE f : IsFlattening(seqs, f, Len(seqs))
<1>1. IsFlattening(seqs, flat, Len(seqs))
  BY FlatteningExists
<1>2. FlattenSeq(seqs) = flat[Len(seqs)]
  BY DEF FlattenSeq, IsFlattening
<1> HIDE DEF flat
<1> QED BY <1>1, <1>2

(* The entries of a sequence with a key each have different keys.          *)
Distinct(s) ==
  \A i, j \in DOMAIN s : s[i].state_id = s[j].state_id => i = j

Keys(s) == {s[i].state_id : i \in DOMAIN s}

(* What two sequences one after the other have.                            *)
LEMMA Concatenation ==
  ASSUME NEW R, NEW s \in Seq(R), NEW t \in Seq(R)
  PROVE  /\ s \o t \in Seq(R)
         /\ ToSet(s \o t) = ToSet(s) \union ToSet(t)
         /\ s # <<>> => s \o t # <<>> /\ (s \o t)[1] = s[1]
         /\ Keys(s \o t) = Keys(s) \union Keys(t)
         /\ Distinct(s) /\ Distinct(t) /\ Keys(s) \intersect Keys(t) = {}
              => Distinct(s \o t)
<1> DEFINE u == s \o t
<1>1. /\ u \in Seq(R) /\ Len(u) = Len(s) + Len(t)
      /\ \A i \in 1..Len(s) : u[i] = s[i]
      /\ \A i \in 1..Len(t) : u[Len(s) + i] = t[i]
      /\ Len(s) \in Nat /\ Len(t) \in Nat
      /\ DOMAIN u = 1..Len(u) /\ DOMAIN s = 1..Len(s) /\ DOMAIN t = 1..Len(t)
      /\ (s # <<>> => Len(s) > 0)
  OBVIOUS
<1> HIDE DEF u
<1>2. \A i \in DOMAIN u : \/ i \in DOMAIN s /\ u[i] = s[i]
                          \/ /\ i - Len(s) \in DOMAIN t
                             /\ u[i] = t[i - Len(s)]
  <2> TAKE i \in DOMAIN u
  <2>1. CASE i <= Len(s)
    BY <1>1, <2>1
  <2>2. CASE i > Len(s)
    <3>1. i - Len(s) \in 1..Len(t) /\ Len(s) + (i - Len(s)) = i
      BY <1>1, <2>2
    <3> QED BY <1>1, <3>1
  <2> QED BY <1>1, <2>1, <2>2
<1>3. /\ \A i \in DOMAIN s : i \in DOMAIN u /\ u[i] = s[i]
      /\ \A i \in DOMAIN t : Len(s) + i \in DOMAIN u /\ u[Len(s) + i] = t[i]
  BY <1>1
<1>4. ToSet(u) = ToSet(s) \union ToSet(t)
  BY <1>2, <1>3 DEF ToSet
<1>5. Keys(u) = Keys(s) \union Keys(t)
  BY <1>2, <1>3 DEF Keys
<1>6. s # <<>> => u # <<>> /\ u[1] = s[1]
  BY <1>1
<1>7. ASSUME Distinct(s), Distinct(t), Keys(s) \intersect Keys(t) = {}
      PROVE  Distinct(u)
  <2> SUFFICES ASSUME NEW i \in DOMAIN u, NEW j \in DOMAIN u,
                      u[i].state_id = u[j].state_id
               PROVE  i = j
    BY DEF Distinct
  <2>1. i \in Int /\ j \in Int /\ Len(s) \in Int
    BY <1>1
  <2>2. CASE i \in DOMAIN s /\ u[i] = s[i] /\ j \in DOMAIN s /\ u[j] = s[j]
    BY <1>7, <2>2 DEF Distinct
  <2>3. CASE /\ i - Len(s) \in DOMAIN t /\ u[i] = t[i - Len(s)]
             /\ j - Len(s) \in DOMAIN t /\ u[j] = t[j - Len(s)]
    <3>1. i - Len(s) = j - Len(s)
      BY <1>7, <2>3 DEF Distinct
    <3> QED BY <2>1, <3>1
  <2>4. CASE /\ i \in DOMAIN s /\ u[i] = s[i]
             /\ j - Len(s) \in DOMAIN t /\ u[j] = t[j - Len(s)]
    <3>1. u[i].state_id \in Keys(s) /\ u[j].state_id \in Keys(t)
      BY <2>4 DEF Keys
    <3> QED BY <1>7, <3>1
  <2>5. CASE /\ i - Len(s) \in DOMAIN t /\ u[i] = t[i - Len(s)]
             /\ j \in DOMAIN s /\ u[j] = s[j]
    <3>1. u[i].state_id \in Keys(t) /\ u[j].state_id \in Keys(s)
      BY <2>5 DEF Keys
    <3> QED BY <1>7, <3>1
  <2> QED BY <1>2, <2>2, <2>3, <2>4, <2>5
<1> QED BY <1>1, <1>4, <1>5, <1>6, <1>7 DEF u

(* Flattening keeps everything, in order, and the keys distinct if those   *)
(* of the parts are.                                                       *)
LEMMA Flattening ==
  ASSUME NEW R, NEW seqs \in Seq(Seq(R)), seqs # <<>>
  PROVE  LET flat == FlattenSeq(seqs)
         IN  /\ flat \in Seq(R)
             /\ ToSet(flat) = UNION {ToSet(seqs[i]) : i \in DOMAIN seqs}
             /\ Keys(flat) = UNION {Keys(seqs[i]) : i \in DOMAIN seqs}
             /\ seqs[1] # <<>> => flat # <<>> /\ flat[1] = seqs[1][1]
             /\ /\ \A i \in DOMAIN seqs : Distinct(seqs[i])
                /\ \A i, j \in DOMAIN seqs :
                     i # j => Keys(seqs[i]) \intersect Keys(seqs[j]) = {}
                => Distinct(flat)
<1> DEFINE L == Len(seqs)
           AllDistinct ==
             /\ \A i \in DOMAIN seqs : Distinct(seqs[i])
             /\ \A i, j \in DOMAIN seqs :
                  i # j => Keys(seqs[i]) \intersect Keys(seqs[j]) = {}
<1>1. /\ L \in Nat \ {0} /\ DOMAIN seqs = 1..L
      /\ \A i \in 1..L : seqs[i] \in Seq(R)
  OBVIOUS
<1>2. PICK f : IsFlattening(seqs, f, L) /\ FlattenSeq(seqs) = f[L]
  BY <1>1, FlattenUnfold
<1>3. \A i \in 1..L : f[i] = IF i = 1 THEN seqs[i] ELSE f[i - 1] \o seqs[i]
  BY <1>2 DEF IsFlattening
<1> DEFINE Good(k) ==
             /\ f[k] \in Seq(R)
             /\ ToSet(f[k]) = UNION {ToSet(seqs[i]) : i \in 1..k}
             /\ Keys(f[k]) = UNION {Keys(seqs[i]) : i \in 1..k}
             /\ seqs[1] # <<>> => f[k] # <<>> /\ f[k][1] = seqs[1][1]
             /\ AllDistinct => Distinct(f[k])
           Bad == {k \in 1..L : ~Good(k)}
<1> SUFFICES ASSUME Bad # {} PROVE FALSE
  <2>1. L \in 1..L
    BY <1>1
  <2>2. L \notin Bad => Good(L)
    BY <2>1
  <2> HIDE DEF Good
  <2>3. Good(L)
    BY <2>2
  <2> QED BY <1>1, <1>2, <2>3 DEF Good
<1>4. PICK k \in Bad : \A j \in Bad : k <= j
  <2>1. Bad \in SUBSET Nat
    OBVIOUS
  <2> HIDE DEF Bad
  <2> QED BY <2>1, LeastNat
<1>5. k \in 1..L /\ ~Good(k)
  OBVIOUS
<1>6. CASE k = 1
  <2>1. f[k] = seqs[1]
    BY <1>3, <1>5, <1>6
  <2>2. \A i : i \in 1..k <=> i = 1
    BY <1>6
  <2>3. 1 \in DOMAIN seqs /\ seqs[1] \in Seq(R)
    BY <1>1
  <2>4. Good(k)
    BY <2>1, <2>2, <2>3
  <2> QED BY <1>5, <2>4
<1>7. CASE k # 1
  <2>1. k - 1 \in 1..L /\ k - 1 \notin Bad
    <3>1. k \in Nat /\ k - 1 \in 1..L /\ ~(k <= k - 1)
      BY <1>1, <1>5, <1>7
    <3> HIDE DEF Bad
    <3> QED BY <1>4, <3>1
  <2>2. Good(k - 1)
    BY <2>1
  <2>3. f[k] = f[k - 1] \o seqs[k] /\ seqs[k] \in Seq(R) /\ k \in DOMAIN seqs
    BY <1>1, <1>3, <1>5, <1>7
  <2>4. /\ f[k] \in Seq(R)
        /\ ToSet(f[k]) = ToSet(f[k - 1]) \union ToSet(seqs[k])
        /\ f[k - 1] # <<>> => f[k] # <<>> /\ f[k][1] = f[k - 1][1]
        /\ Keys(f[k]) = Keys(f[k - 1]) \union Keys(seqs[k])
        /\ Distinct(f[k - 1]) /\ Distinct(seqs[k])
             /\ Keys(f[k - 1]) \intersect Keys(seqs[k]) = {} => Distinct(f[k])
    <3>1. f[k - 1] \in Seq(R) /\ seqs[k] \in Seq(R)
      BY <2>2, <2>3
    <3>2. PICK s, t : s = f[k - 1] /\ t = seqs[k] /\ f[k] = s \o t
      BY <2>3
    <3> HIDE DEF Good
    <3>3. s \in Seq(R) /\ t \in Seq(R)
      BY <3>1, <3>2
    <3>4. /\ s \o t \in Seq(R)
          /\ ToSet(s \o t) = ToSet(s) \union ToSet(t)
          /\ s # <<>> => s \o t # <<>> /\ (s \o t)[1] = s[1]
          /\ Keys(s \o t) = Keys(s) \union Keys(t)
          /\ Distinct(s) /\ Distinct(t) /\ Keys(s) \intersect Keys(t) = {}
               => Distinct(s \o t)
      BY <3>3, Concatenation, Zenon
    <3> QED BY <3>2, <3>4, Zenon
  <2>5. \A i : i \in 1..k <=> (i \in 1..(k - 1) \/ i = k)
    BY <1>5, <1>7
  <2>6. ToSet(f[k]) = UNION {ToSet(seqs[i]) : i \in 1..k}
    BY <2>2, <2>4, <2>5
  <2>7. Keys(f[k]) = UNION {Keys(seqs[i]) : i \in 1..k}
    BY <2>2, <2>4, <2>5
  <2>8. AllDistinct => Distinct(f[k])
    <3> HAVE AllDistinct
    <3>1. \A i \in 1..(k - 1) : i \in DOMAIN seqs /\ i # k
      BY <1>1, <1>5
    <3>2. Keys(f[k - 1]) \intersect Keys(seqs[k]) = {}
      BY <2>2, <2>3, <3>1
    <3> QED BY <2>2, <2>3, <2>4, <3>2
  <2>9. Good(k)
    BY <2>2, <2>4, <2>6, <2>7, <2>8
  <2> QED BY <1>5, <2>9
<1> QED BY <1>6, <1>7

-----------------------------------------------------------------------------
(* The quotient system.                                                    *)

MemberRecord ==
  [state_id : State, inner_acts : SUBSET Action, outer_acts : SUBSET Action]

(* The shape of the two data structures: the representative of a quotient  *)
(* is one of its members, and no member is listed twice.                   *)
QuotientShape ==
  /\ quotient_ids \in [State -> [id : State, flag : BOOLEAN]]
  /\ DOMAIN quotients \subseteq State
  /\ \A r \in DOMAIN quotients :
       /\ IsCollapsed(r)
       /\ Translated(r) = r
       /\ quotients[r].state_infos \in Seq(MemberRecord) \ {<<>>}
       /\ Distinct(quotients[r].state_infos)
  /\ \A s \in State : ~IsCollapsed(s) => Translated(s) = s

QuotientOK == QuotientShape /\ QuotientConsistent

(* No state is collapsed at first.                                         *)
LEMMA InitQuotientOK == QuotientInit => QuotientOK
<1> SUFFICES ASSUME QuotientInit PROVE QuotientOK
  OBVIOUS
<1>1. DOMAIN quotients = {}
  BY DEF QuotientInit
<1>2. \A s \in State : ~IsCollapsed(s) /\ Translated(s) = s
  BY DEF QuotientInit, IsCollapsed, Translated
<1>3. quotient_ids \in [State -> [id : State, flag : BOOLEAN]]
  BY DEF QuotientInit
<1>4. QuotientShape
  BY <1>1, <1>2, <1>3 DEF QuotientShape
<1>5. QuotientConsistent
  BY <1>1, <1>2 DEF QuotientConsistent
<1> QED BY <1>4, <1>5 DEF QuotientOK

(* A representative stands for itself and for nothing else when it is not  *)
(* a quotient.                                                             *)
LEMMA IdFacts ==
  ASSUME QuotientOK, NEW s \in State
  PROVE  /\ Translated(s) \in State
         /\ Translated(s) \in Representatives
         /\ Translated(Translated(s)) = Translated(s)
         /\ IsCollapsed(s) <=> IsCollapsed(Translated(s))
         /\ IsCollapsed(s) <=> Translated(s) \in DOMAIN quotients
<1>1. Translated(s) \in State
  BY DEF QuotientOK, QuotientShape, Translated
<1>2. CASE IsCollapsed(s)
  <2>1. Translated(s) \in DOMAIN quotients
    BY <1>2 DEF QuotientOK, QuotientConsistent
  <2>2. IsCollapsed(Translated(s)) /\ Translated(Translated(s)) = Translated(s)
    BY <2>1 DEF QuotientOK, QuotientShape
  <2> QED BY <1>1, <1>2, <2>1, <2>2 DEF Representatives
<1>3. CASE ~IsCollapsed(s)
  <2>1. Translated(s) = s
    BY <1>3 DEF QuotientOK, QuotientShape
  <2>2. s \notin DOMAIN quotients
    BY <1>3 DEF QuotientOK, QuotientShape
  <2> QED BY <1>1, <1>3, <2>1, <2>2 DEF Representatives
<1> QED BY <1>2, <1>3

(* The members of a representative are the states it stands for.           *)
LEMMA MembersAre ==
  ASSUME QuotientOK, NEW r \in Representatives
  PROVE  /\ MembersOf(r) = {s \in State : Translated(s) = r}
         /\ r \in State /\ Translated(r) = r /\ r \in MembersOf(r)
         /\ IsCollapsed(r) <=> r \in DOMAIN quotients
<1>1. r \in State /\ Translated(r) = r
  BY DEF Representatives
<1>2. IsCollapsed(r) <=> r \in DOMAIN quotients
  BY <1>1, IdFacts
<1>3. CASE IsCollapsed(r)
  <2>1. MembersOf(r) = {s \in State : Translated(s) = r /\ IsCollapsed(s)}
    BY <1>2, <1>3 DEF QuotientOK, QuotientConsistent
  <2>2. \A s \in State : Translated(s) = r => IsCollapsed(s)
    BY <1>3, IdFacts
  <2> QED BY <1>1, <1>2, <2>1, <2>2
<1>4. CASE ~IsCollapsed(r)
  <2>1. MembersOf(r) = {r}
    BY <1>4 DEF MembersOf
  <2>2. \A s \in State : Translated(s) = r => s = r
    <3> TAKE s \in State
    <3> HAVE Translated(s) = r
    <3>1. ~IsCollapsed(s)
      BY <1>4, IdFacts
    <3> QED BY <3>1 DEF QuotientOK, QuotientShape
  <2> QED BY <1>1, <1>2, <2>1, <2>2
<1> QED BY <1>3, <1>4

(* What is stored for the members of a quotient.                           *)
LEMMA InfoFacts ==
  ASSUME QuotientOK, NEW r \in DOMAIN quotients
  PROVE  LET infos == quotients[r].state_infos
         IN  /\ r \in Representatives /\ IsCollapsed(r)
             /\ infos \in Seq(MemberRecord) /\ infos # <<>>
             /\ MemberInfos(r) = ToSet(infos)
             /\ infos[1].state_id = r /\ Distinct(infos)
             /\ Keys(infos) = MembersOf(r)
             /\ MembersOf(r) = {s \in State : Translated(s) = r}
             /\ \A i \in ToSet(infos) :
                  /\ i.outer_acts \union i.inner_acts = Applicable(i.state_id)
                  /\ i.outer_acts \intersect i.inner_acts = {}
<1> DEFINE infos == quotients[r].state_infos
<1>1. /\ r \in State /\ Translated(r) = r /\ IsCollapsed(r)
      /\ infos \in Seq(MemberRecord) /\ infos # <<>> /\ Distinct(infos)
  BY DEF QuotientOK, QuotientShape
<1>2. MemberInfos(r) = ToSet(infos)
  BY <1>1 DEF MemberInfos, QuotientInfo
<1>3. r = Head(infos).state_id
  BY DEF QuotientOK, QuotientConsistent
<1>4. Keys(infos) = MembersOf(r)
  BY <1>1, <1>2 DEF MembersOf, Keys, ToSet
<1>5. r \in Representatives
  BY <1>1 DEF Representatives
<1>6. MembersOf(r) = {s \in State : Translated(s) = r}
  BY <1>5, MembersAre
<1>7. \A i \in ToSet(infos) :
        /\ i.outer_acts \union i.inner_acts = Applicable(i.state_id)
        /\ i.outer_acts \intersect i.inner_acts = {}
  BY <1>2 DEF QuotientOK, QuotientConsistent
<1>8. Head(infos) = infos[1]
  BY <1>1
<1> QED BY <1>1, <1>2, <1>3, <1>4, <1>5, <1>6, <1>7, <1>8

(* ... and for each of them separately.                                    *)
LEMMA InfoOf ==
  ASSUME QuotientOK, NEW s \in State, IsCollapsed(s)
  PROVE  /\ MemberInfos(s) = MemberInfos(Translated(s))
         /\ \A i \in MemberInfos(s) :
              /\ i \in MemberRecord
              /\ i.state_id \in State
              /\ Translated(i.state_id) = Translated(s)
              /\ i.outer_acts \union i.inner_acts = Applicable(i.state_id)
<1> DEFINE r == Translated(s)
           infos == quotients[r].state_infos
<1>1. r \in DOMAIN quotients /\ Translated(r) = r
  BY IdFacts
<1>2. MemberInfos(s) = MemberInfos(r) /\ MemberInfos(r) = ToSet(infos)
  BY <1>1 DEF MemberInfos, QuotientInfo
<1> HIDE DEF r
<1>3. /\ infos \in Seq(MemberRecord)
      /\ Keys(infos) = {t \in State : Translated(t) = r}
      /\ \A i \in ToSet(infos) :
           i.outer_acts \union i.inner_acts = Applicable(i.state_id)
  BY <1>1, InfoFacts
<1>4. \A i \in ToSet(infos) : i.state_id \in Keys(infos)
  BY DEF ToSet, Keys
<1>5. \A i \in ToSet(infos) : i \in MemberRecord
  BY <1>3 DEF ToSet
<1> QED BY <1>2, <1>3, <1>4, <1>5 DEF r

(* The actions a representative offers are actions of its members.         *)
LEMMA QApplicableType ==
  ASSUME QuotientOK, NEW s \in State, NEW qa \in QApplicable(s)
  PROVE  /\ qa \in QAction /\ qa[1] \in State
         /\ qa[2] \in Applicable(qa[1])
         /\ Translated(qa[1]) = Translated(s)
<1>1. CASE IsCollapsed(s)
  <2>1. PICK i \in MemberInfos(s) : qa \in {i.state_id} \X i.outer_acts
    BY <1>1 DEF QApplicable
  <2>2. /\ i.state_id \in State /\ Translated(i.state_id) = Translated(s)
        /\ i.outer_acts \subseteq Applicable(i.state_id)
    BY <1>1, InfoOf
  <2>3. i.outer_acts \subseteq Action
    BY <2>2, MDPAssumption
  <2> QED BY <2>1, <2>2, <2>3 DEF QAction
<1>2. CASE ~IsCollapsed(s)
  <2>1. qa \in {s} \X Applicable(s)
    BY <1>2 DEF QApplicable
  <2>2. Applicable(s) \subseteq Action
    BY MDPAssumption
  <2> QED BY <2>1, <2>2 DEF QAction
<1> QED BY <1>1, <1>2

(* Its inner actions too.                                                  *)
LEMMA CollapsedActionsType ==
  ASSUME QuotientOK, NEW s \in State, NEW qa \in CollapsedActions(s)
  PROVE  /\ qa \in QAction /\ qa[1] \in State
         /\ qa[2] \in Applicable(qa[1])
         /\ Translated(qa[1]) = Translated(s)
<1>1. IsCollapsed(s)
  BY DEF CollapsedActions
<1>2. PICK i \in MemberInfos(s) : qa \in {i.state_id} \X i.inner_acts
  BY <1>1 DEF CollapsedActions
<1>3. /\ i.state_id \in State /\ Translated(i.state_id) = Translated(s)
      /\ i.inner_acts \subseteq Applicable(i.state_id)
  BY <1>1, InfoOf
<1>4. i.inner_acts \subseteq Action
  BY <1>3, MDPAssumption
<1> QED BY <1>2, <1>3, <1>4 DEF QAction

(* The successors of an action of the view.                                *)
LEMMA LeavingType ==
  ASSUME QuotientOK, NEW m \in State, NEW a \in Applicable(m), NEW qa,
         qa[1] = m, qa[2] = a
  PROVE  /\ QLeaving(qa) \subseteq State /\ IsFiniteSet(QLeaving(qa))
         /\ QNonSource(qa) \subseteq Representatives
         /\ Translated(m) \notin QNonSource(qa)
         /\ QNonSource(qa) \subseteq State
<1>1. QLeaving(qa) \subseteq State
  BY MDPAssumption DEF QLeaving
<1>2. IsFiniteSet(QLeaving(qa))
  BY <1>1, MDPAssumption, FS_Subset
<1>3. \A u \in QLeaving(qa) : Translated(u) \in Representatives
  BY <1>1, IdFacts
<1>4. QNonSource(qa) \subseteq Representatives
  BY <1>3 DEF QNonSource
<1>5. \A u \in QLeaving(qa) : Translated(u) # Translated(m)
  BY DEF QLeaving
<1> QED BY <1>1, <1>2, <1>4, <1>5 DEF QNonSource, Representatives

(* The successors of what a state offers.                                  *)
LEMMA QTailsType ==
  ASSUME QuotientOK, NEW s \in State, NEW qa \in QTails(s)
  PROVE  /\ qa \in QApplicable(s) /\ qa \in QAction
         /\ qa[1] \in State /\ qa[2] \in Applicable(qa[1])
         /\ Translated(qa[1]) = Translated(s)
         /\ QLeaving(qa) \subseteq State /\ IsFiniteSet(QLeaving(qa))
         /\ QLeaving(qa) # {}
         /\ QNonSource(qa) \subseteq Representatives
         /\ QNonSource(qa) # {}
         /\ Translated(s) \notin QNonSource(qa)
<1>1. qa \in QApplicable(s) /\ QLeaving(qa) # {}
  BY DEF QTails
<1>2. /\ qa \in QAction /\ qa[1] \in State /\ qa[2] \in Applicable(qa[1])
      /\ Translated(qa[1]) = Translated(s)
  BY <1>1, QApplicableType
<1>3. QNonSource(qa) # {}
  BY <1>1 DEF QNonSource
<1> QED BY <1>1, <1>2, <1>3, LeavingType

-----------------------------------------------------------------------------
(* Collapsing.                                                             *)

Entry == [state_id : State, aops : SUBSET QAction]

(* What build_quotient is called with: different representatives, each     *)
(* with some of the actions it offers.                                     *)
CollapseInput(submdp) ==
  /\ submdp \in Seq(Entry) \ {<<>>}
  /\ Distinct(submdp)
  /\ \A i \in DOMAIN submdp :
       /\ submdp[i].state_id \in Representatives
       /\ submdp[i].aops \subseteq QApplicable(submdp[i].state_id)
       /\ submdp[i].aops # {}

InnerActs(infos) == UNION {{i.state_id} \X i.inner_acts : i \in infos}

(* A member list that accounts for all actions of the members.             *)
CompleteList(infos) ==
  /\ infos \in Seq(MemberRecord) /\ infos # <<>>
  /\ Distinct(infos)
  /\ \A i \in ToSet(infos) :
       /\ i.outer_acts \union i.inner_acts = Applicable(i.state_id)
       /\ i.outer_acts \intersect i.inner_acts = {}

(* A single state becomes a member with the given inner actions.           *)
LEMMA NewMemberFacts ==
  ASSUME NEW s \in State, NEW filter, filter # {},
         filter \subseteq {s} \X Applicable(s)
  PROVE  LET c == <<NewMember(s, filter)>>
         IN  /\ CompleteList(c) /\ c[1].state_id = s /\ Keys(c) = {s}
             /\ InnerActs(ToSet(c)) = filter
<1> DEFINE i == NewMember(s, filter)
           c == <<i>>
<1>1. /\ i.state_id = s
      /\ i.inner_acts = {a \in Applicable(s) : <<s, a>> \in filter}
      /\ i.outer_acts = Applicable(s) \ i.inner_acts
  BY DEF NewMember
<1>2. i \in MemberRecord
  <2>1. i.inner_acts \subseteq Action /\ i.outer_acts \subseteq Action
    BY <1>1, MDPAssumption
  <2>2. i = [state_id |-> s, inner_acts |-> i.inner_acts,
             outer_acts |-> i.outer_acts]
    BY DEF NewMember
  <2> HIDE DEF i
  <2> QED BY <2>1, <2>2 DEF MemberRecord
<1> HIDE DEF i
<1>3. /\ c \in Seq(MemberRecord) /\ c # <<>> /\ c[1] = i
      /\ DOMAIN c = {1}
  BY <1>2
<1> HIDE DEF c
<1>4. ToSet(c) = {i} /\ Keys(c) = {s}
  BY <1>1, <1>3 DEF ToSet, Keys
<1>5. CompleteList(c)
  BY <1>1, <1>3, <1>4 DEF CompleteList, Distinct
<1>6. InnerActs(ToSet(c)) = {s} \X i.inner_acts
  BY <1>1, <1>4 DEF InnerActs
<1>7. {s} \X i.inner_acts = filter
  BY <1>1
<1> QED BY <1>1, <1>3, <1>4, <1>5, <1>6, <1>7 DEF c, i

(* The members of a quotient keep all their actions when some outer ones   *)
(* become inner ones.                                                      *)
LEMMA FilterActionsFacts ==
  ASSUME NEW infos, CompleteList(infos), NEW filter,
         filter \subseteq UNION {{i.state_id} \X i.outer_acts : i \in ToSet(infos)}
  PROVE  LET c == FilterActions(infos, filter)
         IN  /\ CompleteList(c) /\ c[1].state_id = infos[1].state_id
             /\ Keys(c) = Keys(infos)
             /\ InnerActs(ToSet(c)) = InnerActs(ToSet(infos)) \union filter
<1> DEFINE c == FilterActions(infos, filter)
           gone(i) == {a \in i.outer_acts : <<i.state_id, a>> \in filter}
<1>1. /\ infos \in Seq(MemberRecord) /\ infos # <<>>
      /\ DOMAIN infos = 1..Len(infos) /\ 1 \in DOMAIN infos
      /\ Len(infos) \in Nat
      /\ \A i \in DOMAIN infos : infos[i] \in MemberRecord
  BY DEF CompleteList
<1>2. DOMAIN c = DOMAIN infos
  BY DEF FilterActions
<1>3. \A i \in DOMAIN infos :
        /\ c[i] \in MemberRecord
        /\ c[i].state_id = infos[i].state_id
        /\ c[i].outer_acts = infos[i].outer_acts \ gone(infos[i])
        /\ c[i].inner_acts = infos[i].inner_acts \union gone(infos[i])
  <2> TAKE i \in DOMAIN infos
  <2>1. c[i] = [infos[i] EXCEPT !.outer_acts = @ \ gone(infos[i]),
                                !.inner_acts = @ \union gone(infos[i])]
    BY DEF FilterActions
  <2>2. infos[i] \in MemberRecord
    BY <1>1
  <2>3. gone(infos[i]) \subseteq Action
    BY <2>2 DEF MemberRecord
  <2> HIDE DEF c, gone
  <2> QED BY <2>1, <2>2, <2>3 DEF MemberRecord
<1>4. c \in Seq(MemberRecord) /\ c # <<>>
  <2>1. c = [i \in 1..Len(infos) |-> c[i]]
    BY <1>1 DEF FilterActions
  <2>2. \A i \in 1..Len(infos) : c[i] \in MemberRecord
    BY <1>1, <1>3
  <2> HIDE DEF c
  <2>3. c \in [1..Len(infos) -> MemberRecord]
    BY <2>1, <2>2
  <2> QED BY <1>1, <1>2, <2>3
<1> HIDE DEF c
<1>5. ToSet(c) = {c[i] : i \in DOMAIN infos} /\ ToSet(infos) = {infos[i] : i \in DOMAIN infos}
  BY <1>2 DEF ToSet
<1>6. Keys(c) = Keys(infos) /\ Distinct(c) /\ c[1].state_id = infos[1].state_id
  BY <1>1, <1>2, <1>3 DEF Keys, Distinct, CompleteList
<1>7. ASSUME NEW i \in DOMAIN infos
      PROVE  /\ c[i].outer_acts \union c[i].inner_acts = Applicable(c[i].state_id)
             /\ c[i].outer_acts \intersect c[i].inner_acts = {}
  <2>1. infos[i] \in ToSet(infos)
    BY DEF ToSet
  <2>2. /\ infos[i].outer_acts \union infos[i].inner_acts = Applicable(infos[i].state_id)
        /\ infos[i].outer_acts \intersect infos[i].inner_acts = {}
    BY <2>1 DEF CompleteList
  <2> QED BY <1>3, <2>2
<1>8. CompleteList(c)
  BY <1>4, <1>5, <1>6, <1>7 DEF CompleteList
<1>9. InnerActs(ToSet(c)) \subseteq InnerActs(ToSet(infos)) \union filter
  <2> SUFFICES ASSUME NEW i \in DOMAIN infos,
                      NEW qa \in {c[i].state_id} \X c[i].inner_acts
               PROVE  qa \in InnerActs(ToSet(infos)) \union filter
    BY <1>5 DEF InnerActs
  <2>1. qa = <<infos[i].state_id, qa[2]>> /\ qa[2] \in c[i].inner_acts
    BY <1>3
  <2>2. CASE qa[2] \in infos[i].inner_acts
    BY <1>5, <2>1, <2>2 DEF InnerActs
  <2>3. CASE qa[2] \in gone(infos[i])
    BY <2>1, <2>3
  <2> QED BY <1>3, <2>1, <2>2, <2>3
<1>10. InnerActs(ToSet(infos)) \subseteq InnerActs(ToSet(c))
  <2> SUFFICES ASSUME NEW i \in DOMAIN infos,
                      NEW qa \in {infos[i].state_id} \X infos[i].inner_acts
               PROVE  qa \in InnerActs(ToSet(c))
    BY <1>5 DEF InnerActs
  <2>1. qa \in {c[i].state_id} \X c[i].inner_acts
    BY <1>3
  <2> QED BY <1>5, <2>1 DEF InnerActs
<1>11. filter \subseteq InnerActs(ToSet(c))
  <2> SUFFICES ASSUME NEW qa \in filter PROVE qa \in InnerActs(ToSet(c))
    OBVIOUS
  <2>1. PICK i \in DOMAIN infos : qa \in {infos[i].state_id} \X infos[i].outer_acts
    BY <1>5
  <2>2. qa = <<infos[i].state_id, qa[2]>> /\ qa[2] \in gone(infos[i])
    BY <2>1
  <2>3. qa \in {c[i].state_id} \X c[i].inner_acts
    BY <1>3, <2>2
  <2> QED BY <1>5, <2>3 DEF InnerActs
<1> QED BY <1>6, <1>8, <1>9, <1>10, <1>11 DEF c

(* What each entry contributes: its members, with all their actions, and   *)
(* the given ones among the inner ones.                                    *)
LEMMA ContributionFacts ==
  ASSUME QuotientOK, NEW e \in Entry, e.state_id \in Representatives,
         e.aops \subseteq QApplicable(e.state_id), e.aops # {}
  PROVE  LET c == Contribution(e)
         IN  /\ CompleteList(c) /\ c[1].state_id = e.state_id
             /\ Keys(c) = MembersOf(e.state_id)
             /\ InnerActs(ToSet(c)) = CollapsedActions(e.state_id) \union e.aops
<1> DEFINE r == e.state_id
           infos == quotients[r].state_infos
<1>1. /\ r \in State /\ Translated(r) = r
      /\ IsCollapsed(r) <=> r \in DOMAIN quotients
  BY MembersAre
<1>2. CASE IsCollapsed(r)
  <2>1. /\ CompleteList(infos) /\ infos[1].state_id = r
        /\ Keys(infos) = MembersOf(r) /\ MemberInfos(r) = ToSet(infos)
    BY <1>1, <1>2, InfoFacts DEF CompleteList
  <2>2. QApplicable(r) = UNION {{i.state_id} \X i.outer_acts : i \in ToSet(infos)}
    BY <1>2, <2>1 DEF QApplicable
  <2>3. CollapsedActions(r) = InnerActs(ToSet(infos))
    BY <1>2, <2>1 DEF CollapsedActions, InnerActs
  <2>4. Contribution(e) = FilterActions(infos, e.aops)
    BY <1>2 DEF Contribution
  <2>5. e.aops \subseteq UNION {{i.state_id} \X i.outer_acts : i \in ToSet(infos)}
    BY <2>2
  <2> HIDE DEF infos
  <2> QED BY <2>1, <2>3, <2>4, <2>5, FilterActionsFacts
<1>3. CASE ~IsCollapsed(r)
  <2>1. e.aops \subseteq {r} \X Applicable(r)
    BY <1>3 DEF QApplicable
  <2>2. CollapsedActions(r) = {} /\ MembersOf(r) = {r}
    BY <1>3 DEF CollapsedActions, MembersOf
  <2>3. Contribution(e) = <<NewMember(r, e.aops)>>
    BY <1>3 DEF Contribution
  <2> QED BY <1>1, <2>1, <2>2, <2>3, NewMemberFacts
<1> QED BY <1>2, <1>3

EntryStates(submdp) == {submdp[i].state_id : i \in DOMAIN submdp}

MergedInfos(submdp) == FlattenSeq([i \in DOMAIN submdp |-> Contribution(submdp[i])])

(* The member list of the merged quotient.                                 *)
LEMMA MergedInfosFacts ==
  ASSUME QuotientOK, NEW submdp, CollapseInput(submdp)
  PROVE  LET infos == MergedInfos(submdp)
         IN  /\ CompleteList(infos)
             /\ infos[1].state_id = submdp[1].state_id
             /\ Keys(infos) = {s \in State : Translated(s) \in EntryStates(submdp)}
             /\ InnerActs(ToSet(infos)) =
                  UNION {CollapsedActions(submdp[i].state_id) \union submdp[i].aops
                           : i \in DOMAIN submdp}
<1> DEFINE seqs == [i \in DOMAIN submdp |-> Contribution(submdp[i])]
           infos == MergedInfos(submdp)
<1>1. /\ submdp \in Seq(Entry) /\ submdp # <<>> /\ DOMAIN submdp = 1..Len(submdp)
      /\ Len(submdp) \in Nat /\ 1 \in DOMAIN submdp
      /\ \A i \in DOMAIN submdp :
           /\ submdp[i] \in Entry
           /\ submdp[i].state_id \in Representatives
           /\ submdp[i].aops \subseteq QApplicable(submdp[i].state_id)
           /\ submdp[i].aops # {}
  BY DEF CollapseInput
<1>2. ASSUME NEW i \in DOMAIN submdp
      PROVE  /\ CompleteList(seqs[i])
             /\ seqs[i][1].state_id = submdp[i].state_id
             /\ Keys(seqs[i]) = MembersOf(submdp[i].state_id)
             /\ MembersOf(submdp[i].state_id) =
                  {s \in State : Translated(s) = submdp[i].state_id}
             /\ InnerActs(ToSet(seqs[i])) =
                  CollapsedActions(submdp[i].state_id) \union submdp[i].aops
  <2>1. seqs[i] = Contribution(submdp[i])
    OBVIOUS
  <2> QED BY <1>1, <2>1, ContributionFacts, MembersAre
<1>3. /\ seqs \in Seq(Seq(MemberRecord)) /\ seqs # <<>>
      /\ DOMAIN seqs = DOMAIN submdp
  <2>1. \A i \in DOMAIN submdp : seqs[i] \in Seq(MemberRecord)
    BY <1>2 DEF CompleteList
  <2>2. DOMAIN seqs = 1..Len(submdp)
    BY <1>1
  <2>3. seqs = [i \in 1..Len(submdp) |-> seqs[i]]
    BY <1>1
  <2> HIDE DEF seqs
  <2>4. seqs \in [1..Len(submdp) -> Seq(MemberRecord)]
    BY <1>1, <2>1, <2>3
  <2> QED BY <1>1, <2>2, <2>4
<1>4. infos = FlattenSeq(seqs)
  BY DEF MergedInfos
<1> HIDE DEF seqs, infos
<1>5. /\ infos \in Seq(MemberRecord)
      /\ ToSet(infos) = UNION {ToSet(seqs[i]) : i \in DOMAIN seqs}
      /\ Keys(infos) = UNION {Keys(seqs[i]) : i \in DOMAIN seqs}
      /\ seqs[1] # <<>> => infos # <<>> /\ infos[1] = seqs[1][1]
      /\ /\ \A i \in DOMAIN seqs : Distinct(seqs[i])
         /\ \A i, j \in DOMAIN seqs :
              i # j => Keys(seqs[i]) \intersect Keys(seqs[j]) = {}
         => Distinct(infos)
  BY <1>3, <1>4, Flattening
<1>6. Distinct(infos)
  <2>1. \A i, j \in DOMAIN seqs :
          i # j => Keys(seqs[i]) \intersect Keys(seqs[j]) = {}
    <3> SUFFICES ASSUME NEW i \in DOMAIN submdp, NEW j \in DOMAIN submdp, i # j,
                        NEW s \in Keys(seqs[i]), s \in Keys(seqs[j])
                 PROVE  FALSE
      BY <1>3
    <3>1. /\ Translated(s) = submdp[i].state_id
          /\ Translated(s) = submdp[j].state_id
      BY <1>2
    <3> QED BY <3>1 DEF CollapseInput, Distinct
  <2>2. \A i \in DOMAIN seqs : Distinct(seqs[i])
    BY <1>2, <1>3 DEF CompleteList
  <2> QED BY <1>5, <2>1, <2>2
<1>7. infos # <<>> /\ infos[1].state_id = submdp[1].state_id
  BY <1>1, <1>2, <1>5 DEF CompleteList
<1>8. Keys(infos) = {s \in State : Translated(s) \in EntryStates(submdp)}
  <2>1. \A i \in DOMAIN submdp :
          Keys(seqs[i]) = {s \in State : Translated(s) = submdp[i].state_id}
    BY <1>2
  <2>2. Keys(infos) = UNION {Keys(seqs[i]) : i \in DOMAIN submdp}
    BY <1>3, <1>5
  <2>3. \A s \in Keys(infos) :
          s \in State /\ \E i \in DOMAIN submdp : Translated(s) = submdp[i].state_id
    BY <2>1, <2>2
  <2>4. \A s \in State : \A i \in DOMAIN submdp :
          Translated(s) = submdp[i].state_id => s \in Keys(infos)
    BY <2>1, <2>2
  <2> QED BY <2>3, <2>4 DEF EntryStates
<1>9. \A i \in ToSet(infos) :
        /\ i.outer_acts \union i.inner_acts = Applicable(i.state_id)
        /\ i.outer_acts \intersect i.inner_acts = {}
  BY <1>2, <1>3, <1>5 DEF CompleteList
<1>10. InnerActs(ToSet(infos)) =
         UNION {InnerActs(ToSet(seqs[i])) : i \in DOMAIN seqs}
  BY <1>5 DEF InnerActs
<1>11. InnerActs(ToSet(infos)) =
         UNION {CollapsedActions(submdp[i].state_id) \union submdp[i].aops
                  : i \in DOMAIN submdp}
  BY <1>2, <1>3, <1>10
<1>12. CompleteList(infos)
  BY <1>5, <1>6, <1>7, <1>9 DEF CompleteList
<1> QED BY <1>7, <1>8, <1>11, <1>12 DEF infos

(* A list without repetitions is as long as its set of keys is large.      *)
LEMMA DistinctLength ==
  ASSUME NEW R, NEW s \in Seq(R), Distinct(s)
  PROVE  Len(s) = Cardinality(Keys(s))
<1> DEFINE f == [i \in 1..Len(s) |-> s[i].state_id]
<1>1. Len(s) \in Nat /\ DOMAIN s = 1..Len(s)
  OBVIOUS
<1>2. f \in Surjection(1..Len(s), Keys(s))
  BY <1>1 DEF Surjection, Keys
<1>3. f \in Injection(1..Len(s), Keys(s))
  BY <1>1 DEF Injection, IsInjective, Keys, Distinct
<1> HIDE DEF f
<1>4. IsFiniteSet(1..Len(s)) /\ Cardinality(1..Len(s)) = Len(s)
  BY <1>1, FS_Interval
<1> QED BY <1>2, <1>3, <1>4, FS_Surjection

(* What Min returns is the only lower bound in the set.                    *)
LEMMA MinUnique ==
  ASSUME NEW S \in SUBSET Int, NEW x \in S, \A y \in S : x <= y
  PROVE  Min(S) = x
<1>1. Min(S) \in S /\ \A y \in S : Min(S) <= y
  BY DEF Min
<1>2. Min(S) <= x /\ x <= Min(S) /\ Min(S) \in Int /\ x \in Int
  BY <1>1
<1> QED BY <1>2

(* Terminating in a representative counts as in its best member.           *)
LEMMA TerminationFacts ==
  ASSUME QuotientOK, NEW s \in State
  PROVE  /\ QTerminationCost(s) \in Int /\ QTerminationCost(s) <= Infinite
         /\ s \in Representatives =>
              /\ \E m \in MembersOf(s) : QTerminationCost(s) = TerminationCost[m]
              /\ \A m \in MembersOf(s) : QTerminationCost(s) <= TerminationCost[m]
              /\ QIsGoal(s) <=> MembersOf(s) \intersect Goal # {}
<1> DEFINE r == Translated(s)
<1>1. /\ \A m \in State : TerminationCost[m] \in Int /\ TerminationCost[m] <= Infinite
      /\ IsFiniteSet(State)
  BY MDPAssumption
<1>2. CASE IsCollapsed(s)
  <2>1. r \in DOMAIN quotients /\ r \in Representatives
    BY <1>2, IdFacts
  <2>2. r \in MembersOf(r) /\ MembersOf(r) \subseteq State
    BY <2>1, MembersAre
  <2>3. IsFiniteSet(MembersOf(r)) /\ MembersOf(r) # {}
    BY <1>1, <2>2, FS_Subset
  <2>4. QTerminationCost(s) = quotients[r].termination_cost
    BY <1>2 DEF QTerminationCost, QuotientInfo
  <2>5. /\ quotients[r].termination_cost = Min({TerminationCost[m] : m \in MembersOf(r)})
        /\ quotients[r].is_goal <=> MembersOf(r) \intersect Goal # {}
    BY <2>1 DEF QuotientOK, QuotientConsistent
  <2>6. \A m \in MembersOf(r) : TerminationCost[m] \in Int
    BY <1>1, <2>2
  <2>7. PICK M : M = MembersOf(r)
    OBVIOUS
  <2>8. LET m == Min({TerminationCost[x] : x \in M})
        IN  m \in Int /\ (\E x \in M : m = TerminationCost[x])
            /\ \A x \in M : m <= TerminationCost[x]
    BY <2>3, <2>6, <2>7, MinOfImage
  <2>9. QIsGoal(s) <=> quotients[r].is_goal
    BY <1>2 DEF QIsGoal, QuotientInfo
  <2>10. s \in Representatives => r = s
    BY DEF Representatives
  <2>11. \A m \in M : m \in State
    BY <2>2, <2>7
  <2>12. QTerminationCost(s) \in Int /\ QTerminationCost(s) <= Infinite
    BY <1>1, <2>4, <2>5, <2>7, <2>8, <2>11
  <2> HIDE DEF r
  <2> QED BY <2>4, <2>5, <2>7, <2>8, <2>9, <2>10, <2>12
<1>3. CASE ~IsCollapsed(s)
  BY <1>1, <1>3 DEF QTerminationCost, QIsGoal, MembersOf
<1> QED BY <1>2, <1>3

(* What build_quotient does to the IDs and the quotients.                  *)
LEMMA BuildEffect ==
  ASSUME QuotientOK, NEW submdp, CollapseInput(submdp), BuildQuotient(submdp)
  PROVE  LET E == EntryStates(submdp)
             rid == submdp[1].state_id
         IN  /\ rid \in E /\ E \subseteq Representatives /\ E \subseteq State
             /\ quotient_ids' \in [State -> [id : State, flag : BOOLEAN]]
             /\ \A s \in State :
                  /\ Translated(s)' = IF Translated(s) \in E THEN rid
                                      ELSE Translated(s)
                  /\ IsCollapsed(s)' <=> (Translated(s) \in E \/ IsCollapsed(s))
             /\ DOMAIN quotients' = (DOMAIN quotients \ E) \union {rid}
             /\ quotients'[rid].state_infos = MergedInfos(submdp)
             /\ quotients'[rid].termination_cost = MergedTermination(submdp)
             /\ quotients'[rid].is_goal <=> \E s \in E : QIsGoal(s)
             /\ \A r \in DOMAIN quotients \ E :
                  r # rid /\ quotients'[r] = quotients[r]
<1> DEFINE E == EntryStates(submdp)
           rid == submdp[1].state_id
           infos == MergedInfos(submdp)
           info == [state_infos |-> infos,
                    termination_cost |-> MergedTermination(submdp),
                    is_goal |-> \E s \in E : QIsGoal(s)]
<1>1. /\ submdp \in Seq(Entry) /\ submdp # <<>>
      /\ 1 \in DOMAIN submdp /\ Head(submdp) = submdp[1]
      /\ \A i \in DOMAIN submdp : submdp[i].state_id \in Representatives
  BY DEF CollapseInput
<1>2. rid \in E /\ E \subseteq Representatives /\ E \subseteq State /\ rid \in State
  BY <1>1 DEF EntryStates, Representatives
<1>3. /\ quotients' = [r \in (DOMAIN quotients \ E) \union {rid} |->
                         IF r = rid THEN info ELSE quotients[r]]
      /\ quotient_ids' =
           [s \in State |-> IF s \in Keys(infos) THEN [id |-> rid, flag |-> TRUE]
                            ELSE quotient_ids[s]]
  BY <1>1 DEF BuildQuotient, EntryStates, MergedInfos, Keys
<1>4. Keys(infos) = {s \in State : Translated(s) \in E}
  BY MergedInfosFacts
<1> HIDE DEF E, rid, infos
<1>5. quotient_ids \in [State -> [id : State, flag : BOOLEAN]]
  BY DEF QuotientOK, QuotientShape
<1>6. quotient_ids' \in [State -> [id : State, flag : BOOLEAN]]
  BY <1>2, <1>3, <1>5
<1>7. ASSUME NEW s \in State
      PROVE  /\ Translated(s)' = IF Translated(s) \in E THEN rid
                                 ELSE Translated(s)
             /\ IsCollapsed(s)' <=> (Translated(s) \in E \/ IsCollapsed(s))
  <2>1. CASE Translated(s) \in E
    BY <1>3, <1>4, <2>1 DEF Translated, IsCollapsed
  <2>2. CASE Translated(s) \notin E
    BY <1>3, <1>4, <2>2 DEF Translated, IsCollapsed
  <2> QED BY <2>1, <2>2
<1>8. /\ DOMAIN quotients' = (DOMAIN quotients \ E) \union {rid}
      /\ quotients'[rid] = info
      /\ \A r \in DOMAIN quotients \ E :
           r # rid /\ quotients'[r] = quotients[r]
  BY <1>2, <1>3
<1> QED BY <1>2, <1>6, <1>7, <1>8 DEF E, rid, infos

(* The representatives that remain keep their members and their actions;   *)
(* the first one gets those of all.                                        *)
LEMMA BuildMembers ==
  ASSUME QuotientOK, NEW submdp, CollapseInput(submdp), BuildQuotient(submdp)
  PROVE  LET E == EntryStates(submdp)
             rid == submdp[1].state_id
         IN  /\ Representatives' = (Representatives \ E) \union {rid}
             /\ \A r \in Representatives \ E :
                  /\ MembersOf(r)' = MembersOf(r)
                  /\ QApplicable(r)' = QApplicable(r)
                  /\ CollapsedActions(r)' = CollapsedActions(r)
             /\ MembersOf(rid)' = {s \in State : Translated(s) \in E}
             /\ CollapsedActions(rid)' =
                  UNION {CollapsedActions(submdp[i].state_id) \union submdp[i].aops
                           : i \in DOMAIN submdp}
<1> DEFINE E == EntryStates(submdp)
           rid == submdp[1].state_id
           infos == MergedInfos(submdp)
<1>1. /\ rid \in E /\ E \subseteq Representatives /\ E \subseteq State
      /\ \A s \in State :
           /\ Translated(s)' = IF Translated(s) \in E THEN rid ELSE Translated(s)
           /\ IsCollapsed(s)' <=> (Translated(s) \in E \/ IsCollapsed(s))
      /\ DOMAIN quotients' = (DOMAIN quotients \ E) \union {rid}
      /\ quotients'[rid].state_infos = infos
      /\ \A r \in DOMAIN quotients \ E : r # rid /\ quotients'[r] = quotients[r]
  BY BuildEffect
<1>2. /\ Keys(infos) = {s \in State : Translated(s) \in E}
      /\ InnerActs(ToSet(infos)) =
           UNION {CollapsedActions(submdp[i].state_id) \union submdp[i].aops
                    : i \in DOMAIN submdp}
      /\ CompleteList(infos)
  BY MergedInfosFacts
<1> HIDE DEF E, rid, infos
<1>3. Representatives' = (Representatives \ E) \union {rid}
  <2>1. \A s \in State : Translated(s)' = s <=> s \in (Representatives \ E) \union {rid}
    <3> TAKE s \in State
    <3>1. CASE Translated(s) \in E
      <4>1. Translated(s)' = rid
        BY <1>1, <3>1
      <4>2. s \notin Representatives \ E
        BY <3>1 DEF Representatives
      <4> QED BY <4>1, <4>2
    <3>2. CASE Translated(s) \notin E
      <4>1. Translated(s)' = Translated(s)
        BY <1>1, <3>2
      <4>2. s # rid
        BY <1>1, <3>2 DEF Representatives
      <4>3. s \in Representatives <=> Translated(s) = s
        BY DEF Representatives
      <4> QED BY <3>2, <4>1, <4>2, <4>3
    <3> QED BY <3>1, <3>2
  <2> QED BY <1>1, <2>1 DEF Representatives
<1>4. ASSUME NEW r \in Representatives \ E
      PROVE  /\ MembersOf(r)' = MembersOf(r)
             /\ QApplicable(r)' = QApplicable(r)
             /\ CollapsedActions(r)' = CollapsedActions(r)
  <2>1. r \in State /\ Translated(r) = r
    BY DEF Representatives
  <2>2. Translated(r)' = r /\ (IsCollapsed(r)' <=> IsCollapsed(r))
    BY <1>1, <2>1
  <2>3. CASE IsCollapsed(r)
    <3>1. r \in DOMAIN quotients \ E
      BY <2>1, <2>3, IdFacts
    <3>2. MemberInfos(r)' = MemberInfos(r)
      BY <1>1, <2>1, <2>2, <3>1 DEF MemberInfos, QuotientInfo
    <3> QED BY <2>2, <2>3, <3>2 DEF MembersOf, QApplicable, CollapsedActions
  <2>4. CASE ~IsCollapsed(r)
    BY <2>2, <2>4 DEF MembersOf, QApplicable, CollapsedActions
  <2> QED BY <2>3, <2>4
<1>5. /\ IsCollapsed(rid)' /\ MemberInfos(rid)' = ToSet(infos)
  <2>1. Translated(rid) = rid /\ rid \in State
    BY <1>1 DEF Representatives
  <2>2. IsCollapsed(rid)' /\ Translated(rid)' = rid
    BY <1>1, <2>1
  <2> QED BY <1>1, <2>2 DEF MemberInfos, QuotientInfo
<1>6. MembersOf(rid)' = {s \in State : Translated(s) \in E}
  <2>1. MembersOf(rid)' = Keys(infos)
    BY <1>5 DEF MembersOf, Keys, ToSet
  <2> QED BY <1>2, <2>1
<1>7. CollapsedActions(rid)' = InnerActs(ToSet(infos))
  BY <1>5 DEF CollapsedActions, InnerActs
<1> QED BY <1>2, <1>3, <1>4, <1>6, <1>7 DEF E, rid, infos

(* The merged quotient is valued as the best of what was merged.           *)
LEMMA MergedTerminationFacts ==
  ASSUME QuotientOK, NEW submdp, CollapseInput(submdp)
  PROVE  LET members == {s \in State : Translated(s) \in EntryStates(submdp)}
         IN  /\ MergedTermination(submdp) = Min({TerminationCost[m] : m \in members})
             /\ (\E s \in EntryStates(submdp) : QIsGoal(s))
                  <=> members \intersect Goal # {}
<1> DEFINE E == EntryStates(submdp)
           members == {s \in State : Translated(s) \in E}
           cost == [s \in E |-> QTerminationCost(s)]
<1>1. /\ submdp \in Seq(Entry) /\ submdp # <<>> /\ 1 \in DOMAIN submdp
      /\ \A i \in DOMAIN submdp : submdp[i].state_id \in Representatives
  BY DEF CollapseInput
<1>2. E \subseteq Representatives /\ E \subseteq State /\ E # {}
  BY <1>1 DEF EntryStates, Representatives
<1>3. IsFiniteSet(E)
  BY <1>2, MDPAssumption, FS_Subset
<1>4. \A e \in E :
        /\ cost[e] \in Int
        /\ \E m \in MembersOf(e) : cost[e] = TerminationCost[m]
        /\ \A m \in MembersOf(e) : cost[e] <= TerminationCost[m]
        /\ QIsGoal(e) <=> MembersOf(e) \intersect Goal # {}
        /\ MembersOf(e) = {s \in State : Translated(s) = e}
  BY <1>2, TerminationFacts, MembersAre
<1>5. MergedTermination(submdp) = Min({cost[e] : e \in E})
  <2>1. {QTerminationCost(submdp[i].state_id) : i \in DOMAIN submdp} = {cost[e] : e \in E}
    BY DEF EntryStates
  <2> QED BY <2>1 DEF MergedTermination
<1> HIDE DEF E, cost
<1>6. PICK x : x = Min({cost[e] : e \in E})
  OBVIOUS
<1>7. x \in Int /\ (\E e \in E : x = cost[e]) /\ \A e \in E : x <= cost[e]
  <2>1. \A e \in E : cost[e] \in Int
    BY <1>4
  <2>2. LET m == Min({cost[e] : e \in E})
        IN  m \in Int /\ (\E e \in E : m = cost[e]) /\ \A e \in E : m <= cost[e]
    BY <1>2, <1>3, <2>1, MinOfImage
  <2> QED BY <1>6, <2>2
<1>8. \A m \in State : TerminationCost[m] \in Int
  BY MDPAssumption
<1>9. \E m \in members : x = TerminationCost[m]
  <2>1. PICK e \in E : x = cost[e]
    BY <1>7
  <2>2. PICK m \in MembersOf(e) : cost[e] = TerminationCost[m]
    BY <1>4, <2>1
  <2>3. m \in members
    BY <1>4, <2>1, <2>2
  <2> QED BY <2>1, <2>2, <2>3
<1>10. \A m \in members : x <= TerminationCost[m]
  <2> TAKE m \in members
  <2>1. m \in MembersOf(Translated(m)) /\ Translated(m) \in E
    BY <1>4
  <2>2. cost[Translated(m)] <= TerminationCost[m] /\ x <= cost[Translated(m)]
        /\ cost[Translated(m)] \in Int /\ x \in Int
    BY <1>4, <1>7, <2>1
  <2> QED BY <1>8, <2>2
<1>11. Min({TerminationCost[m] : m \in members}) = x
  <2> DEFINE S == {TerminationCost[m] : m \in members}
  <2>1. S \in SUBSET Int /\ x \in S /\ \A y \in S : x <= y
    BY <1>8, <1>9, <1>10
  <2> HIDE DEF S
  <2>2. Min(S) = x
    BY <2>1, MinUnique
  <2> QED BY <2>2 DEF S
<1>12. (\E e \in E : QIsGoal(e)) <=> members \intersect Goal # {}
  BY <1>4
<1> QED BY <1>5, <1>6, <1>11, <1>12 DEF E

(* The data structures are consistent again after collapsing.              *)
LEMMA BuildQuotientOK ==
  ASSUME QuotientOK, NEW submdp, CollapseInput(submdp), BuildQuotient(submdp)
  PROVE  QuotientOK'
<1> DEFINE E == EntryStates(submdp)
           rid == submdp[1].state_id
           infos == MergedInfos(submdp)
           members == {s \in State : Translated(s) \in E}
<1>1. /\ rid \in E /\ E \subseteq Representatives /\ E \subseteq State
      /\ quotient_ids' \in [State -> [id : State, flag : BOOLEAN]]
      /\ \A s \in State :
           /\ Translated(s)' = IF Translated(s) \in E THEN rid ELSE Translated(s)
           /\ IsCollapsed(s)' <=> (Translated(s) \in E \/ IsCollapsed(s))
      /\ DOMAIN quotients' = (DOMAIN quotients \ E) \union {rid}
      /\ quotients'[rid].state_infos = infos
      /\ quotients'[rid].termination_cost = MergedTermination(submdp)
      /\ quotients'[rid].is_goal <=> \E s \in E : QIsGoal(s)
      /\ \A r \in DOMAIN quotients \ E : r # rid /\ quotients'[r] = quotients[r]
  BY BuildEffect
<1>2. /\ \A r \in Representatives \ E : MembersOf(r)' = MembersOf(r)
      /\ MembersOf(rid)' = members
  BY BuildMembers
<1>3. CompleteList(infos) /\ infos[1].state_id = rid /\ Keys(infos) = members
  BY MergedInfosFacts
<1>4. /\ MergedTermination(submdp) = Min({TerminationCost[m] : m \in members})
      /\ (\E s \in E : QIsGoal(s)) <=> members \intersect Goal # {}
  BY MergedTerminationFacts
<1> HIDE DEF E, rid, infos
<1>5. Translated(rid) = rid /\ rid \in State
  BY <1>1 DEF Representatives
<1>6. \A s \in State : (Translated(s)' = rid) <=> s \in members
  <2> TAKE s \in State
  <2>1. CASE Translated(s) \in E
    BY <1>1, <2>1
  <2>2. CASE Translated(s) \notin E
    BY <1>1, <2>2
  <2> QED BY <2>1, <2>2
<1>7. ASSUME NEW r \in DOMAIN quotients \ E
      PROVE  /\ r \in Representatives \ E /\ r \in State /\ r # rid
             /\ Translated(r)' = r /\ IsCollapsed(r)'
             /\ quotients'[r] = quotients[r]
             /\ MembersOf(r)' = MembersOf(r)
             /\ MembersOf(r) = {s \in State : Translated(s) = r}
             /\ \A s \in State : Translated(s)' = r <=> Translated(s) = r
  <2>1. r \in State /\ Translated(r) = r /\ IsCollapsed(r)
    BY DEF QuotientOK, QuotientShape
  <2>2. r \in Representatives \ E
    BY <2>1 DEF Representatives
  <2>3. MembersOf(r) = {s \in State : Translated(s) = r}
    BY <2>2, MembersAre
  <2>4. \A s \in State : Translated(s)' = r <=> Translated(s) = r
    <3> TAKE s \in State
    <3>1. CASE Translated(s) \in E
      BY <1>1, <3>1
    <3>2. CASE Translated(s) \notin E
      BY <1>1, <3>2
    <3> QED BY <3>1, <3>2
  <2> QED BY <1>1, <1>2, <2>1, <2>2, <2>3, <2>4
<1>8. QuotientShape'
  <2>1. DOMAIN quotients' \subseteq State
    BY <1>1, <1>5, <1>7
  <2>2. \A r \in DOMAIN quotients' :
          /\ IsCollapsed(r)' /\ Translated(r)' = r
          /\ quotients'[r].state_infos \in Seq(MemberRecord) \ {<<>>}
          /\ Distinct(quotients'[r].state_infos)
    <3> TAKE r \in DOMAIN quotients'
    <3>1. CASE r = rid
      BY <1>1, <1>3, <1>5, <1>6, <3>1 DEF CompleteList
    <3>2. CASE r \in DOMAIN quotients \ E
      <4>1. /\ quotients[r].state_infos \in Seq(MemberRecord) \ {<<>>}
            /\ Distinct(quotients[r].state_infos)
        BY <3>2 DEF QuotientOK, QuotientShape
      <4> QED BY <1>7, <3>2, <4>1
    <3> QED BY <1>1, <3>1, <3>2
  <2>3. \A s \in State : ~IsCollapsed(s)' => Translated(s)' = s
    <3> TAKE s \in State
    <3> HAVE ~IsCollapsed(s)'
    <3>1. Translated(s) \notin E /\ ~IsCollapsed(s)
      BY <1>1
    <3>2. Translated(s) = s
      BY <3>1 DEF QuotientOK, QuotientShape
    <3> QED BY <1>1, <3>1, <3>2
  <2> QED BY <1>1, <2>1, <2>2, <2>3 DEF QuotientShape
<1>9. QuotientConsistent'
  <2>1. \A s \in State : IsCollapsed(s)' => Translated(s)' \in DOMAIN quotients'
    <3> TAKE s \in State
    <3> HAVE IsCollapsed(s)'
    <3>1. CASE Translated(s) \in E
      BY <1>1, <3>1
    <3>2. CASE Translated(s) \notin E
      <4>1. IsCollapsed(s)
        BY <1>1, <3>2
      <4>2. Translated(s) \in DOMAIN quotients
        BY <4>1, IdFacts
      <4> QED BY <1>1, <3>2, <4>2
    <3> QED BY <3>1, <3>2
  <2>2. ASSUME NEW r \in DOMAIN quotients'
        PROVE  /\ r = Head(quotients'[r].state_infos).state_id
               /\ MembersOf(r)' =
                    {s \in State : Translated(s)' = r /\ IsCollapsed(s)'}
               /\ Len(quotients'[r].state_infos) = Cardinality(MembersOf(r)')
               /\ quotients'[r].is_goal <=> MembersOf(r)' \intersect Goal # {}
               /\ quotients'[r].termination_cost =
                    Min({TerminationCost[m] : m \in MembersOf(r)'})
               /\ \A i \in ToSet(quotients'[r].state_infos) :
                    /\ i.outer_acts \union i.inner_acts = Applicable(i.state_id)
                    /\ i.outer_acts \intersect i.inner_acts = {}
    <3>1. CASE r = rid
      <4>1. Len(infos) = Cardinality(members)
        BY <1>3, DistinctLength DEF CompleteList
      <4>2. Head(infos) = infos[1]
        BY <1>3 DEF CompleteList
      <4>3. members = {s \in State : Translated(s)' = rid /\ IsCollapsed(s)'}
        BY <1>1, <1>6
      <4>4. \A i \in ToSet(infos) :
              /\ i.outer_acts \union i.inner_acts = Applicable(i.state_id)
              /\ i.outer_acts \intersect i.inner_acts = {}
        BY <1>3 DEF CompleteList
      <4> HIDE DEF members
      <4> QED BY <1>1, <1>2, <1>3, <1>4, <3>1, <4>1, <4>2, <4>3, <4>4
    <3>2. CASE r \in DOMAIN quotients \ E
      <4>1. /\ r = Head(quotients[r].state_infos).state_id
            /\ Len(quotients[r].state_infos) = Cardinality(MembersOf(r))
            /\ quotients[r].is_goal <=> MembersOf(r) \intersect Goal # {}
            /\ quotients[r].termination_cost =
                 Min({TerminationCost[m] : m \in MembersOf(r)})
        BY <3>2 DEF QuotientOK, QuotientConsistent
      <4>2. \A i \in ToSet(quotients[r].state_infos) :
              /\ i.outer_acts \union i.inner_acts = Applicable(i.state_id)
              /\ i.outer_acts \intersect i.inner_acts = {}
        BY <3>2, InfoFacts
      <4>3. \A s \in State : Translated(s) = r => IsCollapsed(s)
        BY <3>2, IdFacts
      <4>4. MembersOf(r)' = {s \in State : Translated(s)' = r /\ IsCollapsed(s)'}
        BY <1>1, <1>7, <3>2, <4>3
      <4>5. MembersOf(r)' = MembersOf(r) /\ quotients'[r] = quotients[r]
        BY <1>7, <3>2
      <4> QED BY <4>1, <4>2, <4>4, <4>5
    <3> QED BY <1>1, <3>1, <3>2
  <2>3. \A r \in DOMAIN quotients' : MemberInfos(r)' = ToSet(quotients'[r].state_infos)
    <3> TAKE r \in DOMAIN quotients'
    <3>1. Translated(r)' = r
      BY <1>8 DEF QuotientShape
    <3> QED BY <3>1 DEF MemberInfos, QuotientInfo
  <2> QED BY <2>1, <2>2, <2>3 DEF QuotientConsistent
<1> QED BY <1>8, <1>9 DEF QuotientOK

(* Other states see the merged quotient in place of what was merged.       *)
LEMMA BuildSuccessors ==
  ASSUME QuotientOK, NEW submdp, CollapseInput(submdp), BuildQuotient(submdp),
         NEW m \in State, NEW a \in Applicable(m), NEW qa, qa[1] = m, qa[2] = a,
         Translated(m) \notin EntryStates(submdp)
  PROVE  LET E == EntryStates(submdp)
             rid == submdp[1].state_id
         IN  /\ QLeaving(qa)' = QLeaving(qa)
             /\ QNonSource(qa)' =
                  {IF t \in E THEN rid ELSE t : t \in QNonSource(qa)}
<1> DEFINE E == EntryStates(submdp)
           rid == submdp[1].state_id
<1>1. /\ rid \in E
      /\ \A s \in State : Translated(s)' = IF Translated(s) \in E THEN rid
                                           ELSE Translated(s)
  BY BuildEffect
<1>2. \A u \in Successors(m, a) : u \in State
  BY MDPAssumption
<1>3. Translated(m) \notin E
  OBVIOUS
<1> HIDE DEF E, rid
<1>4. \A u \in State : Translated(u)' # Translated(m)' <=> Translated(u) # Translated(m)
  BY <1>1, <1>3
<1>5. QLeaving(qa)' = QLeaving(qa)
  BY <1>2, <1>4 DEF QLeaving
<1>6. \A u \in QLeaving(qa) :
        u \in State /\ Translated(u)' = IF Translated(u) \in E THEN rid ELSE Translated(u)
  BY <1>1, <1>2 DEF QLeaving
<1>7. QNonSource(qa)' = {Translated(u)' : u \in QLeaving(qa)}
  BY <1>5 DEF QNonSource
<1>8. QNonSource(qa)' = {IF t \in E THEN rid ELSE t : t \in QNonSource(qa)}
  BY <1>6, <1>7 DEF QNonSource
<1> QED BY <1>5, <1>8 DEF E, rid

(* ... and offer the same actions as before.                               *)
LEMMA BuildTails ==
  ASSUME QuotientOK, NEW submdp, CollapseInput(submdp), BuildQuotient(submdp),
         NEW r \in Representatives \ EntryStates(submdp)
  PROVE  QTails(r)' = QTails(r)
<1>1. r \in State /\ Translated(r) = r
  BY DEF Representatives
<1>2. QApplicable(r)' = QApplicable(r)
  BY BuildMembers
<1>3. ASSUME NEW qa \in QApplicable(r)
      PROVE  QLeaving(qa)' = QLeaving(qa)
  <2>1. /\ qa[1] \in State /\ qa[2] \in Applicable(qa[1])
        /\ Translated(qa[1]) \notin EntryStates(submdp)
    BY <1>1, QApplicableType
  <2> QED BY <2>1, BuildSuccessors
<1> QED BY <1>2, <1>3 DEF QTails

-----------------------------------------------------------------------------
(* Traps.                                                                  *)

(* No part of M can be entered by none of the actions acts from the rest.  *)
Connects(acts, M) ==
  \A X \in SUBSET M :
    /\ X # {}
    /\ \A qa \in acts : NonSource(qa[1], qa[2]) \intersect X # {} => qa[1] \in X
    => X = M

(* The inner actions of a quotient stay in it, and connect it.             *)
TrapsClosed ==
  \A r \in DOMAIN quotients :
    /\ \A qa \in CollapsedActions(r) : NonSource(qa[1], qa[2]) \subseteq MembersOf(r)
    /\ Connects(CollapsedActions(r), MembersOf(r))

(* This holds of single states in a trivial way.                           *)
LEMMA TrapOfRepresentative ==
  ASSUME QuotientOK, TrapsClosed, NEW r \in Representatives
  PROVE  /\ \A qa \in CollapsedActions(r) :
              NonSource(qa[1], qa[2]) \subseteq MembersOf(r)
         /\ Connects(CollapsedActions(r), MembersOf(r))
<1>1. CASE IsCollapsed(r)
  <2>1. r \in DOMAIN quotients
    BY <1>1, MembersAre
  <2> QED BY <2>1 DEF TrapsClosed
<1>2. CASE ~IsCollapsed(r)
  <2>1. CollapsedActions(r) = {} /\ MembersOf(r) = {r}
    BY <1>2 DEF CollapsedActions, MembersOf
  <2>2. \A X \in SUBSET {r} : X # {} => X = {r}
    OBVIOUS
  <2> QED BY <2>1, <2>2 DEF Connects
<1> QED BY <1>1, <1>2

(* The entries of submdp are a leaf component of the graph that their      *)
(* actions span.                                                           *)
LeafComponent(submdp) ==
  /\ \A i \in DOMAIN submdp : \A qa \in submdp[i].aops :
       QNonSource(qa) \subseteq EntryStates(submdp)
  /\ \A X \in SUBSET EntryStates(submdp) :
       /\ X # {}
       /\ \A i \in DOMAIN submdp : \A qa \in submdp[i].aops :
            QNonSource(qa) \intersect X # {} => submdp[i].state_id \in X
       => X = EntryStates(submdp)

(* Collapsing such a component makes a trap, and leaves the others alone.  *)
LEMMA BuildTraps ==
  ASSUME QuotientOK, TrapsClosed, NEW submdp, CollapseInput(submdp),
         BuildQuotient(submdp), LeafComponent(submdp)
  PROVE  TrapsClosed'
<1> DEFINE E == EntryStates(submdp)
           rid == submdp[1].state_id
           M == {s \in State : Translated(s) \in E}
           acts == UNION {CollapsedActions(submdp[i].state_id) \union submdp[i].aops
                            : i \in DOMAIN submdp}
<1>1. /\ DOMAIN quotients' = (DOMAIN quotients \ E) \union {rid}
      /\ rid \in E /\ E \subseteq Representatives
  BY BuildEffect
<1>2. /\ \A r \in Representatives \ E :
           /\ MembersOf(r)' = MembersOf(r)
           /\ CollapsedActions(r)' = CollapsedActions(r)
      /\ MembersOf(rid)' = M
      /\ CollapsedActions(rid)' = acts
  BY BuildMembers
<1>3. \A i \in DOMAIN submdp :
        /\ submdp[i].state_id \in E /\ submdp[i].state_id \in Representatives
        /\ submdp[i].aops \subseteq QApplicable(submdp[i].state_id)
  BY DEF CollapseInput, EntryStates
<1>4. \A e \in E :
        /\ MembersOf(e) = {s \in State : Translated(s) = e} /\ e \in MembersOf(e)
        /\ e \in State /\ Translated(e) = e
        /\ \A qa \in CollapsedActions(e) : NonSource(qa[1], qa[2]) \subseteq MembersOf(e)
        /\ Connects(CollapsedActions(e), MembersOf(e))
  BY <1>1, MembersAre, TrapOfRepresentative
<1>5. \A e \in E : \E i \in DOMAIN submdp : e = submdp[i].state_id
  BY DEF EntryStates
<1>6. ASSUME NEW i \in DOMAIN submdp, NEW qa \in submdp[i].aops
      PROVE  /\ qa[1] \in State /\ qa[2] \in Applicable(qa[1])
             /\ Translated(qa[1]) = submdp[i].state_id
             /\ QNonSource(qa) \subseteq E
             /\ \A u \in NonSource(qa[1], qa[2]) :
                  /\ u \in State
                  /\ \/ Translated(u) = submdp[i].state_id
                     \/ Translated(u) \in QNonSource(qa)
             /\ \A t \in QNonSource(qa) :
                  \E u \in NonSource(qa[1], qa[2]) : u \in State /\ Translated(u) = t
  <2> DEFINE e == submdp[i].state_id
  <2>1. e \in State /\ Translated(e) = e /\ qa \in QApplicable(e)
    BY <1>3, <1>4
  <2>2. /\ qa[1] \in State /\ qa[2] \in Applicable(qa[1])
        /\ Translated(qa[1]) = e
    BY <2>1, QApplicableType
  <2>3. QNonSource(qa) \subseteq E
    BY DEF LeafComponent
  <2>4. Successors(qa[1], qa[2]) \subseteq State
    BY <2>2, MDPAssumption
  <2>5. \A u \in NonSource(qa[1], qa[2]) :
          Translated(u) # e => Translated(u) \in QNonSource(qa)
    BY <2>2 DEF QNonSource, QLeaving, NonSource
  <2>6. \A u \in NonSource(qa[1], qa[2]) : u \in State
    BY <2>4 DEF NonSource
  <2>7. \A t \in QNonSource(qa) :
          \E u \in NonSource(qa[1], qa[2]) : u \in State /\ Translated(u) = t
    BY <2>4 DEF QNonSource, QLeaving, NonSource
  <2> QED BY <2>2, <2>3, <2>5, <2>6, <2>7
<1>7. \A qa \in acts : NonSource(qa[1], qa[2]) \subseteq M
  <2> TAKE qa \in acts
  <2>1. PICK i \in DOMAIN submdp :
          qa \in CollapsedActions(submdp[i].state_id) \/ qa \in submdp[i].aops
    OBVIOUS
  <2>2. CASE qa \in CollapsedActions(submdp[i].state_id)
    BY <1>3, <1>4, <2>2
  <2>3. CASE qa \in submdp[i].aops
    BY <1>3, <1>6, <2>3
  <2> QED BY <2>1, <2>2, <2>3
<1>8. Connects(acts, M)
  <2> SUFFICES ASSUME NEW X \in SUBSET M, X # {},
                      \A qa \in acts :
                        NonSource(qa[1], qa[2]) \intersect X # {} => qa[1] \in X
               PROVE  X = M
    BY DEF Connects
  <2> DEFINE Y == {e \in E : MembersOf(e) \intersect X # {}}
  <2>1. \A e \in Y : MembersOf(e) \subseteq X
    <3> TAKE e \in Y
    <3> DEFINE Z == MembersOf(e) \intersect X
    <3>1. CollapsedActions(e) \subseteq acts
      BY <1>5
    <3>2. \A qa \in CollapsedActions(e) : qa[1] \in MembersOf(e)
      <4> TAKE qa \in CollapsedActions(e)
      <4>1. e \in State /\ Translated(e) = e
        BY <1>4
      <4>2. qa[1] \in State /\ Translated(qa[1]) = e
        BY <4>1, CollapsedActionsType
      <4> QED BY <1>4, <4>2
    <3>3. \A qa \in CollapsedActions(e) :
            NonSource(qa[1], qa[2]) \intersect Z # {} => qa[1] \in Z
      BY <3>1, <3>2
    <3>4. Z \in SUBSET MembersOf(e) /\ Z # {}
      OBVIOUS
    <3> HIDE DEF Z
    <3>5. Z = MembersOf(e)
      BY <1>4, <3>3, <3>4 DEF Connects
    <3> QED BY <3>5 DEF Z
  <2>2. Y # {}
    <3>1. PICK x \in X : TRUE
      OBVIOUS
    <3>2. Translated(x) \in E /\ x \in State
      OBVIOUS
    <3>3. x \in MembersOf(Translated(x))
      BY <1>4, <3>2
    <3> QED BY <3>2, <3>3
  <2>3. \A i \in DOMAIN submdp : \A qa \in submdp[i].aops :
          QNonSource(qa) \intersect Y # {} => submdp[i].state_id \in Y
    <3> TAKE i \in DOMAIN submdp
    <3> TAKE qa \in submdp[i].aops
    <3> HAVE QNonSource(qa) \intersect Y # {}
    <3>1. PICK t \in QNonSource(qa) : t \in Y
      OBVIOUS
    <3>2. PICK u \in NonSource(qa[1], qa[2]) : u \in State /\ Translated(u) = t
      BY <1>6
    <3>3. u \in MembersOf(t) /\ t \in E
      BY <1>4, <3>1, <3>2
    <3>4. u \in X
      BY <2>1, <3>1, <3>3
    <3>5. qa \in acts
      OBVIOUS
    <3>6. qa[1] \in X
      BY <3>2, <3>4, <3>5
    <3>7. qa[1] \in MembersOf(submdp[i].state_id) /\ submdp[i].state_id \in E
      BY <1>3, <1>4, <1>6
    <3> QED BY <3>6, <3>7
  <2>4. Y \in SUBSET E
    OBVIOUS
  <2>5. Y = E
    <3> HIDE DEF Y
    <3> QED BY <2>2, <2>3, <2>4 DEF LeafComponent
  <2>6. \A s \in M : s \in X
    <3> TAKE s \in M
    <3>1. s \in MembersOf(Translated(s)) /\ Translated(s) \in E
      BY <1>4
    <3> QED BY <2>1, <2>5, <3>1
  <2> QED BY <2>6
<1> HIDE DEF E, rid, M, acts
<1>9. \A r \in DOMAIN quotients \ E : r \in Representatives \ E
  BY InfoFacts
<1>10. ASSUME NEW r \in DOMAIN quotients'
       PROVE  /\ \A qa \in CollapsedActions(r)' :
                   NonSource(qa[1], qa[2]) \subseteq MembersOf(r)'
              /\ Connects(CollapsedActions(r)', MembersOf(r)')
  <2>1. CASE r = rid
    BY <1>2, <1>7, <1>8, <2>1
  <2>2. CASE r \in DOMAIN quotients \ E
    <3>1. /\ MembersOf(r)' = MembersOf(r)
          /\ CollapsedActions(r)' = CollapsedActions(r)
      BY <1>2, <1>9, <2>2
    <3> QED BY <2>2, <3>1 DEF TrapsClosed
  <2> QED BY <1>1, <2>1, <2>2
<1> QED BY <1>10 DEF TrapsClosed, Connects

-----------------------------------------------------------------------------
(* The backward search from the exit of a trap.                            *)

Parents(acts, t) == {qa[1] : qa \in {x \in acts : t \in NonSource(x[1], x[2])}}

(* within[k] is what TowardsExit finds in k steps.                         *)
IsBackward(within, exit, acts, S) ==
  within = [k \in S |->
              {exit} \union
              (IF k = 0 THEN {} ELSE UNION {Parents(acts, t) : t \in within[k - 1]})]

LEMMA BackwardUnique ==
  ASSUME NEW exit, NEW acts, NEW m \in Nat, NEW n \in Nat, NEW f, NEW g,
         IsBackward(f, exit, acts, 0..m), IsBackward(g, exit, acts, 0..n)
  PROVE  \A k \in Nat : k <= m /\ k <= n => f[k] = g[k]
<1> DEFINE Bad == {k \in Nat : k <= m /\ k <= n /\ f[k] # g[k]}
<1> SUFFICES ASSUME Bad # {} PROVE FALSE
  OBVIOUS
<1>1. PICK k \in Bad : \A j \in Bad : k <= j
  <2>1. Bad \in SUBSET Nat
    OBVIOUS
  <2> HIDE DEF Bad
  <2> QED BY <2>1, LeastNat
<1>2. k \in Nat /\ k <= m /\ k <= n /\ f[k] # g[k]
  OBVIOUS
<1>3. /\ f[k] = {exit} \union
               (IF k = 0 THEN {} ELSE UNION {Parents(acts, t) : t \in f[k - 1]})
      /\ g[k] = {exit} \union
               (IF k = 0 THEN {} ELSE UNION {Parents(acts, t) : t \in g[k - 1]})
  <2>1. k \in 0..m /\ k \in 0..n
    BY <1>2
  <2> HIDE DEF Bad
  <2> QED BY <2>1 DEF IsBackward
<1>4. CASE k = 0
  BY <1>2, <1>3, <1>4
<1>5. CASE k # 0
  <2>1. k - 1 \in Nat /\ k - 1 <= m /\ k - 1 <= n /\ ~(k <= k - 1)
    BY <1>2, <1>5
  <2>2. k - 1 \notin Bad
    <3> HIDE DEF Bad
    <3> QED BY <1>1, <2>1
  <2>3. f[k - 1] = g[k - 1]
    BY <2>1, <2>2
  <2> QED BY <1>2, <1>3, <2>3
<1> QED BY <1>4, <1>5

LEMMA BackwardUpTo ==
  ASSUME NEW exit, NEW acts, NEW n \in Nat
  PROVE  \E f : IsBackward(f, exit, acts, 0..n)
<1> DEFINE Bad == {k \in Nat : ~ \E f : IsBackward(f, exit, acts, 0..k)}
<1> SUFFICES ASSUME Bad # {} PROVE FALSE
  OBVIOUS
<1>1. PICK k \in Bad : \A j \in Bad : k <= j
  <2>1. Bad \in SUBSET Nat
    OBVIOUS
  <2> HIDE DEF Bad
  <2> QED BY <2>1, LeastNat
<1>2. k \in Nat
  OBVIOUS
<1>3. CASE k = 0
  <2> DEFINE g == [i \in 0..k |-> {exit}]
  <2>1. \A i \in 0..k : i = 0
    BY <1>3
  <2>2. IsBackward(g, exit, acts, 0..k)
    BY <2>1 DEF IsBackward
  <2> QED BY <2>2
<1>4. CASE k # 0
  <2>1. k - 1 \in Nat /\ k - 1 \notin Bad
    <3>1. k - 1 \in Nat /\ ~(k <= k - 1)
      BY <1>2, <1>4
    <3> HIDE DEF Bad
    <3> QED BY <1>1, <3>1
  <2>2. PICK f : IsBackward(f, exit, acts, 0..(k - 1))
    BY <2>1
  <2> DEFINE g == [i \in 0..k |->
                     {exit} \union
                     (IF i = 0 THEN {} ELSE UNION {Parents(acts, t) : t \in f[i - 1]})]
  <2>3. \A i \in 0..(k - 1) : g[i] = f[i]
    <3> TAKE i \in 0..(k - 1)
    <3>1. f[i] = {exit} \union
            (IF i = 0 THEN {} ELSE UNION {Parents(acts, t) : t \in f[i - 1]})
      BY <2>2 DEF IsBackward
    <3>2. i \in 0..k
      BY <1>2
    <3> QED BY <3>1, <3>2
  <2>4. \A i \in 0..k : i # 0 => g[i - 1] = f[i - 1]
    <3> TAKE i \in 0..k
    <3> HAVE i # 0
    <3>1. i - 1 \in 0..(k - 1)
      BY <1>2
    <3> HIDE DEF g
    <3> QED BY <2>3, <3>1
  <2>5. g = [i \in 0..k |->
               {exit} \union
               (IF i = 0 THEN {} ELSE UNION {Parents(acts, t) : t \in g[i - 1]})]
    BY <2>4
  <2> HIDE DEF g
  <2>6. IsBackward(g, exit, acts, 0..k)
    BY <2>5 DEF IsBackward
  <2> QED BY <2>6
<1> QED BY <1>3, <1>4

LEMMA BackwardExists ==
  ASSUME NEW exit, NEW acts
  PROVE  \E f : IsBackward(f, exit, acts, Nat)
<1> DEFINE G(n) == CHOOSE f : IsBackward(f, exit, acts, 0..n)
           g == [n \in Nat |-> G(n)[n]]
<1>1. \A n \in Nat : IsBackward(G(n), exit, acts, 0..n)
  BY BackwardUpTo
<1> HIDE DEF G
<1>2. ASSUME NEW n \in Nat
      PROVE  g[n] = {exit} \union
               (IF n = 0 THEN {} ELSE UNION {Parents(acts, t) : t \in g[n - 1]})
  <2>1. G(n)[n] = {exit} \union
          (IF n = 0 THEN {} ELSE UNION {Parents(acts, t) : t \in G(n)[n - 1]})
    <3>1. n \in 0..n
      OBVIOUS
    <3> QED BY <1>1, <3>1 DEF IsBackward
  <2>2. CASE n = 0
    BY <2>1, <2>2
  <2>3. CASE n # 0
    <3>1. n - 1 \in Nat /\ n - 1 <= n /\ n - 1 <= n - 1
      BY <2>3
    <3>2. IsBackward(G(n), exit, acts, 0..n)
      BY <1>1
    <3>3. IsBackward(G(n - 1), exit, acts, 0..(n - 1))
      BY <1>1, <3>1
    <3>4. G(n)[n - 1] = G(n - 1)[n - 1]
      BY <3>1, <3>2, <3>3, BackwardUnique
    <3> QED BY <2>1, <3>1, <3>4
  <2> QED BY <2>2, <2>3
<1>3. g = [n \in Nat |-> {exit} \union
            (IF n = 0 THEN {} ELSE UNION {Parents(acts, t) : t \in g[n - 1]})]
  BY <1>2
<1> HIDE DEF g
<1>4. IsBackward(g, exit, acts, Nat)
  BY <1>3 DEF IsBackward
<1> QED BY <1>4

(* TowardsExit satisfies its recursion.                                    *)
LEMMA TowardsExitUnfold ==
  ASSUME NEW exit, NEW acts, NEW n
  PROVE  \E w : IsBackward(w, exit, acts, Nat) /\ TowardsExit(exit, acts, n) = w[n]
<1> DEFINE w == CHOOSE f : IsBackward(f, exit, acts, Nat)
<1>1. IsBackward(w, exit, acts, Nat)
  BY BackwardExists
<1>2. TowardsExit(exit, acts, n) = w[n]
  BY DEF TowardsExit, IsBackward, Parents
<1> HIDE DEF w
<1> QED BY <1>1, <1>2

(* In a connected set it finds all of it, from every exit, in as many      *)
(* steps as there are states.                                              *)
LEMMA TowardsExitComplete ==
  ASSUME NEW M \in SUBSET State, NEW acts, \A qa \in acts : qa[1] \in M,
         Connects(acts, M), NEW exit \in M
  PROVE  TowardsExit(exit, acts, Cardinality(State)) = M
<1> DEFINE N == Cardinality(State)
<1>1. PICK w : IsBackward(w, exit, acts, Nat) /\ TowardsExit(exit, acts, N) = w[N]
  BY TowardsExitUnfold
<1>2. \A k \in Nat : w[k] = {exit} \union
        (IF k = 0 THEN {} ELSE UNION {Parents(acts, t) : t \in w[k - 1]})
  BY <1>1 DEF IsBackward
<1>3. N \in Nat /\ IsFiniteSet(State)
  BY MDPAssumption, FS_CardinalityType
<1> HIDE DEF N
<1>4. \A k \in Nat : w[k] \subseteq M /\ exit \in w[k]
  <2> TAKE k \in Nat
  <2>1. \A t : Parents(acts, t) \subseteq M
    BY DEF Parents
  <2> QED BY <1>2, <2>1
<1>5. \A k \in Nat : w[k] \subseteq w[k + 1]
  <2> DEFINE Bad == {k \in Nat : ~(w[k] \subseteq w[k + 1])}
  <2> SUFFICES ASSUME Bad # {} PROVE FALSE
    OBVIOUS
  <2>1. PICK k \in Bad : \A j \in Bad : k <= j
    <3>1. Bad \in SUBSET Nat
      OBVIOUS
    <3> HIDE DEF Bad
    <3> QED BY <3>1, LeastNat
  <2>2. k \in Nat /\ ~(w[k] \subseteq w[k + 1])
    OBVIOUS
  <2>3. CASE k = 0
    <3>1. w[k] = {exit} /\ k + 1 \in Nat
      BY <1>2, <2>2, <2>3
    <3> QED BY <1>4, <2>2, <3>1
  <2>4. CASE k # 0
    <3>1. k - 1 \in Nat /\ ~(k <= k - 1) /\ (k - 1) + 1 = k
      BY <2>2, <2>4
    <3>2. k - 1 \notin Bad
      <4> HIDE DEF Bad
      <4> QED BY <2>1, <3>1
    <3>3. w[k - 1] \subseteq w[k]
      BY <3>1, <3>2
    <3>4. w[k] = {exit} \union UNION {Parents(acts, t) : t \in w[k - 1]}
      BY <1>2, <2>2, <2>4
    <3>5. w[k + 1] = {exit} \union UNION {Parents(acts, t) : t \in w[k]}
      <4>1. k + 1 \in Nat /\ k + 1 # 0 /\ (k + 1) - 1 = k
        BY <2>2
      <4> QED BY <1>2, <4>1
    <3> QED BY <2>2, <3>3, <3>4, <3>5
  <2> QED BY <2>3, <2>4
<1>6. \A k \in Nat : w[k + 1] \subseteq w[k] => w[k] = M
  <2> TAKE k \in Nat
  <2> HAVE w[k + 1] \subseteq w[k]
  <2>1. w[k + 1] = {exit} \union UNION {Parents(acts, t) : t \in w[k]}
    <3>1. k + 1 \in Nat /\ k + 1 # 0 /\ (k + 1) - 1 = k
      OBVIOUS
    <3> QED BY <1>2, <3>1
  <2>2. \A qa \in acts : NonSource(qa[1], qa[2]) \intersect w[k] # {} => qa[1] \in w[k]
    <3> TAKE qa \in acts
    <3> HAVE NonSource(qa[1], qa[2]) \intersect w[k] # {}
    <3>1. PICK t \in w[k] : t \in NonSource(qa[1], qa[2])
      OBVIOUS
    <3>2. qa[1] \in Parents(acts, t)
      BY <3>1 DEF Parents
    <3> QED BY <2>1, <3>1, <3>2
  <2> QED BY <1>4, <2>2 DEF Connects
<1>7. \A k \in Nat : /\ IsFiniteSet(w[k]) /\ Cardinality(w[k]) \in Nat
                     /\ Cardinality(w[k]) <= N
  <2> TAKE k \in Nat
  <2>1. w[k] \in SUBSET State
    BY <1>4
  <2> QED BY <1>3, <2>1, FS_Subset, FS_CardinalityType DEF N
<1> DEFINE Bad == {k \in Nat : ~(w[k] = M \/ Cardinality(w[k]) >= k + 1)}
<1>8. Bad = {}
  <2> SUFFICES ASSUME Bad # {} PROVE FALSE
    OBVIOUS
  <2>1. PICK k \in Bad : \A j \in Bad : k <= j
    <3>1. Bad \in SUBSET Nat
      OBVIOUS
    <3> HIDE DEF Bad
    <3> QED BY <3>1, LeastNat
  <2>2. k \in Nat /\ w[k] # M /\ ~(Cardinality(w[k]) >= k + 1)
    OBVIOUS
  <2>3. CASE k = 0
    <3>1. w[k] # {}
      BY <1>4, <2>2
    <3>2. Cardinality(w[k]) # 0 /\ Cardinality(w[k]) \in Nat
      BY <1>7, <2>2, <3>1, FS_EmptySet
    <3> QED BY <2>2, <2>3, <3>2
  <2>4. CASE k # 0
    <3>1. k - 1 \in Nat /\ ~(k <= k - 1) /\ (k - 1) + 1 = k
      BY <2>2, <2>4
    <3>2. k - 1 \notin Bad
      <4> HIDE DEF Bad
      <4> QED BY <2>1, <3>1
    <3>3. w[k - 1] = M \/ Cardinality(w[k - 1]) >= k
      BY <3>1, <3>2
    <3>4. w[k - 1] \subseteq w[k] /\ w[k] \subseteq M
      BY <1>4, <1>5, <2>2, <3>1
    <3>5. w[k - 1] # M
      BY <2>2, <3>4
    <3>6. w[k - 1] # w[k]
      BY <1>6, <3>1, <3>5
    <3>7. /\ Cardinality(w[k - 1]) <= Cardinality(w[k])
          /\ Cardinality(w[k - 1]) # Cardinality(w[k])
      BY <1>7, <2>2, <3>4, <3>6, FS_Subset
    <3>8. Cardinality(w[k]) \in Nat /\ Cardinality(w[k - 1]) \in Nat
      BY <1>7, <2>2, <3>1
    <3> QED BY <2>2, <3>3, <3>5, <3>7, <3>8
  <2> QED BY <2>3, <2>4
<1>9. w[N] = M \/ Cardinality(w[N]) >= N + 1
  BY <1>3, <1>8
<1>10. Cardinality(w[N]) <= N /\ Cardinality(w[N]) \in Nat
  BY <1>3, <1>7
<1> HIDE DEF Bad
<1> QED BY <1>1, <1>3, <1>9, <1>10 DEF N

-----------------------------------------------------------------------------
(* Backups on the view.                                                    *)

StateFlag == {"uninitialized", "initialized", "terminal", "goal", "fringe"}

SearchOK ==
  /\ flag \in [State -> StateFlag]
  /\ value \in [State -> Int]
  /\ \A s \in State : value[s] <= Infinite
  /\ policy \in [State -> QAction \union {NoAction}]

(* The stored actions are among those the view offers, and lead elsewhere. *)
PolicyOK ==
  \A s \in Representatives : policy[s] = NoAction \/ policy[s] \in QTails(s)

(* A Q-value of the view is a value.                                       *)
LEMMA QQValueType ==
  ASSUME QuotientOK, NEW v \in [State -> Int], NEW s \in State, NEW qa \in QTails(s)
  PROVE  QQValue(v, qa) \in Int /\ QQValue(v, qa) <= Infinite
<1> DEFINE m == qa[1]
           a == qa[2]
           dist == Transition[m][a]
           out == QLeaving(qa)
           w == [u \in out |-> dist[u] * v[Translated(u)]]
           p == [u \in out |-> dist[u]]
           num == TotalWeight[m][a] * ActionCost[a] + SumFunction(w)
           den == SumFunction(p)
<1>1. /\ m \in State /\ a \in Applicable(m)
      /\ out \subseteq State /\ IsFiniteSet(out) /\ out # {}
  BY QTailsType
<1>2. /\ Successors(m, a) \in (SUBSET State) \ {{}}
      /\ dist \in [Successors(m, a) -> Nat \ {0}]
      /\ a \in Action
      /\ ActionCost[a] \in Int /\ Infinite \in Nat
  BY <1>1, MDPAssumption
<1>3. IsFiniteSet(Successors(m, a)) /\ Successors(m, a) # {}
  BY <1>2, MDPAssumption, FS_Subset
<1>4. TotalWeight[m][a] \in Int
  <2>1. TotalWeight[m][a] = SumFunction(dist)
    BY <1>1 DEF TotalWeight
  <2>2. SumFunction(dist) = SumFunctionOnSet(dist, Successors(m, a))
    BY <1>2 DEF SumFunction, Successors
  <2>3. \A x \in Successors(m, a) : dist[x] \in Int
    BY <1>2
  <2> HIDE DEF dist
  <2> QED BY <1>3, <2>1, <2>2, <2>3, SumIsInt
<1>5. \A u \in out :
        /\ dist[u] \in Nat \ {0}
        /\ v[Translated(u)] \in Int
  <2> TAKE u \in out
  <2>1. u \in Successors(m, a) /\ u \in State
    BY <1>1 DEF QLeaving
  <2>2. Translated(u) \in State
    BY <2>1, IdFacts
  <2> QED BY <1>2, <2>1, <2>2
<1> HIDE DEF dist, out, m, a
<1>6. SumFunction(w) \in Int
  <2>1. \A u \in out : w[u] \in Int
    <3> TAKE u \in out
    <3>1. dist[u] \in Int /\ v[Translated(u)] \in Int
      BY <1>5
    <3>2. dist[u] * v[Translated(u)] \in Int
      BY <3>1
    <3> QED BY <3>2
  <2>2. SumFunction(w) = SumFunctionOnSet(w, out)
    BY DEF SumFunction
  <2> HIDE DEF w
  <2> QED BY <1>1, <2>1, <2>2, SumIsInt
<1>7. den \in Nat \ {0}
  <2>1. \A u \in out : p[u] \in Nat \ {0}
    BY <1>5
  <2>2. den = SumFunctionOnSet(p, out)
    BY DEF SumFunction
  <2> HIDE DEF p, den
  <2> QED BY <1>1, <2>1, <2>2, SumIsPos
<1>8. num \in Int
  <2>1. TotalWeight[m][a] * ActionCost[a] \in Int
    BY <1>2, <1>4
  <2> HIDE DEF w
  <2> QED BY <1>6, <2>1
<1>9. QQValue(v, qa) = IF \E u \in out : v[Translated(u)] = Infinite THEN Infinite
                       ELSE Saturated(num \div den)
  BY DEF QQValue, dist, out, m, a
<1> HIDE DEF num, den
<1>10. num \div den \in Int
  BY <1>7, <1>8, DivType
<1> QED BY <1>2, <1>9, <1>10 DEF Saturated

(* There are finitely many actions.                                        *)
LEMMA QTailsFinite ==
  ASSUME QuotientOK, NEW s \in State
  PROVE  IsFiniteSet(QTails(s)) /\ NoAction \notin QTails(s)
<1>1. QTails(s) \subseteq QAction
  BY QTailsType
<1>2. IsFiniteSet(QAction)
  BY MDPAssumption, FS_Product DEF QAction
<1> QED BY <1>1, <1>2, FS_Subset, NoQActionAssumption

(* A backup gives a value, and greedy actions that lead elsewhere.         *)
LEMMA QBackupType ==
  ASSUME QuotientOK, NEW v \in [State -> Int], NEW s \in State
  PROVE  /\ QBackup(v, s).value \in Int /\ QBackup(v, s).value <= Infinite
         /\ QBackup(v, s).greedy \subseteq QTails(s)
<1> DEFINE T == QTails(s)
           q == [qa \in T |-> QQValue(v, qa)]
           best == Min({Infinite} \union {q[qa] : qa \in T})
           D == T \union {NoAction}
           h == [x \in D |-> IF x \in T THEN QQValue(v, x) ELSE Infinite]
<1>1. Infinite \in Int
  BY MDPAssumption
<1>2. \A qa \in T : QQValue(v, qa) \in Int
  BY QQValueType
<1>3. IsFiniteSet(D) /\ D # {} /\ NoAction \notin T
  BY QTailsFinite, FS_AddElement
<1> HIDE DEF T
<1>4. {Infinite} \union {q[qa] : qa \in T} = {h[x] : x \in D}
  BY <1>3
<1>5. \A x \in D : h[x] \in Int
  BY <1>1, <1>2
<1>6. h[NoAction] = Infinite /\ NoAction \in D
  BY <1>3
<1>7. best \in Int /\ best <= Infinite
  <2> HIDE DEF h, D
  <2>1. LET x == Min({h[y] : y \in D})
        IN  x \in Int /\ (\E y \in D : x = h[y]) /\ \A y \in D : x <= h[y]
    BY <1>3, <1>5, MinOfImage
  <2> HIDE DEF q
  <2> QED BY <1>4, <1>6, <2>1
<1>8. QTerminationCost(s) \in Int /\ QTerminationCost(s) <= Infinite
  BY TerminationFacts
<1>9. QBackup(v, s) =
        IF T = {} \/ best >= QTerminationCost(s)
        THEN [value |-> QTerminationCost(s), greedy |-> {}]
        ELSE [value |-> best, greedy |-> {qa \in T : q[qa] = best}]
  BY DEF QBackup, T
<1> HIDE DEF best, q
<1>10. {qa \in T : q[qa] = best} \subseteq T
  OBVIOUS
<1> QED BY <1>7, <1>8, <1>9, <1>10 DEF T

(* The initial value of a state is a value.                                *)
LEMMA InitialValueType ==
  ASSUME QuotientOK, NEW s \in State
  PROVE  InitialValue(s) \in Int /\ InitialValue(s) <= Infinite
<1>1. MembersOf(s) \subseteq State /\ MembersOf(s) # {}
  <2>1. CASE IsCollapsed(s)
    <3>1. /\ MemberInfos(s) = MemberInfos(Translated(s))
          /\ \A i \in MemberInfos(s) : i.state_id \in State
          /\ Translated(s) \in DOMAIN quotients
      BY <2>1, InfoOf, IdFacts
    <3>2. MemberInfos(s) # {}
      BY <3>1, InfoFacts DEF ToSet
    <3> QED BY <2>1, <3>1, <3>2 DEF MembersOf
  <2>2. CASE ~IsCollapsed(s)
    BY <2>2 DEF MembersOf
  <2> QED BY <2>1, <2>2
<1> DEFINE S == {Estimate[m] : m \in MembersOf(s)}
           f == [m \in MembersOf(s) |-> Estimate[m]]
<1>2. \A m \in State : Estimate[m] \in Int /\ Estimate[m] <= Infinite
  BY HeuristicAssumption
<1>3. \A x \in S : x \in Int /\ x <= Infinite
  BY <1>1, <1>2
<1>4. IsFiniteSet(S)
  <2>1. f \in Surjection(MembersOf(s), S)
    BY DEF Surjection
  <2>2. IsFiniteSet(MembersOf(s))
    BY <1>1, MDPAssumption, FS_Subset
  <2> HIDE DEF f, S
  <2> QED BY <2>1, <2>2, FS_Surjection
<1>5. S # {}
  BY <1>1
<1>6. QEstimate(s) = Max(S)
  BY DEF QEstimate
<1> HIDE DEF S
<1>7. QEstimate(s) \in S
  BY <1>3, <1>4, <1>5, <1>6, MaxInSet
<1>8. QTerminationCost(s) \in Int /\ QTerminationCost(s) <= Infinite
  BY TerminationFacts
<1> QED BY <1>3, <1>7, <1>8 DEF InitialValue

(* Initialising states.                                                    *)
LEMMA WithType ==
  ASSUME QuotientOK, SearchOK, NEW states
  PROVE  /\ FlagWith(states) \in [State -> StateFlag]
         /\ ValueWith(states) \in [State -> Int]
         /\ \A s \in State : ValueWith(states)[s] <= Infinite
<1>1. \A s \in State : InitialFlag(s) \in StateFlag
  BY DEF InitialFlag, StateFlag
<1>2. \A s \in State : InitialValue(s) \in Int /\ InitialValue(s) <= Infinite
  BY InitialValueType
<1>3. /\ \A s \in State : flag[s] \in StateFlag
      /\ \A s \in State : value[s] \in Int /\ value[s] <= Infinite
  BY DEF SearchOK
<1>4. \A s \in State : /\ FlagWith(states)[s] \in StateFlag
                       /\ ValueWith(states)[s] \in Int
                       /\ ValueWith(states)[s] <= Infinite
  BY <1>1, <1>2, <1>3 DEF FlagWith, ValueWith
<1> QED BY <1>4 DEF FlagWith, ValueWith

(* A backup keeps the types, and what is offered is what is stored.        *)
LEMMA BackupOK ==
  ASSUME QuotientOK, SearchOK, PolicyOK, UNCHANGED quotient_vars,
         NEW s, Backup(s, FALSE)
  PROVE  SearchOK' /\ PolicyOK'
<1> DEFINE v == ValueWith(ToInitialize(s))
           b == QBackup(v, s)
<1>1. /\ flag' = ExpandedFlag(s)
      /\ value' = [v EXCEPT ![s] = b.value]
      /\ \E a \in GreedyChoices(s, b.greedy, FALSE) :
           policy' = [policy EXCEPT ![s] = a]
  BY DEF Backup
<1>2. v \in [State -> Int] /\ \A t \in State : v[t] <= Infinite
  BY WithType
<1> HIDE DEF v
<1>3. s \in State => /\ b.value \in Int /\ b.value <= Infinite
                     /\ b.greedy \subseteq QTails(s)
  BY <1>2, QBackupType
<1> HIDE DEF b
<1>4. PICK a \in GreedyChoices(s, b.greedy, FALSE) : policy' = [policy EXCEPT ![s] = a]
  BY <1>1
<1>5. s \in State => a = NoAction \/ (a \in QTails(s) /\ a \in QAction)
  <2> HAVE s \in State
  <2>1. a = NoAction \/ a \in b.greedy
    BY DEF GreedyChoices
  <2> QED BY <1>3, <2>1, QTailsType
<1>6. value' \in [State -> Int] /\ \A t \in State : value'[t] <= Infinite
  BY <1>1, <1>2, <1>3
<1>7. policy' \in [State -> QAction \union {NoAction}]
  BY <1>4, <1>5 DEF SearchOK
<1>8. flag' \in [State -> StateFlag]
  <2>1. FlagWith(ToInitialize(s)) \in [State -> StateFlag]
    BY WithType
  <2>2. /\ flag \in [State -> StateFlag]
        /\ "terminal" \in StateFlag /\ "initialized" \in StateFlag
    BY DEF SearchOK, StateFlag
  <2> QED BY <1>1, <2>1, <2>2 DEF ExpandedFlag
<1>9. Representatives' = Representatives /\ \A t : QTails(t)' = QTails(t)
  BY DEF quotient_vars, Representatives, Translated, QTails, QApplicable,
         IsCollapsed, MemberInfos, QuotientInfo, QLeaving
<1>10. \A t \in Representatives :
         policy'[t] = NoAction \/ policy'[t] \in QTails(t)
  <2> TAKE t \in Representatives
  <2>1. t \in State
    BY DEF Representatives
  <2>2. CASE t = s
    BY <1>4, <1>5, <2>1, <2>2 DEF SearchOK
  <2>3. CASE t # s
    BY <1>4, <2>1, <2>3 DEF PolicyOK, SearchOK
  <2> QED BY <2>2, <2>3
<1> QED BY <1>6, <1>7, <1>8, <1>9, <1>10 DEF SearchOK, PolicyOK

-----------------------------------------------------------------------------
(* The depth-first search, as a graph: n states on the stack, with the     *)
(* states on[i], their successors succ[i] and lowlinks low[i]; m frames,   *)
(* at the places place[k] of the stack, with the successors pend[k] that   *)
(* are left to look at.                                                    *)

Steps(g, i, j) == g.on[j] \in g.succ[i]

(* The places of frame k and of what was finished above it.                *)
Segment(g, k) == g.place[k] .. (IF k < g.m THEN g.place[k + 1] - 1 ELSE g.n)

GraphType(g) ==
  /\ g.n \in Nat /\ g.m \in Nat
  /\ g.on \in [1..g.n -> State]
  /\ g.succ \in [1..g.n -> SUBSET State]
  /\ g.low \in [1..g.n -> 1..g.n]
  /\ g.place \in [1..g.m -> 1..g.n]
  /\ g.leaf \in [1..g.m -> BOOLEAN]
  /\ g.pend \in [1..g.m -> SUBSET State]

(* The frames lie above each other, and each leads to the next one.        *)
FramesInOrder(g) ==
  /\ \A i, j \in 1..g.n : g.on[i] = g.on[j] => i = j
  /\ g.m = 0 <=> g.n = 0
  /\ g.m > 0 => g.place[1] = 1
  /\ \A k, l \in 1..g.m : k < l => g.place[k] < g.place[l]
  /\ \A k \in 1..g.m : k + 1 \in 1..g.m => Steps(g, g.place[k], g.place[k + 1])
  /\ \A k \in 1..g.m : g.pend[k] \subseteq g.succ[g.place[k]]

(* Above a frame, every state was reached from it or from a state between. *)
Reached(g) ==
  \A k \in 1..g.m : \A i \in 1..g.n : g.place[k] < i =>
    \E p \in 1..g.n : g.place[k] <= p /\ p < i /\ Steps(g, p, i)

OnFrame(g, i) == \E k \in 1..g.m : g.place[k] = i

(* A lowlink has a reason: an edge, or a finished successor with the same. *)
LowReason(g) ==
  \A i \in 1..g.n :
    /\ g.low[i] <= i
    /\ \/ g.low[i] = i
       \/ Steps(g, i, g.low[i])
       \/ \E c \in 1..g.n : /\ i < c /\ ~OnFrame(g, c)
                            /\ g.low[c] = g.low[i] /\ Steps(g, i, c)

(* What is finished and still on the stack belongs to something below, and *)
(* the frame knows how far down its segment reaches.                       *)
LowFinished(g) ==
  /\ \A i \in 1..g.n : ~OnFrame(g, i) => g.low[i] < i
  /\ \A k \in 1..g.m : \A i \in Segment(g, k) : g.low[g.place[k]] <= g.low[i]

(* As long as frame k counts as a leaf, its segment leads nowhere but to   *)
(* places from its lowlink on, or to what it still has to look at.         *)
LeafTarget(g, k, i, t) ==
  \/ \E j \in 1..g.n : /\ t = g.on[j] /\ g.low[g.place[k]] <= j
                       /\ j \in 1..(IF k < g.m THEN g.place[k + 1] - 1 ELSE g.n)
  \/ /\ i = g.place[k]
     /\ t \in g.pend[k] \/ (k + 1 \in 1..g.m /\ t = g.on[g.place[k + 1]])

LeafReason(g) ==
  \A k \in 1..g.m : g.leaf[k] =>
    \A i \in Segment(g, k) : \A t \in g.succ[i] : LeafTarget(g, k, i, t)

GraphOK(g) ==
  /\ GraphType(g)
  /\ FramesInOrder(g)
  /\ Reached(g)
  /\ LowReason(g)
  /\ LowFinished(g)
  /\ LeafReason(g)

(* The segments cover the stack and do not overlap.                        *)
LEMMA SegmentFacts ==
  ASSUME NEW g, GraphType(g), FramesInOrder(g), NEW k \in 1..g.m
  PROVE  /\ g.place[k] \in 1..g.n
         /\ \A i \in Segment(g, k) : i \in 1..g.n /\ g.place[k] <= i
         /\ g.place[k] \in Segment(g, k)
         /\ \A i \in Segment(g, k) : \A l \in 1..g.m : g.place[l] = i => l = k
         /\ k < g.m => /\ k + 1 \in 1..g.m
                       /\ \A i \in Segment(g, k) : i < g.place[k + 1]
                       /\ \A i \in Segment(g, k) : i < g.place[g.m]
         /\ k = g.m => Segment(g, k) = g.place[k] .. g.n
<1>1. /\ g.n \in Nat /\ g.m \in Nat /\ g.place[k] \in 1..g.n
      /\ \A l \in 1..g.m : g.place[l] \in 1..g.n
      /\ \A j, l \in 1..g.m : j < l => g.place[j] < g.place[l]
  BY DEF GraphType, FramesInOrder
<1>2. CASE k < g.m
  <2>1. k + 1 \in 1..g.m /\ g.m \in 1..g.m /\ g.place[k] < g.place[k + 1]
        /\ (k + 1 = g.m \/ k + 1 < g.m)
    BY <1>1, <1>2
  <2>2. g.place[k + 1] <= g.place[g.m]
    BY <1>1, <2>1
  <2>3. Segment(g, k) = g.place[k] .. (g.place[k + 1] - 1)
    BY <1>2 DEF Segment
  <2>4. ASSUME NEW i \in Segment(g, k), NEW l \in 1..g.m, g.place[l] = i
        PROVE  l = k
    <3>1. g.place[k] <= g.place[l] /\ g.place[l] < g.place[k + 1]
      BY <1>1, <2>1, <2>3, <2>4
    <3>2. ~(l < k)
      BY <1>1, <3>1
    <3>3. ~(k + 1 < l) /\ l # k + 1
      BY <1>1, <2>1, <3>1
    <3> QED BY <3>2, <3>3
  <2>5. /\ g.place[k + 1] \in 1..g.n /\ g.place[g.m] \in 1..g.n
        /\ g.place[k] \in Int
    BY <1>1, <2>1
  <2>6. \A i \in Segment(g, k) :
          /\ i \in 1..g.n /\ g.place[k] <= i
          /\ i < g.place[k + 1] /\ i < g.place[g.m]
    BY <1>1, <2>2, <2>3, <2>5, SMTT(30)
  <2>7. g.place[k] \in Segment(g, k)
    BY <1>1, <2>1, <2>3, <2>5
  <2> QED BY <1>1, <1>2, <2>1, <2>4, <2>6, <2>7
<1>3. CASE k = g.m
  <2>1. Segment(g, k) = g.place[k] .. g.n
    BY <1>1, <1>3 DEF Segment
  <2>2. ASSUME NEW i \in Segment(g, k), NEW l \in 1..g.m, g.place[l] = i
        PROVE  l = k
    <3>1. g.place[k] <= g.place[l]
      BY <1>1, <2>1, <2>2
    <3> QED BY <1>1, <1>3, <3>1
  <2> QED BY <1>1, <1>3, <2>1, <2>2
<1> QED BY <1>1, <1>2, <1>3

(* A component is connected: a set that is not entered from the rest of    *)
(* the segment of a root on top is all of it.                              *)
LEMMA ComponentConnected ==
  ASSUME NEW g, GraphOK(g), g.m > 0, g.low[g.place[g.m]] = g.place[g.m],
         NEW X \in SUBSET (g.place[g.m] .. g.n), X # {},
         \A i, j \in g.place[g.m] .. g.n : j \in X /\ Steps(g, i, j) => i \in X
  PROVE  X = g.place[g.m] .. g.n
<1> DEFINE m == g.m
           c == g.place[m]
<1>1. /\ g.n \in Nat /\ m \in 1..m /\ m \in Nat /\ c \in 1..g.n
      /\ \A i \in 1..g.n : g.low[i] \in 1..g.n
  <2>1. /\ g.n \in Nat /\ g.m \in Nat
        /\ g.place \in [1..g.m -> 1..g.n] /\ g.low \in [1..g.n -> 1..g.n]
    BY DEF GraphOK, GraphType
  <2>2. m \in 1..m
    BY <2>1
  <2> QED BY <2>1, <2>2
<1>2. /\ Segment(g, m) = c .. g.n
      /\ \A i \in c .. g.n : OnFrame(g, i) => i = c
  BY <1>1, SegmentFacts, SMTT(30) DEF GraphOK, OnFrame
<1>3. \A i \in c .. g.n : c <= g.low[i]
  BY <1>1, <1>2 DEF GraphOK, LowFinished
<1>4. c \in X
  <2>1. PICK i \in X : \A j \in X : i <= j
    <3>1. X \in SUBSET Nat
      BY <1>1
    <3> QED BY <3>1, LeastNat
  <2>2. i \in c .. g.n
    OBVIOUS
  <2>3. CASE i = c
    BY <2>3
  <2>4. CASE i # c
    <3>1. c < i /\ i \in 1..g.n
      BY <1>1, <2>2, <2>4
    <3>2. PICK p \in 1..g.n : c <= p /\ p < i /\ Steps(g, p, i)
      BY <1>1, <3>1 DEF GraphOK, Reached
    <3>3. p \in c .. g.n
      BY <1>1, <3>2
    <3>4. p \in X /\ ~(i <= p)
      BY <1>1, <2>1, <2>2, <3>2, <3>3
    <3> QED BY <2>1, <3>4
  <2> QED BY <2>3, <2>4
<1> DEFINE B == (c .. g.n) \ X
<1> SUFFICES ASSUME B # {} PROVE FALSE
  OBVIOUS
<1>5. B \in SUBSET Nat /\ \A i \in B : i <= g.n
  BY <1>1
<1>6. PICK j \in B : \A i \in B : j <= i
  <2> HIDE DEF B
  <2> QED BY <1>5, LeastNat
<1> DEFINE D == {i \in B : g.low[i] \in X}
<1>7. j \in D
  <2>1. j \in c .. g.n /\ j # c /\ j \in 1..g.n
    BY <1>1, <1>4
  <2>2. g.low[j] < j
    BY <1>2, <2>1 DEF GraphOK, LowFinished
  <2>3. g.low[j] \in c .. g.n /\ ~(j <= g.low[j])
    BY <1>1, <1>3, <2>1, <2>2
  <2> QED BY <1>6, <2>3
<1>8. PICK i \in D : \A k \in D : k <= i
  <2>1. D \in SUBSET Nat /\ \A k \in D : k <= g.n
    BY <1>5
  <2>2. D # {}
    BY <1>7
  <2> HIDE DEF D
  <2> QED BY <1>1, <2>1, <2>2, GreatestNat
<1>9. /\ i \in c .. g.n /\ i \notin X /\ g.low[i] \in X /\ i \in 1..g.n
      /\ g.low[i] # i
  BY <1>1
<1>10. ~Steps(g, i, g.low[i])
  BY <1>9
<1>11. PICK d \in 1..g.n : /\ i < d /\ ~OnFrame(g, d)
                           /\ g.low[d] = g.low[i] /\ Steps(g, i, d)
  BY <1>9, <1>10 DEF GraphOK, LowReason
<1>12. d \in c .. g.n
  BY <1>1, <1>9, <1>11
<1>13. d \notin X
  BY <1>9, <1>11, <1>12
<1>14. d \in D /\ ~(d <= i)
  BY <1>1, <1>9, <1>11, <1>12, <1>13
<1> HIDE DEF D
<1> QED BY <1>8, <1>14

(* A component that counts as a leaf when it is complete cannot be left.   *)
LEMMA ComponentClosed ==
  ASSUME NEW g, GraphOK(g), g.m > 0, g.low[g.place[g.m]] = g.place[g.m],
         g.leaf[g.m], g.pend[g.m] = {},
         NEW i \in g.place[g.m] .. g.n, NEW t \in g.succ[i]
  PROVE  \E j \in g.place[g.m] .. g.n : t = g.on[j]
<1>1. /\ g.n \in Nat /\ g.m \in 1..g.m /\ g.m \in Nat /\ g.place[g.m] \in 1..g.n
  BY DEF GraphOK, GraphType
<1>2. Segment(g, g.m) = g.place[g.m] .. g.n
  BY <1>1, SegmentFacts DEF GraphOK
<1>3. LeafTarget(g, g.m, i, t)
  BY <1>1, <1>2 DEF GraphOK, LeafReason
<1>4. PICK j \in 1..g.n : t = g.on[j] /\ g.place[g.m] <= j
  BY <1>1, <1>3 DEF LeafTarget
<1> QED BY <1>1, <1>4

(* A new state is pushed, a successor of the top one.                      *)
GraphPush(g, h) ==
  /\ GraphType(h)
  /\ h.n = g.n + 1 /\ h.m = g.m + 1
  /\ \A i \in 1..g.n :
       /\ h.on[i] = g.on[i] /\ h.succ[i] = g.succ[i] /\ h.low[i] = g.low[i]
       /\ h.on[i] # h.on[h.n]
  /\ h.low[h.n] = h.n
  /\ \A k \in 1..g.m :
       /\ h.place[k] = g.place[k] /\ h.leaf[k] = g.leaf[k]
       /\ h.pend[k] \subseteq g.pend[k]
       /\ g.pend[k] \subseteq h.pend[k] \union (IF k = g.m THEN {h.on[h.n]} ELSE {})
  /\ h.place[h.m] = h.n
  /\ h.pend[h.m] = h.succ[h.n]
  /\ g.m > 0 => h.on[h.n] \in g.pend[g.m]

LEMMA GraphPushOK ==
  ASSUME NEW g, NEW h, GraphOK(g), GraphPush(g, h)
  PROVE  GraphOK(h)
<1> USE DEF GraphPush
<1>1. /\ g.n \in Nat /\ g.m \in Nat /\ h.n \in 1..h.n /\ h.m \in 1..h.m
      /\ \A i \in 1..g.n : i \in 1..h.n /\ i < h.n
      /\ \A i \in 1..h.n : i \in 1..g.n \/ i = h.n
      /\ \A k \in 1..g.m : k \in 1..h.m /\ k < h.m
      /\ \A k \in 1..h.m : k \in 1..g.m \/ k = h.m
      /\ \A k \in 1..g.m : g.place[k] \in 1..g.n
      /\ \A i \in 1..g.n : g.low[i] \in 1..g.n
      /\ h.n = g.n + 1 /\ h.m = g.m + 1
  <2>1. /\ g.n \in Nat /\ g.m \in Nat
        /\ g.place \in [1..g.m -> 1..g.n] /\ g.low \in [1..g.n -> 1..g.n]
    BY DEF GraphOK, GraphType
  <2>2. h.n = g.n + 1 /\ h.m = g.m + 1
    OBVIOUS
  <2>3. \A x \in Nat : /\ x + 1 \in 1..(x + 1)
                       /\ \A i \in 1..x : i \in 1..(x + 1) /\ i < x + 1
                       /\ \A i \in 1..(x + 1) : i \in 1..x \/ i = x + 1
    OBVIOUS
  <2> HIDE DEF GraphPush
  <2>4. /\ h.n \in 1..h.n
        /\ \A i \in 1..g.n : i \in 1..h.n /\ i < h.n
        /\ \A i \in 1..h.n : i \in 1..g.n \/ i = h.n
    BY <2>1, <2>2, <2>3
  <2>5. /\ h.m \in 1..h.m
        /\ \A k \in 1..g.m : k \in 1..h.m /\ k < h.m
        /\ \A k \in 1..h.m : k \in 1..g.m \/ k = h.m
    BY <2>1, <2>2, <2>3
  <2>6. /\ \A k \in 1..g.m : g.place[k] \in 1..g.n
        /\ \A i \in 1..g.n : g.low[i] \in 1..g.n
    BY <2>1
  <2> QED BY <2>1, <2>2, <2>4, <2>5, <2>6
<1>2. \A i, j \in 1..g.n : Steps(h, i, j) <=> Steps(g, i, j)
  BY DEF Steps
<1>3. g.m > 0 => Steps(h, g.place[g.m], h.n)
  <2> HAVE g.m > 0
  <2>1. g.m \in 1..g.m
    BY <1>1
  <2>2. h.on[h.n] \in g.succ[g.place[g.m]]
    BY <2>1 DEF GraphOK, FramesInOrder
  <2> QED BY <1>1, <2>1, <2>2 DEF Steps
<1>4. FramesInOrder(h)
  <2>1. \A i, j \in 1..h.n : h.on[i] = h.on[j] => i = j
    BY <1>1 DEF GraphOK, FramesInOrder
  <2>2. h.place[1] = 1
    <3>1. CASE g.m = 0
      BY <1>1, <3>1 DEF GraphOK, FramesInOrder
    <3>2. CASE g.m > 0
      BY <1>1, <3>2 DEF GraphOK, FramesInOrder
    <3> QED BY <1>1, <3>1, <3>2
  <2>3. \A k, l \in 1..h.m : k < l => h.place[k] < h.place[l]
    <3> TAKE k, l \in 1..h.m
    <3> HAVE k < l
    <3>1. k \in 1..g.m
      BY <1>1
    <3>2. CASE l \in 1..g.m
      BY <3>1, <3>2 DEF GraphOK, FramesInOrder
    <3>3. CASE l = h.m
      BY <1>1, <3>1, <3>3
    <3> QED BY <1>1, <3>2, <3>3
  <2>4. \A k \in 1..h.m : k + 1 \in 1..h.m => Steps(h, h.place[k], h.place[k + 1])
    <3> TAKE k \in 1..h.m
    <3> HAVE k + 1 \in 1..h.m
    <3>1. k \in 1..g.m
      BY <1>1
    <3>2. CASE k + 1 \in 1..g.m
      BY <1>1, <1>2, <3>1, <3>2 DEF GraphOK, FramesInOrder
    <3>3. CASE k + 1 = h.m
      <4>1. k + 1 = g.m + 1 /\ k \in Nat /\ 1 <= k
        BY <1>1, <3>1, <3>3
      <4>2. k = g.m /\ g.m > 0
        BY <1>1, <4>1
      <4> QED BY <1>3, <3>1, <3>3, <4>2
    <3> QED BY <1>1, <3>2, <3>3
  <2>5. \A k \in 1..h.m : h.pend[k] \subseteq h.succ[h.place[k]]
    <3> TAKE k \in 1..h.m
    <3>1. CASE k \in 1..g.m
      BY <1>1, <3>1 DEF GraphOK, FramesInOrder
    <3>2. CASE k = h.m
      BY <3>2
    <3> QED BY <1>1, <3>1, <3>2
  <2>6. h.m # 0 /\ h.n # 0
    BY <1>1
  <2> QED BY <2>1, <2>2, <2>3, <2>4, <2>5, <2>6 DEF FramesInOrder
<1>5. Reached(h)
  <2> SUFFICES ASSUME NEW k \in 1..h.m, NEW i \in 1..h.n, h.place[k] < i
               PROVE  \E p \in 1..h.n : h.place[k] <= p /\ p < i /\ Steps(h, p, i)
    BY DEF Reached
  <2>1. k \in 1..g.m
    BY <1>1
  <2>2. CASE i \in 1..g.n
    <3>1. PICK p \in 1..g.n : g.place[k] <= p /\ p < i /\ Steps(g, p, i)
      BY <2>1, <2>2 DEF GraphOK, Reached
    <3> QED BY <1>1, <1>2, <2>1, <2>2, <3>1
  <2>3. CASE i = h.n
    <3>1. g.m > 0 /\ g.m \in 1..g.m /\ (k = g.m \/ k < g.m)
      <4>1. k \in Nat /\ 1 <= k /\ k <= g.m /\ g.m \in Nat
        BY <1>1, <2>1
      <4> QED BY <4>1
    <3>2. g.place[k] <= g.place[g.m]
      BY <1>1, <2>1, <3>1 DEF GraphOK, FramesInOrder
    <3> QED BY <1>1, <1>3, <2>1, <2>3, <3>1, <3>2
  <2> QED BY <1>1, <2>2, <2>3
<1>6. \A i \in 1..g.n : OnFrame(h, i) <=> OnFrame(g, i)
  BY <1>1 DEF OnFrame
<1>7. LowReason(h)
  <2> SUFFICES ASSUME NEW i \in 1..h.n
               PROVE  /\ h.low[i] <= i
                      /\ \/ h.low[i] = i
                         \/ Steps(h, i, h.low[i])
                         \/ \E c \in 1..h.n : /\ i < c /\ ~OnFrame(h, c)
                                              /\ h.low[c] = h.low[i] /\ Steps(h, i, c)
    BY DEF LowReason
  <2>1. CASE i \in 1..g.n
    <3>1. /\ g.low[i] <= i
          /\ \/ g.low[i] = i
             \/ Steps(g, i, g.low[i])
             \/ \E c \in 1..g.n : /\ i < c /\ ~OnFrame(g, c)
                                  /\ g.low[c] = g.low[i] /\ Steps(g, i, c)
      BY <2>1 DEF GraphOK, LowReason
    <3>2. h.low[i] = g.low[i]
      BY <2>1
    <3>3. CASE \E c \in 1..g.n : /\ i < c /\ ~OnFrame(g, c)
                                 /\ g.low[c] = g.low[i] /\ Steps(g, i, c)
      <4>1. PICK c \in 1..g.n : /\ i < c /\ ~OnFrame(g, c)
                                /\ g.low[c] = g.low[i] /\ Steps(g, i, c)
        BY <3>3
      <4>2. c \in 1..h.n /\ ~OnFrame(h, c) /\ h.low[c] = h.low[i] /\ Steps(h, i, c)
        BY <1>1, <1>2, <1>6, <2>1, <4>1
      <4> QED BY <3>1, <3>2, <4>1, <4>2
    <3> QED BY <1>1, <1>2, <2>1, <3>1, <3>2, <3>3
  <2>2. CASE i = h.n
    BY <1>1, <2>2
  <2> QED BY <1>1, <2>1, <2>2
<1>8. /\ \A k \in 1..g.m : Segment(h, k) = Segment(g, k)
      /\ Segment(h, h.m) = {h.n}
  <2>1. ASSUME NEW k \in 1..g.m
        PROVE  Segment(h, k) = Segment(g, k)
    <3>1. CASE k < g.m
      <4>1. k + 1 \in 1..g.m /\ k < h.m
        BY <1>1, <3>1
      <4> QED BY <3>1, <4>1 DEF Segment
    <3>2. CASE k = g.m
      <4>1. k < h.m /\ h.place[k + 1] = h.n /\ h.place[k] = g.place[k] /\ ~(k < g.m)
        BY <1>1, <3>2
      <4>2. h.n - 1 = g.n
        BY <1>1
      <4> QED BY <4>1, <4>2 DEF Segment
    <3> QED BY <1>1, <3>1, <3>2, SMTT(30)
  <2>2. Segment(h, h.m) = h.n .. h.n
    BY <1>1 DEF Segment
  <2> QED BY <1>1, <2>1, <2>2
<1>9. ASSUME NEW k \in 1..g.m, NEW i \in Segment(g, k)
      PROVE  i \in 1..g.n
  BY SegmentFacts DEF GraphOK
<1>10. LowFinished(h)
  <2>1. \A i \in 1..h.n : ~OnFrame(h, i) => h.low[i] < i
    <3> TAKE i \in 1..h.n
    <3> HAVE ~OnFrame(h, i)
    <3>1. i \in 1..g.n
      BY <1>1 DEF OnFrame
    <3> QED BY <1>6, <3>1 DEF GraphOK, LowFinished
  <2>2. \A k \in 1..h.m : \A i \in Segment(h, k) : h.low[h.place[k]] <= h.low[i]
    <3> TAKE k \in 1..h.m
    <3> TAKE i \in Segment(h, k)
    <3>1. CASE k \in 1..g.m
      <4>1. i \in Segment(g, k) /\ i \in 1..g.n /\ g.place[k] \in 1..g.n
        BY <1>1, <1>8, <1>9, <3>1
      <4> QED BY <3>1, <4>1 DEF GraphOK, LowFinished
    <3>2. CASE k = h.m
      BY <1>1, <1>8, <3>2
    <3> QED BY <1>1, <3>1, <3>2
  <2> QED BY <2>1, <2>2 DEF LowFinished
<1>11. LeafReason(h)
  <2> SUFFICES ASSUME NEW k \in 1..h.m, h.leaf[k], NEW i \in Segment(h, k),
                      NEW t \in h.succ[i]
               PROVE  LeafTarget(h, k, i, t)
    BY DEF LeafReason
  <2>1. CASE k \in 1..g.m
    <3>1. i \in Segment(g, k) /\ i \in 1..g.n /\ g.place[k] \in 1..g.n
      BY <1>1, <1>8, <1>9, <2>1
    <3>2. LeafTarget(g, k, i, t)
      BY <2>1, <3>1 DEF GraphOK, LeafReason
    <3>3. CASE \E j \in 1..g.n :
                 /\ t = g.on[j] /\ g.low[g.place[k]] <= j
                 /\ j \in 1..(IF k < g.m THEN g.place[k + 1] - 1 ELSE g.n)
      <4>1. PICK j \in 1..g.n :
              /\ t = g.on[j] /\ g.low[g.place[k]] <= j
              /\ j \in 1..(IF k < g.m THEN g.place[k + 1] - 1 ELSE g.n)
        BY <3>3
      <4>2. j \in 1..h.n /\ t = h.on[j] /\ h.low[h.place[k]] <= j
        BY <1>1, <2>1, <3>1, <4>1
      <4>3. j \in 1..(IF k < h.m THEN h.place[k + 1] - 1 ELSE h.n)
        <5>1. CASE k < g.m
          <6>1. k + 1 \in 1..g.m
            BY <1>1, <5>1
          <6> QED BY <1>1, <2>1, <4>1, <5>1, <6>1
        <5>2. CASE k = g.m
          BY <1>1, <2>1, <4>1, <5>2
        <5> QED BY <1>1, <2>1, <5>1, <5>2
      <4> QED BY <4>2, <4>3 DEF LeafTarget
    <3>4. CASE i = g.place[k] /\ t \in g.pend[k]
      <4>1. t \in h.pend[k] \/ (k = g.m /\ t = h.on[h.n])
        BY <2>1, <3>4
      <4>2. k = g.m => k + 1 \in 1..h.m /\ h.place[k + 1] = h.n
        BY <1>1
      <4> QED BY <2>1, <3>4, <4>1, <4>2 DEF LeafTarget
    <3>5. CASE i = g.place[k] /\ k + 1 \in 1..g.m /\ t = g.on[g.place[k + 1]]
      BY <1>1, <2>1, <3>5 DEF LeafTarget
    <3> QED BY <3>2, <3>3, <3>4, <3>5 DEF LeafTarget
  <2>2. CASE k = h.m
    BY <1>8, <2>2 DEF LeafTarget
  <2> QED BY <1>1, <2>1, <2>2
<1> QED BY <1>4, <1>5, <1>7, <1>10, <1>11 DEF GraphOK

LEMMA GraphFacts ==
  ASSUME NEW g, GraphOK(g)
  PROVE  /\ g.n \in Nat /\ g.m \in Nat
         /\ \A k \in 1..g.m : g.place[k] \in 1..g.n
         /\ \A i \in 1..g.n : g.low[i] \in 1..g.n /\ g.low[i] <= i
         /\ \A k, l \in 1..g.m : k < l => g.place[k] < g.place[l]
         /\ g.m > 0 => g.m \in 1..g.m /\ 1 \in 1..g.m
         /\ \A k \in 1..g.m : k < g.m => k + 1 \in 1..g.m
         /\ \A i \in 1..g.n : \A k \in 1..g.m : g.place[k] = i => OnFrame(g, i)
<1>1. /\ g.n \in Nat /\ g.m \in Nat
      /\ g.place \in [1..g.m -> 1..g.n] /\ g.low \in [1..g.n -> 1..g.n]
  BY DEF GraphOK, GraphType
<1>2. \A i \in 1..g.n : g.low[i] <= i
  BY DEF GraphOK, LowReason
<1>3. \A k, l \in 1..g.m : k < l => g.place[k] < g.place[l]
  BY DEF GraphOK, FramesInOrder
<1>4. \A i \in 1..g.n : \A k \in 1..g.m : g.place[k] = i => OnFrame(g, i)
  BY DEF OnFrame
<1>5. /\ g.m > 0 => g.m \in 1..g.m /\ 1 \in 1..g.m
      /\ \A k \in 1..g.m : k < g.m => k + 1 \in 1..g.m
  BY <1>1
<1> QED BY <1>1, <1>2, <1>3, <1>4, <1>5

(* What a frame below the top one covers is not what the top one does.     *)
LEMMA SegmentsApart ==
  ASSUME NEW g, GraphOK(g), NEW k \in 1..g.m, k < g.m, NEW i \in Segment(g, k)
  PROVE  /\ i \in 1..g.n /\ i # g.place[g.m]
         /\ g.place[k] # g.place[g.m]
         /\ k + 1 \in 1..g.m /\ i \in 1..(g.place[k + 1] - 1)
<1>1. /\ g.n \in Nat /\ g.m \in Nat /\ g.m \in 1..g.m
      /\ \A l \in 1..g.m : g.place[l] \in 1..g.n
      /\ \A j, l \in 1..g.m : j < l => g.place[j] < g.place[l]
  BY GraphFacts
<1>2. /\ i \in 1..g.n /\ k + 1 \in 1..g.m
      /\ i < g.place[k + 1] /\ i < g.place[g.m]
  BY SegmentFacts DEF GraphOK
<1>3. /\ g.place[k] < g.place[g.m] /\ g.place[k] \in 1..g.n
      /\ g.place[g.m] \in 1..g.n /\ g.place[k + 1] \in 1..g.n
  BY <1>1, <1>2
<1> QED BY <1>1, <1>2, <1>3

(* Nothing but the top frame changes: it looks no more at something.       *)
GraphSame(g, h) ==
  /\ GraphType(h)
  /\ g.m > 0
  /\ h.n = g.n /\ h.m = g.m
  /\ h.on = g.on /\ h.succ = g.succ /\ h.place = g.place
  /\ \A k \in 1..g.m : k # g.m => h.leaf[k] = g.leaf[k] /\ h.pend[k] = g.pend[k]
  /\ h.pend[g.m] \subseteq g.pend[g.m]

LEMMA GraphSameOK ==
  ASSUME NEW g, NEW h, GraphOK(g), GraphSame(g, h)
  PROVE  /\ FramesInOrder(h)
         /\ Reached(h)
         /\ \A i : OnFrame(h, i) <=> OnFrame(g, i)
         /\ \A i, j : Steps(h, i, j) <=> Steps(g, i, j)
         /\ \A k : Segment(h, k) = Segment(g, k)
<1> USE DEF GraphSame
<1>1. \A i, j : Steps(h, i, j) <=> Steps(g, i, j)
  BY DEF Steps
<1>2. \A k \in 1..g.m : h.pend[k] \subseteq g.pend[k]
  OBVIOUS
<1>3. FramesInOrder(h)
  <2>1. FramesInOrder(g)
    BY DEF GraphOK
  <2>2. \A k \in 1..h.m : h.pend[k] \subseteq h.succ[h.place[k]]
    BY <1>2, <2>1 DEF FramesInOrder
  <2>3. \A k \in 1..h.m : k + 1 \in 1..h.m => Steps(h, h.place[k], h.place[k + 1])
    BY <1>1, <2>1 DEF FramesInOrder
  <2>4. /\ \A i, j \in 1..h.n : h.on[i] = h.on[j] => i = j
        /\ h.m = 0 <=> h.n = 0
        /\ h.m > 0 => h.place[1] = 1
        /\ \A k, l \in 1..h.m : k < l => h.place[k] < h.place[l]
    BY <2>1 DEF FramesInOrder
  <2> QED BY <2>2, <2>3, <2>4 DEF FramesInOrder
<1>4. Reached(h)
  BY <1>1 DEF GraphOK, Reached
<1>5. \A i : OnFrame(h, i) <=> OnFrame(g, i)
  BY DEF OnFrame
<1>6. \A k : Segment(h, k) = Segment(g, k)
  BY DEF Segment
<1> QED BY <1>1, <1>3, <1>4, <1>5, <1>6

(* A successor of the top frame is the state at place j of the stack.      *)
GraphRelax(g, h, j) ==
  /\ GraphSame(g, h)
  /\ j \in 1..g.n /\ g.on[j] \in g.pend[g.m]
  /\ g.pend[g.m] \subseteq h.pend[g.m] \union {g.on[j]}
  /\ h.leaf[g.m] = g.leaf[g.m]
  /\ \A i \in 1..g.n :
       h.low[i] = IF i = g.place[g.m] /\ j < g.low[i] THEN j ELSE g.low[i]

LEMMA GraphRelaxOK ==
  ASSUME NEW g, NEW h, NEW j, GraphOK(g), GraphRelax(g, h, j)
  PROVE  GraphOK(h)
<1> DEFINE m == g.m
           p == g.place[m]
<1>1. /\ GraphSame(g, h) /\ GraphType(h) /\ h.n = g.n /\ h.m = m
      /\ h.on = g.on /\ h.succ = g.succ /\ h.place = g.place
      /\ j \in 1..g.n
      /\ \A i \in 1..g.n :
           h.low[i] = IF i = p /\ j < g.low[i] THEN j ELSE g.low[i]
  BY DEF GraphRelax, GraphSame
<1>2. /\ FramesInOrder(h) /\ Reached(h)
      /\ \A i : OnFrame(h, i) <=> OnFrame(g, i)
      /\ \A i, l : Steps(h, i, l) <=> Steps(g, i, l)
      /\ \A k : Segment(h, k) = Segment(g, k)
  BY <1>1, GraphSameOK
<1>3. /\ g.n \in Nat /\ m \in Nat /\ m \in 1..m /\ p \in 1..g.n
      /\ \A i \in 1..g.n : g.low[i] \in 1..g.n /\ g.low[i] <= i
      /\ OnFrame(g, p)
      /\ \A k \in 1..m : g.place[k] \in 1..g.n
  <2>1. m > 0
    BY DEF GraphRelax, GraphSame
  <2> QED BY <2>1, GraphFacts
<1>4. \A i \in 1..g.n : i # p => h.low[i] = g.low[i]
  BY <1>1
<1>5. /\ h.low[p] <= g.low[p] /\ h.low[p] <= j /\ h.low[p] \in 1..g.n
      /\ h.low[p] = j \/ h.low[p] = g.low[p]
  BY <1>1, <1>3
<1>6. Steps(g, p, j)
  BY <1>3 DEF GraphRelax, GraphOK, FramesInOrder, Steps
<1>7. LowReason(h)
  <2> SUFFICES ASSUME NEW i \in 1..g.n
               PROVE  /\ h.low[i] <= i
                      /\ \/ h.low[i] = i
                         \/ Steps(g, i, h.low[i])
                         \/ \E c \in 1..g.n : /\ i < c /\ ~OnFrame(g, c)
                                              /\ h.low[c] = h.low[i] /\ Steps(g, i, c)
    BY <1>1, <1>2 DEF LowReason
  <2>1. h.low[i] <= i
    BY <1>3, <1>4, <1>5
  <2>2. \/ g.low[i] = i
        \/ Steps(g, i, g.low[i])
        \/ \E c \in 1..g.n : /\ i < c /\ ~OnFrame(g, c)
                             /\ g.low[c] = g.low[i] /\ Steps(g, i, c)
    BY DEF GraphOK, LowReason
  <2>3. CASE h.low[i] = g.low[i]
    BY <1>3, <1>4, <2>1, <2>2, <2>3
  <2>4. CASE h.low[i] # g.low[i]
    <3>1. i = p /\ h.low[i] = j
      BY <1>4, <1>5, <2>4
    <3> QED BY <1>6, <2>1, <3>1
  <2> QED BY <2>3, <2>4
<1>8. LowFinished(h)
  <2>1. \A i \in 1..h.n : ~OnFrame(h, i) => h.low[i] < i
    BY <1>1, <1>2, <1>3, <1>4 DEF GraphOK, LowFinished
  <2>2. ASSUME NEW k \in 1..m, NEW i \in Segment(g, k)
        PROVE  h.low[g.place[k]] <= h.low[i]
    <3>1. g.low[g.place[k]] <= g.low[i]
      BY DEF GraphOK, LowFinished
    <3>2. CASE k < m
      <4>1. i \in 1..g.n /\ i # p /\ g.place[k] # p
        BY <3>2, SegmentsApart
      <4> QED BY <1>3, <1>4, <3>1, <4>1
    <3>3. CASE k = m
      <4>1. i \in 1..g.n
        BY SegmentFacts DEF GraphOK
      <4>2. CASE i = p
        BY <1>5, <3>3, <4>2
      <4>3. CASE i # p
        BY <1>3, <1>4, <1>5, <3>1, <3>3, <4>1, <4>3
      <4> QED BY <4>2, <4>3
    <3>4. k < m \/ k = m
      BY <1>3
    <3> QED BY <3>2, <3>3, <3>4
  <2> QED BY <1>1, <1>2, <2>1, <2>2 DEF LowFinished
<1>9. LeafReason(h)
  <2> SUFFICES ASSUME NEW k \in 1..m, h.leaf[k], NEW i \in Segment(g, k),
                      NEW t \in g.succ[i]
               PROVE  LeafTarget(h, k, i, t)
    BY <1>1, <1>2 DEF LeafReason
  <2>1. g.leaf[k]
    BY DEF GraphRelax, GraphSame
  <2>2. LeafTarget(g, k, i, t)
    BY <2>1 DEF GraphOK, LeafReason
  <2>3. h.low[g.place[k]] <= g.low[g.place[k]] /\ h.low[g.place[k]] \in 1..g.n
    BY <1>3, <1>4, <1>5
  <2>4. CASE \E l \in 1..g.n :
               /\ t = g.on[l] /\ g.low[g.place[k]] <= l
               /\ l \in 1..(IF k < g.m THEN g.place[k + 1] - 1 ELSE g.n)
    BY <1>1, <1>3, <2>3, <2>4 DEF LeafTarget
  <2>5. CASE i = g.place[k] /\ t \in g.pend[k]
    <3>1. CASE t \in h.pend[k]
      BY <1>1, <2>5, <3>1 DEF LeafTarget
    <3>2. CASE t \notin h.pend[k]
      <4>1. k = m /\ t = g.on[j]
        BY <2>5, <3>2 DEF GraphRelax, GraphSame
      <4>2. j \in 1..g.n /\ h.low[h.place[k]] <= j /\ ~(k < m)
        BY <1>1, <1>3, <1>5, <4>1
      <4> QED BY <1>1, <4>1, <4>2 DEF LeafTarget
    <3> QED BY <3>1, <3>2
  <2>6. CASE i = g.place[k] /\ k + 1 \in 1..g.m /\ t = g.on[g.place[k + 1]]
    BY <1>1, <2>6 DEF LeafTarget
  <2> QED BY <2>2, <2>4, <2>5, <2>6 DEF LeafTarget
<1> QED BY <1>1, <1>2, <1>7, <1>8, <1>9 DEF GraphOK

(* A successor of the top frame is outside of its component.               *)
GraphExit(g, h) ==
  /\ GraphSame(g, h)
  /\ h.low = g.low
  /\ ~h.leaf[g.m]

LEMMA GraphExitOK ==
  ASSUME NEW g, NEW h, GraphOK(g), GraphExit(g, h)
  PROVE  GraphOK(h)
<1>1. /\ GraphSame(g, h) /\ GraphType(h) /\ h.n = g.n /\ h.m = g.m
      /\ h.on = g.on /\ h.succ = g.succ /\ h.place = g.place /\ h.low = g.low
      /\ \A k \in 1..g.m : h.leaf[k] => g.leaf[k] /\ h.pend[k] = g.pend[k]
  BY DEF GraphExit, GraphSame
<1>2. /\ FramesInOrder(h) /\ Reached(h)
      /\ \A i : OnFrame(h, i) <=> OnFrame(g, i)
      /\ \A i, l : Steps(h, i, l) <=> Steps(g, i, l)
      /\ \A k : Segment(h, k) = Segment(g, k)
  BY <1>1, GraphSameOK
<1>3. LowReason(h) /\ LowFinished(h)
  BY <1>1, <1>2 DEF GraphOK, LowReason, LowFinished
<1>4. LeafReason(h)
  <2> SUFFICES ASSUME NEW k \in 1..g.m, h.leaf[k], NEW i \in Segment(g, k),
                      NEW t \in g.succ[i]
               PROVE  LeafTarget(h, k, i, t)
    BY <1>1, <1>2 DEF LeafReason
  <2>1. LeafTarget(g, k, i, t)
    BY <1>1 DEF GraphOK, LeafReason
  <2> QED BY <1>1, <2>1 DEF LeafTarget
<1> QED BY <1>1, <1>2, <1>3, <1>4 DEF GraphOK

(* The top frame is left, and its component is not complete.               *)
GraphFinish(g, h) ==
  /\ GraphType(h)
  /\ g.m > 0 /\ g.pend[g.m] = {} /\ g.low[g.place[g.m]] # g.place[g.m]
  /\ h.n = g.n /\ h.m = g.m - 1
  /\ h.on = g.on /\ h.succ = g.succ
  /\ \A k \in 1..h.m : h.place[k] = g.place[k] /\ h.pend[k] = g.pend[k]
  /\ \A k \in 1..h.m : h.leaf[k] => g.leaf[k] /\ (k = h.m => g.leaf[g.m])
  /\ \A i \in 1..g.n :
       h.low[i] = IF /\ h.m > 0 /\ i = g.place[h.m]
                     /\ g.low[g.place[g.m]] < g.low[i]
                  THEN g.low[g.place[g.m]] ELSE g.low[i]

(* Two steps down are one.                                                 *)
LEMMA AtMostTwice ==
  ASSUME NEW x \in Int, NEW y \in Int, NEW z \in Int, x <= y, y <= z
  PROVE  x <= z
OBVIOUS

LEMMA GraphFinishOK ==
  ASSUME NEW g, NEW h, GraphOK(g), GraphFinish(g, h)
  PROVE  GraphOK(h)
<1> DEFINE m == g.m
           c == g.place[m]
           b == g.place[m - 1]
<1>1. /\ g.n \in Nat /\ m \in Nat /\ m \in 1..m /\ c \in 1..g.n
      /\ \A i \in 1..g.n : g.low[i] \in 1..g.n /\ g.low[i] <= i
      /\ \A k \in 1..m : g.place[k] \in 1..g.n
      /\ \A k, l \in 1..m : k < l => g.place[k] < g.place[l]
      /\ g.low[c] # c
  <2>1. m > 0 /\ g.low[c] # c
    BY DEF GraphFinish
  <2> QED BY <2>1, GraphFacts
<1>2. m - 1 \in 1..m /\ m - 1 < m /\ (m - 1) + 1 = m /\ h.m = m - 1 /\ m - 1 > 0
  <2>1. m # 1
    <3> SUFFICES ASSUME m = 1 PROVE FALSE
      OBVIOUS
    <3>1. c = 1
      BY <1>1 DEF GraphOK, FramesInOrder
    <3>2. g.low[1] \in Int /\ 1 <= g.low[1] /\ g.low[1] <= 1
      BY <1>1, <3>1
    <3> QED BY <1>1, <3>1, <3>2
  <2> QED BY <1>1, <2>1 DEF GraphFinish
<1>3. /\ b \in 1..g.n /\ b < c
      /\ h.n = g.n /\ h.on = g.on /\ h.succ = g.succ
      /\ \A k \in 1..h.m : k \in 1..m /\ k < m
                           /\ h.place[k] = g.place[k] /\ h.pend[k] = g.pend[k]
      /\ \A i \in 1..g.n : h.low[i] = IF i = b /\ g.low[c] < g.low[i]
                                      THEN g.low[c] ELSE g.low[i]
  BY <1>1, <1>2 DEF GraphFinish
<1>4. \A i, j : Steps(h, i, j) <=> Steps(g, i, j)
  BY <1>3 DEF Steps
<1>5. \A i \in 1..g.n : OnFrame(h, i) \/ i = c <=> OnFrame(g, i)
  <2> TAKE i \in 1..g.n
  <2>1. OnFrame(h, i) \/ i = c => OnFrame(g, i)
    BY <1>1, <1>3 DEF OnFrame
  <2>2. ASSUME NEW k \in 1..m, g.place[k] = i, i # c
        PROVE  OnFrame(h, i)
    <3>1. k # m
      BY <2>2
    <3>2. k \in 1..h.m
      BY <1>1, <1>2, <3>1
    <3> QED BY <1>3, <2>2, <3>2 DEF OnFrame
  <2> QED BY <2>1, <2>2 DEF OnFrame
<1>6. OnFrame(g, b) /\ OnFrame(g, c) /\ b # c
  BY <1>1, <1>2, <1>3 DEF OnFrame
<1>7. FramesInOrder(h)
  <2>1. FramesInOrder(g)
    BY DEF GraphOK
  <2>2. \A i, j \in 1..h.n : h.on[i] = h.on[j] => i = j
    BY <1>3, <2>1 DEF FramesInOrder
  <2>3. h.m # 0 /\ h.n # 0
    BY <1>1, <1>2, <1>3
  <2>4. h.place[1] = 1
    <3>1. 1 \in 1..h.m /\ g.m > 0
      BY <1>1, <1>2
    <3> QED BY <1>3, <2>1, <3>1 DEF FramesInOrder
  <2>5. \A k, l \in 1..h.m : k < l => h.place[k] < h.place[l]
    BY <1>1, <1>3
  <2>6. \A k \in 1..h.m : k + 1 \in 1..h.m => Steps(h, h.place[k], h.place[k + 1])
    BY <1>3, <1>4, <2>1 DEF FramesInOrder
  <2>7. \A k \in 1..h.m : h.pend[k] \subseteq h.succ[h.place[k]]
    BY <1>3, <2>1 DEF FramesInOrder
  <2> QED BY <2>2, <2>3, <2>4, <2>5, <2>6, <2>7 DEF FramesInOrder
<1>8. Reached(h)
  BY <1>3, <1>4 DEF GraphOK, Reached
<1>9. /\ \A i \in 1..g.n : i # b => h.low[i] = g.low[i]
      /\ h.low[b] <= g.low[b] /\ h.low[b] <= g.low[c] /\ h.low[b] \in 1..g.n
      /\ h.low[b] = g.low[b] \/ h.low[b] = g.low[c]
      /\ h.low[c] = g.low[c] /\ g.low[c] < c
  <2>1. \A i \in 1..g.n : i # b => h.low[i] = g.low[i]
    BY <1>3
  <2>2. /\ h.low[b] <= g.low[b] /\ h.low[b] <= g.low[c] /\ h.low[b] \in 1..g.n
        /\ h.low[b] = g.low[b] \/ h.low[b] = g.low[c]
    BY <1>1, <1>3
  <2>3. h.low[c] = g.low[c] /\ g.low[c] < c
    <3>1. g.low[c] \in Int /\ c \in Int /\ g.low[c] <= c /\ g.low[c] # c
      BY <1>1
    <3>2. c \in 1..g.n /\ c # b
      BY <1>1, <1>6
    <3> QED BY <2>1, <3>1, <3>2
  <2> QED BY <2>1, <2>2, <2>3
<1>15. \A i \in 1..g.n : h.low[i] \in Int /\ g.low[i] \in Int /\ h.low[i] <= i
  <2> TAKE i \in 1..g.n
  <2>1. g.low[i] \in Int /\ g.low[i] <= i /\ g.low[c] \in Int
    BY <1>1
  <2>2. \/ h.low[i] = g.low[i]
        \/ h.low[i] = g.low[c] /\ g.low[c] < g.low[i]
    BY <1>3
  <2>3. CASE h.low[i] = g.low[i]
    BY <2>1, <2>3
  <2>4. CASE h.low[i] = g.low[c] /\ g.low[c] < g.low[i]
    <3> DEFINE x == h.low[i]  y == g.low[i]
    <3>1. i \in Int /\ x \in Int /\ y \in Int /\ x < y /\ y <= i
      BY <2>1, <2>4
    <3> HIDE DEF x, y
    <3>2. x <= i
      BY <3>1
    <3> QED BY <3>1, <3>2 DEF x, y
  <2> QED BY <2>2, <2>3, <2>4
<1>10. LowReason(h)
  <2> SUFFICES ASSUME NEW i \in 1..g.n
               PROVE  /\ h.low[i] <= i
                      /\ \/ h.low[i] = i
                         \/ Steps(g, i, h.low[i])
                         \/ \E d \in 1..g.n : /\ i < d /\ ~OnFrame(h, d)
                                              /\ h.low[d] = h.low[i] /\ Steps(g, i, d)
    BY <1>3, <1>4 DEF LowReason
  <2>1. h.low[i] <= i
    BY <1>15
  <2>2. \/ g.low[i] = i
        \/ Steps(g, i, g.low[i])
        \/ \E d \in 1..g.n : /\ i < d /\ ~OnFrame(g, d)
                             /\ g.low[d] = g.low[i] /\ Steps(g, i, d)
    BY DEF GraphOK, LowReason
  <2>3. CASE h.low[i] = g.low[i]
    <3>1. \A d \in 1..g.n : ~OnFrame(g, d) => ~OnFrame(h, d) /\ h.low[d] = g.low[d]
      BY <1>5, <1>6, <1>9
    <3> QED BY <2>1, <2>2, <2>3, <3>1
  <2>4. CASE h.low[i] # g.low[i]
    <3>1. i = b /\ h.low[i] = g.low[c]
      BY <1>9, <2>4
    <3>2. Steps(g, b, c)
      BY <1>1, <1>2 DEF GraphOK, FramesInOrder
    <3>3. ~OnFrame(h, c)
      <4> SUFFICES ASSUME NEW k \in 1..h.m, h.place[k] = c PROVE FALSE
        BY DEF OnFrame
      <4>1. g.place[k] < c /\ g.place[k] = c /\ g.place[k] \in 1..g.n
        BY <1>1, <1>3
      <4> QED BY <1>1, <4>1
    <3> QED BY <1>1, <1>3, <1>9, <2>1, <3>1, <3>2, <3>3
  <2> QED BY <2>3, <2>4
<1>11. /\ \A k \in 1..h.m : k # h.m => Segment(h, k) = Segment(g, k)
       /\ Segment(h, h.m) = Segment(g, m - 1) \union Segment(g, m)
  <2>1. ASSUME NEW k \in 1..h.m, k # h.m
        PROVE  Segment(h, k) = Segment(g, k)
    <3>1. k < h.m /\ k < m /\ k + 1 \in 1..h.m
      BY <1>1, <1>2, <2>1
    <3> QED BY <1>3, <3>1 DEF Segment
  <2>2. h.m \in 1..h.m /\ ~(h.m < h.m) /\ ~(m < m)
    BY <1>1, <1>2
  <2>3. Segment(h, h.m) = b .. g.n
    BY <1>2, <1>3, <2>2 DEF Segment
  <2>4. Segment(g, m - 1) = b .. (c - 1) /\ Segment(g, m) = c .. g.n
    BY <1>1, <1>2, <2>2 DEF Segment
  <2>5. b .. g.n = (b .. (c - 1)) \union (c .. g.n)
    BY <1>1, <1>3
  <2> QED BY <1>2, <2>1, <2>3, <2>4, <2>5
<1>12. h.m \in 1..h.m /\ h.place[h.m] = b
  BY <1>1, <1>2, <1>3
<1>13. LowFinished(h)
  <2>1. ASSUME NEW i \in 1..h.n, ~OnFrame(h, i)
        PROVE  h.low[i] < i
    <3>1. CASE i = c
      BY <1>9, <3>1
    <3>2. CASE i # c
      <4>1. ~OnFrame(g, i) /\ i # b
        BY <1>3, <1>5, <1>6, <2>1, <3>2
      <4> QED BY <1>3, <1>9, <4>1 DEF GraphOK, LowFinished
    <3> QED BY <3>1, <3>2
  <2>2. ASSUME NEW k \in 1..h.m, k # h.m, NEW i \in Segment(g, k)
        PROVE  h.low[h.place[k]] <= h.low[i]
    <3>1. g.low[g.place[k]] <= g.low[i] /\ k \in 1..m /\ k < m /\ m - 1 \in 1..m
      BY <1>2, <1>3 DEF GraphOK, LowFinished
    <3>2. k < m - 1
      <4>1. k \in Nat /\ m - 1 \in Nat /\ k <= m - 1 /\ k # m - 1
        BY <1>1, <1>2, <2>2
      <4> QED BY <4>1
    <3>3. g.place[k] # b /\ g.place[k] \in 1..g.n
      BY <1>1, <3>1, <3>2
    <3>4. i # b /\ i \in 1..g.n
      BY <3>1, <3>2, SegmentFacts DEF GraphOK
    <3> QED BY <1>3, <1>9, <3>1, <3>3, <3>4
  <2>3. ASSUME NEW i \in Segment(g, m - 1) \union Segment(g, m)
        PROVE  h.low[b] <= h.low[i]
    <3>1. i \in 1..g.n
      BY <1>1, <1>2, SegmentFacts DEF GraphOK
    <3>2. CASE i = b
      BY <1>9, <3>2
    <3>3. CASE i # b /\ i \in Segment(g, m - 1)
      <4>1. g.low[b] <= g.low[i]
        BY <1>2, <3>3 DEF GraphOK, LowFinished
      <4>2. h.low[i] = g.low[i] /\ h.low[b] <= g.low[b]
        BY <1>9, <3>1, <3>3
      <4>3. h.low[b] \in Int /\ g.low[b] \in Int /\ g.low[i] \in Int
        BY <1>3, <1>15, <3>1
      <4> QED BY <4>1, <4>2, <4>3, AtMostTwice
    <3>4. CASE i # b /\ i \in Segment(g, m)
      <4>1. g.low[c] <= g.low[i]
        BY <1>1, <3>4 DEF GraphOK, LowFinished
      <4>2. h.low[i] = g.low[i] /\ h.low[b] <= g.low[c]
        BY <1>9, <3>1, <3>4
      <4>3. h.low[b] \in Int /\ g.low[c] \in Int /\ g.low[i] \in Int
        BY <1>1, <1>3, <1>15, <3>1
      <4> QED BY <4>1, <4>2, <4>3, AtMostTwice
    <3> QED BY <3>2, <3>3, <3>4
  <2> QED BY <1>11, <1>12, <2>1, <2>2, <2>3 DEF LowFinished
<1>14. LeafReason(h)
  <2>1. ASSUME NEW k \in 1..h.m, k # h.m, h.leaf[k], NEW i \in Segment(g, k),
               NEW t \in g.succ[i]
        PROVE  LeafTarget(h, k, i, t)
    <3>1. k \in 1..m /\ k < m /\ k < m - 1 /\ m - 1 \in 1..m /\ k < h.m
          /\ k + 1 \in 1..h.m
      BY <1>1, <1>2, <1>3, <2>1
    <3>2. g.leaf[k]
      BY <2>1 DEF GraphFinish
    <3>3. LeafTarget(g, k, i, t)
      BY <2>1, <3>1, <3>2 DEF GraphOK, LeafReason
    <3>4. h.low[g.place[k]] = g.low[g.place[k]]
      <4>1. g.place[k] # b /\ g.place[k] \in 1..g.n
        BY <1>1, <3>1
      <4> QED BY <1>9, <4>1
    <3>5. h.place[k + 1] = g.place[k + 1] /\ h.place[k] = g.place[k]
          /\ h.pend[k] = g.pend[k]
      BY <1>3, <3>1
    <3> QED BY <1>3, <3>1, <3>3, <3>4, <3>5 DEF LeafTarget
  <2>2. ASSUME h.leaf[h.m], NEW i \in Segment(g, m - 1) \union Segment(g, m),
               NEW t \in g.succ[i]
        PROVE  LeafTarget(h, h.m, i, t)
    <3>1. g.leaf[m - 1] /\ g.leaf[m] /\ ~(h.m < h.m)
      BY <1>2, <1>12, <2>2 DEF GraphFinish
    <3>2. ASSUME NEW j \in 1..g.n, t = g.on[j],
                 g.low[b] <= j \/ g.low[c] <= j
          PROVE  LeafTarget(h, h.m, i, t)
      <4>1. h.low[b] <= j
        BY <1>1, <1>3, <1>9, <3>2, SMTT(30)
      <4> QED BY <1>3, <1>12, <3>1, <3>2, <4>1 DEF LeafTarget
    <3>3. CASE i \in Segment(g, m - 1)
      <4>1. LeafTarget(g, m - 1, i, t)
        BY <1>2, <2>2, <3>1, <3>3 DEF GraphOK, LeafReason
      <4>2. CASE i = b /\ t \in g.pend[m - 1]
        BY <1>2, <1>3, <1>12, <4>2 DEF LeafTarget
      <4>3. CASE t = g.on[c]
        <5>1. g.low[c] <= c
          BY <1>1
        <5> QED BY <1>1, <3>2, <4>3, <5>1
      <4> QED BY <1>2, <3>2, <4>1, <4>2, <4>3 DEF LeafTarget
    <3>4. CASE i \in Segment(g, m)
      <4>1. LeafTarget(g, m, i, t)
        BY <1>1, <2>2, <3>1, <3>4 DEF GraphOK, LeafReason
      <4>2. g.pend[m] = {} /\ m + 1 \notin 1..m
        BY <1>1 DEF GraphFinish
      <4>3. PICK j \in 1..g.n : t = g.on[j] /\ g.low[c] <= j
        BY <4>1, <4>2 DEF LeafTarget
      <4> QED BY <3>2, <4>3
    <3> QED BY <3>3, <3>4
  <2> QED BY <1>3, <1>11, <1>12, <2>1, <2>2 DEF LeafReason
<1>16. GraphType(h)
  BY DEF GraphFinish
<1> QED BY <1>7, <1>8, <1>10, <1>13, <1>14, <1>16 DEF GraphOK

(* The top frame is left with its component, whose states others may now   *)
(* know under another name.                                                *)
GraphPop(g, h, ren) ==
  /\ GraphType(h)
  /\ g.m > 0 /\ g.low[g.place[g.m]] = g.place[g.m]
  /\ h.n = g.place[g.m] - 1 /\ h.m = g.m - 1
  /\ \A i \in 1..h.n :
       /\ h.on[i] = g.on[i] /\ h.low[i] = g.low[i]
       /\ h.succ[i] = {ren[t] : t \in g.succ[i]}
       /\ ren[g.on[i]] = g.on[i]
       /\ \A t \in State : ren[t] = g.on[i] => t = g.on[i]
  /\ \A k \in 1..h.m :
       /\ h.place[k] = g.place[k]
       /\ h.pend[k] = {ren[t] : t \in g.pend[k]}
       /\ h.leaf[k] => g.leaf[k] /\ k # h.m

LEMMA GraphPopOK ==
  ASSUME NEW g, NEW h, NEW ren, GraphOK(g), GraphPop(g, h, ren)
  PROVE  GraphOK(h)
<1> DEFINE m == g.m
           c == g.place[m]
<1>1. /\ g.n \in Nat /\ m \in Nat /\ m \in 1..m /\ 1 \in 1..m /\ c \in 1..g.n
      /\ \A i \in 1..g.n : g.low[i] \in 1..g.n /\ g.low[i] <= i
      /\ \A k \in 1..m : g.place[k] \in 1..g.n
      /\ \A k, l \in 1..m : k < l => g.place[k] < g.place[l]
      /\ g.low[c] = c /\ m > 0
  <2>1. m > 0 /\ g.low[c] = c
    BY DEF GraphPop
  <2> QED BY <2>1, GraphFacts
<1>2. /\ h.n = c - 1 /\ h.n \in Nat /\ h.m = m - 1 /\ h.m \in Nat
      /\ \A i \in 1..h.n : i \in 1..g.n /\ i < c
      /\ \A i \in 1..g.n : i < c => i \in 1..h.n
      /\ \A k \in 1..h.m : k \in 1..m /\ k < m /\ g.place[k] < c
                           /\ g.place[k] \in 1..h.n
      /\ \A k \in 1..m : k # m => k \in 1..h.m
  <2>1. h.n = c - 1 /\ h.m = m - 1
    BY DEF GraphPop
  <2>2. \A k \in 1..h.m : k \in 1..m /\ k < m
    BY <1>1, <2>1
  <2>3. \A k \in 1..h.m : g.place[k] < c /\ g.place[k] \in 1..h.n
    BY <1>1, <2>1, <2>2
  <2>4. /\ \A i \in 1..h.n : i \in 1..g.n /\ i < c
        /\ \A i \in 1..g.n : i < c => i \in 1..h.n
        /\ \A k \in 1..m : k # m => k \in 1..h.m
        /\ h.n \in Nat /\ h.m \in Nat
    BY <1>1, <2>1
  <2> QED BY <2>1, <2>2, <2>3, <2>4
<1>3. /\ \A i \in 1..h.n :
           /\ h.on[i] = g.on[i] /\ h.low[i] = g.low[i]
           /\ h.succ[i] = {ren[t] : t \in g.succ[i]}
           /\ ren[g.on[i]] = g.on[i]
           /\ \A t \in State : ren[t] = g.on[i] => t = g.on[i]
      /\ \A k \in 1..h.m :
           /\ h.place[k] = g.place[k]
           /\ h.pend[k] = {ren[t] : t \in g.pend[k]}
           /\ h.leaf[k] => g.leaf[k] /\ k # h.m
  BY DEF GraphPop
<1>4. \A i, j \in 1..h.n : Steps(h, i, j) <=> Steps(g, i, j)
  <2> TAKE i, j \in 1..h.n
  <2>1. g.succ[i] \subseteq State
    BY <1>2 DEF GraphOK, GraphType
  <2>2. Steps(h, i, j) <=> \E t \in g.succ[i] : ren[t] = g.on[j]
    BY <1>3 DEF Steps
  <2>3. Steps(g, i, j) <=> g.on[j] \in g.succ[i]
    BY DEF Steps
  <2> QED BY <1>3, <2>1, <2>2, <2>3
<1>5. \A i \in 1..h.n : OnFrame(h, i) <=> OnFrame(g, i)
  <2> TAKE i \in 1..h.n
  <2>1. OnFrame(h, i) => OnFrame(g, i)
    BY <1>2, <1>3 DEF OnFrame
  <2>2. ASSUME NEW k \in 1..m, g.place[k] = i
        PROVE  OnFrame(h, i)
    <3>1. k # m
      BY <1>1, <1>2, <2>2
    <3> QED BY <1>2, <1>3, <2>2, <3>1 DEF OnFrame
  <2> QED BY <2>1, <2>2 DEF OnFrame
<1>6. FramesInOrder(h)
  <2>1. FramesInOrder(g)
    BY DEF GraphOK
  <2>2. \A i, j \in 1..h.n : h.on[i] = h.on[j] => i = j
    BY <1>2, <1>3, <2>1 DEF FramesInOrder
  <2>3. h.m > 0 => h.place[1] = 1 /\ h.n # 0
    <3> HAVE h.m > 0
    <3>1. 1 \in 1..h.m
      BY <1>2
    <3>2. g.place[1] = 1
      BY <1>1, <2>1 DEF FramesInOrder
    <3>3. 1 \in 1..h.n
      BY <1>2, <3>1, <3>2
    <3> QED BY <1>2, <1>3, <3>1, <3>2, <3>3
  <2>4. h.m = 0 => h.n = 0
    <3> HAVE h.m = 0
    <3>1. m = 1
      BY <1>1, <1>2
    <3>2. c = 1
      BY <1>1, <2>1, <3>1 DEF FramesInOrder
    <3> QED BY <1>2, <3>2
  <2>5. \A k, l \in 1..h.m : k < l => h.place[k] < h.place[l]
    BY <1>1, <1>2, <1>3
  <2>6. \A k \in 1..h.m : k + 1 \in 1..h.m => Steps(h, h.place[k], h.place[k + 1])
    <3> TAKE k \in 1..h.m
    <3> HAVE k + 1 \in 1..h.m
    <3>1. Steps(g, g.place[k], g.place[k + 1])
      BY <1>2, <2>1 DEF FramesInOrder
    <3> QED BY <1>2, <1>3, <1>4, <3>1
  <2>7. \A k \in 1..h.m : h.pend[k] \subseteq h.succ[h.place[k]]
    <3> TAKE k \in 1..h.m
    <3>1. g.pend[k] \subseteq g.succ[g.place[k]]
      BY <1>2, <2>1 DEF FramesInOrder
    <3>2. /\ h.pend[k] = {ren[t] : t \in g.pend[k]}
          /\ h.succ[h.place[k]] = {ren[t] : t \in g.succ[g.place[k]]}
      BY <1>2, <1>3
    <3> QED BY <3>1, <3>2
  <2>8. h.m = 0 <=> h.n = 0
    <3> DEFINE d == h.m
    <3>4. d \in Nat
      BY <1>2
    <3>5. d = 0 \/ d > 0
      <4> HIDE DEF d
      <4> QED BY <3>4
    <3>1. h.m = 0 \/ h.m > 0
      BY <3>5
    <3>2. h.m > 0 => h.n # 0
      BY <2>3
    <3>3. h.m > 0 => h.m # 0
      BY <1>2
    <3> QED BY <2>4, <3>1, <3>2, <3>3
  <2>9. h.m > 0 => h.place[1] = 1
    BY <2>3
  <2> QED BY <2>2, <2>5, <2>6, <2>7, <2>8, <2>9 DEF FramesInOrder
<1>7. Reached(h)
  <2> SUFFICES ASSUME NEW k \in 1..h.m, NEW i \in 1..h.n, g.place[k] < i
               PROVE  \E p \in 1..h.n : g.place[k] <= p /\ p < i /\ Steps(h, p, i)
    BY <1>3 DEF Reached
  <2>1. PICK p \in 1..g.n : g.place[k] <= p /\ p < i /\ Steps(g, p, i)
    BY <1>2 DEF GraphOK, Reached
  <2>2. p \in 1..h.n
    BY <1>1, <1>2, <2>1
  <2> QED BY <1>4, <2>1, <2>2
<1>8. Segment(g, m) = c .. g.n
  <2>1. ~(m < m)
    BY <1>1
  <2> QED BY <2>1 DEF Segment
<1>9. \A k \in 1..h.m : Segment(h, k) = Segment(g, k)
  <2> TAKE k \in 1..h.m
  <2>1. CASE k < h.m
    <3>1. k + 1 \in 1..h.m /\ k < m
      BY <1>2, <2>1
    <3> QED BY <1>2, <1>3, <2>1, <3>1 DEF Segment
  <2>2. CASE k = h.m
    <3>1. ~(k < h.m) /\ k < m /\ k + 1 = m
      BY <1>1, <1>2, <2>2
    <3> QED BY <1>2, <1>3, <2>2, <3>1 DEF Segment
  <2>3. k < h.m \/ k = h.m
    BY <1>2
  <2> QED BY <2>1, <2>2, <2>3
<1>10. LowReason(h)
  <2> SUFFICES ASSUME NEW i \in 1..h.n
               PROVE  /\ g.low[i] <= i
                      /\ \/ g.low[i] = i
                         \/ Steps(h, i, g.low[i])
                         \/ \E d \in 1..h.n : /\ i < d /\ ~OnFrame(h, d)
                                              /\ h.low[d] = g.low[i] /\ Steps(h, i, d)
    BY <1>3 DEF LowReason
  <2>1. g.low[i] <= i /\ g.low[i] \in 1..h.n /\ i \in 1..g.n /\ i < c
    BY <1>1, <1>2
  <2>2. \/ g.low[i] = i
        \/ Steps(g, i, g.low[i])
        \/ \E d \in 1..g.n : /\ i < d /\ ~OnFrame(g, d)
                             /\ g.low[d] = g.low[i] /\ Steps(g, i, d)
    BY <2>1 DEF GraphOK, LowReason
  <2>3. ASSUME NEW d \in 1..g.n, i < d, ~OnFrame(g, d), g.low[d] = g.low[i],
               Steps(g, i, d)
        PROVE  d \in 1..h.n
    <3>1. CASE d \in Segment(g, m)
      <4>1. g.low[c] <= g.low[d]
        BY <1>1, <3>1 DEF GraphOK, LowFinished
      <4>2. c <= g.low[i] /\ g.low[i] \in 1..g.n
        BY <1>1, <2>1, <2>3, <4>1
      <4> QED BY <1>1, <2>1, <4>2
    <3>2. CASE d \notin Segment(g, m)
      BY <1>1, <1>2, <1>8, <3>2
    <3> QED BY <3>1, <3>2
  <2>4. CASE \E d \in 1..g.n : /\ i < d /\ ~OnFrame(g, d)
                               /\ g.low[d] = g.low[i] /\ Steps(g, i, d)
    <3>1. PICK d \in 1..g.n : /\ i < d /\ ~OnFrame(g, d)
                              /\ g.low[d] = g.low[i] /\ Steps(g, i, d)
      BY <2>4
    <3>2. d \in 1..h.n
      BY <2>3, <3>1
    <3>3. ~OnFrame(h, d) /\ h.low[d] = g.low[i] /\ Steps(h, i, d)
      BY <1>3, <1>4, <1>5, <3>1, <3>2
    <3> QED BY <2>1, <3>1, <3>2, <3>3
  <2> QED BY <1>4, <2>1, <2>2, <2>4
<1>11. LowFinished(h)
  <2>1. \A i \in 1..h.n : ~OnFrame(h, i) => h.low[i] < i
    BY <1>2, <1>3, <1>5 DEF GraphOK, LowFinished
  <2>2. ASSUME NEW k \in 1..h.m, NEW i \in Segment(g, k)
        PROVE  h.low[h.place[k]] <= h.low[i]
    <3>1. i \in 1..g.n /\ i < c /\ g.low[g.place[k]] <= g.low[i]
      BY <1>2, SegmentFacts DEF GraphOK, LowFinished
    <3> QED BY <1>2, <1>3, <3>1
  <2> QED BY <1>9, <2>1, <2>2 DEF LowFinished
<1>12. LeafReason(h)
  <2> SUFFICES ASSUME NEW k \in 1..h.m, h.leaf[k], NEW i \in Segment(g, k),
                      NEW t \in h.succ[i]
               PROVE  LeafTarget(h, k, i, t)
    BY <1>9 DEF LeafReason
  <2>1. /\ g.leaf[k] /\ k # h.m /\ k < h.m /\ k < m /\ k + 1 \in 1..h.m
        /\ k + 1 \in 1..m
    BY <1>2, <1>3
  <2>2. i \in 1..h.n
    BY <1>2, SegmentFacts DEF GraphOK
  <2>3. PICK u \in g.succ[i] : t = ren[u]
    BY <1>3, <2>2
  <2>4. LeafTarget(g, k, i, u)
    BY <1>2, <2>1 DEF GraphOK, LeafReason
  <2>5. h.place[k + 1] = g.place[k + 1] /\ h.place[k] = g.place[k]
        /\ h.low[g.place[k]] = g.low[g.place[k]]
        /\ g.place[k + 1] \in 1..h.n
    BY <1>2, <1>3, <2>1
  <2>6. CASE \E j \in 1..g.n :
               /\ u = g.on[j] /\ g.low[g.place[k]] <= j
               /\ j \in 1..(IF k < g.m THEN g.place[k + 1] - 1 ELSE g.n)
    <3>1. PICK j \in 1..g.n : /\ u = g.on[j] /\ g.low[g.place[k]] <= j
                              /\ j \in 1..(g.place[k + 1] - 1)
      BY <2>1, <2>6
    <3>2. j \in 1..h.n
      BY <1>1, <1>2, <2>5, <3>1
    <3>3. t = h.on[j]
      BY <1>3, <2>3, <3>1, <3>2
    <3> QED BY <2>1, <2>5, <3>1, <3>2, <3>3 DEF LeafTarget
  <2>7. CASE i = g.place[k] /\ u \in g.pend[k]
    <3>1. t \in h.pend[k]
      BY <1>3, <2>3, <2>7
    <3> QED BY <2>5, <2>7, <3>1 DEF LeafTarget
  <2>8. CASE i = g.place[k] /\ k + 1 \in 1..g.m /\ u = g.on[g.place[k + 1]]
    <3>1. t = h.on[h.place[k + 1]]
      BY <1>3, <2>3, <2>5, <2>8
    <3> QED BY <2>1, <2>5, <2>8, <3>1 DEF LeafTarget
  <2> QED BY <2>4, <2>6, <2>7, <2>8 DEF LeafTarget
<1>13. GraphType(h)
  BY DEF GraphPop
<1> QED BY <1>6, <1>7, <1>10, <1>11, <1>12, <1>13 DEF GraphOK

-----------------------------------------------------------------------------
(* The search for traps of FRET, as such a graph.                          *)

Frame == [state_id : State, successors : SUBSET State, is_leaf : BOOLEAN]

(* The two stacks and the numbers of the states fit each other.            *)
StackOK ==
  /\ tarjan \in [State -> [stack_index : Nat, lowlink : Nat]]
  /\ stack \in Seq(Entry)
  /\ exploration_queue \in Seq(Frame)
  /\ \A i \in 1..Len(stack) :
       /\ stack[i].state_id \in Representatives
       /\ stack[i].aops \subseteq QTails(stack[i].state_id)
       /\ stack[i].aops # {}
       /\ tarjan[stack[i].state_id].stack_index = i
       /\ tarjan[stack[i].state_id].lowlink \in 1..i
  /\ \A s \in State : tarjan[s].stack_index # 0 =>
       /\ tarjan[s].stack_index \in 1..Len(stack)
       /\ stack[tarjan[s].stack_index].state_id = s
  /\ stack # <<>> => stack[1].state_id = initial_state
  /\ \A k \in 1..Len(exploration_queue) :
       /\ tarjan[exploration_queue[k].state_id].stack_index # 0
       /\ \A t \in exploration_queue[k].successors :
            t \in Representatives \/ tarjan[t].lowlink # 0

EntrySuccessors(e) == UNION {QNonSource(qa) : qa \in e.aops}

Pending(f) == {Translated(t) : t \in f.successors}

Snapshot ==
  [n |-> Len(stack), m |-> Len(exploration_queue),
   on |-> [i \in 1..Len(stack) |-> stack[i].state_id],
   succ |-> [i \in 1..Len(stack) |-> EntrySuccessors(stack[i])],
   low |-> [i \in 1..Len(stack) |-> tarjan[stack[i].state_id].lowlink],
   place |-> [k \in 1..Len(exploration_queue) |->
                tarjan[exploration_queue[k].state_id].stack_index],
   leaf |-> [k \in 1..Len(exploration_queue) |-> exploration_queue[k].is_leaf],
   pend |-> [k \in 1..Len(exploration_queue) |-> Pending(exploration_queue[k])]]

ControlOK ==
  /\ pc \in PCs
  /\ pc \in {"solve", "search", "traps", "extract", "done"} => exploration_queue = <<>>
  /\ pc \in {"successors", "unwind"} => exploration_queue # <<>>
  /\ pc = "unwind" => Top.successors = {}
  /\ pc = "traps" => tarjan = Unseen

(* The extraction visits states the view knows.                            *)
ExtractOK ==
  /\ ExtractTypeOK
  /\ visited \subseteq Representatives
  /\ pc \notin {"extract", "done"} => visited = {}

IInv ==
  /\ QuotientOK
  /\ TrapsClosed
  /\ SearchOK
  /\ PolicyOK
  /\ initial_state \in Representatives
  /\ graph \in {"policy", "value"}
  /\ ControlOK
  /\ ExtractOK
  /\ StackOK
  /\ GraphOK(Snapshot)

(* What the graph of the search is made of.                                *)
SnapshotShape ==
  /\ GraphType(Snapshot)
  /\ Snapshot.n = Len(stack) /\ Snapshot.m = Len(exploration_queue)
  /\ Len(stack) \in Nat /\ Len(exploration_queue) \in Nat
  /\ \A i \in 1..Len(stack) :
       /\ Snapshot.on[i] = stack[i].state_id
       /\ Snapshot.succ[i] = EntrySuccessors(stack[i])
       /\ Snapshot.low[i] = tarjan[stack[i].state_id].lowlink
  /\ \A k \in 1..Len(exploration_queue) :
       /\ Snapshot.place[k] = tarjan[exploration_queue[k].state_id].stack_index
       /\ Snapshot.place[k] \in 1..Len(stack)
       /\ stack[Snapshot.place[k]].state_id = exploration_queue[k].state_id
       /\ Snapshot.leaf[k] = exploration_queue[k].is_leaf
       /\ Snapshot.pend[k] = Pending(exploration_queue[k])
  /\ \A i \in 1..Len(stack) :
       /\ stack[i] \in Entry /\ stack[i].state_id \in State
       /\ EntrySuccessors(stack[i]) \subseteq Representatives
  /\ \A k \in 1..Len(exploration_queue) :
       /\ exploration_queue[k] \in Frame
       /\ exploration_queue[k].state_id \in State

LEMMA SnapshotFacts == QuotientOK /\ StackOK => SnapshotShape
<1> HAVE QuotientOK /\ StackOK
<1> DEFINE n == Len(stack)
           m == Len(exploration_queue)
<1>1. /\ n \in Nat /\ m \in Nat
      /\ \A i \in 1..n : stack[i] \in Entry
      /\ \A k \in 1..m : exploration_queue[k] \in Frame
  BY DEF StackOK
<1>2. /\ \A i \in 1..n : stack[i].state_id \in State
      /\ \A k \in 1..m : /\ exploration_queue[k].state_id \in State
                         /\ exploration_queue[k].is_leaf \in BOOLEAN
                         /\ exploration_queue[k].successors \subseteq State
  BY <1>1 DEF Entry, Frame
<1>3. \A i \in 1..n : EntrySuccessors(stack[i]) \subseteq Representatives
  <2> TAKE i \in 1..n
  <2>1. stack[i].aops \subseteq QTails(stack[i].state_id)
    BY DEF StackOK
  <2>2. \A qa \in stack[i].aops : QNonSource(qa) \subseteq Representatives
    BY <1>2, <2>1, QTailsType
  <2> QED BY <2>2 DEF EntrySuccessors
<1>4. \A k \in 1..m :
        /\ tarjan[exploration_queue[k].state_id].stack_index \in 1..n
        /\ stack[tarjan[exploration_queue[k].state_id].stack_index].state_id
             = exploration_queue[k].state_id
  BY <1>2 DEF StackOK
<1>5. \A i \in 1..n : tarjan[stack[i].state_id].lowlink \in 1..n
  BY <1>1 DEF StackOK
<1>6. \A k \in 1..m : Pending(exploration_queue[k]) \subseteq State
  BY <1>2, IdFacts DEF Pending
<1>7. Representatives \subseteq State
  BY DEF Representatives
<1>8. /\ Snapshot.n = n /\ Snapshot.m = m
      /\ Snapshot.on = [i \in 1..n |-> stack[i].state_id]
      /\ Snapshot.succ = [i \in 1..n |-> EntrySuccessors(stack[i])]
      /\ Snapshot.low = [i \in 1..n |-> tarjan[stack[i].state_id].lowlink]
      /\ Snapshot.place = [k \in 1..m |-> tarjan[exploration_queue[k].state_id].stack_index]
      /\ Snapshot.leaf = [k \in 1..m |-> exploration_queue[k].is_leaf]
      /\ Snapshot.pend = [k \in 1..m |-> Pending(exploration_queue[k])]
  BY DEF Snapshot
<1>9. /\ Snapshot.on \in [1..n -> State]
      /\ Snapshot.succ \in [1..n -> SUBSET State]
      /\ Snapshot.low \in [1..n -> 1..n]
      /\ Snapshot.place \in [1..m -> 1..n]
      /\ Snapshot.leaf \in [1..m -> BOOLEAN]
      /\ Snapshot.pend \in [1..m -> SUBSET State]
  <2>1. Snapshot.on \in [1..n -> State]
    BY <1>2, <1>8
  <2>2. Snapshot.succ \in [1..n -> SUBSET State]
    BY <1>3, <1>7, <1>8
  <2>3. Snapshot.low \in [1..n -> 1..n]
    BY <1>5, <1>8
  <2>4. Snapshot.place \in [1..m -> 1..n]
    BY <1>4, <1>8
  <2>5. Snapshot.leaf \in [1..m -> BOOLEAN]
    BY <1>2, <1>4, <1>8
  <2>6. Snapshot.pend \in [1..m -> SUBSET State]
    BY <1>6, <1>8
  <2> QED BY <2>1, <2>2, <2>3, <2>4, <2>5, <2>6
<1>10. GraphType(Snapshot)
  BY <1>1, <1>8, <1>9 DEF GraphType
<1> QED BY <1>1, <1>2, <1>3, <1>4, <1>8, <1>10 DEF SnapshotShape

LEMMA SnapshotFactsNext == QuotientOK' /\ StackOK' => SnapshotShape'
BY SnapshotFacts, PTL

(* The actions of the greedy graph are among those the view offers.        *)
LEMMA GraphActionsOK ==
  ASSUME QuotientOK, SearchOK, PolicyOK, NEW s \in Representatives
  PROVE  /\ GraphActions(s) \subseteq QTails(s)
         /\ GraphActions(s) \subseteq QAction
         /\ GraphSuccessors(s) \subseteq Representatives
         /\ CanPush(s) => GraphActions(s) # {}
<1>1. s \in State
  BY DEF Representatives
<1>2. GraphActions(s) \subseteq QTails(s)
  <2>1. QBackup(value, s).greedy \subseteq QTails(s)
    BY <1>1, QBackupType DEF SearchOK
  <2> QED BY <2>1 DEF GraphActions, PolicyOK
<1>3. \A qa \in QTails(s) : qa \in QAction /\ QNonSource(qa) \subseteq Representatives
  BY <1>1, QTailsType
<1>4. GraphSuccessors(s) \subseteq Representatives
  BY <1>2, <1>3 DEF GraphSuccessors
<1>5. CanPush(s) => GraphActions(s) # {}
  BY DEF CanPush, GraphSuccessors
<1> QED BY <1>2, <1>3, <1>4, <1>5

(* The view changes with its data structures only.                         *)
LEMMA ViewSame ==
  ASSUME UNCHANGED quotient_vars
  PROVE  /\ Representatives' = Representatives
         /\ \A t : Translated(t)' = Translated(t)
         /\ \A t : QTails(t)' = QTails(t)
         /\ \A t : MembersOf(t)' = MembersOf(t)
         /\ \A t : CollapsedActions(t)' = CollapsedActions(t)
         /\ \A qa : QNonSource(qa)' = QNonSource(qa)
         /\ \A e : EntrySuccessors(e)' = EntrySuccessors(e)
         /\ \A f : Pending(f)' = Pending(f)
         /\ QuotientOK => QuotientOK'
         /\ TrapsClosed => TrapsClosed'
<1>1. quotient_ids' = quotient_ids /\ quotients' = quotients
  BY DEF quotient_vars
<1>2. /\ \A t : Translated(t)' = Translated(t)
      /\ \A t : IsCollapsed(t)' <=> IsCollapsed(t)
      /\ \A t : QuotientInfo(t)' = QuotientInfo(t)
  BY <1>1 DEF Translated, IsCollapsed, QuotientInfo
<1>3. /\ Representatives' = Representatives
      /\ \A t : MemberInfos(t)' = MemberInfos(t)
      /\ \A qa : QLeaving(qa)' = QLeaving(qa)
  BY <1>2 DEF Representatives, MemberInfos, QLeaving
<1>4. /\ \A t : MembersOf(t)' = MembersOf(t)
      /\ \A t : QApplicable(t)' = QApplicable(t)
      /\ \A t : CollapsedActions(t)' = CollapsedActions(t)
      /\ \A qa : QNonSource(qa)' = QNonSource(qa)
  BY <1>2, <1>3 DEF MembersOf, QApplicable, CollapsedActions, QNonSource
<1>5. \A t : QTails(t)' = QTails(t)
  BY <1>3, <1>4 DEF QTails
<1>6. /\ \A e : EntrySuccessors(e)' = EntrySuccessors(e)
      /\ \A f : Pending(f)' = Pending(f)
  BY <1>2, <1>4 DEF EntrySuccessors, Pending
<1>7. TrapsClosed => TrapsClosed'
  BY <1>1, <1>4 DEF TrapsClosed
<1>8. QuotientShape => QuotientShape'
  BY <1>1 DEF QuotientShape, IsCollapsed, Translated
<1>9. QuotientConsistent => QuotientConsistent'
  BY <1>1, <1>2, <1>3, <1>4 DEF QuotientConsistent
<1> QED BY <1>2, <1>3, <1>4, <1>5, <1>6, <1>7, <1>8, <1>9 DEF QuotientOK

(* A new state is pushed.                                                  *)
LEMMA PushOK ==
  ASSUME QuotientOK, SearchOK, PolicyOK, StackOK, GraphOK(Snapshot),
         UNCHANGED <<quotient_vars, initial_state>>,
         NEW s \in Representatives, NEW rest \in Seq(Frame),
         tarjan[s].lowlink = 0, CanPush(s), Push(s, rest),
         stack = <<>> => s = initial_state,
         Len(rest) = Len(exploration_queue),
         \A k \in 1..Len(rest) :
           LET f == exploration_queue[k]
           IN  /\ rest[k].state_id = f.state_id
               /\ rest[k].is_leaf = f.is_leaf
               /\ rest[k].successors \subseteq f.successors
               /\ f.successors \subseteq rest[k].successors
                    \union (IF k = Len(rest) THEN {s} ELSE {}),
         rest # <<>> => s \in exploration_queue[Len(rest)].successors
  PROVE  StackOK' /\ GraphOK(Snapshot)' /\ exploration_queue' # <<>>
<1> DEFINE n == Len(stack)
           m == Len(exploration_queue)
           e == [state_id |-> s, aops |-> GraphActions(s)]
           f == [state_id |-> s, successors |-> GraphSuccessors(s), is_leaf |-> TRUE]
<1>1. /\ n \in Nat /\ m \in Nat /\ s \in State
      /\ stack \in Seq(Entry) /\ exploration_queue \in Seq(Frame)
      /\ tarjan \in [State -> [stack_index : Nat, lowlink : Nat]]
      /\ Representatives \subseteq State
  BY DEF StackOK, Representatives
<1>2. /\ GraphActions(s) \subseteq QTails(s) /\ GraphActions(s) \subseteq QAction
      /\ GraphSuccessors(s) \subseteq Representatives
      /\ GraphActions(s) # {}
  BY GraphActionsOK
<1>3. e \in Entry /\ f \in Frame
  BY <1>1, <1>2 DEF Entry, Frame
<1>4. SnapshotShape
  BY SnapshotFacts
<1>5. /\ \A i \in 1..n : stack[i].state_id # s
      /\ \A k \in 1..m : exploration_queue[k].state_id # s
  <2>1. \A i \in 1..n : stack[i].state_id # s
    BY <1>1 DEF StackOK
  <2>2. \A k \in 1..m : \E i \in 1..n : exploration_queue[k].state_id = stack[i].state_id
    BY <1>4 DEF SnapshotShape
  <2> QED BY <2>1, <2>2
<1>6. /\ stack' = Append(stack, e) /\ exploration_queue' = Append(rest, f)
      /\ tarjan' = [tarjan EXCEPT ![s] = [stack_index |-> n + 1, lowlink |-> n + 1]]
  BY DEF Push
<1>7. /\ stack' \in Seq(Entry) /\ Len(stack') = n + 1
      /\ \A i \in 1..n : stack'[i] = stack[i]
      /\ stack'[n + 1] = e
  <2> HIDE DEF e
  <2> QED BY <1>1, <1>3, <1>6
<1>8. /\ exploration_queue' \in Seq(Frame) /\ Len(exploration_queue') = m + 1
      /\ \A k \in 1..m : exploration_queue'[k] = rest[k]
      /\ exploration_queue'[m + 1] = f
  <2> HIDE DEF f
  <2> QED BY <1>1, <1>3, <1>6
<1>9. /\ tarjan' \in [State -> [stack_index : Nat, lowlink : Nat]]
      /\ \A t \in State : t # s => tarjan'[t] = tarjan[t]
      /\ tarjan'[s].stack_index = n + 1 /\ tarjan'[s].lowlink = n + 1
  <2>1. [stack_index |-> n + 1, lowlink |-> n + 1] \in [stack_index : Nat, lowlink : Nat]
    BY <1>1
  <2> QED BY <1>1, <1>6, <2>1
<1>10. /\ Representatives' = Representatives
       /\ \A t : QTails(t)' = QTails(t)
       /\ \A qa : QNonSource(qa)' = QNonSource(qa)
       /\ \A x : Translated(x)' = Translated(x)
       /\ QuotientOK' /\ initial_state' = initial_state
  BY ViewSame
<1>11. /\ \A i \in 1..(n + 1) : i \in 1..n \/ i = n + 1
       /\ \A i \in 1..n : i \in 1..(n + 1)
       /\ \A k \in 1..(m + 1) : k \in 1..m \/ k = m + 1
  BY <1>1
<1>12. StackOK'
  <2>1. ASSUME NEW i \in 1..(n + 1)
        PROVE  /\ stack'[i].state_id \in Representatives
               /\ stack'[i].aops \subseteq QTails(stack'[i].state_id)
               /\ stack'[i].aops # {}
               /\ tarjan'[stack'[i].state_id].stack_index = i
               /\ tarjan'[stack'[i].state_id].lowlink \in 1..i
    <3>1. CASE i \in 1..n
      <4>1. /\ stack[i].state_id \in Representatives
            /\ stack[i].aops \subseteq QTails(stack[i].state_id)
            /\ stack[i].aops # {}
            /\ tarjan[stack[i].state_id].stack_index = i
            /\ tarjan[stack[i].state_id].lowlink \in 1..i
        BY <3>1 DEF StackOK
      <4>2. tarjan'[stack[i].state_id] = tarjan[stack[i].state_id]
        BY <1>1, <1>5, <1>9, <3>1, <4>1
      <4> QED BY <1>7, <3>1, <4>1, <4>2
    <3>2. CASE i = n + 1
      <4>1. stack'[i].state_id = s /\ stack'[i].aops = GraphActions(s)
        BY <1>7, <3>2
      <4>2. n + 1 \in 1..(n + 1)
        BY <1>1
      <4> QED BY <1>2, <1>9, <3>2, <4>1, <4>2
    <3> QED BY <1>11, <3>1, <3>2
  <2>2. ASSUME NEW t \in State, tarjan'[t].stack_index # 0
        PROVE  /\ tarjan'[t].stack_index \in 1..(n + 1)
               /\ stack'[tarjan'[t].stack_index].state_id = t
    <3>1. CASE t = s
      <4>1. n + 1 \in 1..(n + 1)
        BY <1>1
      <4> QED BY <1>7, <1>9, <3>1, <4>1
    <3>2. CASE t # s
      <4>1. /\ tarjan[t].stack_index \in 1..n
            /\ stack[tarjan[t].stack_index].state_id = t
            /\ tarjan'[t] = tarjan[t]
        BY <1>9, <2>2, <3>2 DEF StackOK
      <4> QED BY <1>7, <1>11, <4>1
    <3> QED BY <3>1, <3>2
  <2>3. stack'[1].state_id = initial_state
    <3>1. CASE stack = <<>>
      <4>1. n + 1 = 1
        BY <3>1
      <4> QED BY <1>7, <3>1, <4>1
    <3>2. CASE stack # <<>>
      <4>1. 1 \in 1..n
        BY <1>1, <3>2
      <4> QED BY <1>7, <3>2, <4>1 DEF StackOK
    <3> QED BY <3>1, <3>2
  <2>4. ASSUME NEW k \in 1..(m + 1)
        PROVE  /\ tarjan'[exploration_queue'[k].state_id].stack_index # 0
               /\ \A t \in exploration_queue'[k].successors :
                    t \in Representatives \/ tarjan'[t].lowlink # 0
    <3>1. CASE k \in 1..m
      <4>1. /\ exploration_queue'[k].state_id = exploration_queue[k].state_id
            /\ exploration_queue'[k].successors \subseteq exploration_queue[k].successors
        BY <1>8, <3>1
      <4>2. /\ tarjan[exploration_queue[k].state_id].stack_index # 0
            /\ exploration_queue[k].state_id \in State
            /\ exploration_queue[k].state_id # s
        BY <1>4, <1>5, <3>1 DEF StackOK, SnapshotShape
      <4>3. \A t \in exploration_queue[k].successors :
              t \in State /\ (t \in Representatives \/ tarjan[t].lowlink # 0)
        <5>1. exploration_queue[k] \in Frame
          BY <1>1, <3>1
        <5> QED BY <3>1, <5>1 DEF StackOK, Frame
      <4>4. \A t \in State : tarjan[t].lowlink # 0 => tarjan'[t].lowlink # 0
        BY <1>1, <1>9
      <4> QED BY <1>9, <4>1, <4>2, <4>3, <4>4
    <3>2. CASE k = m + 1
      <4>1. n + 1 # 0
        BY <1>1
      <4> QED BY <1>2, <1>8, <1>9, <3>2, <4>1
    <3> QED BY <1>11, <3>1, <3>2
  <2> QED BY <1>7, <1>8, <1>9, <1>10, <2>1, <2>2, <2>3, <2>4 DEF StackOK
<1>13. SnapshotShape'
  BY <1>10, <1>12, SnapshotFactsNext
<1>14. /\ Snapshot'.n = n + 1 /\ Snapshot'.m = m + 1
       /\ Snapshot.n = n /\ Snapshot.m = m
  BY <1>4, <1>7, <1>8, <1>13 DEF SnapshotShape
<1>15. \A i \in 1..n :
         /\ Snapshot'.on[i] = Snapshot.on[i] /\ Snapshot'.succ[i] = Snapshot.succ[i]
         /\ Snapshot'.low[i] = Snapshot.low[i]
         /\ Snapshot'.on[i] # s
  <2> TAKE i \in 1..n
  <2>1. /\ Snapshot.on[i] = stack[i].state_id
        /\ Snapshot.succ[i] = UNION {QNonSource(qa) : qa \in stack[i].aops}
        /\ Snapshot.low[i] = tarjan[stack[i].state_id].lowlink
        /\ stack[i].state_id \in State
    BY <1>4 DEF SnapshotShape, EntrySuccessors
  <2>2. /\ Snapshot'.on[i] = stack'[i].state_id
        /\ Snapshot'.succ[i] = UNION {QNonSource(qa) : qa \in stack'[i].aops}
        /\ Snapshot'.low[i] = tarjan'[stack'[i].state_id].lowlink
    BY <1>7, <1>10, <1>11, <1>13 DEF SnapshotShape, EntrySuccessors
  <2> QED BY <1>5, <1>7, <1>9, <2>1, <2>2
<1>16. /\ Snapshot'.on[n + 1] = s /\ Snapshot'.low[n + 1] = n + 1
       /\ Snapshot'.succ[n + 1] = GraphSuccessors(s)
  <2>1. n + 1 \in 1..(n + 1)
    BY <1>1
  <2>2. /\ Snapshot'.on[n + 1] = stack'[n + 1].state_id
        /\ Snapshot'.succ[n + 1] = UNION {QNonSource(qa) : qa \in stack'[n + 1].aops}
        /\ Snapshot'.low[n + 1] = tarjan'[stack'[n + 1].state_id].lowlink
    BY <1>7, <1>10, <1>13, <2>1 DEF SnapshotShape, EntrySuccessors
  <2>3. stack'[n + 1].aops = GraphActions(s)
    BY <1>7
  <2> QED BY <1>7, <1>9, <2>2, <2>3 DEF GraphSuccessors
<1>17. \A k \in 1..m :
         /\ Snapshot'.place[k] = Snapshot.place[k]
         /\ Snapshot'.leaf[k] = Snapshot.leaf[k]
         /\ Snapshot'.pend[k] \subseteq Snapshot.pend[k]
         /\ Snapshot.pend[k] \subseteq Snapshot'.pend[k]
              \union (IF k = m THEN {s} ELSE {})
  <2> TAKE k \in 1..m
  <2>1. /\ Snapshot.place[k] = tarjan[exploration_queue[k].state_id].stack_index
        /\ Snapshot.leaf[k] = exploration_queue[k].is_leaf
        /\ Snapshot.pend[k] = {Translated(t) : t \in exploration_queue[k].successors}
        /\ exploration_queue[k].state_id \in State
    BY <1>4 DEF SnapshotShape, Pending
  <2>2. k \in 1..(m + 1)
    BY <1>1
  <2>3. /\ Snapshot'.place[k] = tarjan'[exploration_queue'[k].state_id].stack_index
        /\ Snapshot'.leaf[k] = exploration_queue'[k].is_leaf
        /\ Snapshot'.pend[k] = {Translated(t) : t \in exploration_queue'[k].successors}
    BY <1>8, <1>10, <1>13, <2>2 DEF SnapshotShape, Pending
  <2>4. /\ exploration_queue'[k].state_id = exploration_queue[k].state_id
        /\ exploration_queue'[k].is_leaf = exploration_queue[k].is_leaf
        /\ exploration_queue'[k].successors \subseteq exploration_queue[k].successors
        /\ exploration_queue[k].successors \subseteq exploration_queue'[k].successors
             \union (IF k = m THEN {s} ELSE {})
    BY <1>8
  <2>5. Translated(s) = s
    BY DEF Representatives
  <2> QED BY <1>5, <1>9, <2>1, <2>3, <2>4, <2>5
<1>18. /\ Snapshot'.place[m + 1] = n + 1
       /\ Snapshot'.pend[m + 1] = GraphSuccessors(s)
  <2>1. m + 1 \in 1..(m + 1)
    BY <1>1
  <2>2. /\ Snapshot'.place[m + 1] = tarjan'[exploration_queue'[m + 1].state_id].stack_index
        /\ Snapshot'.pend[m + 1] = {Translated(t) : t \in exploration_queue'[m + 1].successors}
    BY <1>8, <1>10, <1>13, <2>1 DEF SnapshotShape, Pending
  <2>3. \A t \in GraphSuccessors(s) : Translated(t) = t
    BY <1>2 DEF Representatives
  <2> QED BY <1>8, <1>9, <2>2, <2>3
<1>19. m > 0 => s \in Snapshot.pend[m]
  <2> HAVE m > 0
  <2>1. m \in 1..m /\ rest # <<>>
    BY <1>1
  <2>2. s \in exploration_queue[m].successors /\ Translated(s) = s
    BY <2>1 DEF Representatives
  <2> QED BY <1>4, <2>1, <2>2 DEF SnapshotShape, Pending
<1>20. GraphPush(Snapshot, Snapshot')
  BY <1>13, <1>14, <1>15, <1>16, <1>17, <1>18, <1>19 DEF GraphPush, SnapshotShape
<1>21. GraphOK(Snapshot')
  BY <1>20, GraphPushOK
<1>22. exploration_queue' # <<>>
  BY <1>1, <1>8
<1> QED BY <1>12, <1>21, <1>22

(* The top of the search stack, and putting another frame there.           *)
LEMMA TopFacts ==
  ASSUME NEW q \in Seq(Frame), q # <<>>
  PROVE  /\ Len(q) \in Nat /\ Len(q) \in 1..Len(q)
         /\ Last(q) = q[Len(q)] /\ Last(q) \in Frame
         /\ Last(q).state_id \in State /\ Last(q).successors \subseteq State
         /\ Last(q).is_leaf \in BOOLEAN
         /\ \A f \in Frame :
              /\ WithTop(q, f) \in Seq(Frame) /\ Len(WithTop(q, f)) = Len(q)
              /\ \A k \in 1..Len(q) :
                   WithTop(q, f)[k] = IF k = Len(q) THEN f ELSE q[k]
<1>1. Len(q) \in Nat /\ Len(q) \in 1..Len(q) /\ q \in [1..Len(q) -> Frame]
  OBVIOUS
<1>2. Last(q) = q[Len(q)] /\ Last(q) \in Frame
  BY <1>1 DEF Last
<1>3. ASSUME NEW f \in Frame
      PROVE  /\ WithTop(q, f) \in Seq(Frame) /\ Len(WithTop(q, f)) = Len(q)
             /\ \A k \in 1..Len(q) :
                  WithTop(q, f)[k] = IF k = Len(q) THEN f ELSE q[k]
  BY <1>1 DEF WithTop
<1> QED BY <1>1, <1>2, <1>3 DEF Frame

LEMMA MinOfTwo ==
  ASSUME NEW x \in Int, NEW y \in Int
  PROVE  Min({x, y}) = IF y < x THEN y ELSE x
<1>1. CASE y < x
  BY <1>1, MinUnique
<1>2. CASE ~(y < x)
  BY <1>2, MinUnique
<1> QED BY <1>1, <1>2

LEMMA SameFunction ==
  ASSUME NEW S, NEW T, NEW f \in [S -> T], NEW g \in [S -> T],
         \A x \in S : f[x] = g[x]
  PROVE  f = g
OBVIOUS

(* The top frame looks no more at a successor.                             *)
LEMMA SameStackOK ==
  ASSUME QuotientOK, StackOK, exploration_queue # <<>>,
         UNCHANGED <<quotient_vars, initial_state, stack>>,
         NEW f \in Frame, exploration_queue' = WithTop(exploration_queue, f),
         f.state_id = Top.state_id, f.successors \subseteq Top.successors,
         tarjan' \in [State -> [stack_index : Nat, lowlink : Nat]],
         \A s \in State : tarjan'[s].stack_index = tarjan[s].stack_index,
         \A s \in State : tarjan[s].lowlink # 0 => tarjan'[s].lowlink # 0,
         \A i \in 1..Len(stack) : tarjan'[stack[i].state_id].lowlink \in 1..i
  PROVE  /\ StackOK' /\ SnapshotShape'
         /\ GraphSame(Snapshot, Snapshot')
         /\ \A k \in 1..Len(exploration_queue) : k # Len(exploration_queue) =>
              Snapshot'.leaf[k] = Snapshot.leaf[k]
         /\ Snapshot'.leaf[Snapshot.m] = f.is_leaf
         /\ Snapshot.leaf[Snapshot.m] = Top.is_leaf
         /\ Snapshot'.pend[Snapshot.m] = {Translated(t) : t \in f.successors}
         /\ Snapshot.pend[Snapshot.m] = {Translated(t) : t \in Top.successors}
         /\ \A i \in 1..Len(stack) :
              Snapshot'.low[i] = tarjan'[stack[i].state_id].lowlink
<1> DEFINE n == Len(stack)
           m == Len(exploration_queue)
<1>1. SnapshotShape
  BY SnapshotFacts
<1>2. /\ stack \in Seq(Entry) /\ exploration_queue \in Seq(Frame)
  BY DEF StackOK
<1>3. /\ m \in Nat /\ m \in 1..m /\ Top = exploration_queue[m] /\ Top \in Frame
      /\ exploration_queue' \in Seq(Frame) /\ Len(exploration_queue') = m
      /\ \A k \in 1..m :
           exploration_queue'[k] = IF k = m THEN f ELSE exploration_queue[k]
  BY <1>2, TopFacts DEF Top
<1>4. /\ Representatives' = Representatives
      /\ \A t : QTails(t)' = QTails(t)
      /\ \A qa : QNonSource(qa)' = QNonSource(qa)
      /\ \A x : Translated(x)' = Translated(x)
      /\ QuotientOK' /\ initial_state' = initial_state /\ stack' = stack
  BY ViewSame
<1>5. \A k \in 1..m :
        /\ exploration_queue'[k].state_id = exploration_queue[k].state_id
        /\ exploration_queue[k].state_id \in State
        /\ exploration_queue'[k].successors \subseteq exploration_queue[k].successors
        /\ exploration_queue[k].successors \subseteq State
  <2> TAKE k \in 1..m
  <2>1. exploration_queue[k] \in Frame
    BY <1>2
  <2>2. /\ exploration_queue[k].state_id \in State
        /\ exploration_queue[k].successors \subseteq State
    BY <2>1 DEF Frame
  <2>3. /\ exploration_queue'[k].state_id = exploration_queue[k].state_id
        /\ exploration_queue'[k].successors \subseteq exploration_queue[k].successors
    BY <1>3
  <2> QED BY <2>2, <2>3
<1>6. StackOK'
  <2>1. \A i \in 1..n :
          /\ stack[i].state_id \in Representatives
          /\ stack[i].aops \subseteq QTails(stack[i].state_id)
          /\ stack[i].aops # {}
          /\ tarjan'[stack[i].state_id].stack_index = i
    BY <1>1 DEF StackOK, SnapshotShape
  <2>2. \A s \in State : tarjan'[s].stack_index # 0 =>
          /\ tarjan'[s].stack_index \in 1..n
          /\ stack[tarjan'[s].stack_index].state_id = s
    BY DEF StackOK
  <2>3. \A k \in 1..m :
          /\ tarjan'[exploration_queue'[k].state_id].stack_index # 0
          /\ \A t \in exploration_queue'[k].successors :
               t \in Representatives \/ tarjan'[t].lowlink # 0
    <3> TAKE k \in 1..m
    <3>1. /\ tarjan[exploration_queue[k].state_id].stack_index # 0
          /\ \A t \in exploration_queue[k].successors :
               t \in Representatives \/ tarjan[t].lowlink # 0
      BY DEF StackOK
    <3> QED BY <1>5, <3>1
  <2>4. stack # <<>> => stack[1].state_id = initial_state
    BY DEF StackOK
  <2> QED BY <1>2, <1>3, <1>4, <2>1, <2>2, <2>3, <2>4 DEF StackOK
<1>7. SnapshotShape'
  BY <1>4, <1>6, SnapshotFactsNext
<1>8. /\ Snapshot.n = n /\ Snapshot'.n = n /\ Snapshot.m = m /\ Snapshot'.m = m
  BY <1>1, <1>3, <1>4, <1>7 DEF SnapshotShape
<1>9. /\ Snapshot.on \in [1..n -> State] /\ Snapshot'.on \in [1..n -> State]
      /\ Snapshot.succ \in [1..n -> SUBSET State]
      /\ Snapshot'.succ \in [1..n -> SUBSET State]
      /\ Snapshot.place \in [1..m -> 1..n] /\ Snapshot'.place \in [1..m -> 1..n]
  BY <1>1, <1>7, <1>8 DEF SnapshotShape, GraphType
<1>10. \A i \in 1..n :
         /\ Snapshot'.on[i] = Snapshot.on[i] /\ Snapshot'.succ[i] = Snapshot.succ[i]
         /\ Snapshot'.low[i] = tarjan'[stack[i].state_id].lowlink
  <2> TAKE i \in 1..n
  <2>1. /\ Snapshot.on[i] = stack[i].state_id
        /\ Snapshot.succ[i] = UNION {QNonSource(qa) : qa \in stack[i].aops}
    BY <1>1 DEF SnapshotShape, EntrySuccessors
  <2>2. /\ Snapshot'.on[i] = stack[i].state_id
        /\ Snapshot'.succ[i] = UNION {QNonSource(qa) : qa \in stack[i].aops}
        /\ Snapshot'.low[i] = tarjan'[stack[i].state_id].lowlink
    BY <1>4, <1>7 DEF SnapshotShape, EntrySuccessors
  <2> QED BY <2>1, <2>2
<1>11. \A k \in 1..m :
         /\ Snapshot'.place[k] = Snapshot.place[k]
         /\ Snapshot'.leaf[k] = exploration_queue'[k].is_leaf
         /\ Snapshot.leaf[k] = exploration_queue[k].is_leaf
         /\ Snapshot'.pend[k] = {Translated(t) : t \in exploration_queue'[k].successors}
         /\ Snapshot.pend[k] = {Translated(t) : t \in exploration_queue[k].successors}
  <2> TAKE k \in 1..m
  <2>1. /\ Snapshot.place[k] = tarjan[exploration_queue[k].state_id].stack_index
        /\ Snapshot.leaf[k] = exploration_queue[k].is_leaf
        /\ Snapshot.pend[k] = {Translated(t) : t \in exploration_queue[k].successors}
    BY <1>1 DEF SnapshotShape, Pending
  <2>2. /\ Snapshot'.place[k] = tarjan'[exploration_queue'[k].state_id].stack_index
        /\ Snapshot'.leaf[k] = exploration_queue'[k].is_leaf
        /\ Snapshot'.pend[k] = {Translated(t) : t \in exploration_queue'[k].successors}
    BY <1>3, <1>4, <1>7 DEF SnapshotShape, Pending
  <2> QED BY <1>5, <2>1, <2>2
<1>12. Snapshot'.on = Snapshot.on /\ Snapshot'.succ = Snapshot.succ
       /\ Snapshot'.place = Snapshot.place
  <2>1. Snapshot'.on = Snapshot.on
    <3>1. Snapshot.on \in [1..n -> State] /\ Snapshot'.on \in [1..n -> State]
      BY <1>9
    <3>2. \A i \in 1..n : Snapshot'.on[i] = Snapshot.on[i]
      BY <1>10
    <3> DEFINE D == 1..n  old == Snapshot.on  new == Snapshot'.on
    <3>3. old \in [D -> State] /\ new \in [D -> State] /\ \A i \in D : new[i] = old[i]
      BY <3>1, <3>2
    <3> HIDE DEF D, old, new
    <3>4. new = old
      BY <3>3, SameFunction
    <3> QED BY <3>4 DEF old, new
  <2>2. Snapshot'.succ = Snapshot.succ
    BY <1>9, <1>10, SameFunction
  <2>3. Snapshot'.place = Snapshot.place
    <3>1. Snapshot.place \in [1..m -> 1..n] /\ Snapshot'.place \in [1..m -> 1..n]
      BY <1>9
    <3>2. \A k \in 1..m : Snapshot'.place[k] = Snapshot.place[k]
      BY <1>11
    <3> DEFINE D == 1..m  R == 1..n  old == Snapshot.place  new == Snapshot'.place
    <3>3. old \in [D -> R] /\ new \in [D -> R] /\ \A k \in D : new[k] = old[k]
      BY <3>1, <3>2
    <3> HIDE DEF D, R, old, new
    <3>4. new = old
      BY <3>3, SameFunction
    <3> QED BY <3>4 DEF old, new
  <2> QED BY <2>1, <2>2, <2>3
<1>13. /\ \A k \in 1..m : k # m => /\ Snapshot'.leaf[k] = Snapshot.leaf[k]
                                   /\ Snapshot'.pend[k] = Snapshot.pend[k]
       /\ Snapshot'.leaf[m] = f.is_leaf /\ Snapshot.leaf[m] = Top.is_leaf
       /\ Snapshot'.pend[m] = {Translated(t) : t \in f.successors}
       /\ Snapshot.pend[m] = {Translated(t) : t \in Top.successors}
  BY <1>3, <1>11, ZenonT(60)
<1>14. Snapshot'.pend[m] \subseteq Snapshot.pend[m]
  BY <1>13
<1>15. m > 0
  BY <1>3
<1>16. GraphSame(Snapshot, Snapshot')
  BY <1>7, <1>8, <1>12, <1>13, <1>14, <1>15 DEF GraphSame, SnapshotShape
<1> QED BY <1>6, <1>7, <1>8, <1>10, <1>13, <1>16

(* Updating the value of a state in the value graph.                       *)
LEMMA GetSuccessorsOK ==
  ASSUME QuotientOK, SearchOK, NEW s \in State, GetSuccessors(s),
         UNCHANGED <<quotient_vars, flag, policy>>
  PROVE  SearchOK' /\ (PolicyOK => PolicyOK')
<1>1. /\ value \in [State -> Int] /\ \A t \in State : value[t] <= Infinite
  BY DEF SearchOK
<1>2. QBackup(value, s).value \in Int /\ QBackup(value, s).value <= Infinite
  BY <1>1, QBackupType
<1>3. value' = value \/ value' = [value EXCEPT ![s] = QBackup(value, s).value]
  BY DEF GetSuccessors
<1>4. /\ value' \in [State -> Int] /\ \A t \in State : value'[t] <= Infinite
  BY <1>1, <1>2, <1>3
<1>5. SearchOK'
  BY <1>4 DEF SearchOK
<1>6. PolicyOK => PolicyOK'
  BY ViewSame DEF PolicyOK
<1> QED BY <1>5, <1>6

-----------------------------------------------------------------------------
(* The inductive invariant of FRET.                                        *)

LEMMA SearchSame ==
  ASSUME UNCHANGED <<quotient_vars, search_vars>>, SearchOK, PolicyOK
  PROVE  SearchOK' /\ PolicyOK'
<1>1. flag' = flag /\ value' = value /\ policy' = policy
  BY DEF search_vars
<1>2. Representatives' = Representatives /\ \A t : QTails(t)' = QTails(t)
  BY ViewSame
<1> QED BY <1>1, <1>2 DEF SearchOK, PolicyOK

LEMMA StackSame ==
  ASSUME UNCHANGED <<quotient_vars, initial_state, tarjan, exploration_queue, stack>>,
         StackOK, GraphOK(Snapshot)
  PROVE  StackOK' /\ GraphOK(Snapshot)'
<1>1. /\ Representatives' = Representatives
      /\ \A t : QTails(t)' = QTails(t)
      /\ \A x : EntrySuccessors(x)' = EntrySuccessors(x)
      /\ \A x : Pending(x)' = Pending(x)
  BY ViewSame
<1>2. StackOK'
  BY <1>1 DEF StackOK
<1>3. Snapshot' = Snapshot
  BY <1>1 DEF Snapshot
<1> QED BY <1>2, <1>3

LEMMA ExtractSame ==
  ASSUME UNCHANGED <<quotient_vars, extract_vars>>, ExtractOK,
         pc \in {"extract", "done"} => pc' \in {"extract", "done"}
  PROVE  ExtractOK'
<1>1. /\ queue' = queue /\ visited' = visited /\ decision' = decision
      /\ Representatives' = Representatives
  BY ViewSame DEF extract_vars
<1> QED BY <1>1 DEF ExtractOK, ExtractTypeOK

LEMMA BeginExtractOK ==
  ASSUME UNCHANGED quotient_vars, ExtractOK, initial_state \in Representatives,
         BeginExtract(initial_state), pc' = "extract"
  PROVE  ExtractOK'
<1>1. /\ queue' = {initial_state} /\ visited' = {initial_state}
      /\ decision' = decision
      /\ Representatives' = Representatives /\ initial_state \in State
  BY ViewSame DEF BeginExtract, Representatives
<1> QED BY <1>1 DEF ExtractOK, ExtractTypeOK

LEMMA InvInit == Init => IInv
<1> SUFFICES ASSUME Init PROVE IInv
  OBVIOUS
<1>1. QuotientOK
  BY InitQuotientOK DEF Init
<1>2. TrapsClosed
  <2>1. DOMAIN quotients = {}
    BY DEF Init, QuotientInit
  <2> QED BY <2>1 DEF TrapsClosed
<1>3. Representatives = State
  BY DEF Init, QuotientInit, Representatives, Translated
<1>4. initial_state \in Representatives /\ graph \in {"policy", "value"}
  BY <1>3, FRETAssumption DEF Init
<1>5. SearchOK /\ PolicyOK
  <2>1. Infinite \in Nat /\ 0 <= Infinite
    BY MDPAssumption
  <2> QED BY <1>3, <2>1 DEF Init, SearchInit, SearchOK, PolicyOK, StateFlag
<1>6. ControlOK
  BY DEF Init, ControlOK, PCs
<1>7. ExtractOK
  BY DEF Init, ExtractInit, ExtractOK, ExtractTypeOK
<1>8. /\ stack = <<>> /\ exploration_queue = <<>> /\ tarjan = Unseen
      /\ Len(stack) = 0 /\ Len(exploration_queue) = 0
  BY DEF Init
<1>9. StackOK
  <2>1. \A s \in State : tarjan[s].stack_index = 0
    BY <1>8 DEF Unseen
  <2>2. tarjan \in [State -> [stack_index : Nat, lowlink : Nat]]
    BY <1>8 DEF Unseen
  <2>3. stack \in Seq(Entry) /\ exploration_queue \in Seq(Frame)
    BY <1>8
  <2> QED BY <1>8, <2>1, <2>2, <2>3 DEF StackOK
<1>10. GraphOK(Snapshot)
  <2>1. /\ GraphType(Snapshot) /\ Snapshot.n = 0 /\ Snapshot.m = 0
    BY <1>1, <1>8, <1>9, SnapshotFacts DEF SnapshotShape
  <2> QED BY <2>1 DEF GraphOK, FramesInOrder, Reached, LowReason, LowFinished,
                      LeafReason
<1> QED BY <1>1, <1>2, <1>4, <1>5, <1>6, <1>7, <1>9, <1>10 DEF IInv

LEMMA InvHeuristicSearch == IInv /\ HeuristicSearch => IInv'
<1> SUFFICES ASSUME IInv, HeuristicSearch PROVE IInv'
  OBVIOUS
<1>1. /\ pc = "solve" /\ pc' = "search" /\ graph' = graph
      /\ UNCHANGED <<quotient_vars, initial_state, tarjan, exploration_queue, stack,
                     extract_vars>>
      /\ flag' = FlagWith({initial_state}) /\ value' = ValueWith({initial_state})
      /\ policy' = policy
  BY DEF HeuristicSearch, InitializeInitialState, trap_vars
<1>2. StackOK' /\ GraphOK(Snapshot)'
  BY <1>1, StackSame DEF IInv
<1>3. ExtractOK'
  BY <1>1, ExtractSame DEF IInv
<1>4. ControlOK'
  BY <1>1 DEF IInv, ControlOK, PCs
<1>5. SearchOK'
  BY <1>1, WithType DEF IInv, SearchOK
<1>6. /\ QuotientOK' /\ TrapsClosed' /\ Representatives' = Representatives
      /\ \A t : QTails(t)' = QTails(t)
  BY <1>1, ViewSame DEF IInv
<1>7. PolicyOK'
  BY <1>1, <1>6 DEF IInv, PolicyOK
<1> QED BY <1>1, <1>2, <1>3, <1>4, <1>5, <1>6, <1>7 DEF IInv

LEMMA InvRevise == IInv /\ Revise => IInv'
<1> SUFFICES ASSUME IInv, Revise PROVE IInv'
  OBVIOUS
<1>1. /\ pc = "search" /\ pc' = pc /\ graph' = graph
      /\ UNCHANGED <<quotient_vars, initial_state, tarjan, exploration_queue, stack,
                     extract_vars>>
      /\ \E s : Backup(s, FALSE)
  BY DEF Revise, trap_vars
<1>2. StackOK' /\ GraphOK(Snapshot)'
  BY <1>1, StackSame DEF IInv
<1>3. ExtractOK'
  BY <1>1, ExtractSame DEF IInv
<1>4. ControlOK'
  BY <1>1 DEF IInv, ControlOK, PCs
<1>5. SearchOK' /\ PolicyOK'
  BY <1>1, BackupOK DEF IInv
<1>6. /\ QuotientOK' /\ TrapsClosed' /\ Representatives' = Representatives
  BY <1>1, ViewSame DEF IInv
<1> QED BY <1>1, <1>2, <1>3, <1>4, <1>5, <1>6 DEF IInv

LEMMA InvEndSearch == IInv /\ EndSearch => IInv'
<1> SUFFICES ASSUME IInv, EndSearch PROVE IInv'
  OBVIOUS
<1>1. /\ pc = "search" /\ pc' = "traps" /\ graph' = graph /\ tarjan' = Unseen
      /\ UNCHANGED <<quotient_vars, search_vars, initial_state, exploration_queue,
                     stack, extract_vars>>
  BY DEF EndSearch
<1>2. /\ QuotientOK' /\ TrapsClosed' /\ Representatives' = Representatives
  BY <1>1, ViewSame DEF IInv
<1>3. exploration_queue = <<>> /\ stack = <<>>
  <2>1. exploration_queue = <<>>
    BY <1>1 DEF IInv, ControlOK
  <2>2. SnapshotShape /\ FramesInOrder(Snapshot)
    BY SnapshotFacts DEF IInv, GraphOK
  <2>3. Snapshot.m = 0 /\ Snapshot.n = Len(stack)
    BY <2>1, <2>2 DEF SnapshotShape
  <2>4. Len(stack) = 0 /\ stack \in Seq(Entry)
    BY <2>2, <2>3 DEF FramesInOrder, IInv, StackOK
  <2> QED BY <2>1, <2>4
<1>5. StackOK'
  <2>1. \A s \in State : tarjan'[s].stack_index = 0
    BY <1>1 DEF Unseen
  <2>2. tarjan' \in [State -> [stack_index : Nat, lowlink : Nat]]
    BY <1>1 DEF Unseen
  <2>3. /\ stack' \in Seq(Entry) /\ exploration_queue' \in Seq(Frame)
        /\ Len(stack') = 0 /\ Len(exploration_queue') = 0 /\ stack' = <<>>
    BY <1>1, <1>3
  <2> QED BY <2>1, <2>2, <2>3 DEF StackOK
<1>6. GraphOK(Snapshot)'
  <2>1. SnapshotShape'
    BY <1>2, <1>5, SnapshotFactsNext
  <2>2. GraphType(Snapshot') /\ Snapshot'.n = 0 /\ Snapshot'.m = 0
    BY <1>1, <1>3, <2>1 DEF SnapshotShape
  <2> QED BY <2>2 DEF GraphOK, FramesInOrder, Reached, LowReason, LowFinished,
                      LeafReason
<1>7. ExtractOK'
  BY <1>1, ExtractSame DEF IInv
<1>8. ControlOK'
  BY <1>1, <1>3 DEF ControlOK, PCs
<1>9. SearchOK' /\ PolicyOK'
  BY <1>1, SearchSame DEF IInv
<1> QED BY <1>1, <1>2, <1>5, <1>6, <1>7, <1>8, <1>9 DEF IInv

LEMMA InvFindTraps == IInv /\ FindTraps => IInv'
<1> SUFFICES ASSUME IInv, FindTraps PROVE IInv'
  OBVIOUS
<1>1. /\ pc = "traps" /\ GetSuccessors(initial_state) /\ graph' = graph
      /\ UNCHANGED <<quotient_vars, initial_state, flag, policy>>
  BY DEF FindTraps
<1>2. /\ initial_state \in State /\ initial_state \in Representatives
      /\ exploration_queue = <<>> /\ tarjan = Unseen
  BY <1>1 DEF IInv, Representatives, ControlOK
<1>3. stack = <<>>
  <2>1. SnapshotShape /\ FramesInOrder(Snapshot)
    BY SnapshotFacts DEF IInv, GraphOK
  <2>2. Snapshot.m = 0 /\ Snapshot.n = Len(stack)
    BY <1>2, <2>1 DEF SnapshotShape
  <2>3. Len(stack) = 0 /\ stack \in Seq(Entry)
    BY <2>1, <2>2 DEF FramesInOrder, IInv, StackOK
  <2> QED BY <2>3
<1>4. SearchOK' /\ PolicyOK'
  BY <1>1, <1>2, GetSuccessorsOK DEF IInv
<1>5. /\ QuotientOK' /\ TrapsClosed' /\ Representatives' = Representatives
  BY <1>1, ViewSame DEF IInv
<1>6. CASE /\ CanPush(initial_state) /\ Push(initial_state, <<>>)
           /\ pc' = "successors" /\ UNCHANGED extract_vars
  <2>1. tarjan[initial_state].lowlink = 0
    BY <1>2 DEF Unseen
  <2>2. /\ <<>> \in Seq(Frame) /\ Len(<<>>) = Len(exploration_queue)
        /\ \A k \in 1..Len(<<>>) : FALSE
    BY <1>2
  <2>3. StackOK' /\ GraphOK(Snapshot)' /\ exploration_queue' # <<>>
    <3> DEFINE rest == <<>>
    <3>1. rest \in Seq(Frame) /\ Len(rest) = Len(exploration_queue) /\ rest = <<>>
          /\ \A k \in 1..Len(rest) : FALSE
      BY <2>2
    <3> HIDE DEF rest
    <3>2. Push(initial_state, rest)
      BY <1>6, <3>1
    <3> QED BY <1>1, <1>2, <1>6, <2>1, <3>1, <3>2, PushOK DEF IInv
  <2>4. ExtractOK'
    BY <1>1, <1>6, ExtractSame DEF IInv
  <2>5. ControlOK'
    BY <1>6, <2>3 DEF ControlOK, PCs
  <2> QED BY <1>1, <1>2, <1>4, <1>5, <2>3, <2>4, <2>5 DEF IInv
<1>7. CASE /\ Finish(FALSE, counters'.unexpanded)
           /\ UNCHANGED <<tarjan, exploration_queue, stack>>
  <2>1. StackOK' /\ GraphOK(Snapshot)'
    BY <1>1, <1>7, StackSame DEF IInv
  <2>2. \/ pc' = "solve" /\ UNCHANGED extract_vars
        \/ pc' = "extract" /\ BeginExtract(initial_state)
    BY <1>7 DEF Finish
  <2>3. ExtractOK'
    BY <1>1, <1>2, <2>2, ExtractSame, BeginExtractOK DEF IInv
  <2>4. ControlOK'
    BY <1>2, <1>7, <2>2 DEF ControlOK, PCs
  <2> QED BY <1>1, <1>2, <1>4, <1>5, <2>1, <2>3, <2>4 DEF IInv
<1> QED BY <1>6, <1>7 DEF FindTraps

(* How the loop over the successors goes on.                               *)
LEMMA ContinueOK ==
  ASSUME NEW q \in Seq(Frame), q # <<>>, NEW f \in Frame,
         exploration_queue' = WithTop(q, f), pc' = Continue(f)
  PROVE  ControlOK'
<1>1. /\ exploration_queue' \in Seq(Frame) /\ exploration_queue' # <<>>
      /\ Last(exploration_queue') = f
  <2>1. /\ Len(q) \in Nat /\ Len(q) \in 1..Len(q)
        /\ WithTop(q, f) \in Seq(Frame) /\ Len(WithTop(q, f)) = Len(q)
        /\ WithTop(q, f)[Len(q)] = f
    BY TopFacts
  <2> QED BY <2>1 DEF Last
<1>2. Top' = f
  BY <1>1 DEF Top
<1>3. /\ pc' \in {"successors", "unwind"}
      /\ pc' = "unwind" => f.successors = {}
  BY DEF Continue
<1> QED BY <1>1, <1>2, <1>3 DEF ControlOK, PCs

LEMMA InvStackSuccessor == IInv /\ StackSuccessor => IInv'
<1> SUFFICES ASSUME IInv, StackSuccessor PROVE IInv'
  OBVIOUS
<1>1. /\ pc = "successors" /\ graph' = graph
      /\ UNCHANGED <<quotient_vars, initial_state, search_vars, stack, extract_vars>>
  BY DEF StackSuccessor
<1>2. PICK t \in Top.successors :
        LET f == [Top EXCEPT !.successors = @ \ {t}]
        IN  /\ tarjan[t].stack_index # 0
            /\ tarjan' = [tarjan EXCEPT ![Top.state_id].lowlink =
                            Min({@, tarjan[t].stack_index})]
            /\ exploration_queue' = WithTop(exploration_queue, f)
            /\ pc' = Continue(f)
  BY DEF StackSuccessor
<1> DEFINE f == [Top EXCEPT !.successors = @ \ {t}]
           n == Len(stack)
           m == Len(exploration_queue)
           top == Top.state_id
           p == tarjan[top].stack_index
           j == tarjan[t].stack_index
<1>3. /\ StackOK /\ QuotientOK /\ GraphOK(Snapshot)
      /\ exploration_queue # <<>> /\ exploration_queue \in Seq(Frame)
      /\ tarjan \in [State -> [stack_index : Nat, lowlink : Nat]]
  BY <1>1 DEF IInv, ControlOK, StackOK
<1>4. /\ Top \in Frame /\ top \in State /\ t \in State
      /\ Top = exploration_queue[m] /\ m \in 1..m /\ m \in Nat
  BY <1>3, TopFacts DEF Top
<1>5. /\ f \in Frame /\ f.state_id = top /\ f.is_leaf = Top.is_leaf
      /\ f.successors = Top.successors \ {t}
  BY <1>4 DEF Frame
<1>6. SnapshotShape /\ Snapshot.n = n /\ Snapshot.m = m /\ n \in Nat
  BY <1>3, SnapshotFacts DEF SnapshotShape
<1>7. /\ j \in 1..n /\ stack[j].state_id = t /\ t \in Representatives /\ Translated(t) = t
      /\ Snapshot.on[j] = t
  <2>1. j \in 1..n /\ stack[j].state_id = t
    BY <1>2, <1>3, <1>4 DEF StackOK
  <2>2. t \in Representatives
    BY <1>3, <2>1 DEF StackOK
  <2> QED BY <1>6, <2>1, <2>2 DEF Representatives, SnapshotShape
<1>8. /\ p = Snapshot.place[m] /\ p \in 1..n /\ stack[p].state_id = top
      /\ tarjan[top].lowlink = Snapshot.low[p] /\ tarjan[top].lowlink \in 1..p
  <2>1. p = Snapshot.place[m] /\ p \in 1..n /\ stack[p].state_id = top
    BY <1>4, <1>6 DEF SnapshotShape
  <2> QED BY <1>3, <1>6, <2>1 DEF SnapshotShape, StackOK
<1> DEFINE low == IF j < tarjan[top].lowlink THEN j ELSE tarjan[top].lowlink
<1>9. tarjan' = [tarjan EXCEPT ![top].lowlink = low]
  <2>1. tarjan' = [tarjan EXCEPT ![top].lowlink = Min({tarjan[top].lowlink, j})]
    BY <1>2
  <2>2. Min({tarjan[top].lowlink, j}) = low
    BY <1>7, <1>8, MinOfTwo
  <2> QED BY <2>1, <2>2
<1>10. low \in 1..p /\ low \in Nat /\ low # 0
  BY <1>7, <1>8
<1>11. /\ tarjan' \in [State -> [stack_index : Nat, lowlink : Nat]]
       /\ \A s \in State : s # top => tarjan'[s] = tarjan[s]
       /\ tarjan'[top].stack_index = tarjan[top].stack_index
       /\ tarjan'[top].lowlink = low
  <2> HIDE DEF low
  <2> QED BY <1>3, <1>4, <1>9, <1>10
<1> HIDE DEF low
<1>12. /\ \A s \in State : tarjan'[s].stack_index = tarjan[s].stack_index
       /\ \A s \in State : tarjan[s].lowlink # 0 => tarjan'[s].lowlink # 0
  BY <1>10, <1>11
<1>13. \A i \in 1..n :
         tarjan'[stack[i].state_id].lowlink
           = IF i = p THEN low ELSE tarjan[stack[i].state_id].lowlink
  <2> TAKE i \in 1..n
  <2>1. stack[i].state_id \in State /\ tarjan[stack[i].state_id].stack_index = i
    BY <1>3, <1>6 DEF StackOK, SnapshotShape
  <2>2. CASE i = p
    BY <1>8, <1>11, <2>2
  <2>3. CASE i # p
    BY <1>11, <2>1, <2>3
  <2> QED BY <2>2, <2>3
<1>14. \A i \in 1..n : tarjan'[stack[i].state_id].lowlink \in 1..i
  BY <1>3, <1>10, <1>13 DEF StackOK
<1>15. exploration_queue' = WithTop(exploration_queue, f) /\ pc' = Continue(f)
  BY <1>2
<1>16. f.successors \subseteq Top.successors
  BY <1>5
<1> HIDE DEF f
<1>17. /\ StackOK' /\ SnapshotShape'
       /\ GraphSame(Snapshot, Snapshot')
       /\ Snapshot'.leaf[m] = Snapshot.leaf[m]
       /\ Snapshot'.pend[m] = {Translated(x) : x \in f.successors}
       /\ Snapshot.pend[m] = {Translated(x) : x \in Top.successors}
       /\ \A i \in 1..n : Snapshot'.low[i] = tarjan'[stack[i].state_id].lowlink
  BY <1>1, <1>3, <1>5, <1>6, <1>11, <1>12, <1>14, <1>15, <1>16, SameStackOK
<1>18. \A i \in 1..n :
         Snapshot'.low[i] = IF i = p /\ j < Snapshot.low[i] THEN j ELSE Snapshot.low[i]
  <2> TAKE i \in 1..n
  <2>1. Snapshot.low[i] = tarjan[stack[i].state_id].lowlink
    BY <1>6 DEF SnapshotShape
  <2>2. Snapshot'.low[i] = IF i = p THEN low ELSE tarjan[stack[i].state_id].lowlink
    BY <1>13, <1>17
  <2> QED BY <1>8, <2>1, <2>2 DEF low
<1>19. Snapshot.on[j] \in Snapshot.pend[m]
  BY <1>7, <1>17
<1>20. Snapshot.pend[m] \subseteq Snapshot'.pend[m] \union {Snapshot.on[j]}
  BY <1>5, <1>7, <1>17
<1>21. GraphRelax(Snapshot, Snapshot', j)
  BY <1>6, <1>7, <1>8, <1>17, <1>18, <1>19, <1>20 DEF GraphRelax
<1>22. GraphOK(Snapshot)'
  BY <1>3, <1>21, GraphRelaxOK
<1>23. ControlOK'
  BY <1>3, <1>5, <1>15, ContinueOK
<1>24. ExtractOK'
  BY <1>1, <1>23, <1>15, ExtractSame DEF IInv
<1>25. /\ QuotientOK' /\ TrapsClosed' /\ Representatives' = Representatives
  BY <1>1, ViewSame DEF IInv
<1>26. SearchOK' /\ PolicyOK'
  BY <1>1, SearchSame DEF IInv
<1> QED BY <1>1, <1>17, <1>22, <1>23, <1>24, <1>25, <1>26 DEF IInv

LEMMA InvNewSuccessor == IInv /\ NewSuccessor => IInv'
<1> SUFFICES ASSUME IInv, NewSuccessor PROVE IInv'
  OBVIOUS
<1>1. /\ pc = "successors" /\ pc' = pc /\ graph' = graph
      /\ UNCHANGED <<quotient_vars, initial_state, flag, policy, extract_vars>>
  BY DEF NewSuccessor
<1>2. PICK t \in Top.successors :
        LET f == [Top EXCEPT !.successors = @ \ {t}]
        IN  /\ tarjan[t].lowlink = 0
            /\ CanPush(t)
            /\ Push(t, WithTop(exploration_queue, f))
            /\ GetSuccessors(t)
  BY DEF NewSuccessor
<1> DEFINE f == [Top EXCEPT !.successors = @ \ {t}]
           rest == WithTop(exploration_queue, f)
           m == Len(exploration_queue)
<1>3. /\ StackOK /\ QuotientOK /\ GraphOK(Snapshot)
      /\ exploration_queue # <<>> /\ exploration_queue \in Seq(Frame)
  BY <1>1 DEF IInv, ControlOK, StackOK
<1>4. /\ Top \in Frame /\ t \in State
      /\ Top = exploration_queue[m] /\ m \in 1..m /\ m \in Nat
  BY <1>3, TopFacts DEF Top
<1>5. /\ f \in Frame /\ f.state_id = Top.state_id /\ f.is_leaf = Top.is_leaf
      /\ f.successors = Top.successors \ {t}
  BY <1>4 DEF Frame
<1>6. t \in Representatives
  BY <1>2, <1>3, <1>4 DEF StackOK
<1>7. tarjan[t].lowlink = 0 /\ CanPush(t) /\ Push(t, rest) /\ GetSuccessors(t)
  BY <1>2
<1> HIDE DEF f
<1>8. /\ rest \in Seq(Frame) /\ Len(rest) = m
      /\ \A k \in 1..m : rest[k] = IF k = m THEN f ELSE exploration_queue[k]
  BY <1>3, <1>5, TopFacts
<1> HIDE DEF rest
<1>9. \A k \in 1..Len(rest) :
        LET x == exploration_queue[k]
        IN  /\ rest[k].state_id = x.state_id
            /\ rest[k].is_leaf = x.is_leaf
            /\ rest[k].successors \subseteq x.successors
            /\ x.successors \subseteq rest[k].successors
                 \union (IF k = Len(rest) THEN {t} ELSE {})
  <2> TAKE k \in 1..Len(rest)
  <2>1. CASE k = m
    BY <1>4, <1>5, <1>8, <2>1
  <2>2. CASE k # m
    BY <1>8, <2>2
  <2> QED BY <2>1, <2>2
<1>10. stack # <<>>
  <2>1. SnapshotShape /\ FramesInOrder(Snapshot)
    BY <1>3, SnapshotFacts DEF GraphOK
  <2>2. Snapshot.m # 0 /\ Snapshot.n = Len(stack)
    BY <1>4, <2>1 DEF SnapshotShape
  <2>3. Len(stack) # 0
    BY <2>1, <2>2 DEF FramesInOrder
  <2> QED BY <2>3
<1>11. t \in exploration_queue[Len(rest)].successors
  BY <1>4, <1>8
<1>12. StackOK' /\ GraphOK(Snapshot)' /\ exploration_queue' # <<>>
  BY <1>1, <1>3, <1>6, <1>7, <1>8, <1>9, <1>10, <1>11, PushOK DEF IInv
<1>13. ControlOK'
  BY <1>1, <1>12 DEF ControlOK, PCs
<1>14. ExtractOK'
  BY <1>1, ExtractSame DEF IInv
<1>15. /\ QuotientOK' /\ TrapsClosed' /\ Representatives' = Representatives
  BY <1>1, ViewSame DEF IInv
<1>16. SearchOK' /\ PolicyOK'
  BY <1>1, <1>4, <1>7, GetSuccessorsOK DEF IInv
<1> QED BY <1>1, <1>12, <1>13, <1>14, <1>15, <1>16 DEF IInv

LEMMA InvOtherSuccessor == IInv /\ OtherSuccessor => IInv'
<1> SUFFICES ASSUME IInv, OtherSuccessor PROVE IInv'
  OBVIOUS
<1>1. /\ pc = "successors" /\ graph' = graph
      /\ UNCHANGED <<quotient_vars, initial_state, flag, policy, tarjan, stack,
                     extract_vars>>
  BY DEF OtherSuccessor
<1>2. PICK t \in Top.successors :
        LET f == [Top EXCEPT !.successors = @ \ {t}, !.is_leaf = LeafAfterExit(Top)]
        IN  /\ UNCHANGED <<value, counters>> \/ GetSuccessors(t)
            /\ exploration_queue' = WithTop(exploration_queue, f)
            /\ pc' = Continue(f)
  BY DEF OtherSuccessor
<1> DEFINE f == [Top EXCEPT !.successors = @ \ {t}, !.is_leaf = LeafAfterExit(Top)]
           n == Len(stack)
           m == Len(exploration_queue)
<1>3. /\ StackOK /\ QuotientOK /\ GraphOK(Snapshot)
      /\ exploration_queue # <<>> /\ exploration_queue \in Seq(Frame)
      /\ tarjan \in [State -> [stack_index : Nat, lowlink : Nat]]
  BY <1>1 DEF IInv, ControlOK, StackOK
<1>4. /\ Top \in Frame /\ t \in State /\ m \in Nat
  BY <1>3, TopFacts DEF Top
<1>5. /\ f \in Frame /\ f.state_id = Top.state_id /\ f.is_leaf = FALSE
      /\ f.successors \subseteq Top.successors
  BY <1>4 DEF Frame, LeafAfterExit
<1>6. exploration_queue' = WithTop(exploration_queue, f) /\ pc' = Continue(f)
  BY <1>2
<1> HIDE DEF f
<1>7. \A i \in 1..n : tarjan'[stack[i].state_id].lowlink \in 1..i
  BY <1>1, <1>3 DEF StackOK
<1>8. SnapshotShape /\ Snapshot.n = n /\ Snapshot.m = m /\ n \in Nat
  BY <1>3, SnapshotFacts DEF SnapshotShape
<1>9. /\ StackOK' /\ SnapshotShape'
      /\ GraphSame(Snapshot, Snapshot')
      /\ Snapshot'.leaf[Snapshot.m] = f.is_leaf
      /\ \A i \in 1..n : Snapshot'.low[i] = tarjan'[stack[i].state_id].lowlink
  BY <1>1, <1>3, <1>5, <1>6, <1>7, SameStackOK
<1>10. Snapshot'.low = Snapshot.low
  <2>1. Snapshot.low \in [1..n -> 1..n] /\ Snapshot'.low \in [1..n -> 1..n]
    BY <1>8, <1>9 DEF SnapshotShape, GraphType, GraphSame
  <2>2. \A i \in 1..n : Snapshot'.low[i] = Snapshot.low[i]
    BY <1>1, <1>8, <1>9 DEF SnapshotShape
  <2> QED BY <2>1, <2>2, SameFunction
<1>11. GraphExit(Snapshot, Snapshot')
  BY <1>5, <1>9, <1>10 DEF GraphExit
<1>12. GraphOK(Snapshot)'
  BY <1>3, <1>11, GraphExitOK
<1>13. ControlOK'
  BY <1>3, <1>5, <1>6, ContinueOK
<1>14. ExtractOK'
  BY <1>1, ExtractSame DEF IInv
<1>15. /\ QuotientOK' /\ TrapsClosed' /\ Representatives' = Representatives
  BY <1>1, ViewSame DEF IInv
<1>16. SearchOK' /\ PolicyOK'
  <2>1. CASE UNCHANGED <<value, counters>>
    BY <1>1, <2>1, SearchSame DEF IInv, search_vars
  <2>2. CASE GetSuccessors(t)
    BY <1>1, <1>4, <2>2, GetSuccessorsOK DEF IInv
  <2> QED BY <1>2, <2>1, <2>2
<1> QED BY <1>1, <1>9, <1>12, <1>13, <1>14, <1>15, <1>16 DEF IInv

(* The frames below the top one.                                           *)
LEMMA FramesBelowFacts ==
  ASSUME exploration_queue \in Seq(Frame), exploration_queue # <<>>,
         NEW reached \in BOOLEAN
  PROVE  LET q == exploration_queue
             m == Len(exploration_queue)
             below == FramesBelow(reached)
         IN  /\ below \in Seq(Frame) /\ Len(below) = m - 1 /\ m - 1 \in Nat
             /\ \A k \in 1..(m - 1) :
                  /\ below[k].state_id = q[k].state_id
                  /\ below[k].successors = q[k].successors
                  /\ below[k].is_leaf = (q[k].is_leaf /\ ~(k = m - 1 /\ reached))
             /\ below = <<>> <=> m = 1
             /\ m # 1 => /\ m - 1 \in 1..(m - 1) /\ Last(below) = below[m - 1]
                         /\ Last(below).state_id = q[m - 1].state_id
<1> DEFINE q == exploration_queue
           m == Len(exploration_queue)
           front == Front(exploration_queue)
           below == FramesBelow(reached)
<1>1. m \in Nat /\ m > 0 /\ m - 1 \in Nat /\ \A k \in 1..m : q[k] \in Frame
  OBVIOUS
<1>2. /\ front \in Seq(Frame) /\ Len(front) = m - 1
      /\ \A k \in 1..(m - 1) : front[k] = q[k]
  <2>1. front = SubSeq(q, 1, m - 1)
    BY DEF Front
  <2>2. \A i \in 1..(m - 1) : i \in 1..m
    BY <1>1
  <2> HIDE DEF front, m
  <2>3. Len(q) = m /\ q \in Seq(Frame)
    BY DEF m
  <2> HIDE DEF q
  <2> QED BY <1>1, <2>1, <2>2, <2>3
<1> HIDE DEF front
<1>3. below = IF front = <<>> THEN front
              ELSE WithTop(front, [Last(front) EXCEPT !.is_leaf = @ /\ ~reached])
  BY DEF FramesBelow, front
<1>4. CASE m = 1
  <2>1. front = <<>> /\ m - 1 = 0
    BY <1>2, <1>4
  <2>2. below = <<>> /\ Len(below) = 0
    BY <1>3, <2>1
  <2> HIDE DEF below
  <2>3. below \in Seq(Frame) /\ \A k \in 1..(m - 1) : FALSE
    BY <2>1, <2>2
  <2> QED BY <1>1, <1>4, <2>1, <2>2, <2>3 DEF below
<1>5. CASE m # 1
  <2>1. front # <<>> /\ m - 1 \in 1..(m - 1) /\ m - 1 > 0
    BY <1>1, <1>2, <1>5
  <2> DEFINE f == [Last(front) EXCEPT !.is_leaf = @ /\ ~reached]
  <2>2. Last(front) = q[m - 1] /\ Last(front) \in Frame
    BY <1>1, <1>2, <2>1, TopFacts
  <2>3. /\ f \in Frame /\ f.state_id = q[m - 1].state_id
        /\ f.successors = q[m - 1].successors
        /\ f.is_leaf = (q[m - 1].is_leaf /\ ~reached)
    BY <2>2 DEF Frame
  <2>4. below = WithTop(front, f)
    BY <1>3, <2>1
  <2> HIDE DEF f, below
  <2>5. /\ below \in Seq(Frame) /\ Len(below) = m - 1
        /\ \A k \in 1..(m - 1) : below[k] = IF k = m - 1 THEN f ELSE q[k]
    <3>1. /\ WithTop(front, f) \in Seq(Frame)
          /\ Len(WithTop(front, f)) = Len(front)
          /\ \A k \in 1..Len(front) :
               WithTop(front, f)[k] = IF k = Len(front) THEN f ELSE front[k]
      BY <1>2, <2>1, <2>3, TopFacts
    <3> HIDE DEF m, q
    <3> QED BY <1>2, <2>4, <3>1
  <2>6. below # <<>> /\ Last(below) = below[m - 1] /\ below[m - 1] = f
    <3>1. below # <<>>
      <4>1. Len(below) # 0
        BY <1>1, <1>5, <2>5
      <4> QED BY <4>1
    <3>2. Last(below) = below[Len(below)]
      BY <2>5, <3>1, TopFacts
    <3> QED BY <2>1, <2>5, <3>1, <3>2
  <2>7. \A k \in 1..(m - 1) :
          /\ below[k].state_id = q[k].state_id
          /\ below[k].successors = q[k].successors
          /\ below[k].is_leaf = (q[k].is_leaf /\ ~(k = m - 1 /\ reached))
    <3> TAKE k \in 1..(m - 1)
    <3>1. q[k] \in Frame /\ q[k].is_leaf \in BOOLEAN
      <4>1. q[k] \in Frame
        BY <1>1
      <4> QED BY <4>1 DEF Frame
    <3>2. CASE k = m - 1
      BY <2>3, <2>5, <3>1, <3>2
    <3>3. CASE k # m - 1
      BY <2>5, <3>1, <3>3
    <3> QED BY <3>2, <3>3
  <2> QED BY <1>1, <1>5, <2>1, <2>3, <2>5, <2>6, <2>7 DEF below
<1> QED BY <1>4, <1>5

(* After backtracking, the control fits the frames that are left.          *)
LEMMA UnwindControl ==
  ASSUME IInv, pc = "unwind", NEW infos, NEW reached \in BOOLEAN, NEW trap,
         Unwind(infos, reached, trap), initial_state' = initial_state,
         initial_state \in Representatives'
  PROVE  ControlOK' /\ ExtractOK'
<1> DEFINE below == FramesBelow(reached)
<1>1. /\ exploration_queue \in Seq(Frame) /\ exploration_queue # <<>>
      /\ visited = {} /\ ExtractTypeOK /\ initial_state \in State
  BY DEF IInv, StackOK, ControlOK, ExtractOK, Representatives
<1>2. /\ exploration_queue' = below
      /\ IF below = <<>> THEN Finish(trap, counters.unexpanded)
         ELSE pc' = Continue(Last(below)) /\ UNCHANGED extract_vars
  BY DEF Unwind
<1> HIDE DEF below
<1>3. CASE below = <<>>
  <2>1. \/ pc' = "solve" /\ UNCHANGED extract_vars
        \/ pc' = "extract" /\ BeginExtract(initial_state)
    BY <1>2, <1>3 DEF Finish
  <2>2. ControlOK'
    BY <1>2, <1>3, <2>1 DEF ControlOK, PCs
  <2>3. ExtractOK'
    <3>1. CASE pc' = "solve" /\ UNCHANGED extract_vars
      BY <1>1, <3>1 DEF ExtractOK, ExtractTypeOK, extract_vars
    <3>2. CASE pc' = "extract" /\ BeginExtract(initial_state)
      BY <1>1, <3>2 DEF ExtractOK, ExtractTypeOK, BeginExtract
    <3> QED BY <2>1, <3>1, <3>2
  <2> QED BY <2>2, <2>3
<1>4. CASE below # <<>>
  <2>1. /\ Top' = Last(below) /\ exploration_queue' # <<>>
        /\ pc' = Continue(Last(below)) /\ UNCHANGED extract_vars
    BY <1>2, <1>4 DEF Top
  <2>2. /\ pc' \in {"successors", "unwind"}
        /\ pc' = "unwind" => Top'.successors = {}
    BY <2>1 DEF Continue
  <2>3. ControlOK'
    BY <2>1, <2>2 DEF ControlOK, PCs
  <2>4. ExtractOK'
    BY <1>1, <2>1 DEF ExtractOK, ExtractTypeOK, extract_vars
  <2> QED BY <2>3, <2>4
<1> QED BY <1>3, <1>4

LEMMA InvBacktrack == IInv /\ Backtrack => IInv'
<1> SUFFICES ASSUME IInv, Backtrack PROVE IInv'
  OBVIOUS
<1> DEFINE q == exploration_queue
           n == Len(stack)
           m == Len(exploration_queue)
           top == Top.state_id
           c == tarjan[top].stack_index
           reached == ~Top.is_leaf
           below == FramesBelow(reached)
<1>1. /\ pc = "unwind" /\ ~IsRoot(top) /\ graph' = graph
      /\ Unwind(tarjan, reached, counters.trap)
      /\ UNCHANGED <<quotient_vars, initial_state, search_vars, stack>>
  BY DEF Backtrack
<1>2. /\ StackOK /\ QuotientOK /\ GraphOK(Snapshot)
      /\ q # <<>> /\ q \in Seq(Frame) /\ Top.successors = {}
      /\ tarjan \in [State -> [stack_index : Nat, lowlink : Nat]]
  BY <1>1 DEF IInv, ControlOK, StackOK
<1>3. /\ Top \in Frame /\ top \in State /\ Top.is_leaf \in BOOLEAN
      /\ Top = q[m] /\ m \in 1..m /\ m \in Nat
  BY <1>2, TopFacts DEF Top
<1>4. SnapshotShape /\ Snapshot.n = n /\ Snapshot.m = m /\ n \in Nat
  BY <1>2, SnapshotFacts DEF SnapshotShape
<1>5. /\ c = Snapshot.place[m] /\ c \in 1..n /\ stack[c].state_id = top
      /\ tarjan[top].lowlink = Snapshot.low[c] /\ tarjan[top].lowlink \in 1..c
      /\ Snapshot.low[c] # c
  <2>1. c = Snapshot.place[m] /\ c \in 1..n /\ stack[c].state_id = top
    BY <1>3, <1>4 DEF SnapshotShape
  <2>2. tarjan[top].lowlink # c
    BY <1>1 DEF IsRoot
  <2> QED BY <1>2, <1>4, <2>1, <2>2 DEF SnapshotShape, StackOK
<1>6. m # 1 /\ m - 1 \in 1..m /\ m - 1 # m
  <2>1. m # 1
    <3> SUFFICES ASSUME m = 1 PROVE FALSE
      OBVIOUS
    <3>1. Snapshot.place[1] = 1
      BY <1>2, <1>3, <1>4 DEF GraphOK, FramesInOrder
    <3> QED BY <1>5, <3>1
  <2>2. m \in Nat /\ 1 <= m
    BY <1>3
  <2> HIDE DEF m
  <2> QED BY <2>1, <2>2
<1>7. /\ below \in Seq(Frame) /\ Len(below) = m - 1
      /\ \A k \in 1..(m - 1) :
           /\ below[k].state_id = q[k].state_id
           /\ below[k].successors = q[k].successors
           /\ below[k].is_leaf = (q[k].is_leaf /\ ~(k = m - 1 /\ reached))
      /\ below # <<>> /\ m - 1 \in 1..(m - 1)
      /\ Last(below).state_id = q[m - 1].state_id
  BY <1>2, <1>3, <1>6, FramesBelowFacts
<1> DEFINE bot == q[m - 1].state_id
           b == tarjan[bot].stack_index
           low == IF tarjan[top].lowlink < tarjan[bot].lowlink
                  THEN tarjan[top].lowlink ELSE tarjan[bot].lowlink
<1>8. /\ b = Snapshot.place[m - 1] /\ b \in 1..n /\ stack[b].state_id = bot
      /\ tarjan[bot].lowlink = Snapshot.low[b] /\ tarjan[bot].lowlink \in 1..b
      /\ bot \in State
  <2>1. /\ b = Snapshot.place[m - 1] /\ b \in 1..n /\ stack[b].state_id = bot
        /\ bot \in State
    BY <1>4, <1>6 DEF SnapshotShape
  <2>2. tarjan[stack[b].state_id].lowlink = Snapshot.low[b]
    BY <1>4, <2>1 DEF SnapshotShape
  <2>3. tarjan[stack[b].state_id].lowlink \in 1..b
    <3> HIDE DEF b
    <3> QED BY <1>2, <2>1 DEF StackOK
  <2> QED BY <2>1, <2>2, <2>3
<1>9. exploration_queue' = below /\ tarjan' = [tarjan EXCEPT ![bot].lowlink = low]
  <2>1. /\ exploration_queue' = below
        /\ tarjan' = [tarjan EXCEPT ![Last(below).state_id].lowlink =
                        Min({@, tarjan[top].lowlink})]
    BY <1>1, <1>7 DEF Unwind
  <2>2. Min({tarjan[bot].lowlink, tarjan[top].lowlink}) = low
    <3> DEFINE y == tarjan[bot].lowlink  x == tarjan[top].lowlink
    <3>1. y \in Nat
      BY <1>8
    <3>2. x \in Nat
      BY <1>5
    <3>3. low = IF x < y THEN x ELSE y
      BY DEF low
    <3> HIDE DEF x, y, low, b, bot, top
    <3>4. Min({y, x}) = low
      BY <3>1, <3>2, <3>3, MinOfTwo
    <3> QED BY <3>4 DEF x, y
  <2>5. Last(below).state_id = bot
    BY <1>7
  <2> HIDE DEF bot, top, low, below
  <2>3. tarjan' = [tarjan EXCEPT ![bot].lowlink = Min({@, tarjan[top].lowlink})]
    BY <2>1, <2>5
  <2>4. tarjan' = [tarjan EXCEPT ![bot].lowlink = low]
    BY <2>2, <2>3
  <2> QED BY <2>1, <2>4
<1>10. low \in 1..b /\ low \in Nat /\ low # 0
  BY <1>5, <1>8, SMTT(30)
<1>11. /\ tarjan' \in [State -> [stack_index : Nat, lowlink : Nat]]
       /\ \A s \in State : s # bot => tarjan'[s] = tarjan[s]
       /\ tarjan'[bot].stack_index = tarjan[bot].stack_index
       /\ tarjan'[bot].lowlink = low
  <2> HIDE DEF low, bot, below
  <2> QED BY <1>2, <1>8, <1>9, <1>10
<1>12. \A i \in 1..n :
         tarjan'[stack[i].state_id].lowlink
           = IF i = b THEN low ELSE tarjan[stack[i].state_id].lowlink
  <2> TAKE i \in 1..n
  <2>1. stack[i].state_id \in State /\ tarjan[stack[i].state_id].stack_index = i
    BY <1>2, <1>4 DEF StackOK, SnapshotShape
  <2>2. CASE i = b
    BY <1>8, <1>11, <2>2
  <2>3. CASE i # b
    BY <1>11, <2>1, <2>3
  <2> QED BY <2>2, <2>3
<1>13. /\ \A s \in State : tarjan'[s].stack_index = tarjan[s].stack_index
       /\ \A s \in State : tarjan[s].lowlink # 0 => tarjan'[s].lowlink # 0
  BY <1>10, <1>11
<1> HIDE DEF below, low
<1>14. /\ Representatives' = Representatives
       /\ \A t : QTails(t)' = QTails(t)
       /\ \A qa : QNonSource(qa)' = QNonSource(qa)
       /\ \A x : Translated(x)' = Translated(x)
       /\ QuotientOK' /\ TrapsClosed' /\ initial_state' = initial_state /\ stack' = stack
  BY <1>1, ViewSame DEF IInv
<1>15. StackOK'
  <2>1. \A i \in 1..n :
          /\ stack[i].state_id \in Representatives
          /\ stack[i].aops \subseteq QTails(stack[i].state_id)
          /\ stack[i].aops # {}
          /\ tarjan'[stack[i].state_id].stack_index = i
          /\ tarjan'[stack[i].state_id].lowlink \in 1..i
    <3> TAKE i \in 1..n
    <3>1. /\ stack[i].state_id \in Representatives
          /\ stack[i].state_id \in State
          /\ stack[i].aops \subseteq QTails(stack[i].state_id)
          /\ stack[i].aops # {}
          /\ tarjan[stack[i].state_id].stack_index = i
          /\ tarjan[stack[i].state_id].lowlink \in 1..i
      BY <1>2, <1>4 DEF StackOK, SnapshotShape
    <3> QED BY <1>10, <1>12, <1>13, <3>1
  <2>2. \A s \in State : tarjan'[s].stack_index # 0 =>
          /\ tarjan'[s].stack_index \in 1..n
          /\ stack[tarjan'[s].stack_index].state_id = s
    BY <1>2, <1>13 DEF StackOK
  <2>3. \A k \in 1..(m - 1) :
          /\ tarjan'[below[k].state_id].stack_index # 0
          /\ \A t \in below[k].successors :
               t \in Representatives \/ tarjan'[t].lowlink # 0
    <3> TAKE k \in 1..(m - 1)
    <3>1. k \in 1..m
      BY <1>3
    <3>2. /\ tarjan[q[k].state_id].stack_index # 0
          /\ \A t \in q[k].successors : t \in Representatives \/ tarjan[t].lowlink # 0
      BY <1>2, <3>1 DEF StackOK
    <3>3. q[k].state_id \in State /\ q[k].successors \subseteq State
      <4>1. q[k] \in Frame
        BY <1>2, <3>1
      <4> QED BY <4>1 DEF Frame
    <3> QED BY <1>7, <1>13, <3>2, <3>3
  <2>4. stack # <<>> => stack[1].state_id = initial_state
    BY <1>2 DEF StackOK
  <2>5. stack \in Seq(Entry)
    BY <1>2 DEF StackOK
  <2>6. /\ stack' = stack /\ exploration_queue' = below /\ Len(below) = m - 1
        /\ below \in Seq(Frame) /\ initial_state' = initial_state
        /\ Representatives' = Representatives /\ \A t : QTails(t)' = QTails(t)
        /\ tarjan' \in [State -> [stack_index : Nat, lowlink : Nat]]
    BY <1>7, <1>9, <1>11, <1>14
  <2> QED BY <2>1, <2>2, <2>3, <2>4, <2>5, <2>6 DEF StackOK
<1>16. SnapshotShape'
  BY <1>14, <1>15, SnapshotFactsNext
<1>17. Snapshot'.n = n /\ Snapshot'.m = m - 1
  BY <1>7, <1>9, <1>14, <1>16 DEF SnapshotShape
<1>18. \A i \in 1..n :
         /\ Snapshot'.on[i] = Snapshot.on[i] /\ Snapshot'.succ[i] = Snapshot.succ[i]
         /\ Snapshot'.low[i] = IF i = b /\ Snapshot.low[c] < Snapshot.low[i]
                               THEN Snapshot.low[c] ELSE Snapshot.low[i]
  <2> TAKE i \in 1..n
  <2>1. /\ Snapshot.on[i] = stack[i].state_id
        /\ Snapshot.succ[i] = UNION {QNonSource(qa) : qa \in stack[i].aops}
        /\ Snapshot.low[i] = tarjan[stack[i].state_id].lowlink
    BY <1>4 DEF SnapshotShape, EntrySuccessors
  <2>2. /\ Snapshot'.on[i] = stack[i].state_id
        /\ Snapshot'.succ[i] = UNION {QNonSource(qa) : qa \in stack[i].aops}
        /\ Snapshot'.low[i] = tarjan'[stack[i].state_id].lowlink
    BY <1>14, <1>16 DEF SnapshotShape, EntrySuccessors
  <2>3. Snapshot'.low[i] = IF i = b /\ Snapshot.low[c] < Snapshot.low[i]
                           THEN Snapshot.low[c] ELSE Snapshot.low[i]
    BY <1>5, <1>8, <1>12, <2>1, <2>2 DEF low
  <2> QED BY <2>1, <2>2, <2>3
<1>19. Snapshot'.on = Snapshot.on /\ Snapshot'.succ = Snapshot.succ
  <2>1. /\ Snapshot.on \in [1..n -> State] /\ Snapshot'.on \in [1..n -> State]
        /\ Snapshot.succ \in [1..n -> SUBSET State]
        /\ Snapshot'.succ \in [1..n -> SUBSET State]
    BY <1>4, <1>16, <1>17 DEF SnapshotShape, GraphType
  <2>2. \A i \in 1..n :
          Snapshot'.on[i] = Snapshot.on[i] /\ Snapshot'.succ[i] = Snapshot.succ[i]
    BY <1>18
  <2>3. Snapshot'.on = Snapshot.on
    BY <2>1, <2>2, SameFunction
  <2>4. Snapshot'.succ = Snapshot.succ
    BY <2>1, <2>2, SameFunction
  <2> QED BY <2>3, <2>4
<1>20. \A k \in 1..(m - 1) :
         /\ Snapshot'.place[k] = Snapshot.place[k]
         /\ Snapshot'.pend[k] = Snapshot.pend[k]
         /\ Snapshot'.leaf[k] => Snapshot.leaf[k] /\ (k = m - 1 => Top.is_leaf)
  <2> TAKE k \in 1..(m - 1)
  <2>0. k \in 1..m
    BY <1>3
  <2>1. /\ Snapshot.place[k] = tarjan[q[k].state_id].stack_index
        /\ Snapshot.leaf[k] = q[k].is_leaf
        /\ Snapshot.pend[k] = {Translated(t) : t \in q[k].successors}
        /\ q[k].state_id \in State
    BY <1>4, <2>0 DEF SnapshotShape, Pending
  <2>2. /\ Snapshot'.place[k] = tarjan'[below[k].state_id].stack_index
        /\ Snapshot'.leaf[k] = below[k].is_leaf
        /\ Snapshot'.pend[k] = {Translated(t) : t \in below[k].successors}
    BY <1>7, <1>9, <1>14, <1>16 DEF SnapshotShape, Pending
  <2> QED BY <1>7, <1>13, <2>1, <2>2
<1>21. Snapshot.pend[m] = {} /\ Snapshot.leaf[m] = Top.is_leaf
  BY <1>2, <1>3, <1>4 DEF SnapshotShape, Pending
<1>22. GraphFinish(Snapshot, Snapshot')
  <2>1. GraphType(Snapshot')
    BY <1>16 DEF SnapshotShape
  <2>2. m > 0 /\ m - 1 > 0
    BY <1>3, <1>7
  <2>3. \A i \in 1..n :
          Snapshot'.low[i] = IF /\ m - 1 > 0 /\ i = Snapshot.place[m - 1]
                                /\ Snapshot.low[Snapshot.place[m]] < Snapshot.low[i]
                             THEN Snapshot.low[Snapshot.place[m]] ELSE Snapshot.low[i]
    BY <1>5, <1>8, <1>18, <2>2
  <2>4. Snapshot.low[Snapshot.place[m]] # Snapshot.place[m]
    BY <1>5
  <2> QED BY <1>4, <1>17, <1>19, <1>20, <1>21, <2>1, <2>2, <2>3, <2>4
          DEF GraphFinish
<1>23. GraphOK(Snapshot)'
  BY <1>2, <1>22, GraphFinishOK
<1>24. ControlOK' /\ ExtractOK'
  BY <1>1, <1>3, <1>14, UnwindControl DEF IInv
<1>25. SearchOK' /\ PolicyOK'
  BY <1>1, SearchSame DEF IInv
<1> QED BY <1>1, <1>14, <1>15, <1>23, <1>24, <1>25 DEF IInv

(* What is removed from the stack, and what stays.                         *)
LEMMA SplitStack ==
  ASSUME NEW R, NEW s \in Seq(R), NEW c \in 1..Len(s)
  PROVE  /\ SubSeq(s, 1, c - 1) \in Seq(R) /\ Len(SubSeq(s, 1, c - 1)) = c - 1
         /\ \A i \in 1..(c - 1) : SubSeq(s, 1, c - 1)[i] = s[i]
         /\ SubSeq(s, c, Len(s)) \in Seq(R) /\ SubSeq(s, c, Len(s)) # <<>>
         /\ DOMAIN SubSeq(s, c, Len(s)) = 1..(Len(s) - c + 1)
         /\ \A i \in 1..(Len(s) - c + 1) : SubSeq(s, c, Len(s))[i] = s[c + i - 1]
<1> DEFINE n == Len(s)
<1>1. n \in Nat /\ c \in Nat /\ 1 <= c /\ c <= n
  OBVIOUS
<1>2. \A i \in 1..(c - 1) : i \in 1..n
  BY <1>1
<1>3. \A i \in c..n : i \in 1..n
  BY <1>1
<1>4. /\ SubSeq(s, 1, c - 1) \in Seq(R) /\ Len(SubSeq(s, 1, c - 1)) = c - 1
      /\ \A i \in 1..(c - 1) : SubSeq(s, 1, c - 1)[i] = s[i]
  BY <1>1, <1>2
<1>5. /\ SubSeq(s, c, n) \in Seq(R) /\ Len(SubSeq(s, c, n)) = n - c + 1
      /\ \A i \in 1..(n - c + 1) : SubSeq(s, c, n)[i] = s[c + i - 1]
  BY <1>1, <1>3
<1>6. SubSeq(s, c, n) # <<>>
  <2> DEFINE t == SubSeq(s, c, n)
  <2>1. Len(t) # 0
    BY <1>1, <1>5
  <2> HIDE DEF t
  <2>2. t # <<>>
    BY <2>1
  <2> QED BY <2>2 DEF t
<1>7. DOMAIN SubSeq(s, c, n) = 1..(n - c + 1)
  <2> DEFINE t == SubSeq(s, c, n)
  <2>1. t \in Seq(R) /\ Len(t) = n - c + 1
    BY <1>5
  <2> HIDE DEF t, n
  <2>2. DOMAIN t = 1..Len(t)
    BY <2>1
  <2> QED BY <2>1, <2>2 DEF t
<1> QED BY <1>4, <1>5, <1>6, <1>7

(* The component of a root on top: the stack from its place on.            *)
LEMMA ComponentFacts ==
  ASSUME QuotientOK, StackOK, GraphOK(Snapshot), exploration_queue # <<>>,
         IsRoot(Top.state_id)
  PROVE  LET n == Len(stack)
             m == Len(exploration_queue)
             c == tarjan[Top.state_id].stack_index
         IN  /\ n \in Nat /\ m \in Nat /\ m \in 1..m /\ m > 0
             /\ Top = exploration_queue[m] /\ Top \in Frame /\ Top.state_id \in State
             /\ c \in 1..n /\ c = Snapshot.place[m] /\ Snapshot.low[c] = c
             /\ stack[c].state_id = Top.state_id
             /\ Snapshot.n = n /\ Snapshot.m = m
             /\ \A i \in 1..n : \A j \in 1..n : stack[i].state_id = stack[j].state_id => i = j
             /\ Scc \in Seq(Entry) /\ Scc # <<>>
             /\ DOMAIN Scc = 1..(n - c + 1)
             /\ \A i \in 1..(n - c + 1) : Scc[i] = stack[c + i - 1] /\ c + i - 1 \in c..n
             /\ \A i \in c..n : i - c + 1 \in 1..(n - c + 1) /\ Scc[i - c + 1] = stack[i]
             /\ EntryStates(Scc) = {stack[i].state_id : i \in c..n}
             /\ Scc[1].state_id = Top.state_id
             /\ Remaining \in Seq(Entry) /\ Len(Remaining) = c - 1
             /\ \A i \in 1..(c - 1) : Remaining[i] = stack[i] /\ i \in 1..n
<1> DEFINE n == Len(stack)
           m == Len(exploration_queue)
           c == tarjan[Top.state_id].stack_index
<1>1. stack \in Seq(Entry) /\ exploration_queue \in Seq(Frame) /\ n \in Nat
  BY DEF StackOK
<1>2. /\ m \in Nat /\ m \in 1..m /\ m > 0
      /\ Top = exploration_queue[m] /\ Top \in Frame /\ Top.state_id \in State
  BY <1>1, TopFacts DEF Top
<1>3. SnapshotShape /\ Snapshot.n = n /\ Snapshot.m = m
  BY SnapshotFacts DEF SnapshotShape
<1>4. c \in 1..n /\ c = Snapshot.place[m] /\ stack[c].state_id = Top.state_id
  BY <1>2, <1>3 DEF SnapshotShape
<1>5. Snapshot.low[c] = c
  BY <1>3, <1>4 DEF SnapshotShape, IsRoot
<1>6. \A i \in 1..n : \A j \in 1..n : stack[i].state_id = stack[j].state_id => i = j
  BY DEF StackOK
<1>7. Scc = SubSeq(stack, c, n) /\ Remaining = SubSeq(stack, 1, c - 1)
  BY DEF Scc, Remaining
<1> HIDE DEF c
<1>8. /\ Remaining \in Seq(Entry) /\ Len(Remaining) = c - 1
      /\ \A i \in 1..(c - 1) : Remaining[i] = stack[i]
      /\ Scc \in Seq(Entry) /\ Scc # <<>>
      /\ DOMAIN Scc = 1..(n - c + 1)
      /\ \A i \in 1..(n - c + 1) : Scc[i] = stack[c + i - 1]
  <2>1. stack \in Seq(Entry) /\ c \in 1..Len(stack)
    BY <1>1, <1>4
  <2>2. /\ SubSeq(stack, 1, c - 1) \in Seq(Entry)
        /\ Len(SubSeq(stack, 1, c - 1)) = c - 1
        /\ \A i \in 1..(c - 1) : SubSeq(stack, 1, c - 1)[i] = stack[i]
        /\ SubSeq(stack, c, n) \in Seq(Entry) /\ SubSeq(stack, c, n) # <<>>
        /\ DOMAIN SubSeq(stack, c, n) = 1..(n - c + 1)
        /\ \A i \in 1..(n - c + 1) : SubSeq(stack, c, n)[i] = stack[c + i - 1]
    BY <2>1, SplitStack
  <2> HIDE DEF n
  <2> QED BY <1>7, <2>2
<1> HIDE DEF n
<1>9. /\ \A i \in 1..(n - c + 1) : c + i - 1 \in c..n
      /\ \A i \in c..n : i - c + 1 \in 1..(n - c + 1) /\ c + (i - c + 1) - 1 = i
      /\ \A i \in 1..(c - 1) : i \in 1..n
      /\ 1 \in 1..(n - c + 1) /\ c + 1 - 1 = c
  <2>1. n \in Int /\ c \in Int /\ 1 <= c /\ c <= n
    BY <1>1, <1>4
  <2>2. \A i \in 1..(n - c + 1) : c + i - 1 \in c..n
    BY <2>1
  <2>3. \A i \in c..n : i - c + 1 \in 1..(n - c + 1) /\ c + (i - c + 1) - 1 = i
    BY <2>1
  <2>4. \A i \in 1..(c - 1) : i \in 1..n
    BY <2>1
  <2>5. 1 \in 1..(n - c + 1) /\ c + 1 - 1 = c
    BY <2>1
  <2> QED BY <2>2, <2>3, <2>4, <2>5
<1>10. \A i \in c..n : Scc[i - c + 1] = stack[i]
  BY <1>8, <1>9
<1>11. EntryStates(Scc) = {stack[i].state_id : i \in c..n}
  <2>1. \A i \in DOMAIN Scc : \E j \in c..n : Scc[i].state_id = stack[j].state_id
    BY <1>8, <1>9
  <2>2. \A j \in c..n : \E i \in DOMAIN Scc : Scc[i].state_id = stack[j].state_id
    BY <1>8, <1>9, <1>10
  <2> QED BY <2>1, <2>2 DEF EntryStates
<1>12. Scc[1].state_id = Top.state_id
  BY <1>4, <1>8, <1>9
<1> QED BY <1>1, <1>2, <1>3, <1>4, <1>5, <1>6, <1>8, <1>9, <1>10, <1>11, <1>12 DEF c, n

(* The component is something that can be collapsed.                       *)
LEMMA SccIsInput ==
  ASSUME QuotientOK, StackOK, GraphOK(Snapshot), exploration_queue # <<>>,
         IsRoot(Top.state_id)
  PROVE  CollapseInput(Scc)
<1> DEFINE n == Len(stack)
           c == tarjan[Top.state_id].stack_index
<1>1. /\ n \in Nat /\ c \in 1..n
      /\ \A i \in 1..n : \A j \in 1..n : stack[i].state_id = stack[j].state_id => i = j
      /\ Scc \in Seq(Entry) /\ Scc # <<>> /\ DOMAIN Scc = 1..(n - c + 1)
      /\ \A i \in 1..(n - c + 1) : Scc[i] = stack[c + i - 1] /\ c + i - 1 \in c..n
  BY ComponentFacts
<1>2. \A i \in c..n : i \in 1..n
  BY <1>1
<1>3. \A i \in 1..n :
        /\ stack[i].state_id \in Representatives
        /\ stack[i].aops \subseteq QTails(stack[i].state_id)
        /\ stack[i].aops # {}
  BY DEF StackOK
<1> HIDE DEF n, c
<1>4. Distinct(Scc)
  <2> SUFFICES ASSUME NEW i \in 1..(n - c + 1), NEW j \in 1..(n - c + 1),
                      Scc[i].state_id = Scc[j].state_id
               PROVE  i = j
    BY <1>1 DEF Distinct
  <2>1. c + i - 1 = c + j - 1
    BY <1>1, <1>2
  <2> QED BY <1>1, <2>1
<1>5. \A i \in DOMAIN Scc :
        /\ Scc[i].state_id \in Representatives
        /\ Scc[i].aops \subseteq QApplicable(Scc[i].state_id)
        /\ Scc[i].aops # {}
  <2> TAKE i \in DOMAIN Scc
  <2>1. /\ Scc[i].state_id \in Representatives
        /\ Scc[i].aops \subseteq QTails(Scc[i].state_id)
        /\ Scc[i].aops # {}
    BY <1>1, <1>2, <1>3
  <2> QED BY <2>1 DEF QTails
<1> QED BY <1>1, <1>4, <1>5 DEF CollapseInput

(* ... and if it counts as a leaf, it is one.                              *)
LEMMA SccIsLeaf ==
  ASSUME QuotientOK, StackOK, GraphOK(Snapshot), exploration_queue # <<>>,
         IsRoot(Top.state_id), Top.is_leaf, Top.successors = {}
  PROVE  LeafComponent(Scc)
<1> DEFINE n == Len(stack)
           m == Len(exploration_queue)
           c == tarjan[Top.state_id].stack_index
           E == EntryStates(Scc)
<1>1. /\ n \in Nat /\ m \in 1..m /\ m > 0 /\ c \in 1..n
      /\ c = Snapshot.place[m] /\ Snapshot.low[c] = c /\ Snapshot.n = n /\ Snapshot.m = m
      /\ Top = exploration_queue[m]
      /\ DOMAIN Scc = 1..(n - c + 1)
      /\ \A i \in 1..(n - c + 1) : Scc[i] = stack[c + i - 1] /\ c + i - 1 \in c..n
      /\ \A i \in c..n : i - c + 1 \in 1..(n - c + 1) /\ Scc[i - c + 1] = stack[i]
      /\ E = {stack[i].state_id : i \in c..n}
  BY ComponentFacts
<1>2. \A i \in c..n : i \in 1..n
  BY <1>1
<1>3. SnapshotShape
  BY SnapshotFacts
<1>4. \A i \in c..n :
        /\ Snapshot.on[i] = stack[i].state_id
        /\ Snapshot.succ[i] = UNION {QNonSource(qa) : qa \in stack[i].aops}
  BY <1>2, <1>3 DEF SnapshotShape, EntrySuccessors
<1>5. Snapshot.leaf[m] /\ Snapshot.pend[m] = {}
  <2>1. Snapshot.leaf[m] = Top.is_leaf /\ Snapshot.pend[m] = Pending(Top)
    BY <1>1, <1>3 DEF SnapshotShape
  <2>2. Pending(Top) = {}
    BY DEF Pending
  <2> QED BY <2>1, <2>2
<1> HIDE DEF n, m, c, E
<1>8. /\ Snapshot.m > 0 /\ Snapshot.place[Snapshot.m] = c /\ Snapshot.n = n
      /\ Snapshot.low[c] = c /\ Snapshot.leaf[Snapshot.m]
      /\ Snapshot.pend[Snapshot.m] = {}
  BY <1>1, <1>5
<1>9. E = {stack[i].state_id : i \in c..n}
  BY <1>1
<1>6. ASSUME NEW i \in DOMAIN Scc, NEW qa \in Scc[i].aops
      PROVE  QNonSource(qa) \subseteq E
  <2> DEFINE k == c + i - 1
  <2>1. k \in c..n /\ qa \in stack[k].aops
    BY <1>1
  <2> HIDE DEF k
  <2>2. ASSUME NEW t \in QNonSource(qa) PROVE t \in E
    <3>1. t \in Snapshot.succ[k]
      BY <1>4, <2>1
    <3>2. PICK j \in c..n : t = Snapshot.on[j]
      BY <1>8, <2>1, <3>1, ComponentClosed
    <3>3. t = stack[j].state_id
      BY <1>4, <3>2
    <3> QED BY <1>9, <3>3
  <2> QED BY <2>2
<1>7. ASSUME NEW X \in SUBSET E, X # {},
             \A i \in DOMAIN Scc : \A qa \in Scc[i].aops :
               QNonSource(qa) \intersect X # {} => Scc[i].state_id \in X
      PROVE  X = E
  <2> DEFINE Y == {i \in c..n : stack[i].state_id \in X}
  <2>1. Y \in SUBSET (c..n) /\ Y # {}
    BY <1>7, <1>9
  <2>2. ASSUME NEW i \in c..n, NEW j \in c..n, j \in Y, Steps(Snapshot, i, j)
        PROVE  i \in Y
    <3>1. stack[j].state_id \in X /\ stack[j].state_id \in Snapshot.succ[i]
      BY <1>4, <2>2 DEF Steps
    <3>2. PICK qa \in stack[i].aops : stack[j].state_id \in QNonSource(qa)
      BY <1>4, <3>1
    <3>3. i - c + 1 \in DOMAIN Scc /\ Scc[i - c + 1] = stack[i]
      BY <1>1
    <3>4. stack[i].state_id \in X
      BY <1>7, <3>1, <3>2, <3>3
    <3> QED BY <3>4
  <2> HIDE DEF Y
  <2>3. Y = c..n
    BY <1>8, <2>1, <2>2, ComponentConnected
  <2>4. \A i \in c..n : stack[i].state_id \in X
    BY <2>3 DEF Y
  <2> QED BY <1>9, <2>4
<1> QED BY <1>6, <1>7 DEF LeafComponent, E

(* The component leaves the stack; the states of the view may be renamed.  *)
LEMMA PopOK ==
  ASSUME QuotientOK, QuotientOK', StackOK, GraphOK(Snapshot),
         exploration_queue # <<>>, IsRoot(Top.state_id),
         NEW trap, Unwind(Closed, TRUE, trap), stack' = Remaining,
         initial_state' = initial_state,
         NEW ren \in [State -> State],
         \A t \in State : Translated(t)' = ren[Translated(t)],
         \A t \in Representatives : t \in Representatives' \/ tarjan[t].lowlink # 0,
         \A i \in 1..(tarjan[Top.state_id].stack_index - 1) :
           /\ stack[i].state_id \in Representatives'
           /\ \A s \in State : s = stack[i].state_id => stack[i].aops \subseteq QTails(s)'
           /\ \A qa \in stack[i].aops :
                QNonSource(qa)' = {ren[t] : t \in QNonSource(qa)}
           /\ ren[stack[i].state_id] = stack[i].state_id
           /\ \A t \in State : ren[t] = stack[i].state_id => t = stack[i].state_id
  PROVE  StackOK' /\ GraphOK(Snapshot)'
<1> DEFINE q == exploration_queue
           n == Len(stack)
           m == Len(exploration_queue)
           top == Top.state_id
           c == tarjan[Top.state_id].stack_index
           below == FramesBelow(TRUE)
<1>1. /\ n \in Nat /\ m \in Nat /\ m \in 1..m /\ m > 0
      /\ top \in State /\ Top = q[m]
      /\ c \in 1..n /\ c = Snapshot.place[m] /\ Snapshot.low[c] = c
      /\ stack[c].state_id = top
      /\ Snapshot.n = n /\ Snapshot.m = m
      /\ \A i \in 1..n : \A j \in 1..n : stack[i].state_id = stack[j].state_id => i = j
      /\ \A i \in c..n : i - c + 1 \in 1..(n - c + 1) /\ Scc[i - c + 1] = stack[i]
      /\ EntryStates(Scc) = {stack[i].state_id : i \in c..n}
      /\ Remaining \in Seq(Entry) /\ Len(Remaining) = c - 1
      /\ \A i \in 1..(c - 1) : Remaining[i] = stack[i] /\ i \in 1..n
  BY ComponentFacts
<1>2. /\ q \in Seq(Frame) /\ q # <<>>
      /\ tarjan \in [State -> [stack_index : Nat, lowlink : Nat]]
      /\ \A i \in 1..n :
           /\ stack[i].state_id \in Representatives
           /\ stack[i].aops \subseteq QTails(stack[i].state_id)
           /\ stack[i].aops # {}
           /\ tarjan[stack[i].state_id].stack_index = i
           /\ tarjan[stack[i].state_id].lowlink \in 1..i
      /\ \A s \in State : tarjan[s].stack_index # 0 =>
           /\ tarjan[s].stack_index \in 1..n
           /\ stack[tarjan[s].stack_index].state_id = s
      /\ stack # <<>> => stack[1].state_id = initial_state
      /\ \A k \in 1..m :
           /\ tarjan[q[k].state_id].stack_index # 0
           /\ \A t \in q[k].successors : t \in Representatives \/ tarjan[t].lowlink # 0
  BY DEF StackOK
<1>3. SnapshotShape
  BY SnapshotFacts
<1>4. /\ below \in Seq(Frame) /\ Len(below) = m - 1 /\ m - 1 \in Nat
      /\ \A k \in 1..(m - 1) :
           /\ below[k].state_id = q[k].state_id
           /\ below[k].successors = q[k].successors
           /\ below[k].is_leaf = (q[k].is_leaf /\ ~(k = m - 1))
      /\ below = <<>> <=> m = 1
      /\ m # 1 => m - 1 \in 1..(m - 1) /\ Last(below).state_id = q[m - 1].state_id
  BY <1>2, FramesBelowFacts
<1>5. /\ tarjan[top].lowlink = c /\ tarjan[top].stack_index = c
      /\ \A i \in 1..n : stack[i].state_id \in State
      /\ \A i \in 1..(c - 1) : i \in 1..n /\ i < c
      /\ \A i \in 1..n : i < c => i \in 1..(c - 1)
      /\ \A i \in 1..n : ~(i < c) => i \in c..n
      /\ \A i \in c..n : i \in 1..n /\ ~(i < c)
  <2>1. tarjan[top].lowlink = c
    BY <1>1, <1>3, SMTT(30) DEF SnapshotShape
  <2>2. \A i \in 1..n : stack[i].state_id \in State
    BY <1>3 DEF SnapshotShape
  <2>3. /\ \A i \in 1..(c - 1) : i \in 1..n /\ i < c
        /\ \A i \in 1..n : i < c => i \in 1..(c - 1)
        /\ \A i \in 1..n : ~(i < c) => i \in c..n
        /\ \A i \in c..n : i \in 1..n /\ ~(i < c)
    <3>1. n \in Int /\ c \in Int /\ 1 <= c /\ c <= n
      BY <1>1
    <3> HIDE DEF n, c
    <3> QED BY <3>1
  <2> QED BY <2>1, <2>2, <2>3
<1>6. exploration_queue' = below
  BY DEF Unwind
<1> DEFINE states == {stack[i].state_id : i \in c..n}
<1>7. Closed = [s \in State |-> IF s \in states
                                THEN [tarjan[s] EXCEPT !.stack_index = 0]
                                ELSE tarjan[s]]
  <2>1. {Scc[i].state_id : i \in DOMAIN Scc} = states
    BY <1>1 DEF EntryStates
  <2> QED BY <2>1 DEF Closed
<1> HIDE DEF n, c, below, m
<1>8. /\ Closed \in [State -> [stack_index : Nat, lowlink : Nat]]
      /\ \A s \in State : Closed[s].lowlink = tarjan[s].lowlink
      /\ \A s \in State : s \in states => Closed[s].stack_index = 0
      /\ \A s \in State : s \notin states => Closed[s] = tarjan[s]
  BY <1>2, <1>7
<1> HIDE DEF states
<1>9. /\ \A i \in 1..(c - 1) : stack[i].state_id \notin states
      /\ \A i \in c..n : stack[i].state_id \in states
  <2>1. \A i \in 1..(c - 1) : \A j \in c..n : stack[i].state_id # stack[j].state_id
    BY <1>1, <1>5
  <2> QED BY <2>1 DEF states
<1>10. \A k \in 1..(m - 1) :
         /\ k \in 1..m /\ q[k].state_id \in State
         /\ tarjan[q[k].state_id].stack_index = Snapshot.place[k]
         /\ Snapshot.place[k] \in 1..(c - 1)
         /\ stack[Snapshot.place[k]].state_id = q[k].state_id
  <2> TAKE k \in 1..(m - 1)
  <2>1. k \in 1..m /\ k < m
    BY <1>1
  <2>2. /\ q[k].state_id \in State
        /\ tarjan[q[k].state_id].stack_index = Snapshot.place[k]
        /\ Snapshot.place[k] \in 1..n
        /\ stack[Snapshot.place[k]].state_id = q[k].state_id
    BY <1>3, <2>1 DEF SnapshotShape, n, m
  <2>3. Snapshot.place[k] < c
    BY <1>1, <2>1, GraphFacts
  <2> QED BY <1>5, <2>1, <2>2, <2>3
<1>11. tarjan' \in [State -> [stack_index : Nat, lowlink : Nat]]
       /\ \A s \in State : tarjan'[s] = Closed[s]
  <2>1. CASE m = 1
    <3>1. tarjan' = Closed
      BY <1>4, <2>1 DEF Unwind, below
    <3> QED BY <1>8, <3>1
  <2>2. CASE m # 1
    <3> DEFINE bot == q[m - 1].state_id
               b == Snapshot.place[m - 1]
    <3>1. /\ m - 1 \in 1..(m - 1) /\ Last(below).state_id = bot /\ below # <<>>
      BY <1>4, <2>2
    <3>2. /\ bot \in State /\ b \in 1..(c - 1) /\ stack[b].state_id = bot
      BY <1>10, <3>1
    <3>3. Closed[bot] = tarjan[bot] /\ tarjan[bot].lowlink \in 1..b
      <4> HIDE DEF b
      <4> QED BY <1>2, <1>5, <1>8, <1>9, <3>2
    <3>4. Min({Closed[bot].lowlink, tarjan[top].lowlink}) = Closed[bot].lowlink
      <4>1. tarjan[bot].lowlink \in Int /\ ~(c < tarjan[bot].lowlink) /\ c \in Int
        <5>1. b \in Int /\ b <= c - 1 /\ c \in Int
          BY <1>1, <3>2
        <5>2. tarjan[bot].lowlink \in Int /\ tarjan[bot].lowlink <= b
          BY <3>3, <5>1
        <5> HIDE DEF b
        <5> QED BY <5>1, <5>2
      <4> QED BY <1>5, <3>3, <4>1, MinOfTwo
    <3>5. tarjan' = [Closed EXCEPT ![bot].lowlink = Closed[bot].lowlink]
      <4>1. tarjan' = [Closed EXCEPT ![Last(below).state_id].lowlink =
                         Min({@, tarjan[top].lowlink})]
        BY <3>1 DEF Unwind, below
      <4>2. tarjan' = [Closed EXCEPT ![bot].lowlink =
                         Min({Closed[bot].lowlink, tarjan[top].lowlink})]
        BY <3>1, <4>1
      <4> QED BY <3>4, <4>2
    <3>6. [Closed[bot] EXCEPT !.lowlink = Closed[bot].lowlink] = Closed[bot]
      BY <1>8, <3>2
    <3> HIDE DEF bot
    <3> QED BY <1>8, <3>2, <3>5, <3>6
  <2> QED BY <2>1, <2>2
<1>12. \A i \in 1..(c - 1) : tarjan'[stack[i].state_id] = tarjan[stack[i].state_id]
  BY <1>5, <1>8, <1>9, <1>11
<1>13. /\ stack' \in Seq(Entry) /\ Len(stack') = c - 1
       /\ \A i \in 1..(c - 1) : stack'[i] = stack[i] /\ i \in 1..n
  BY <1>1
<1>14. \A i \in 1..(c - 1) :
         /\ stack[i].state_id \in Representatives'
         /\ \A s \in State : s = stack[i].state_id => stack[i].aops \subseteq QTails(s)'
         /\ \A qa \in stack[i].aops :
              QNonSource(qa)' = {ren[t] : t \in QNonSource(qa)}
         /\ ren[stack[i].state_id] = stack[i].state_id
         /\ \A t \in State : ren[t] = stack[i].state_id => t = stack[i].state_id
  BY DEF c
<1>15. StackOK'
  <2>1. \A i \in 1..(c - 1) :
          /\ stack'[i].state_id \in Representatives'
          /\ (stack[i].aops \subseteq QTails(stack[i].state_id))'
          /\ stack'[i].aops # {}
          /\ tarjan'[stack'[i].state_id].stack_index = i
          /\ tarjan'[stack'[i].state_id].lowlink \in 1..i
    <3> TAKE i \in 1..(c - 1)
    <3>1. stack'[i] = stack[i] /\ i \in 1..n /\ stack[i].state_id \in State
      BY <1>5, <1>13
    <3>2. /\ stack[i].aops # {}
          /\ tarjan'[stack[i].state_id].stack_index = i
          /\ tarjan'[stack[i].state_id].lowlink \in 1..i
      BY <1>2, <1>12, <3>1
    <3>3. /\ stack[i].state_id \in Representatives'
          /\ \A s \in State : s = stack[i].state_id => stack[i].aops \subseteq QTails(s)'
      BY <1>14
    <3> QED BY <3>1, <3>2, <3>3
  <2>2. ASSUME NEW s \in State, tarjan'[s].stack_index # 0
        PROVE  /\ tarjan'[s].stack_index \in 1..(c - 1)
               /\ stack'[tarjan'[s].stack_index].state_id = s
    <3>1. s \notin states /\ tarjan'[s] = tarjan[s]
      BY <1>8, <1>11, <2>2
    <3>2. /\ tarjan[s].stack_index \in 1..n
          /\ stack[tarjan[s].stack_index].state_id = s
      BY <1>2, <2>2, <3>1
    <3>3. tarjan[s].stack_index \in 1..(c - 1)
      BY <1>5, <1>9, <3>1, <3>2
    <3> QED BY <1>13, <3>1, <3>2, <3>3
  <2>3. stack' # <<>> => stack'[1].state_id = initial_state
    <3> HAVE stack' # <<>>
    <3>1. 1 \in 1..(c - 1)
      BY <1>1, <1>13
    <3>2. 1 \in 1..n /\ stack # <<>>
      BY <1>13, <3>1 DEF n
    <3> QED BY <1>2, <1>13, <3>1, <3>2
  <2>4. \A k \in 1..(m - 1) :
          /\ tarjan'[below[k].state_id].stack_index # 0
          /\ \A t \in below[k].successors :
               t \in Representatives' \/ tarjan'[t].lowlink # 0
    <3> TAKE k \in 1..(m - 1)
    <3>1. tarjan'[q[k].state_id] = tarjan[q[k].state_id]
      BY <1>10, <1>12
    <3>2. q[k].successors \subseteq State
      <4>1. q[k] \in Frame
        BY <1>2, <1>10 DEF m
      <4> QED BY <4>1 DEF Frame
    <3>3. \A t \in q[k].successors : t \in Representatives \/ tarjan[t].lowlink # 0
      BY <1>2, <1>10
    <3>4. \A t \in q[k].successors : tarjan'[t].lowlink = tarjan[t].lowlink
      BY <1>8, <1>11, <3>2
    <3>5. tarjan[q[k].state_id].stack_index # 0
      BY <1>2, <1>10
    <3>6. /\ below[k].state_id = q[k].state_id
          /\ below[k].successors = q[k].successors
      BY <1>4
    <3>7. \A t \in q[k].successors : t \in Representatives' \/ tarjan'[t].lowlink # 0
      BY <3>3, <3>4
    <3> QED BY <3>1, <3>5, <3>6, <3>7
  <2> QED BY <1>4, <1>6, <1>11, <1>13, <2>1, <2>2, <2>3, <2>4 DEF StackOK
<1>16. SnapshotShape'
  BY <1>15, SnapshotFactsNext
<1>17. Snapshot'.n = c - 1 /\ Snapshot'.m = m - 1
  BY <1>4, <1>6, <1>13, <1>16 DEF SnapshotShape
<1>18. \A i \in 1..(c - 1) :
         /\ Snapshot'.on[i] = Snapshot.on[i] /\ Snapshot'.low[i] = Snapshot.low[i]
         /\ Snapshot'.succ[i] = {ren[t] : t \in Snapshot.succ[i]}
         /\ Snapshot.on[i] = stack[i].state_id
  <2> TAKE i \in 1..(c - 1)
  <2>1. /\ Snapshot.on[i] = stack[i].state_id
        /\ Snapshot.succ[i] = UNION {QNonSource(qa) : qa \in stack[i].aops}
        /\ Snapshot.low[i] = tarjan[stack[i].state_id].lowlink
    BY <1>3, <1>13 DEF SnapshotShape, EntrySuccessors, n
  <2>2. /\ Snapshot'.on[i] = stack[i].state_id
        /\ Snapshot'.succ[i] = UNION {QNonSource(qa)' : qa \in stack[i].aops}
        /\ Snapshot'.low[i] = tarjan'[stack[i].state_id].lowlink
    BY <1>13, <1>16 DEF SnapshotShape, EntrySuccessors
  <2>3. UNION {QNonSource(qa)' : qa \in stack[i].aops}
          = {ren[t] : t \in UNION {QNonSource(qa) : qa \in stack[i].aops}}
    BY <1>14
  <2> QED BY <1>12, <2>1, <2>2, <2>3
<1>19. \A k \in 1..(m - 1) :
         /\ Snapshot'.place[k] = Snapshot.place[k]
         /\ Snapshot'.pend[k] = {ren[t] : t \in Snapshot.pend[k]}
         /\ Snapshot'.leaf[k] => Snapshot.leaf[k] /\ k # m - 1
  <2> TAKE k \in 1..(m - 1)
  <2>1. /\ Snapshot.place[k] = tarjan[q[k].state_id].stack_index
        /\ Snapshot.leaf[k] = q[k].is_leaf
        /\ Snapshot.pend[k] = {Translated(t) : t \in q[k].successors}
    BY <1>3, <1>10 DEF SnapshotShape, Pending, m
  <2>2. /\ Snapshot'.place[k] = tarjan'[below[k].state_id].stack_index
        /\ Snapshot'.leaf[k] = below[k].is_leaf
        /\ Snapshot'.pend[k] = {Translated(t)' : t \in below[k].successors}
    BY <1>4, <1>6, <1>16 DEF SnapshotShape, Pending
  <2>3. tarjan'[q[k].state_id] = tarjan[q[k].state_id]
    BY <1>10, <1>12
  <2>4. q[k].successors \subseteq State
    <3>1. q[k] \in Frame
      BY <1>2, <1>10 DEF m
    <3> QED BY <3>1 DEF Frame
  <2>5. {Translated(t)' : t \in q[k].successors}
          = {ren[t] : t \in {Translated(t) : t \in q[k].successors}}
    BY <2>4
  <2> QED BY <1>4, <2>1, <2>2, <2>3, <2>5, ZenonT(60)
<1>20. GraphPop(Snapshot, Snapshot', ren)
  <2>1. GraphType(Snapshot')
    BY <1>16 DEF SnapshotShape
  <2>2. /\ Snapshot.m > 0 /\ Snapshot.low[Snapshot.place[Snapshot.m]] = Snapshot.place[Snapshot.m]
        /\ Snapshot'.n = Snapshot.place[Snapshot.m] - 1 /\ Snapshot'.m = Snapshot.m - 1
    BY <1>1, <1>17
  <2>3. \A i \in 1..Snapshot'.n :
          /\ Snapshot'.on[i] = Snapshot.on[i] /\ Snapshot'.low[i] = Snapshot.low[i]
          /\ Snapshot'.succ[i] = {ren[t] : t \in Snapshot.succ[i]}
          /\ ren[Snapshot.on[i]] = Snapshot.on[i]
          /\ \A t \in State : ren[t] = Snapshot.on[i] => t = Snapshot.on[i]
    BY <1>14, <1>17, <1>18
  <2>4. \A k \in 1..Snapshot'.m :
          /\ Snapshot'.place[k] = Snapshot.place[k]
          /\ Snapshot'.pend[k] = {ren[t] : t \in Snapshot.pend[k]}
          /\ Snapshot'.leaf[k] => Snapshot.leaf[k] /\ k # Snapshot'.m
    BY <1>17, <1>19
  <2> QED BY <2>1, <2>2, <2>3, <2>4 DEF GraphPop
<1>21. GraphOK(Snapshot)'
  BY <1>20, GraphPopOK
<1> QED BY <1>15, <1>21

LEMMA InvCloseComponent == IInv /\ CloseComponent => IInv'
<1> SUFFICES ASSUME IInv, CloseComponent PROVE IInv'
  OBVIOUS
<1> DEFINE ren == [t \in State |-> t]
           c == tarjan[Top.state_id].stack_index
<1>1. /\ pc = "unwind" /\ graph' = graph /\ IsRoot(Top.state_id)
      /\ stack' = Remaining /\ Unwind(Closed, TRUE, counters.trap)
      /\ UNCHANGED <<initial_state, quotient_vars, search_vars>>
  BY DEF CloseComponent
<1>2. /\ QuotientOK /\ StackOK /\ GraphOK(Snapshot) /\ exploration_queue # <<>>
  BY <1>1 DEF IInv, ControlOK
<1>3. /\ QuotientOK' /\ TrapsClosed' /\ Representatives' = Representatives
      /\ \A t : Translated(t)' = Translated(t)
      /\ \A t : QTails(t)' = QTails(t)
      /\ \A qa : QNonSource(qa)' = QNonSource(qa)
  BY <1>1, ViewSame DEF IInv
<1>4. /\ ren \in [State -> State]
      /\ \A t \in State : ren[t] = t
  OBVIOUS
<1> HIDE DEF ren
<1>5. \A t \in State : Translated(t)' = ren[Translated(t)]
  BY <1>2, <1>3, <1>4, IdFacts
<1>6. /\ c \in 1..Len(stack) /\ \A i \in 1..(c - 1) : i \in 1..Len(stack)
      /\ \A i \in 1..Len(stack) : stack[i] \in Entry
  <2>1. \A i \in 1..Len(stack) : stack[i] \in Entry
    BY <1>2, SnapshotFacts DEF SnapshotShape
  <2> QED BY <1>1, <1>2, <2>1, ComponentFacts
<1>7. ASSUME NEW i \in 1..(c - 1)
      PROVE  /\ stack[i].state_id \in Representatives'
             /\ \A s \in State : s = stack[i].state_id => stack[i].aops \subseteq QTails(s)'
             /\ \A qa \in stack[i].aops :
                  QNonSource(qa)' = {ren[t] : t \in QNonSource(qa)}
             /\ ren[stack[i].state_id] = stack[i].state_id
             /\ \A t \in State : ren[t] = stack[i].state_id => t = stack[i].state_id
  <2>1. /\ stack[i].state_id \in Representatives /\ stack[i].state_id \in State
        /\ stack[i].aops \subseteq QTails(stack[i].state_id)
    BY <1>2, <1>6 DEF StackOK, Representatives
  <2>2. ASSUME NEW qa \in stack[i].aops
        PROVE  QNonSource(qa)' = {ren[t] : t \in QNonSource(qa)}
    <3>1. QNonSource(qa) \subseteq State
      BY <1>2, <2>1, QTailsType DEF Representatives
    <3>2. QNonSource(qa)' = QNonSource(qa)
      BY <1>3
    <3>3. \A t \in QNonSource(qa) : ren[t] = t
      BY <1>4, <3>1
    <3>4. QNonSource(qa) = {ren[t] : t \in QNonSource(qa)}
      BY <3>3
    <3> QED BY <3>2, <3>4
  <2> QED BY <1>3, <1>4, <2>1, <2>2
<1>8. StackOK' /\ GraphOK(Snapshot)'
  BY <1>1, <1>2, <1>3, <1>4, <1>5, <1>7, PopOK
<1>9. ControlOK' /\ ExtractOK'
  BY <1>1, <1>3, UnwindControl DEF IInv
<1>10. SearchOK' /\ PolicyOK'
  BY <1>1, SearchSame DEF IInv
<1> QED BY <1>1, <1>3, <1>8, <1>9, <1>10 DEF IInv

LEMMA InvCollapseTrap == IInv /\ CollapseTrap => IInv'
<1> SUFFICES ASSUME IInv, CollapseTrap PROVE IInv'
  OBVIOUS
<1> DEFINE c == tarjan[Top.state_id].stack_index
           n == Len(stack)
           E == EntryStates(Scc)
           rid == Top.state_id
           ren == [t \in State |-> IF t \in E THEN rid ELSE t]
<1>1. /\ pc = "unwind" /\ graph' = graph /\ IsRoot(Top.state_id) /\ Top.is_leaf
      /\ stack' = Remaining /\ Unwind(Closed, TRUE, TRUE)
      /\ BuildQuotient(Scc)
      /\ flag' = [flag EXCEPT ![rid] = "fringe"]
      /\ policy' = [policy EXCEPT ![rid] = NoAction]
      /\ initial_state' = initial_state /\ value' = value
  BY DEF CollapseTrap
<1>2. /\ QuotientOK /\ StackOK /\ GraphOK(Snapshot) /\ exploration_queue # <<>>
      /\ Top.successors = {} /\ TrapsClosed
  BY <1>1 DEF IInv, ControlOK
<1>3. /\ n \in Nat /\ c \in 1..n /\ stack[c].state_id = rid /\ rid \in State
      /\ \A i \in 1..n : \A j \in 1..n : stack[i].state_id = stack[j].state_id => i = j
      /\ E = {stack[i].state_id : i \in c..n}
      /\ Scc[1].state_id = rid
      /\ \A i \in 1..(c - 1) : i \in 1..n
  BY <1>1, <1>2, ComponentFacts
<1>4. CollapseInput(Scc) /\ LeafComponent(Scc)
  BY <1>1, <1>2, SccIsInput, SccIsLeaf
<1>5. /\ QuotientOK' /\ TrapsClosed'
      /\ rid \in E /\ E \subseteq Representatives /\ E \subseteq State
      /\ \A s \in State : Translated(s)' = IF Translated(s) \in E THEN rid
                                           ELSE Translated(s)
      /\ Representatives' = (Representatives \ E) \union {rid}
      /\ \A r \in Representatives \ E : QTails(r)' = QTails(r)
      /\ \A qa : \A m \in State : \A a \in Applicable(m) :
           qa[1] = m /\ qa[2] = a /\ Translated(m) \notin E =>
             QNonSource(qa)' = {IF t \in E THEN rid ELSE t : t \in QNonSource(qa)}
  <2>1. PICK sub : sub = Scc
    OBVIOUS
  <2>2. CollapseInput(sub) /\ BuildQuotient(sub) /\ LeafComponent(sub)
    BY <1>1, <1>4, <2>1
  <2>3. E = EntryStates(sub) /\ sub[1].state_id = rid
    BY <1>3, <2>1
  <2> HIDE DEF E, rid
  <2>4. QuotientOK' /\ TrapsClosed'
    BY <1>2, <2>2, BuildQuotientOK, BuildTraps
  <2>5. /\ rid \in E /\ E \subseteq Representatives /\ E \subseteq State
        /\ \A s \in State : Translated(s)' = IF Translated(s) \in E THEN rid
                                             ELSE Translated(s)
    BY <1>2, <2>2, <2>3, BuildEffect
  <2>6. Representatives' = (Representatives \ E) \union {rid}
    BY <1>2, <2>2, <2>3, BuildMembers
  <2>7. \A r \in Representatives \ E : QTails(r)' = QTails(r)
    BY <1>2, <2>2, <2>3, BuildTails
  <2>8. ASSUME NEW qa, NEW m \in State, NEW a \in Applicable(m),
               qa[1] = m, qa[2] = a, Translated(m) \notin E
        PROVE  QNonSource(qa)' = {IF t \in E THEN rid ELSE t : t \in QNonSource(qa)}
    <3>1. LET e == EntryStates(sub)
              r == sub[1].state_id
          IN  QNonSource(qa)' = {IF t \in e THEN r ELSE t : t \in QNonSource(qa)}
      BY <1>2, <2>2, <2>3, <2>8, BuildSuccessors
    <3> QED BY <2>3, <3>1
  <2> QED BY <2>4, <2>5, <2>6, <2>7, <2>8
<1>6. /\ ren \in [State -> State]
      /\ \A t \in State : ren[t] = IF t \in E THEN rid ELSE t
  BY <1>3
<1> HIDE DEF ren, E, c, n
<1>7. \A t \in State : Translated(t)' = ren[Translated(t)]
  BY <1>2, <1>5, <1>6, IdFacts
<1>8. \A t \in Representatives : t \in Representatives' \/ tarjan[t].lowlink # 0
  <2> SUFFICES ASSUME NEW t \in Representatives, t \in E PROVE tarjan[t].lowlink # 0
    BY <1>5
  <2>1. PICK i \in c..n : t = stack[i].state_id
    BY <1>3
  <2>2. i \in 1..n
    BY <1>3, <2>1
  <2>3. tarjan[stack[i].state_id].lowlink \in 1..i
    BY <1>2, <2>2 DEF StackOK, n
  <2> QED BY <2>1, <2>2, <2>3
<1>9. ASSUME NEW i \in 1..(c - 1)
      PROVE  /\ stack[i].state_id \in Representatives \ E
             /\ stack[i].state_id # rid
             /\ stack[i].aops \subseteq QTails(stack[i].state_id)
             /\ stack[i].state_id \in State
  <2>1. i \in 1..n
    BY <1>3
  <2>2. /\ stack[i].state_id \in Representatives
        /\ stack[i].aops \subseteq QTails(stack[i].state_id)
    BY <1>2, <2>1 DEF StackOK, n
  <2>3. \A j \in c..n : j \in 1..n /\ i # j
    BY <1>3
  <2>4. stack[i].state_id \notin E
    BY <1>3, <2>1, <2>3
  <2> QED BY <1>5, <2>2, <2>4 DEF Representatives
<1>10. ASSUME NEW i \in 1..(c - 1)
       PROVE  /\ stack[i].state_id \in Representatives'
              /\ \A s \in State : s = stack[i].state_id => stack[i].aops \subseteq QTails(s)'
              /\ \A qa \in stack[i].aops :
                   QNonSource(qa)' = {ren[t] : t \in QNonSource(qa)}
              /\ ren[stack[i].state_id] = stack[i].state_id
              /\ \A t \in State : ren[t] = stack[i].state_id => t = stack[i].state_id
  <2>1. \A s \in State : s = stack[i].state_id => stack[i].aops \subseteq QTails(s)'
    BY <1>5, <1>9
  <2>2. ASSUME NEW qa \in stack[i].aops
        PROVE  QNonSource(qa)' = {ren[t] : t \in QNonSource(qa)}
    <3>1. /\ qa[1] \in State /\ qa[2] \in Applicable(qa[1])
          /\ Translated(qa[1]) = Translated(stack[i].state_id)
          /\ QNonSource(qa) \subseteq Representatives
      BY <1>2, <1>9, QTailsType
    <3>2. Translated(qa[1]) \notin E
      BY <1>9, <3>1 DEF Representatives
    <3>3. QNonSource(qa)' = {IF t \in E THEN rid ELSE t : t \in QNonSource(qa)}
      BY <1>5, <3>1, <3>2
    <3>4. \A t \in QNonSource(qa) : ren[t] = IF t \in E THEN rid ELSE t
      BY <1>6, <3>1 DEF Representatives
    <3> QED BY <3>3, <3>4
  <2>3. /\ stack[i].state_id \in Representatives'
        /\ ren[stack[i].state_id] = stack[i].state_id
        /\ \A t \in State : ren[t] = stack[i].state_id => t = stack[i].state_id
    BY <1>5, <1>6, <1>9
  <2> QED BY <2>1, <2>2, <2>3
<1>11. StackOK' /\ GraphOK(Snapshot)'
  BY <1>1, <1>2, <1>5, <1>6, <1>7, <1>8, <1>10, PopOK DEF c
<1>12. initial_state \in Representatives'
  <2>1. stack[1].state_id = initial_state
    <3>1. stack # <<>>
      BY <1>3 DEF n
    <3> QED BY <1>2, <3>1 DEF StackOK
  <2>2. CASE c = 1
    BY <1>3, <1>5, <2>1, <2>2
  <2>3. CASE c # 1
    <3>1. 1 \in 1..(c - 1)
      BY <1>3, <2>3
    <3> QED BY <1>10, <2>1, <3>1
  <2> QED BY <2>2, <2>3
<1>13. ControlOK' /\ ExtractOK'
  BY <1>1, <1>12, UnwindControl DEF IInv
<1>14. SearchOK'
  <2>1. SearchOK
    BY DEF IInv
  <2> QED BY <1>1, <1>3, <2>1 DEF SearchOK, StateFlag
<1>15. PolicyOK'
  <2>1. PolicyOK /\ SearchOK
    BY DEF IInv
  <2>2. ASSUME NEW s \in Representatives'
        PROVE  policy'[s] = NoAction \/ policy'[s] \in QTails(s)'
    <3>1. s \in State /\ (s = rid \/ s \in Representatives \ E)
      BY <1>3, <1>5, <2>2 DEF Representatives
    <3>2. CASE s = rid
      BY <1>1, <2>1, <3>1, <3>2 DEF SearchOK
    <3>3. CASE s # rid
      <4>1. policy'[s] = policy[s]
        BY <1>1, <2>1, <3>1, <3>3 DEF SearchOK
      <4>2. QTails(s)' = QTails(s)
        BY <1>5, <3>1, <3>3
      <4> QED BY <2>1, <3>1, <3>3, <4>1, <4>2 DEF PolicyOK
    <3> QED BY <3>2, <3>3
  <2> QED BY <2>2 DEF PolicyOK
<1>16. initial_state' \in Representatives' /\ graph' \in {"policy", "value"}
  BY <1>1, <1>12 DEF IInv
<1> QED BY <1>5, <1>11, <1>13, <1>14, <1>15, <1>16 DEF IInv

(* The states that are visited are those the policy of the view leads to.  *)
LEMMA InvExtract == IInv /\ Extract => IInv'
<1> SUFFICES ASSUME IInv, Extract PROVE IInv'
  OBVIOUS
<1>1. /\ pc = "extract" /\ pc' = pc /\ graph' = graph
      /\ UNCHANGED <<initial_state, quotient_vars, search_vars, tarjan,
                     exploration_queue, stack>>
  BY DEF Extract, trap_vars
<1>2. PICK s \in queue : VisitTerminal(s) \/ VisitDecision(s)
  BY DEF Extract
<1>3. /\ QuotientOK' /\ TrapsClosed' /\ Representatives' = Representatives
  BY <1>1, ViewSame DEF IInv
<1>4. StackOK' /\ GraphOK(Snapshot)'
  BY <1>1, StackSame DEF IInv
<1>5. SearchOK' /\ PolicyOK'
  BY <1>1, SearchSame DEF IInv
<1>6. ControlOK'
  BY <1>1 DEF IInv, ControlOK, PCs
<1>7. /\ queue \subseteq visited /\ visited \subseteq State
      /\ visited \subseteq Representatives
      /\ decision \in [State -> Action \union {NoAction}]
      /\ s \in Representatives /\ s \in State
  BY <1>2 DEF IInv, ExtractOK, ExtractTypeOK
<1>8. ExtractOK'
  <2>1. CASE VisitTerminal(s)
    <3>1. queue' = queue \ {s} /\ visited' = visited /\ decision' = decision
      BY <2>1 DEF VisitTerminal
    <3> QED BY <1>1, <1>3, <1>7, <3>1 DEF ExtractOK, ExtractTypeOK
  <2>2. CASE VisitDecision(s)
    <3> DEFINE exit == policy[s][1]
               acts == CollapsedActions(s)
               inner == TowardsExit(exit, acts, Cardinality(State)) \ {exit}
               next == QNonSource(policy[s])
    <3>1. PICK choice \in [inner -> Action] :
            decision' = [m \in State |->
                           IF m = exit THEN policy[s][2]
                           ELSE IF m \in inner THEN choice[m] ELSE decision[m]]
      BY <2>2 DEF VisitDecision
    <3>2. /\ queue' = (queue \ {s}) \union (next \ visited)
          /\ visited' = visited \union next
      BY <2>2 DEF VisitDecision
    <3>3. policy[s] \in QTails(s)
      BY <1>7, <2>2 DEF VisitDecision, IInv, PolicyOK
    <3>4. /\ next \subseteq Representatives /\ policy[s][1] \in State
          /\ policy[s][2] \in Applicable(policy[s][1])
      BY <1>7, <3>3, QTailsType DEF IInv
    <3>5. policy[s][2] \in Action
      BY <3>4, MDPAssumption
    <3>6. next \subseteq State
      BY <3>4 DEF Representatives
    <3> HIDE DEF next, inner
    <3>7. decision' \in [State -> Action \union {NoAction}]
      BY <1>7, <3>1, <3>5
    <3> QED BY <1>1, <1>3, <1>7, <3>2, <3>4, <3>6, <3>7 DEF ExtractOK, ExtractTypeOK
  <2> QED BY <1>2, <2>1, <2>2
<1> QED BY <1>1, <1>3, <1>4, <1>5, <1>6, <1>8 DEF IInv

(* Steps that change at most the program counter.                          *)
LEMMA InvControl ==
  ASSUME IInv, UNCHANGED <<graph, initial_state, quotient_vars, search_vars,
                           trap_vars, extract_vars>>,
         \/ pc' = pc
         \/ pc = "extract" /\ pc' = "done"
         \/ pc' = "timeout" /\ pc \in {"search", "successors", "unwind"}
  PROVE  IInv'
<1>1. UNCHANGED <<tarjan, exploration_queue, stack>>
  BY DEF trap_vars
<1>2. /\ QuotientOK' /\ TrapsClosed' /\ Representatives' = Representatives
  BY ViewSame DEF IInv
<1>3. StackOK' /\ GraphOK(Snapshot)'
  BY <1>1, StackSame DEF IInv
<1>4. SearchOK' /\ PolicyOK'
  BY SearchSame DEF IInv
<1>5. Top' = Top
  BY <1>1 DEF Top
<1>6. ControlOK'
  BY <1>1, <1>5 DEF IInv, ControlOK, PCs
<1>7. ExtractOK'
  BY ExtractSame DEF IInv, ControlOK, PCs
<1> QED BY <1>2, <1>3, <1>4, <1>6, <1>7 DEF IInv

LEMMA InvNext == IInv /\ [Next]_vars => IInv'
<1> SUFFICES ASSUME IInv, [Next]_vars PROVE IInv'
  OBVIOUS
<1>1. CASE HeuristicSearch
  BY <1>1, InvHeuristicSearch
<1>2. CASE Revise
  BY <1>2, InvRevise
<1>3. CASE EndSearch
  BY <1>3, InvEndSearch
<1>4. CASE FindTraps
  BY <1>4, InvFindTraps
<1>5. CASE StackSuccessor
  BY <1>5, InvStackSuccessor
<1>6. CASE NewSuccessor
  BY <1>6, InvNewSuccessor
<1>7. CASE OtherSuccessor
  BY <1>7, InvOtherSuccessor
<1>8. CASE Backtrack
  BY <1>8, InvBacktrack
<1>9. CASE CollapseTrap
  BY <1>9, InvCollapseTrap
<1>10. CASE CloseComponent
  BY <1>10, InvCloseComponent
<1>11. CASE Extract
  BY <1>11, InvExtract
<1>12. CASE EndExtract
  BY <1>12, InvControl DEF EndExtract
<1>13. CASE Timeout
  BY <1>13, InvControl DEF Timeout
<1>14. CASE Stop \/ UNCHANGED vars
  BY <1>14, InvControl DEF Stop, vars
<1> QED BY <1>1, <1>2, <1>3, <1>4, <1>5, <1>6, <1>7, <1>8, <1>9, <1>10, <1>11,
           <1>12, <1>13, <1>14 DEF Next, Step

LEMMA Invariant == Spec => []IInv
<1> QED BY InvInit, InvNext, PTL DEF Spec

(* The IDs, the member lists, the information of the states and the two    *)
(* stacks of the search for traps fit each other, whatever was collapsed,  *)
(* and nothing but representatives is on a stack.                          *)
THEOREM TypeCorrect == Spec => []TypeOK
<1>1. IInv => TypeOK
  <2> SUFFICES ASSUME IInv PROVE TypeOK
    OBVIOUS
  <2>1. pc \in PCs /\ QuotientConsistent /\ ExtractTypeOK
    BY DEF IInv, ControlOK, QuotientOK, ExtractOK
  <2>2. SearchTypeOK
    BY DEF IInv, SearchOK, SearchTypeOK, StateFlag
  <2>3. SnapshotShape
    BY SnapshotFacts DEF IInv
  <2>4. ASSUME NEW i \in DOMAIN exploration_queue
        PROVE  /\ exploration_queue[i].state_id \in Representatives
               /\ tarjan[exploration_queue[i].state_id].stack_index \in DOMAIN stack
    <3>1. exploration_queue \in Seq(Frame) /\ stack \in Seq(Entry)
      BY DEF IInv, StackOK
    <3>2. i \in 1..Len(exploration_queue) /\ DOMAIN stack = 1..Len(stack)
      BY <3>1
    <3>3. /\ tarjan[exploration_queue[i].state_id].stack_index \in 1..Len(stack)
          /\ stack[tarjan[exploration_queue[i].state_id].stack_index].state_id
               = exploration_queue[i].state_id
      BY <2>3, <3>2 DEF SnapshotShape
    <3>4. \A j \in 1..Len(stack) : stack[j].state_id \in Representatives
      BY DEF IInv, StackOK
    <3> QED BY <3>2, <3>3, <3>4
  <2>5. ASSUME NEW i \in DOMAIN stack
        PROVE  /\ tarjan[stack[i].state_id].stack_index = i
               /\ tarjan[stack[i].state_id].lowlink \in 1..i
    <3>1. stack \in Seq(Entry)
      BY DEF IInv, StackOK
    <3>2. i \in 1..Len(stack)
      BY <3>1
    <3> QED BY <3>2 DEF IInv, StackOK
  <2> QED BY <2>1, <2>2, <2>4, <2>5 DEF TypeOK
<1> QED BY <1>1, Invariant, PTL

(* Before a component is collapsed, the code asserts that it has more than *)
(* one state: "Terminal and self-loop leaf SCCs are always pruned".        *)
TrapsHaveTwoStates ==
  pc = "unwind" /\ IsRoot(Top.state_id) /\ Top.is_leaf => Len(Scc) > 1

(* The assertion holds whenever a component is about to be collapsed.      *)
THEOREM NoSingleTrap == Spec => []TrapsHaveTwoStates
<1>1. IInv => TrapsHaveTwoStates
  <2> SUFFICES ASSUME IInv, pc = "unwind", IsRoot(Top.state_id), Top.is_leaf
               PROVE  Len(Scc) > 1
    BY DEF TrapsHaveTwoStates
  <2> DEFINE n == Len(stack)
             c == tarjan[Top.state_id].stack_index
             E == EntryStates(Scc)
             rid == Top.state_id
  <2>1. /\ QuotientOK /\ StackOK /\ GraphOK(Snapshot) /\ exploration_queue # <<>>
        /\ Top.successors = {}
    BY DEF IInv, ControlOK
  <2>2. /\ n \in Nat /\ c \in 1..n /\ stack[c].state_id = rid
        /\ E = {stack[i].state_id : i \in c..n}
        /\ Scc \in Seq(Entry) /\ DOMAIN Scc = 1..(n - c + 1)
        /\ \A i \in 1..(n - c + 1) : Scc[i] = stack[c + i - 1]
    BY <2>1, ComponentFacts
  <2>3. LeafComponent(Scc)
    BY <2>1, SccIsLeaf
  <2> HIDE DEF n, c, rid
  <2>4. /\ stack[c].state_id \in Representatives
        /\ stack[c].aops \subseteq QTails(stack[c].state_id)
        /\ stack[c].aops # {}
    BY <2>1, <2>2 DEF StackOK, n
  <2>5. PICK qa \in stack[c].aops : qa \in QTails(rid)
    BY <2>2, <2>4
  <2>6. rid \in State /\ Translated(rid) = rid
    BY <2>2, <2>4 DEF Representatives
  <2>7. QNonSource(qa) # {} /\ rid \notin QNonSource(qa)
    BY <2>1, <2>5, <2>6, QTailsType
  <2>8. QNonSource(qa) \subseteq E
    <3>1. 1 \in 1..(n - c + 1) /\ c + 1 - 1 = c
      BY <2>2
    <3>2. 1 \in DOMAIN Scc /\ qa \in Scc[1].aops
      BY <2>2, <2>5, <3>1
    <3> QED BY <2>3, <3>2 DEF LeafComponent
  <2>9. PICK i \in c..n : stack[i].state_id # rid
    BY <2>2, <2>7, <2>8
  <2>10. n - c + 1 > 1
    BY <2>2, <2>9
  <2>11. Len(Scc) = n - c + 1
    BY <2>2, <2>10
  <2> QED BY <2>10, <2>11
<1> QED BY <1>1, Invariant, PTL

(* Whatever was merged into it, the inner actions of a trap do not leave   *)
(* it, and the backward search finds its way from every member to every    *)
(* other one.                                                              *)
THEOREM TrapsAreConnected == Spec => []CollapsedConnected
<1>1. IInv => CollapsedConnected
  <2> SUFFICES ASSUME IInv, NEW r \in DOMAIN quotients
               PROVE  /\ \A qa \in CollapsedActions(r) :
                           NonSource(qa[1], qa[2]) \subseteq MembersOf(r)
                      /\ \A m \in MembersOf(r) :
                           TowardsExit(m, CollapsedActions(r), Cardinality(State))
                             = MembersOf(r)
    BY DEF CollapsedConnected
  <2>1. QuotientOK /\ TrapsClosed
    BY DEF IInv
  <2>2. r \in Representatives /\ MembersOf(r) = {s \in State : Translated(s) = r}
    BY <2>1, InfoFacts
  <2>3. \A qa \in CollapsedActions(r) : qa[1] \in MembersOf(r)
    BY <2>1, <2>2, CollapsedActionsType DEF Representatives
  <2>4. /\ \A qa \in CollapsedActions(r) : NonSource(qa[1], qa[2]) \subseteq MembersOf(r)
        /\ Connects(CollapsedActions(r), MembersOf(r))
    BY DEF IInv, TrapsClosed
  <2>5. MembersOf(r) \in SUBSET State
    BY <2>2
  <2> QED BY <2>3, <2>4, <2>5, TowardsExitComplete
<1> QED BY <1>1, Invariant, PTL

-----------------------------------------------------------------------------
(* The extracted policy.                                                   *)

(* By these choices one does not stay among the members of M for ever      *)
(* without coming to the exit.                                             *)
LeadsTo(exit, M, choice) ==
  \A X \in SUBSET (M \ {exit}) : X # {} =>
    \E m \in X : ~(NonSource(m, choice[m]) \subseteq X)

(* The backward search from the exit of a trap makes such choices.         *)
LEMMA InnerChoicesLead ==
  ASSUME NEW M \in SUBSET State, NEW acts, \A qa \in acts : qa[1] \in M,
         Connects(acts, M), NEW exit \in M, NEW choice,
         \A m \in M \ {exit} : choice[m] \in InnerChoices(m, exit, acts)
  PROVE  /\ \A m \in M \ {exit} : <<m, choice[m]>> \in acts
         /\ LeadsTo(exit, M, choice)
<1> DEFINE N == Cardinality(State)
           T(k) == TowardsExit(exit, acts, k)
           Found(m) == {k \in 1..N : m \in T(k)}
           depth(m) == Min(Found(m))
<1>1. N \in Nat /\ 1 <= N
  <2>1. N \in Nat /\ State # {}
    BY MDPAssumption, FS_CardinalityType
  <2>2. N # 0
    BY <2>1, MDPAssumption, FS_EmptySet
  <2> HIDE DEF N
  <2> QED BY <2>1, <2>2
<1>2. T(N) = M
  BY TowardsExitComplete
<1>3. T(0) = {exit}
  <2>1. PICK w : IsBackward(w, exit, acts, Nat) /\ TowardsExit(exit, acts, 0) = w[0]
    BY TowardsExitUnfold
  <2>2. w[0] = {exit}
    BY <2>1 DEF IsBackward
  <2> QED BY <2>1, <2>2
<1>4. \A m \in M \ {exit} :
        /\ <<m, choice[m]>> \in acts
        /\ NonSource(m, choice[m]) \intersect T(depth(m) - 1) # {}
  BY DEF InnerChoices
<1> HIDE DEF N, T
<1>5. \A m \in M : /\ depth(m) \in Found(m) /\ \A k \in Found(m) : depth(m) <= k
                   /\ depth(m) \in Nat /\ depth(m) \in 1..N
  <2> TAKE m \in M
  <2>1. N \in Found(m)
    BY <1>1, <1>2
  <2>2. IsFiniteSet(Found(m)) /\ \A k \in Found(m) : k \in Int
    <3>1. Found(m) \subseteq 1..N /\ IsFiniteSet(1..N)
      BY <1>1, FS_Interval
    <3>2. \A k \in 1..N : k \in Int
      BY <1>1
    <3> HIDE DEF Found
    <3>3. IsFiniteSet(Found(m))
      BY <3>1, FS_Subset
    <3> QED BY <3>1, <3>2, <3>3
  <2>3. Min(Found(m)) \in Found(m) /\ \A k \in Found(m) : Min(Found(m)) <= k
    <3> HIDE DEF Found
    <3> QED BY <2>1, <2>2, MinInSet
  <2>4. \A k \in Found(m) : k \in 1..N
    OBVIOUS
  <2>5. \A k \in 1..N : k \in Nat
    BY <1>1
  <2> HIDE DEF Found
  <2> QED BY <2>3, <2>4, <2>5
<1>6. ASSUME NEW X \in SUBSET (M \ {exit}), X # {}
      PROVE  \E m \in X : ~(NonSource(m, choice[m]) \subseteq X)
  <2> DEFINE D == {depth(m) : m \in X}
  <2>1. D \in SUBSET Nat /\ D # {}
    <3> HIDE DEF depth
    <3> QED BY <1>5, <1>6
  <2>2. PICK d \in D : \A e \in D : d <= e
    <3> HIDE DEF D
    <3> QED BY <2>1, LeastNat
  <2> HIDE DEF depth
  <2>3. PICK m \in X : d = depth(m)
    BY <2>2
  <2>4. m \in M \ {exit} /\ d \in 1..N
    BY <1>5, <2>3
  <2>5. PICK t \in NonSource(m, choice[m]) : t \in T(d - 1)
    BY <1>4, <2>3, <2>4
  <2>6. t \notin X
    <3> SUFFICES ASSUME t \in X PROVE FALSE
      OBVIOUS
    <3>1. CASE d = 1
      <4>1. T(d - 1) = {exit}
        BY <1>3, <3>1
      <4> QED BY <2>5, <4>1
    <3>2. CASE d # 1
      <4>1. d - 1 \in 1..N /\ ~(d <= d - 1)
        BY <1>1, <2>4, <3>2
      <4>2. depth(t) <= d - 1
        BY <1>5, <2>5, <4>1
      <4>3. d <= depth(t) /\ depth(t) \in Int /\ d \in Int
        BY <1>5, <2>2, <2>4
      <4> QED BY <2>4, <4>2, <4>3
    <3> QED BY <3>1, <3>2
  <2> QED BY <2>5, <2>6
<1> QED BY <1>4, <1>6 DEF LeadsTo

(* What visiting r has decided: its exit takes the action of the quotient, *)
(* the other members take inner actions, by which they do not stay among   *)
(* themselves.                                                             *)
DecidedAt(r) ==
  LET exit == policy[r][1]
  IN  /\ decision[exit] = policy[r][2]
      /\ \A m \in MembersOf(r) \ {exit} : <<m, decision[m]>> \in CollapsedActions(r)
      /\ LeadsTo(exit, MembersOf(r), decision)

ExtractionOK ==
  /\ pc \in {"extract", "done"} => initial_state \in visited
  /\ pc = "done" => queue = {}
  /\ \A r \in visited \ queue : policy[r] # NoAction =>
       DecidedAt(r) /\ QNonSource(policy[r]) \subseteq visited
  /\ \A m \in State : decision[m] # NoAction =>
       /\ Translated(m) \in visited \ queue
       /\ policy[Translated(m)] # NoAction

LEMMA ExtractionInit == Init => ExtractionOK
BY DEF Init, ExtractInit, ExtractionOK

(* The search leaves nothing decided.                                      *)
LEMMA ExtractionBegins ==
  ASSUME IInv, ExtractionOK, pc \notin {"extract", "done"},
         initial_state' = initial_state,
         \/ UNCHANGED extract_vars /\ pc' \notin {"extract", "done"}
         \/ BeginExtract(initial_state) /\ pc' = "extract"
  PROVE  ExtractionOK'
<1>1. visited = {} /\ \A m \in State : decision[m] = NoAction
  BY DEF IInv, ExtractOK, ExtractionOK
<1>2. CASE UNCHANGED extract_vars /\ pc' \notin {"extract", "done"}
  BY <1>1, <1>2 DEF ExtractionOK, extract_vars
<1>3. CASE BeginExtract(initial_state) /\ pc' = "extract"
  BY <1>1, <1>3 DEF ExtractionOK, BeginExtract
<1> QED BY <1>2, <1>3

(* A visit of a quotient decides for its members, and for no others.       *)
LEMMA VisitDecides ==
  ASSUME IInv, ExtractionOK, NEW s \in queue, VisitDecision(s),
         UNCHANGED <<quotient_vars, search_vars>>
  PROVE  /\ DecidedAt(s)'
         /\ \A m \in State : Translated(m) # s => decision'[m] = decision[m]
<1> DEFINE exit == policy[s][1]
           acts == CollapsedActions(s)
           M == MembersOf(s)
           inner == TowardsExit(exit, acts, Cardinality(State)) \ {exit}
<1>1. PICK choice \in [inner -> Action] :
        /\ \A m \in inner : choice[m] \in InnerChoices(m, exit, acts)
        /\ decision' = [m \in State |->
                          IF m = exit THEN policy[s][2]
                          ELSE IF m \in inner THEN choice[m] ELSE decision[m]]
  BY DEF VisitDecision
<1>2. s \in Representatives /\ policy[s] \in QTails(s)
  BY DEF VisitDecision, IInv, ExtractOK, ExtractTypeOK, PolicyOK
<1>3. /\ QuotientOK /\ s \in State /\ Translated(s) = s
      /\ M = {m \in State : Translated(m) = s}
  BY <1>2, MembersAre DEF IInv
<1>4. exit \in M
  BY <1>2, <1>3, QTailsType
<1>5. /\ \A qa \in acts : qa[1] \in M
      /\ Connects(acts, M)
  <2>1. \A qa \in acts : qa[1] \in M
    BY <1>3, CollapsedActionsType
  <2> QED BY <1>2, <1>3, <2>1, TrapOfRepresentative DEF IInv
<1>6. M \in SUBSET State
  BY <1>3
<1>7. inner = M \ {exit}
  <2> HIDE DEF exit, acts, M
  <2>1. TowardsExit(exit, acts, Cardinality(State)) = M
    BY <1>4, <1>5, <1>6, TowardsExitComplete
  <2> QED BY <2>1
<1> HIDE DEF exit, acts, M, inner
<1>8. /\ \A m \in M \ {exit} : <<m, choice[m]>> \in acts
      /\ LeadsTo(exit, M, choice)
  <2>1. \A m \in M \ {exit} : choice[m] \in InnerChoices(m, exit, acts)
    BY <1>1, <1>7
  <2> QED BY <1>4, <1>5, <1>6, <2>1, InnerChoicesLead
<1>9. /\ decision'[exit] = policy[s][2]
      /\ \A m \in M \ {exit} : decision'[m] = choice[m]
      /\ \A m \in State : m \notin M => decision'[m] = decision[m]
  BY <1>1, <1>4, <1>6, <1>7
<1>10. /\ \A t : MembersOf(t)' = MembersOf(t)
       /\ \A t : CollapsedActions(t)' = CollapsedActions(t)
       /\ policy' = policy
  BY ViewSame DEF search_vars
<1>11. /\ \A m \in M \ {exit} : <<m, decision'[m]>> \in acts
       /\ LeadsTo(exit, M, decision')
  BY <1>8, <1>9 DEF LeadsTo
<1>12. DecidedAt(s)'
  BY <1>9, <1>10, <1>11 DEF DecidedAt, exit, M, acts
<1>13. \A m \in State : Translated(m) # s => decision'[m] = decision[m]
  BY <1>3, <1>9
<1> QED BY <1>12, <1>13

LEMMA ExtractionVisits == IInv /\ ExtractionOK /\ Extract => ExtractionOK'
<1> SUFFICES ASSUME IInv, ExtractionOK, Extract PROVE ExtractionOK'
  OBVIOUS
<1>1. /\ pc = "extract" /\ pc' = pc
      /\ UNCHANGED <<initial_state, quotient_vars, search_vars>>
  BY DEF Extract
<1>2. PICK s \in queue : VisitTerminal(s) \/ VisitDecision(s)
  BY DEF Extract
<1>3. /\ policy' = policy
      /\ \A t : Translated(t)' = Translated(t)
      /\ \A t : MembersOf(t)' = MembersOf(t)
      /\ \A t : CollapsedActions(t)' = CollapsedActions(t)
      /\ \A qa : QNonSource(qa)' = QNonSource(qa)
  BY <1>1, ViewSame DEF search_vars
<1>4. queue \subseteq visited /\ visited \subseteq Representatives /\ QuotientOK /\ PolicyOK
  BY DEF IInv, ExtractOK, ExtractTypeOK
<1>5. initial_state \in visited
  BY <1>1 DEF ExtractionOK
<1>6. CASE VisitTerminal(s)
  <2>1. /\ policy[s] = NoAction /\ queue' = queue \ {s} /\ visited' = visited
        /\ decision' = decision
    BY <1>6 DEF VisitTerminal
  <2>2. \A r : DecidedAt(r)' = DecidedAt(r)
    BY <1>3, <2>1 DEF DecidedAt
  <2>3. ASSUME NEW r \in visited' \ queue', policy'[r] # NoAction
        PROVE  DecidedAt(r)' /\ QNonSource(policy[r]) \subseteq visited
    <3>1. r \in visited \ queue
      BY <1>3, <2>1, <2>3
    <3> QED BY <1>3, <2>2, <2>3, <3>1 DEF ExtractionOK
  <2>4. ASSUME NEW m \in State, decision'[m] # NoAction
        PROVE  /\ Translated(m) \in visited' \ queue'
               /\ policy[Translated(m)] # NoAction
    BY <2>1, <2>4 DEF ExtractionOK
  <2> QED BY <1>1, <1>3, <1>5, <2>1, <2>3, <2>4 DEF ExtractionOK
<1>7. CASE VisitDecision(s)
  <2> DEFINE next == QNonSource(policy[s])
  <2>1. /\ queue' = (queue \ {s}) \union (next \ visited)
        /\ visited' = visited \union next /\ policy[s] # NoAction
    BY <1>7 DEF VisitDecision
  <2>2. /\ DecidedAt(s)'
        /\ \A m \in State : Translated(m) # s => decision'[m] = decision[m]
    BY <1>1, <1>7, VisitDecides
  <2>3. \A r \in visited' \ queue' : r = s \/ (r \in visited \ queue /\ r # s)
    BY <1>4, <2>1
  <2>4. s \in visited' \ queue'
    BY <1>4, <2>1
  <2>5. \A r \in visited \ queue : r \in visited' \ queue'
    BY <2>1
  <2> HIDE DEF next
  <2>6. ASSUME NEW r \in visited \ queue, policy[r] # NoAction
        PROVE  DecidedAt(r)' /\ QNonSource(policy[r]) \subseteq visited
    <3>1. DecidedAt(r) /\ QNonSource(policy[r]) \subseteq visited
      BY <2>6 DEF ExtractionOK
    <3>2. r \in Representatives /\ r # s /\ policy[r] \in QTails(r)
      BY <1>4, <2>6 DEF PolicyOK
    <3>3. /\ r \in State /\ Translated(r) = r
          /\ MembersOf(r) = {m \in State : Translated(m) = r}
      BY <1>4, <3>2, MembersAre
    <3>4. policy[r][1] \in MembersOf(r)
      BY <1>4, <3>2, <3>3, QTailsType
    <3>5. \A m \in MembersOf(r) : decision'[m] = decision[m]
      BY <2>2, <3>2, <3>3
    <3>6. DecidedAt(r)'
      <4> DEFINE exit == policy[r][1]
                 M == MembersOf(r)
      <4>1. /\ decision[exit] = policy[r][2]
            /\ \A m \in M \ {exit} : <<m, decision[m]>> \in CollapsedActions(r)
            /\ LeadsTo(exit, M, decision)
        BY <3>1 DEF DecidedAt
      <4>2. exit \in M /\ \A m \in M : decision'[m] = decision[m]
        BY <3>4, <3>5
      <4> HIDE DEF exit, M
      <4>3. /\ decision'[exit] = policy[r][2]
            /\ \A m \in M \ {exit} : <<m, decision'[m]>> \in CollapsedActions(r)
            /\ LeadsTo(exit, M, decision')
        BY <4>1, <4>2 DEF LeadsTo
      <4> QED BY <1>3, <4>3 DEF DecidedAt, exit, M
    <3> QED BY <3>1, <3>6
  <2>7. ASSUME NEW r \in visited' \ queue', policy'[r] # NoAction
        PROVE  DecidedAt(r)' /\ QNonSource(policy[r]) \subseteq visited'
    <3>1. CASE r = s
      BY <2>1, <2>2, <3>1 DEF next
    <3>2. CASE r \in visited \ queue
      BY <1>3, <2>1, <2>6, <2>7, <3>2
    <3> QED BY <2>3, <3>1, <3>2
  <2>8. ASSUME NEW m \in State, decision'[m] # NoAction
        PROVE  /\ Translated(m) \in visited' \ queue'
               /\ policy[Translated(m)] # NoAction
    <3>1. CASE Translated(m) = s
      BY <2>1, <2>4, <3>1
    <3>2. CASE Translated(m) # s
      BY <2>2, <2>5, <2>8, <3>2 DEF ExtractionOK
    <3> QED BY <3>1, <3>2
  <2> QED BY <1>1, <1>3, <1>5, <2>1, <2>7, <2>8 DEF ExtractionOK
<1> QED BY <1>2, <1>6, <1>7

LEMMA ExtractionNext == IInv /\ ExtractionOK /\ [Next]_vars => ExtractionOK'
<1> SUFFICES ASSUME IInv, ExtractionOK, [Next]_vars PROVE ExtractionOK'
  OBVIOUS
<1>1. CASE \/ HeuristicSearch \/ Revise \/ EndSearch \/ StackSuccessor
           \/ NewSuccessor \/ OtherSuccessor \/ Timeout
  <2>1. /\ pc \notin {"extract", "done"} /\ pc' \notin {"extract", "done"}
        /\ UNCHANGED extract_vars /\ initial_state' = initial_state
    BY <1>1 DEF HeuristicSearch, Revise, EndSearch, StackSuccessor, NewSuccessor,
                OtherSuccessor, Timeout, Continue
  <2> QED BY <2>1, ExtractionBegins
<1>2. CASE FindTraps
  <2>1. /\ pc \notin {"extract", "done"} /\ initial_state' = initial_state
        /\ \/ UNCHANGED extract_vars /\ pc' \notin {"extract", "done"}
           \/ BeginExtract(initial_state) /\ pc' = "extract"
    BY <1>2 DEF FindTraps, Finish
  <2> QED BY <2>1, ExtractionBegins
<1>3. CASE Backtrack \/ CollapseTrap \/ CloseComponent
  <2>1. /\ pc \notin {"extract", "done"} /\ initial_state' = initial_state
        /\ \E infos, reached, trap : Unwind(infos, reached, trap)
    BY <1>3 DEF Backtrack, CollapseTrap, CloseComponent
  <2>2. \/ UNCHANGED extract_vars /\ pc' \notin {"extract", "done"}
        \/ BeginExtract(initial_state) /\ pc' = "extract"
    BY <2>1 DEF Unwind, Finish, Continue
  <2> QED BY <2>1, <2>2, ExtractionBegins
<1>4. CASE Extract
  BY <1>4, ExtractionVisits
<1>5. CASE EndExtract \/ Stop \/ UNCHANGED vars
  <2>1. /\ UNCHANGED <<initial_state, quotient_vars, search_vars, extract_vars>>
        /\ pc' = pc \/ (pc = "extract" /\ pc' = "done" /\ queue = {})
    BY <1>5 DEF EndExtract, Stop, vars
  <2>2. /\ policy' = policy /\ queue' = queue /\ visited' = visited
        /\ decision' = decision /\ initial_state' = initial_state
        /\ \A t : Translated(t)' = Translated(t)
        /\ \A t : MembersOf(t)' = MembersOf(t)
        /\ \A t : CollapsedActions(t)' = CollapsedActions(t)
        /\ \A qa : QNonSource(qa)' = QNonSource(qa)
    BY <2>1, ViewSame DEF search_vars, extract_vars
  <2>3. \A r : DecidedAt(r)' = DecidedAt(r)
    BY <2>2 DEF DecidedAt
  <2> QED BY <2>1, <2>2, <2>3 DEF ExtractionOK
<1> QED BY <1>1, <1>2, <1>3, <1>4, <1>5 DEF Next, Step

(* The extracted policy covers every state that it leads to, it follows    *)
(* the policy of the quotients, and inside of a trap it leads to the exit. *)
PolicyCovers ==
  pc = "done" =>
    /\ Translated(initial_state) \in visited
    /\ \A s \in State : Translated(s) \in visited =>
         IF policy[Translated(s)] = NoAction THEN decision[s] = NoAction
         ELSE /\ decision[s] \in Applicable(s)
              /\ \A t \in NonSource(s, decision[s]) : Translated(t) \in visited
    /\ \A r \in visited : policy[r] # NoAction =>
         /\ decision[policy[r][1]] = policy[r][2]
         /\ LeadsTo(policy[r][1], MembersOf(r), decision)

(* That holds when compute_policy returns, whatever traps were collapsed   *)
(* and merged, and whatever the greedy graph was.                          *)
THEOREM ExtractedPolicyCovers == Spec => []PolicyCovers
<1>1. IInv /\ ExtractionOK => PolicyCovers
  <2> SUFFICES ASSUME IInv, ExtractionOK, pc = "done" PROVE PolicyCovers
    BY DEF PolicyCovers
  <2>1. /\ queue = {} /\ initial_state \in visited
        /\ \A r \in visited : policy[r] # NoAction =>
             DecidedAt(r) /\ QNonSource(policy[r]) \subseteq visited
        /\ \A m \in State : decision[m] # NoAction => policy[Translated(m)] # NoAction
    BY DEF ExtractionOK
  <2>2. /\ QuotientOK /\ TrapsClosed /\ PolicyOK /\ visited \subseteq Representatives
        /\ initial_state \in Representatives
    BY DEF IInv, ExtractOK
  <2>3. Translated(initial_state) \in visited
    BY <2>1, <2>2 DEF Representatives
  <2>4. ASSUME NEW s \in State, Translated(s) \in visited,
               policy[Translated(s)] # NoAction
        PROVE  /\ decision[s] \in Applicable(s)
               /\ \A t \in NonSource(s, decision[s]) : Translated(t) \in visited
    <3> DEFINE r == Translated(s)
               exit == policy[r][1]
    <3>1. r \in Representatives /\ r \in visited /\ policy[r] \in QTails(r)
      BY <2>2, <2>4 DEF PolicyOK
    <3>2. /\ DecidedAt(r) /\ QNonSource(policy[r]) \subseteq visited
      BY <2>1, <2>4
    <3>3. /\ MembersOf(r) = {m \in State : Translated(m) = r} /\ r \in State
          /\ Translated(r) = r
      BY <2>2, <3>1, MembersAre
    <3>4. /\ exit \in State /\ policy[r][2] \in Applicable(exit)
          /\ Translated(exit) = r
      BY <2>2, <3>1, <3>3, QTailsType
    <3>5. CASE s = exit
      <4>1. decision[s] = policy[r][2]
        BY <3>2, <3>5 DEF DecidedAt
      <4>2. ASSUME NEW t \in NonSource(s, decision[s]) PROVE Translated(t) \in visited
        <5>1. t \in Successors(exit, policy[r][2])
          BY <3>5, <4>1 DEF NonSource
        <5>2. CASE Translated(t) = r
          BY <3>1, <5>2
        <5>3. CASE Translated(t) # r
          BY <3>2, <3>4, <5>1, <5>3 DEF QNonSource, QLeaving
        <5> QED BY <5>2, <5>3
      <4> QED BY <3>4, <3>5, <4>1, <4>2
    <3>6. CASE s # exit
      <4>1. <<s, decision[s]>> \in CollapsedActions(r)
        BY <3>2, <3>3, <3>6 DEF DecidedAt
      <4>2. decision[s] \in Applicable(s)
        BY <2>2, <3>3, <4>1, CollapsedActionsType
      <4>3. NonSource(s, decision[s]) \subseteq MembersOf(r)
        BY <2>2, <3>1, <4>1, TrapOfRepresentative
      <4> QED BY <3>1, <3>3, <4>2, <4>3
    <3> QED BY <3>5, <3>6
  <2>5. \A s \in State : policy[Translated(s)] = NoAction => decision[s] = NoAction
    BY <2>1
  <2>6. \A r \in visited : policy[r] # NoAction =>
          /\ decision[policy[r][1]] = policy[r][2]
          /\ LeadsTo(policy[r][1], MembersOf(r), decision)
    BY <2>1 DEF DecidedAt
  <2> QED BY <2>3, <2>4, <2>5, <2>6 DEF PolicyCovers
<1>2. Init => IInv /\ ExtractionOK
  BY InvInit, ExtractionInit
<1>3. IInv /\ ExtractionOK /\ [Next]_vars => IInv' /\ ExtractionOK'
  BY InvNext, ExtractionNext
<1> QED BY <1>1, <1>2, <1>3, PTL DEF Spec
=============================================================================
