----------------------------- MODULE FoldFacts -----------------------------
(***************************************************************************)
(* What loops compute: a recursive function over the numbers exists, and a *)
(* fold over a sequence is what it leaves behind. The proofs of the        *)
(* components instantiate this module with the step of their loop: the     *)
(* parameter of the library's induction theorems is out of the provers'    *)
(* reach, the constant of an instance is not.                              *)
(***************************************************************************)
EXTENDS Integers, Sequences, FiniteSetTheorems, TLAPS

CONSTANT Op(_, _)       \* the step: from a state and an element to a state

\* A set of numbers has a least one.
LEMMA LeastNumber ==
  ASSUME NEW T \in SUBSET Nat, T # {}
  PROVE  \E x \in T : \A y \in T : x <= y
<1> DEFINE R == StrictSubsetOrdering(Nat)
           F == FiniteSubsetsOf(Nat)
           U == {0..(x - 1) : x \in T}
<1>1. IsWellFoundedOn(R, F)
  BY FS_StrictSubsetOrderingWellFounded
<1>2. \A x \in T : 0..(x - 1) \in F
  <2> TAKE x \in T
  <2>1. 0 \in Int /\ x - 1 \in Int
    OBVIOUS
  <2>2. IsFiniteSet(0..(x - 1))
    BY <2>1, FS_Interval
  <2>3. 0..(x - 1) \subseteq Nat
    OBVIOUS
  <2> QED BY <2>2, <2>3 DEF FiniteSubsetsOf
<1>3. U \subseteq F /\ U # {}
  BY <1>2
<1>4. \E a \in U : \A b \in U : ~(<<b, a>> \in R)
  <2> HIDE DEF R, U, F
  <2> QED BY <1>1, <1>3, WFMin, Zenon
<1>5. PICK x \in T : \A b \in U : ~(<<b, 0..(x - 1)>> \in R)
  BY <1>4
<1>6. \A y \in T : x <= y
  <2> TAKE y \in T
  <2> SUFFICES ASSUME y < x PROVE FALSE
    OBVIOUS
  <2>1. y \in Nat /\ x \in Nat
    OBVIOUS
  <2>2. 0..(y - 1) \subseteq 0..(x - 1) /\ y \notin 0..(y - 1) /\ y \in 0..(x - 1)
    BY <2>1
  <2>3. <<0..(y - 1), 0..(x - 1)>> \in R
    BY <2>1, <2>2 DEF StrictSubsetOrdering
  <2> QED BY <2>3, <1>5
<1> QED BY <1>6

\* Induction: a set of numbers that has 0, and with each number the next one up
\* to n, has n.
LEMMA UpTo ==
  ASSUME NEW n \in Nat, NEW A, 0 \in A, \A k \in 1..n : k - 1 \in A => k \in A
  PROVE  \A k \in 0..n : k \in A
<1> DEFINE T == {k \in 0..n : k \notin A}
<1> SUFFICES ASSUME T # {} PROVE FALSE
  OBVIOUS
<1>1. PICK x \in T : \A y \in T : x <= y
  <2>1. T \subseteq Nat
    OBVIOUS
  <2> HIDE DEF T
  <2> QED BY <2>1, LeastNumber
<1>2. x \in 0..n /\ x \notin A /\ x # 0
  OBVIOUS
<1>3. x \in 1..n /\ x - 1 \in 0..n /\ ~(x <= x - 1)
  BY <1>2
<1>4. x - 1 \in A
  BY <1>1, <1>3
<1> QED BY <1>2, <1>3, <1>4

-----------------------------------------------------------------------------
(* Loops over the numbers.                                                 *)

\* The loop that starts with base and takes in s[1], s[2] and so on, up to n.
IsRun(r, n, base, s) ==
  r = [i \in 0..n |-> IF i = 0 THEN base ELSE Op(r[i - 1], s[i])]

\* What each pass makes of the state before it.
LEMMA RunStep ==
  ASSUME NEW n \in Nat, NEW base, NEW s, NEW r, IsRun(r, n, base, s)
  PROVE  r[0] = base /\ \A i \in 1..n : r[i] = Op(r[i - 1], s[i])
<1>1. \A i \in 0..n : r[i] = IF i = 0 THEN base ELSE Op(r[i - 1], s[i])
  BY DEF IsRun
<1>2. 0 \in 0..n /\ \A i \in 1..n : i \in 0..n /\ i # 0
  OBVIOUS
<1> QED BY <1>1, <1>2

\* Every loop has a result.
LEMMA RunExists ==
  ASSUME NEW base, NEW s
  PROVE  \A n \in Nat : \E r : IsRun(r, n, base, s)
<1> DEFINE A == {n \in Nat : \E r : IsRun(r, n, base, s)}
<1>1. 0 \in A
  <2> DEFINE g == [i \in 0..0 |-> base]
  <2>1. \A i \in 0..0 : i = 0
    OBVIOUS
  <2>2. g = [i \in 0..0 |-> IF i = 0 THEN base ELSE Op(g[i - 1], s[i])]
    BY <2>1
  <2> QED BY <2>2 DEF IsRun
<1>2. ASSUME NEW x \in Nat \ {0}, x - 1 \in A
      PROVE  x \in A
  <2>1. PICK r : IsRun(r, x - 1, base, s)
    BY <1>2
  <2> DEFINE g == [i \in 0..x |-> IF i = x THEN Op(r[x - 1], s[x]) ELSE r[i]]
  <2>2. \A i \in 0..x - 1 : r[i] = IF i = 0 THEN base ELSE Op(r[i - 1], s[i])
    BY <2>1 DEF IsRun
  <2>3. \A i \in 0..x - 1 : g[i] = r[i] /\ i # x /\ i \in 0..x
    OBVIOUS
  <2>4. \A i \in 1..x : i - 1 \in 0..x - 1 /\ g[i - 1] = r[i - 1]
    BY <2>3
  <2>5. g[x] = Op(r[x - 1], s[x]) /\ x \in 1..x /\ x # 0
    OBVIOUS
  <2>6. \A i \in 0..x : i = x \/ i \in 0..x - 1
    OBVIOUS
  <2>7. g = [i \in 0..x |-> g[i]]
    OBVIOUS
  <2> HIDE DEF g
  <2>8. \A i \in 0..x : g[i] = IF i = 0 THEN base ELSE Op(g[i - 1], s[i])
    <3> TAKE i \in 0..x
    <3>1. CASE i = x
      BY <2>4, <2>5, <3>1
    <3>2. CASE i \in 0..x - 1 /\ i = 0
      BY <2>2, <2>3, <3>2
    <3>3. CASE i \in 0..x - 1 /\ i # 0
      <4>1. i \in 1..x
        BY <3>3
      <4> QED BY <2>2, <2>3, <2>4, <3>3, <4>1
    <3> QED BY <2>6, <3>1, <3>2, <3>3
  <2>9. IsRun(g, x, base, s)
    BY <2>7, <2>8 DEF IsRun
  <2> QED BY <2>9
<1> TAKE n \in Nat
<1>3. \A k \in 0..n : k \in A
  <2>1. \A k \in 1..n : k \in Nat \ {0}
    OBVIOUS
  <2> HIDE DEF A
  <2> QED BY <1>1, <1>2, <2>1, UpTo
<1> QED BY <1>3

\* Loops that take in the same elements go through the same states.
LEMMA RunsAgree ==
  ASSUME NEW n \in Nat, NEW k \in 0..n, NEW base, NEW s, NEW t, \A i \in 1..k : t[i] = s[i],
         NEW r, IsRun(r, n, base, s), NEW q, IsRun(q, k, base, t)
  PROVE  q[k] = r[k]
<1> DEFINE A == {i \in 0..k : q[i] = r[i]}
<1>1. k \in Nat
  OBVIOUS
<1>2. /\ r[0] = base /\ \A i \in 1..n : r[i] = Op(r[i - 1], s[i])
      /\ q[0] = base /\ \A i \in 1..k : q[i] = Op(q[i - 1], t[i])
  BY <1>1, RunStep
<1>3. 0 \in A
  BY <1>1, <1>2
<1>4. \A i \in 1..k : i - 1 \in A => i \in A
  <2> SUFFICES ASSUME NEW i \in 1..k, i - 1 \in A PROVE i \in A
    OBVIOUS
  <2>1. i \in 1..n /\ i \in 0..k
    OBVIOUS
  <2>2. q[i] = Op(q[i - 1], s[i]) /\ r[i] = Op(r[i - 1], s[i]) /\ q[i - 1] = r[i - 1]
    BY <1>2, <2>1
  <2> QED BY <2>1, <2>2
<1>5. k \in A
  <2>1. k \in 0..k
    BY <1>1
  <2> HIDE DEF A
  <2> QED BY <1>1, <1>3, <1>4, <2>1, UpTo
<1> QED BY <1>5

-----------------------------------------------------------------------------
(* Folds over a sequence, which the community modules define by way of the *)
(* sets of its indices: FoldLeft(Op, base, s) is Folded(base, s).          *)

Top(S) == CHOOSE x \in S : \A y \in S : x >= y

IsFold(f, D, base, s) ==
  f = [S \in SUBSET D |-> IF S = {} THEN base ELSE Op(f[S \ {Top(S)}], s[Top(S)])]

Folded(base, s) == (CHOOSE f : IsFold(f, DOMAIN s, base, s))[DOMAIN s]

\* The largest of some of the numbers up to n.
LEMMA TopOfSome ==
  ASSUME NEW n \in Nat, NEW S \in SUBSET (1..n), S # {}
  PROVE  Top(S) \in S /\ \A y \in S : Top(S) >= y
<1> DEFINE T == {n - y : y \in S}
<1>1. PICK z \in T : \A y \in T : z <= y
  <2>1. \A y \in S : y \in 1..n /\ n - y \in Nat
    OBVIOUS
  <2>2. T \in SUBSET Nat /\ T # {}
    BY <2>1
  <2> HIDE DEF T
  <2> QED BY <2>2, LeastNumber
<1>2. PICK x \in S : z = n - x
  OBVIOUS
<1>3. \A y \in S : n - x <= n - y
  BY <1>1, <1>2
<1>4. \A y \in S : x >= y
  BY <1>3
<1>5. \E t : t \in S /\ \A y \in S : t >= y
  BY <1>4
<1> QED BY <1>5, Zenon DEF Top

\* The last of the first numbers.
LEMMA TopOfFirst ==
  ASSUME NEW k \in Nat \ {0}
  PROVE  Top(1..k) = k /\ (1..k) \ {Top(1..k)} = 1..(k - 1)
<1>1. Top(1..k) \in 1..k /\ \A y \in 1..k : Top(1..k) >= y
  <2>1. k \in 1..k /\ 1..k \in SUBSET (1..k) /\ 1..k # {} /\ k \in Nat
    OBVIOUS
  <2> QED BY <2>1, TopOfSome, Zenon
<1>2. Top(1..k) = k
  <2>1. k \in 1..k
    OBVIOUS
  <2>2. Top(1..k) >= k /\ Top(1..k) <= k /\ Top(1..k) \in Int
    BY <1>1, <2>1
  <2> QED BY <2>2
<1> QED BY <1>2

\* A fold exists over the sets of the first numbers.
LEMMA FoldExists ==
  ASSUME NEW base, NEW s
  PROVE  \A n \in Nat : \E f : IsFold(f, 1..n, base, s)
<1> DEFINE A == {n \in Nat : \E f : IsFold(f, 1..n, base, s)}
<1>1. 0 \in A
  <2> DEFINE g == [S \in SUBSET (1..0) |-> base]
  <2>1. \A S \in SUBSET (1..0) : S = {}
    OBVIOUS
  <2>2. g = [S \in SUBSET (1..0) |-> IF S = {} THEN base ELSE Op(g[S \ {Top(S)}], s[Top(S)])]
    BY <2>1
  <2> HIDE DEF g
  <2> QED BY <2>2 DEF IsFold
<1>2. ASSUME NEW x \in Nat \ {0}, x - 1 \in A
      PROVE  x \in A
  <2>1. PICK f : IsFold(f, 1..(x - 1), base, s)
    BY <1>2
  <2> DEFINE g == [S \in SUBSET (1..x) |-> IF S = {} THEN base ELSE Op(f[S \ {Top(S)}], s[Top(S)])]
  <2>2. \A S \in SUBSET (1..(x - 1)) : f[S] = IF S = {} THEN base ELSE Op(f[S \ {Top(S)}], s[Top(S)])
    BY <2>1 DEF IsFold
  <2>3. \A S \in SUBSET (1..(x - 1)) : S \in SUBSET (1..x)
    OBVIOUS
  <2>4. \A S \in SUBSET (1..x) : S # {} => S \ {Top(S)} \in SUBSET (1..(x - 1))
    <3> TAKE S \in SUBSET (1..x)
    <3> SUFFICES ASSUME S # {}, NEW y \in S \ {Top(S)} PROVE y \in 1..(x - 1)
      OBVIOUS
    <3>1. Top(S) \in S /\ Top(S) >= y
      BY TopOfSome
    <3>2. Top(S) \in 1..x /\ y \in 1..x /\ y # Top(S)
      BY <3>1
    <3> HIDE DEF A
    <3> QED BY <3>1, <3>2
  <2>5. g = [S \in SUBSET (1..x) |-> g[S]]
    OBVIOUS
  <2>6. \A S \in SUBSET (1..x) : g[S] = IF S = {} THEN base ELSE Op(f[S \ {Top(S)}], s[Top(S)])
    OBVIOUS
  <2> HIDE DEF g
  <2>7. \A S \in SUBSET (1..(x - 1)) : g[S] = f[S]
    BY <2>2, <2>3, <2>6, Zenon
  <2>8. \A S \in SUBSET (1..x) : g[S] = IF S = {} THEN base ELSE Op(g[S \ {Top(S)}], s[Top(S)])
    BY <2>4, <2>6, <2>7, Zenon
  <2>9. IsFold(g, 1..x, base, s)
    BY <2>5, <2>8 DEF IsFold
  <2> QED BY <2>9
<1> TAKE n \in Nat
<1>3. \A k \in 0..n : k \in A
  <2>1. \A k \in 1..n : k \in Nat \ {0}
    OBVIOUS
  <2> HIDE DEF A
  <2> QED BY <1>1, <1>2, <2>1, UpTo
<1> QED BY <1>3

\* A fold is what the loop over the elements leaves behind.
LEMMA FoldIsRun ==
  ASSUME NEW n \in Nat, NEW base, NEW s, DOMAIN s = 1..n
  PROVE  \E r : IsRun(r, n, base, s) /\ Folded(base, s) = r[n]
<1> DEFINE f == CHOOSE f : IsFold(f, 1..n, base, s)
           r == [k \in 0..n |-> f[1..k]]
<1>1. IsFold(f, 1..n, base, s)
  BY FoldExists
<1>2. Folded(base, s) = f[1..n]
  BY DEF Folded
<1> HIDE DEF f
<1>3. \A S \in SUBSET (1..n) : f[S] = IF S = {} THEN base ELSE Op(f[S \ {Top(S)}], s[Top(S)])
  BY <1>1 DEF IsFold
<1>4. \A k \in 0..n : r[k] = IF k = 0 THEN base ELSE Op(r[k - 1], s[k])
  <2> TAKE k \in 0..n
  <2>1. r[k] = f[1..k] /\ 1..k \in SUBSET (1..n)
    OBVIOUS
  <2>2. CASE k = 0
    <3>1. 1..k = {}
      BY <2>2
    <3> QED BY <1>3, <2>1, <2>2, <3>1
  <2>3. CASE k # 0
    <3> HIDE DEF r
    <3>0. k \in Nat \ {0} /\ k - 1 \in 0..n
      BY <2>3
    <3>1. k \in 1..k /\ 1..k # {} /\ k - 1 \in 0..n /\ k \in Nat \ {0}
      BY <3>0
    <3>2. Top(1..k) = k /\ (1..k) \ {Top(1..k)} = 1..(k - 1)
      BY <3>1, TopOfFirst
    <3>3. r[k - 1] = f[1..(k - 1)]
      BY <3>1 DEF r
    <3>4. f[1..k] = Op(f[(1..k) \ {Top(1..k)}], s[Top(1..k)])
      BY <1>3, <2>1, <3>1, Zenon
    <3> QED BY <2>1, <2>3, <3>2, <3>3, <3>4
  <2> QED BY <2>2, <2>3
<1>5. IsRun(r, n, base, s)
  <2>1. r = [k \in 0..n |-> r[k]]
    OBVIOUS
  <2> HIDE DEF r
  <2> QED BY <1>4, <2>1 DEF IsRun
<1>6. r[n] = f[1..n]
  OBVIOUS
<1> QED BY <1>2, <1>5, <1>6

\* A fold over one element is a step,
LEMMA FoldOfOne ==
  ASSUME NEW base, NEW e
  PROVE  Folded(base, <<e>>) = Op(base, e)
<1>1. DOMAIN <<e>> = 1..1 /\ <<e>>[1] = e /\ 1 \in 1..1 /\ 1 - 1 = 0 /\ 1 \in Nat
  OBVIOUS
<1>2. PICK r : IsRun(r, 1, base, <<e>>) /\ Folded(base, <<e>>) = r[1]
  BY <1>1, FoldIsRun
<1>3. r[0] = base /\ r[1] = Op(r[1 - 1], <<e>>[1])
  BY <1>1, <1>2, RunStep
<1> QED BY <1>1, <1>2, <1>3

\* one over two or three is that many steps,
LEMMA FoldOfTwo ==
  ASSUME NEW base, NEW d, NEW e
  PROVE  Folded(base, <<d, e>>) = Op(Op(base, d), e)
<1> PICK s : s = <<d, e>>
  OBVIOUS
<1>1. DOMAIN s = 1..2 /\ s[1] = d /\ s[2] = e /\ 2 \in Nat
  OBVIOUS
<1>2. \E r : IsRun(r, 2, base, s) /\ Folded(base, s) = r[2]
  <2>1. ASSUME NEW n \in Nat, DOMAIN s = 1..n PROVE \E r : IsRun(r, n, base, s) /\ Folded(base, s) = r[n]
    BY <2>1, FoldIsRun
  <2> QED BY <1>1, <2>1
<1>3. PICK r : IsRun(r, 2, base, s) /\ Folded(base, s) = r[2]
  BY <1>2
<1>4. 1 \in 1..2 /\ 2 \in 1..2 /\ 1 - 1 = 0 /\ 2 - 1 = 1
  OBVIOUS
<1>5. r[0] = base /\ r[1] = Op(r[0], d) /\ r[2] = Op(r[1], e)
  BY <1>1, <1>3, <1>4, RunStep
<1> QED BY <1>3, <1>5

LEMMA FoldOfThree ==
  ASSUME NEW base, NEW c, NEW d, NEW e
  PROVE  Folded(base, <<c, d, e>>) = Op(Op(Op(base, c), d), e)
<1> PICK s : s = <<c, d, e>>
  OBVIOUS
<1>1. DOMAIN s = 1..3 /\ s[1] = c /\ s[2] = d /\ s[3] = e /\ 3 \in Nat
  OBVIOUS
<1>2. \E r : IsRun(r, 3, base, s) /\ Folded(base, s) = r[3]
  <2>1. ASSUME NEW n \in Nat, DOMAIN s = 1..n PROVE \E r : IsRun(r, n, base, s) /\ Folded(base, s) = r[n]
    BY <2>1, FoldIsRun
  <2> QED BY <1>1, <2>1
<1>3. PICK r : IsRun(r, 3, base, s) /\ Folded(base, s) = r[3]
  BY <1>2
<1>4. 1 \in 1..3 /\ 2 \in 1..3 /\ 3 \in 1..3 /\ 1 - 1 = 0 /\ 2 - 1 = 1 /\ 3 - 1 = 2
  OBVIOUS
<1>5. r[0] = base /\ r[1] = Op(r[0], c) /\ r[2] = Op(r[1], d) /\ r[3] = Op(r[2], e)
  BY <1>1, <1>3, <1>4, RunStep
<1> QED BY <1>3, <1>5

\* one over none changes nothing,
LEMMA FoldOfNone ==
  ASSUME NEW base
  PROVE  Folded(base, <<>>) = base
<1>1. DOMAIN <<>> = 1..0 /\ 0 \in Nat
  OBVIOUS
<1>2. PICK r : IsRun(r, 0, base, <<>>) /\ Folded(base, <<>>) = r[0]
  BY <1>1, FoldIsRun
<1> QED BY <1>1, <1>2, RunStep

\* and one over a sequence goes through its end from where the beginning led.
InTwo(u, n, s, m, t, l) ==
  /\ n = m + l /\ DOMAIN s = 1..m /\ DOMAIN t = 1..l /\ DOMAIN u = 1..n
  /\ \A i \in 1..m : s[i] = u[i]
  /\ \A i \in 1..l : u[m + i] = t[i]

LEMMA FoldInTwo ==
  ASSUME NEW m \in Nat, NEW l \in Nat, NEW n \in Nat, NEW base, NEW s, NEW t, NEW u, InTwo(u, n, s, m, t, l)
  PROVE  Folded(base, u) = Folded(Folded(base, s), t)
<1>1. /\ m \in 0..n /\ DOMAIN s = 1..m /\ DOMAIN t = 1..l /\ DOMAIN u = 1..n
      /\ \A i \in 1..m : s[i] = u[i]
  BY DEF InTwo
<1>2. PICK r : IsRun(r, n, base, u) /\ Folded(base, u) = r[n]
  BY <1>1, FoldIsRun
<1>3. PICK q : IsRun(q, m, base, s) /\ Folded(base, s) = q[m]
  BY <1>1, FoldIsRun
<1>4. PICK p : IsRun(p, l, q[m], t) /\ Folded(q[m], t) = p[l]
  BY <1>1, FoldIsRun
<1>5. q[m] = r[m]
  BY <1>1, <1>2, <1>3, RunsAgree
<1>6. r[0] = base /\ \A i \in 1..n : r[i] = Op(r[i - 1], u[i])
  BY <1>2, RunStep
<1>7. p[0] = q[m] /\ \A i \in 1..l : p[i] = Op(p[i - 1], t[i])
  BY <1>4, RunStep
<1> DEFINE A == {i \in 0..l : p[i] = r[m + i]}
<1>8. 0 \in A
  BY <1>5, <1>7
<1>9. \A i \in 1..l : i - 1 \in A => i \in A
  <2> SUFFICES ASSUME NEW i \in 1..l, i - 1 \in A PROVE i \in A
    OBVIOUS
  <2>1. m + i \in 1..n /\ m + (i - 1) = m + i - 1 /\ i \in 0..l /\ u[m + i] = t[i]
    BY DEF InTwo
  <2>2. r[m + i] = Op(r[m + i - 1], u[m + i]) /\ p[i] = Op(p[i - 1], t[i])
    BY <1>6, <1>7, <2>1
  <2>3. p[i - 1] = r[m + (i - 1)]
    OBVIOUS
  <2> QED BY <2>1, <2>2, <2>3
<1>10. l \in A
  <2>1. l \in 0..l
    OBVIOUS
  <2> HIDE DEF A
  <2> QED BY <1>8, <1>9, <2>1, UpTo
<1>11. n = m + l
  BY DEF InTwo
<1> QED BY <1>2, <1>3, <1>4, <1>10, <1>11

LEMMA FoldConcat ==
  ASSUME NEW base, NEW M, NEW s \in Seq(M), NEW t \in Seq(M)
  PROVE  Folded(base, s \o t) = Folded(Folded(base, s), t)
<1> PICK u : u = s \o t
  OBVIOUS
<1>1. PICK m \in Nat, l \in Nat, n \in Nat : m = Len(s) /\ l = Len(t) /\ n = m + l
  OBVIOUS
<1>2. InTwo(u, n, s, m, t, l)
  BY <1>1 DEF InTwo
<1> QED BY <1>2, FoldInTwo
=============================================================================
