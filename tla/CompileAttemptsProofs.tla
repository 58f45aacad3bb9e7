------------------------ MODULE CompileAttemptsProofs ------------------------
(***************************************************************************)
(* The attempts at compiling a module, whatever its declarations are       *)
(* resolved to: they keep the promises of CompileRecovery, and the table   *)
(* of imported names those of ImportAliases; no declaration is resolved    *)
(* twice, and the elements of a document name their owners.                *)
(***************************************************************************)
EXTENDS CompileAttempts, FiniteSetTheorems, WellFoundedInduction, TLAPS

Promises == INSTANCE CompileProofs WITH
  declared <- DOMAIN module.nodes,
  parent   <- [k \in DOMAIN module.nodes |-> module.nodes[k].parent],
  kept     <- Kept,
  typed    <- {k \in Kept : nodes[k].kind = "usage" /\ nodes[k].ty # <<>>},
  reported <- {f.at : f \in reported},
  Names    <- Seq(STRING),
  Targets  <- Ids

---------------------------------------------------------------------------
(* Least elements *)

\* A nonempty set of numbers has a least one.
NatLess == {p \in Nat \X Nat : p[1] < p[2]}

\* Some natural numbers: one of them is the least.
LEMMA LeastExists ==
  ASSUME NEW T, T \subseteq Nat, T # {}
  PROVE  \E n \in T : \A m \in T : n <= m
<1>1. IsWellFoundedOn(NatLess, Nat)
  BY NatLessThanWellFounded DEF OpToRel, NatLess
<1>2. PICK n \in T : \A m \in T : <<m, n>> \notin NatLess
  BY WFMin, <1>1
<1>3. \A m \in T : ~(m < n)
  BY <1>2 DEF NatLess
<1> QED
  BY <1>3

---------------------------------------------------------------------------
(* Lists *)

\* Two lists put together hold what both hold, and nothing twice if they are
\* apart.
LEMMA ConcatRange ==
  ASSUME NEW T, NEW s \in Seq(T), NEW t \in Seq(T)
  PROVE  /\ s \o t \in Seq(T)
         /\ Range(s \o t) = Range(s) \cup Range(t)
         /\ IsInjective(s) /\ IsInjective(t) /\ Range(s) \cap Range(t) = {} => IsInjective(s \o t)
<1>1. /\ s \o t \in Seq(T) /\ Len(s \o t) = Len(s) + Len(t)
      /\ Len(s) \in Nat /\ Len(t) \in Nat
      /\ DOMAIN s = 1..Len(s) /\ DOMAIN t = 1..Len(t) /\ DOMAIN (s \o t) = 1..(Len(s) + Len(t))
  OBVIOUS
<1>2. \A i \in 1..Len(s) : (s \o t)[i] = s[i]
  OBVIOUS
<1>3. \A i \in 1..Len(t) : (s \o t)[Len(s) + i] = t[i]
  OBVIOUS
<1>4. \A i \in DOMAIN (s \o t) : \/ i \in DOMAIN s
                                \/ \E j \in DOMAIN t : i = Len(s) + j
  <2> SUFFICES ASSUME NEW i \in 1..(Len(s) + Len(t)), i \notin 1..Len(s)
               PROVE  \E j \in 1..Len(t) : i = Len(s) + j
    BY <1>1
  <2>1. i - Len(s) \in 1..Len(t) /\ i = Len(s) + (i - Len(s))
    BY <1>1
  <2> QED
    BY <2>1
<1> DEFINE u == s \o t
<1>5. \A i \in DOMAIN s : i \in DOMAIN u /\ u[i] = s[i]
  BY <1>1, <1>2
<1>6. \A j \in DOMAIN t : Len(s) + j \in DOMAIN u /\ u[Len(s) + j] = t[j]
  BY <1>1, <1>3
<1>7. \A i \in DOMAIN u : \/ i \in DOMAIN s
                          \/ \E j \in DOMAIN t : i = Len(s) + j
  BY <1>4
<1>8. u \in Seq(T)
  BY <1>1
<1> HIDE DEF u
<1>9. \A x : x \in Range(u) <=> x \in Range(s) \/ x \in Range(t)
  BY <1>5, <1>6, <1>7 DEF Range
<1>10. ASSUME IsInjective(s), IsInjective(t), Range(s) \cap Range(t) = {}
       PROVE  IsInjective(u)
  <2> SUFFICES ASSUME NEW a \in DOMAIN u, NEW b \in DOMAIN u, u[a] = u[b] PROVE a = b
    BY DEF IsInjective
  <2>1. \A i \in DOMAIN s, j \in DOMAIN t : s[i] # t[j]
    BY <1>10 DEF Range
  <2>2. CASE a \in DOMAIN s /\ b \in DOMAIN s
    BY <2>2, <1>5, <1>10 DEF IsInjective
  <2>3. ASSUME NEW i \in DOMAIN t, a = Len(s) + i, NEW j \in DOMAIN t, b = Len(s) + j
        PROVE  a = b
    BY <2>3, <1>6, <1>10 DEF IsInjective
  <2>4. ASSUME a \in DOMAIN s, NEW j \in DOMAIN t, b = Len(s) + j PROVE FALSE
    BY <2>4, <1>5, <1>6, <2>1
  <2>5. ASSUME b \in DOMAIN s, NEW j \in DOMAIN t, a = Len(s) + j PROVE FALSE
    BY <2>5, <1>5, <1>6, <2>1
  <2> QED
    BY <2>2, <2>3, <2>4, <2>5, <1>7
<1> QED
  BY <1>8, <1>9, <1>10 DEF u

\* f joins the first n of the lists ss.
Joins(f, ss, n) == \A i \in 1..n : f[i] = IF i = 1 THEN ss[1] ELSE f[i - 1] \o ss[i]

\* The lists can be joined from the first on.
LEMMA JoinsExist ==
  ASSUME NEW ss, NEW n \in Nat
  PROVE  \E f : f = [i \in 1..n |-> f[i]] /\ Joins(f, ss, n)
<1> DEFINE Join(f, m) == f = [i \in 1..m |-> f[i]] /\ Joins(f, ss, m)
           Unjoined == {m \in 0..n : ~\E f : Join(f, m)}
<1> SUFFICES ASSUME Unjoined # {} PROVE FALSE
  BY DEF Joins
<1>1. PICK m \in Unjoined : \A l \in Unjoined : m <= l
  BY LeastExists, Unjoined \subseteq Nat
<1>2. m # 0
  <2> DEFINE f == [i \in 1..0 |-> <<>>]
  <2>1. Join(f, 0)
    BY DEF Joins
  <2> HIDE DEF f, Join
  <2> QED
    BY <1>1, <2>1
<1>3. m \in Nat \ {0} /\ m - 1 \in 0..n
  BY <1>1, <1>2
<1>4. PICK f : Join(f, m - 1)
  <2> HIDE DEF Join
  <2> QED
    BY <1>1, <1>3
<1> DEFINE g == [i \in 1..m |-> IF i = m THEN IF m = 1 THEN ss[1] ELSE f[m - 1] \o ss[m] ELSE f[i]]
<1>5. \A i \in 1..(m - 1) : g[i] = f[i]
  BY <1>3
<1>6. g = [i \in 1..m |-> g[i]]
  OBVIOUS
<1>7. g[m] = IF m = 1 THEN ss[1] ELSE g[m - 1] \o ss[m]
  BY <1>3, <1>5
<1> HIDE DEF g
<1>8. \A i \in 1..m : g[i] = IF i = 1 THEN ss[1] ELSE g[i - 1] \o ss[i]
  <2> TAKE i \in 1..m
  <2>1. CASE i = m
    BY <2>1, <1>7
  <2>2. CASE i # m
    <3>1. i \in 1..(m - 1) /\ (i # 1 => i - 1 \in 1..(m - 1))
      BY <2>2, <1>3
    <3>2. f[i] = IF i = 1 THEN ss[1] ELSE f[i - 1] \o ss[i]
      BY <3>1, <1>4 DEF Joins
    <3> QED
      BY <3>1, <3>2, <1>5
  <2> QED
    BY <2>1, <2>2
<1>9. Join(g, m)
  BY <1>6, <1>8 DEF Joins
<1> HIDE DEF Join
<1> QED
  BY <1>1, <1>9

Disjoint(ss) == \A i, j \in DOMAIN ss : i # j => Range(ss[i]) \cap Range(ss[j]) = {}

\* What FlattenSeq does with lists.
LEMMA FlattenFacts ==
  ASSUME NEW T, NEW ss \in Seq(Seq(T))
  PROVE  /\ FlattenSeq(ss) \in Seq(T)
         /\ Range(FlattenSeq(ss)) = UNION {Range(ss[j]) : j \in DOMAIN ss}
         /\ Disjoint(ss) /\ (\A j \in DOMAIN ss : IsInjective(ss[j])) => IsInjective(FlattenSeq(ss))
<1> DEFINE n == Len(ss)
<1>1. n \in Nat /\ DOMAIN ss = 1..n /\ \A j \in 1..n : ss[j] \in Seq(T)
  OBVIOUS
<1>2. CASE n = 0
  <2>1. ss = <<>> /\ FlattenSeq(ss) = ss
    BY <1>1, <1>2 DEF FlattenSeq
  <2> DEFINE flat == FlattenSeq(ss)
  <2>2. DOMAIN ss = {} /\ DOMAIN flat = {} /\ flat \in Seq(T)
    <3>1. DOMAIN << >> = 1..0 /\ << >> \in Seq(T)
      OBVIOUS
    <3>2. 1..0 = {}
      OBVIOUS
    <3> QED
      BY <2>1, <3>1, <3>2
  <2> HIDE DEF flat
  <2>3. Range(flat) = {} /\ IsInjective(flat)
    BY <2>2 DEF Range, IsInjective
  <2>4. UNION {Range(ss[j]) : j \in DOMAIN ss} = {}
    BY <2>2
  <2> QED
    BY <2>2, <2>3, <2>4 DEF flat
<1>3. CASE n # 0
  <2> DEFINE body(f) == [i \in 1..n |-> IF i = 1 THEN ss[i] ELSE f[i - 1] \o ss[i]]
             F == CHOOSE f : f = body(f)
  <2>1. FlattenSeq(ss) = F[n]
    BY <1>3 DEF FlattenSeq
  <2>2. PICK f : f = [i \in 1..n |-> f[i]] /\ Joins(f, ss, n)
    BY <1>1, JoinsExist
  <2>3. f = body(f)
    BY <2>2 DEF Joins
  <2>4. F = body(F)
    <3> HIDE DEF body
    <3> QED
      BY <2>3
  <2> HIDE DEF F
  <2>5. \A i \in 1..n : F[i] = IF i = 1 THEN ss[i] ELSE F[i - 1] \o ss[i]
    BY <2>4
  <2> DEFINE Apart == Disjoint(ss) /\ \A j \in DOMAIN ss : IsInjective(ss[j])
             Good(i) == /\ F[i] \in Seq(T)
                        /\ Range(F[i]) = UNION {Range(ss[j]) : j \in 1..i}
                        /\ Apart => IsInjective(F[i])
             Bad == {i \in 1..n : ~Good(i)}
  <2>6. Bad = {}
    <3> SUFFICES ASSUME Bad # {} PROVE FALSE
      OBVIOUS
    <3>1. PICK i \in Bad : \A l \in Bad : i <= l
      BY LeastExists, Bad \subseteq Nat
    <3>2. CASE i = 1
      <4>1. F[1] = ss[1] /\ ss[1] \in Seq(T) /\ 1 \in DOMAIN ss
        BY <1>1, <3>1, <3>2, <2>5
      <4>2. {Range(ss[j]) : j \in 1..1} = {Range(ss[1])}
        OBVIOUS
      <4> QED
        BY <4>1, <4>2, <3>1, <3>2
    <3>3. CASE i # 1
      <4>1. i - 1 \in 1..n /\ i \in 1..n /\ i - 1 \notin Bad
        <5>1. i \in 1..n /\ \A l \in Bad : i <= l
          BY <3>1
        <5>2. i - 1 \in 1..n /\ ~(i <= i - 1)
          BY <1>1, <3>3, <5>1
        <5> HIDE DEF Bad
        <5> QED
          BY <5>1, <5>2
      <4>2. Good(i - 1) /\ F[i] = F[i - 1] \o ss[i] /\ ss[i] \in Seq(T)
        BY <4>1, <1>1, <2>5, <3>3
      <4>3. \A x : x \in Range(F[i - 1]) <=> \E j \in 1..(i - 1) : x \in Range(ss[j])
        BY <4>2
      <4>4. Apart => Range(F[i - 1]) \cap Range(ss[i]) = {}
        <5> SUFFICES ASSUME Apart, NEW x \in Range(F[i - 1]), x \in Range(ss[i]) PROVE FALSE
          OBVIOUS
        <5>1. PICK j \in 1..(i - 1) : x \in Range(ss[j])
          BY <4>3
        <5>2. j \in DOMAIN ss /\ i \in DOMAIN ss /\ j # i
          BY <1>1, <4>1
        <5> QED
          BY <5>1, <5>2 DEF Disjoint
      <4>5. /\ F[i] \in Seq(T)
            /\ Range(F[i]) = Range(F[i - 1]) \cup Range(ss[i])
            /\ Apart => IsInjective(F[i])
        <5>1. Apart => IsInjective(ss[i]) /\ IsInjective(F[i - 1])
          BY <4>1, <4>2, <1>1
        <5>2. F[i - 1] \in Seq(T)
          BY <4>2
        <5> DEFINE s == F[i - 1]
                   t == ss[i]
        <5>3. s \in Seq(T) /\ t \in Seq(T) /\ F[i] = s \o t
          BY <4>2, <5>2
        <5>4. Apart => IsInjective(s) /\ IsInjective(t) /\ Range(s) \cap Range(t) = {}
          BY <5>1, <4>4
        <5> HIDE DEF Apart, s, t
        <5>5. /\ F[i] \in Seq(T)
              /\ Range(F[i]) = Range(s) \cup Range(t)
              /\ Apart => IsInjective(F[i])
          BY <5>3, <5>4, ConcatRange
        <5> QED
          BY <5>5 DEF s, t
      <4>6. \A x : x \in Range(F[i]) <=> \E j \in 1..i : x \in Range(ss[j])
        <5>1. \A j : j \in 1..i <=> j \in 1..(i - 1) \/ j = i
          BY <4>1
        <5> QED
          BY <4>3, <4>5, <5>1
      <4>7. Range(F[i]) = UNION {Range(ss[j]) : j \in 1..i}
        BY <4>6
      <4>8. Good(i)
        BY <4>5, <4>7
      <4> QED
        BY <4>8, <3>1
    <3> QED
      BY <3>2, <3>3
  <2>7. Good(n)
    <3>1. n \in 1..n
      BY <1>1, <1>3
    <3>2. \A i \in 1..n : i \notin Bad => Good(i)
      <4> HIDE DEF Good
      <4> QED
        OBVIOUS
    <3> HIDE DEF Bad, Good
    <3> QED
      BY <2>6, <3>1, <3>2
  <2> QED
    BY <2>1, <2>7, <1>1
<1> QED
  BY <1>2, <1>3

\* What is left of a list is what is in the set, in its order.
LEMMA AmongFacts ==
  ASSUME NEW T, NEW s \in Seq(T), NEW S
  PROVE  /\ Among(s, S) \in Seq(T)
         /\ Range(Among(s, S)) = Range(s) \cap S
         /\ IsInjective(s) => IsInjective(Among(s, S))
<1> DEFINE ss == [j \in DOMAIN s |-> IF s[j] \in S THEN <<s[j]>> ELSE <<>>]
<1>1. DOMAIN s = 1..Len(s) /\ Len(s) \in Nat /\ \A j \in DOMAIN s : s[j] \in T
  OBVIOUS
<1>2. ss \in Seq(Seq(T)) /\ DOMAIN ss = DOMAIN s
  BY <1>1
<1>3. \A j \in DOMAIN s : /\ s[j] \in S => Range(ss[j]) = {s[j]}
                          /\ s[j] \notin S => Range(ss[j]) = {}
                          /\ IsInjective(ss[j])
  <2> TAKE j \in DOMAIN s
  <2>1. CASE s[j] \in S
    <3>1. ss[j] = <<s[j]>>
      BY <2>1
    <3> HIDE DEF ss
    <3>2. DOMAIN ss[j] = {1} /\ ss[j][1] = s[j]
      BY <3>1
    <3> QED
      BY <2>1, <3>2 DEF Range, IsInjective
  <2>2. CASE s[j] \notin S
    <3>1. ss[j] = <<>>
      BY <2>2
    <3> HIDE DEF ss
    <3>2. DOMAIN ss[j] = {}
      BY <3>1
    <3> QED
      BY <2>2, <3>2 DEF Range, IsInjective
  <2> QED
    BY <2>1, <2>2
<1>4. Among(s, S) = FlattenSeq(ss)
  BY DEF Among
<1> HIDE DEF ss
<1>5. /\ FlattenSeq(ss) \in Seq(T)
      /\ Range(FlattenSeq(ss)) = UNION {Range(ss[j]) : j \in DOMAIN ss}
      /\ Disjoint(ss) /\ (\A j \in DOMAIN ss : IsInjective(ss[j])) => IsInjective(FlattenSeq(ss))
  BY <1>2, FlattenFacts
<1>6. \A x : x \in Range(FlattenSeq(ss)) <=> x \in Range(s) \cap S
  <2>1. \A x : x \in Range(FlattenSeq(ss)) <=> \E j \in DOMAIN s : x \in Range(ss[j])
    BY <1>2, <1>5
  <2>2. \A x : x \in Range(s) <=> \E j \in DOMAIN s : s[j] = x
    BY DEF Range
  <2>3. ASSUME NEW x, NEW j \in DOMAIN s, x \in Range(ss[j]) PROVE x = s[j] /\ s[j] \in S
    BY <2>3, <1>3
  <2>4. \A j \in DOMAIN s : s[j] \in S => s[j] \in Range(ss[j])
    BY <1>3
  <2>5. ASSUME NEW x, x \in Range(FlattenSeq(ss)) PROVE x \in Range(s) \cap S
    <3>1. PICK j \in DOMAIN s : x \in Range(ss[j])
      BY <2>1, <2>5
    <3>2. x = s[j] /\ s[j] \in S
      BY <2>3, <3>1
    <3>3. x \in Range(s)
      BY <2>2, <3>2
    <3> QED
      BY <3>2, <3>3
  <2>6. ASSUME NEW x, x \in Range(s) \cap S PROVE x \in Range(FlattenSeq(ss))
    <3>1. PICK j \in DOMAIN s : s[j] = x
      BY <2>2, <2>6
    <3>2. x \in Range(ss[j])
      BY <2>4, <2>6, <3>1
    <3> QED
      BY <2>1, <3>2
  <2> QED
    BY <2>5, <2>6
<1>7. IsInjective(s) => Disjoint(ss)
  BY <1>2, <1>3 DEF IsInjective, Disjoint
<1> QED
  BY <1>2, <1>3, <1>4, <1>5, <1>6, <1>7
---------------------------------------------------------------------------
(* Walks *)

\* What holds of a place when it holds of all behind it holds of all.
LEMMA FromTheEnd ==
  ASSUME NEW n \in Nat, NEW S, \A k \in 0..n : (k + 1)..n \subseteq S => k \in S
  PROVE  0..n \subseteq S
<1> DEFINE Bad == {m \in 0..n : n - m \notin S}
<1>1. Bad = {}
  <2> SUFFICES ASSUME Bad # {} PROVE FALSE
    OBVIOUS
  <2>1. PICK m \in Bad : \A l \in Bad : m <= l
    BY LeastExists, Bad \subseteq Nat
  <2>2. m \in 0..n /\ n - m \in 0..n /\ n - m \notin S
    BY <2>1
  <2>3. \A i \in ((n - m) + 1)..n : i \in S
    <3> SUFFICES ASSUME NEW i \in ((n - m) + 1)..n, i \notin S PROVE FALSE
      OBVIOUS
    <3>1. n - i \in 0..n /\ n - (n - i) = i /\ ~(m <= n - i)
      BY <2>2
    <3> QED
      BY <2>1, <3>1
  <2> QED
    BY <2>2, <2>3
<1>2. ASSUME NEW k \in 0..n PROVE k \in S
  <2>1. n - k \in 0..n /\ n - (n - k) = k
    OBVIOUS
  <2>2. n - k \notin Bad
    BY <1>1
  <2> QED
    BY <2>1, <2>2
<1> QED
  BY <1>2

\* What is visited from a place comes behind it.
Onward(visits, n) == \A k \in 0..n : visits[k] \in Seq((k + 1)..n)

\* One step of a walk.
Met(f, own, visits, k) == own[k] \o FlattenSeq([j \in DOMAIN visits[k] |-> f[visits[k][j]]])

\* What is met from a place depends on what is met from later ones alone.
LEMMA MetAgrees ==
  ASSUME NEW n \in Nat, NEW own, NEW visits, Onward(visits, n), NEW k \in 0..n, NEW f, NEW g,
         \A i \in (k + 1)..n : f[i] = g[i]
  PROVE  Met(f, own, visits, k) = Met(g, own, visits, k)
<1>1. visits[k] \in Seq((k + 1)..n)
  BY DEF Onward
<1>2. \A j \in DOMAIN visits[k] : visits[k][j] \in (k + 1)..n
  BY <1>1
<1>3. [j \in DOMAIN visits[k] |-> f[visits[k][j]]] = [j \in DOMAIN visits[k] |-> g[visits[k][j]]]
  BY <1>2
<1> QED
  BY <1>3 DEF Met

IsWalk(f, own, visits, n) == f = [k \in 0..n |-> Met(f, own, visits, k)]

\* A walk whose visits lead on can be made.
LEMMA WalksExist ==
  ASSUME NEW n \in Nat, NEW own, NEW visits, Onward(visits, n)
  PROVE  \E f : IsWalk(f, own, visits, n)
<1> DEFINE From(f, m) == f = [k \in (n - m)..n |-> f[k]] /\ \A k \in (n - m)..n : f[k] = Met(f, own, visits, k)
           Missing == {m \in 0..n : ~\E f : From(f, m)}
<1>1. Missing = {}
  <2> SUFFICES ASSUME Missing # {} PROVE FALSE
    OBVIOUS
  <2>1. PICK m \in Missing : \A l \in Missing : m <= l
    BY LeastExists, Missing \subseteq Nat
  <2>2. m \in 0..n /\ ~\E f : From(f, m)
    BY <2>1
  <2> DEFINE here == n - m
             Before(f) == m # 0 => From(f, m - 1)
  <2>3. PICK f : Before(f)
    <3>1. CASE m = 0
      BY <3>1
    <3>2. CASE m # 0
      <4>1. m - 1 \in 0..n /\ ~(m <= m - 1)
        BY <2>2, <3>2
      <4> HIDE DEF From
      <4> QED
        BY <2>1, <4>1
    <3> QED
      BY <3>1, <3>2
  <2>4. here \in 0..n /\ (here + 1)..n = (IF m = 0 THEN {} ELSE (n - (m - 1))..n)
    BY <2>2
  <2> DEFINE g == [k \in here..n |-> IF k = here THEN Met(f, own, visits, here) ELSE f[k]]
  <2>5. \A k \in (here + 1)..n : g[k] = f[k]
    BY <2>4
  <2>6. here \in here..n /\ g[here] = Met(f, own, visits, here)
    BY <2>4
  <2>7. g = [k \in here..n |-> g[k]]
    OBVIOUS
  <2> HIDE DEF g
  <2>8. Met(f, own, visits, here) = Met(g, own, visits, here)
    BY <2>4, <2>5, MetAgrees
  <2>9. \A k \in (here + 1)..n : g[k] = Met(g, own, visits, k)
    <3> TAKE k \in (here + 1)..n
    <3>1. f[k] = Met(f, own, visits, k)
      BY <2>3, <2>4
    <3>2. k \in 0..n /\ \A i \in (k + 1)..n : i \in (here + 1)..n
      BY <2>4
    <3>3. \A i \in (k + 1)..n : f[i] = g[i]
      BY <2>5, <3>2
    <3>4. Met(f, own, visits, k) = Met(g, own, visits, k)
      BY <3>2, <3>3, MetAgrees
    <3> QED
      BY <2>5, <3>1, <3>4
  <2>10. \A k \in here..n : k = here \/ k \in (here + 1)..n
    BY <2>4
  <2>11. \A k \in here..n : g[k] = Met(g, own, visits, k)
    BY <2>6, <2>8, <2>9, <2>10
  <2> QED
    BY <2>2, <2>7, <2>11
<1>2. PICK f : From(f, n)
  <2>1. n \in 0..n /\ n \notin Missing
    BY <1>1
  <2> HIDE DEF From
  <2> QED
    BY <2>1
<1>3. n - n = 0
  OBVIOUS
<1>4. f = [k \in 0..n |-> Met(f, own, visits, k)]
  BY <1>2, <1>3
<1> QED
  BY <1>4 DEF IsWalk

\* A walk is what its definition by recursion says.
LEMMA WalkUnfolds ==
  ASSUME NEW n \in Nat, NEW own, DOMAIN own = 0..n, NEW visits, Onward(visits, n)
  PROVE  \A k \in 0..n : Walk(own, visits)[k] = Met(Walk(own, visits), own, visits, k)
<1> DEFINE body(f) == [k \in 0..n |-> Met(f, own, visits, k)]
<1>0. PICK f : IsWalk(f, own, visits, n)
  BY WalksExist
<1>1. f = body(f)
  BY <1>0 DEF IsWalk
<1>2. Walk(own, visits) = CHOOSE g : g = body(g)
  BY DEF Walk, Met
<1>3. Walk(own, visits) = body(Walk(own, visits))
  <2> HIDE DEF body
  <2> QED
    BY <1>1, <1>2
<1> QED
  BY <1>3

\* What the places in B have is over T, and no visit leads out of them.
Within(B, own, visits, T) == \A k \in B : own[k] \in Seq(T) /\ Range(visits[k]) \subseteq B

\* What a walk meets: what the place has, and what is met from where it leads.
Meets(own, visits, T, k) ==
  /\ Walk(own, visits)[k] \in Seq(T)
  /\ Range(Walk(own, visits)[k]) = Range(own[k]) \cup UNION {Range(Walk(own, visits)[j]) : j \in Range(visits[k])}

\* What a walk meets is of the kind that every place it visits has to offer.
LEMMA WalkFacts ==
  ASSUME NEW n \in Nat, NEW own, DOMAIN own = 0..n, NEW visits, Onward(visits, n),
         NEW T, NEW B, Within(B, own, visits, T)
  PROVE  \A k \in (0..n) \cap B : Meets(own, visits, T, k)
<1> DEFINE walk == Walk(own, visits)
           next(k) == [j \in DOMAIN visits[k] |-> walk[visits[k][j]]]
<1>1. \A k \in 0..n : walk[k] = own[k] \o FlattenSeq(next(k))
  <2>1. \A k \in 0..n : walk[k] = Met(walk, own, visits, k)
    BY WalkUnfolds
  <2> HIDE DEF walk
  <2> QED
    BY <2>1 DEF Met
<1>2. \A k \in 0..n : visits[k] \in Seq((k + 1)..n)
  BY DEF Onward
<1>3. \A k \in (0..n) \cap B : /\ \A i \in DOMAIN visits[k] : visits[k][i] \in ((k + 1)..n) \cap B
                               /\ DOMAIN visits[k] = 1..Len(visits[k]) /\ Len(visits[k]) \in Nat
  <2> TAKE k \in (0..n) \cap B
  <2>1. visits[k] \in Seq((k + 1)..n) /\ Range(visits[k]) \subseteq B
    BY <1>2 DEF Within
  <2>2. \A i \in DOMAIN visits[k] : visits[k][i] \in Range(visits[k])
    BY DEF Range
  <2>3. \A i \in DOMAIN visits[k] : visits[k][i] \in (k + 1)..n
    BY <2>1
  <2> QED
    BY <2>1, <2>2, <2>3
<1> HIDE DEF walk
<1>4. ASSUME NEW k \in (0..n) \cap B, \A i \in ((k + 1)..n) \cap B : walk[i] \in Seq(T)
      PROVE  /\ walk[k] \in Seq(T)
             /\ Range(walk[k]) = Range(own[k]) \cup UNION {Range(walk[j]) : j \in Range(visits[k])}
  <2>1. next(k) \in Seq(Seq(T))
    <3>1. next(k) = [j \in 1..Len(visits[k]) |-> walk[visits[k][j]]]
      BY <1>3
    <3>2. \A j \in 1..Len(visits[k]) : walk[visits[k][j]] \in Seq(T)
      BY <1>3, <1>4
    <3>3. Len(visits[k]) \in Nat
      BY <1>3
    <3> HIDE DEF next
    <3> QED
      BY <3>1, <3>2, <3>3
  <2>2. DOMAIN next(k) = DOMAIN visits[k] /\ \A j \in DOMAIN visits[k] : next(k)[j] = walk[visits[k][j]]
    OBVIOUS
  <2> HIDE DEF next
  <2> DEFINE flat == FlattenSeq(next(k))
  <2>3. flat \in Seq(T) /\ Range(flat) = UNION {Range(next(k)[j]) : j \in DOMAIN next(k)}
    BY <2>1, FlattenFacts
  <2> HIDE DEF flat
  <2>4. own[k] \in Seq(T) /\ walk[k] = own[k] \o flat
    BY <1>1 DEF flat, Within
  <2>5. walk[k] \in Seq(T) /\ Range(walk[k]) = Range(own[k]) \cup Range(flat)
    BY <2>3, <2>4, ConcatRange
  <2>6. Range(flat) = UNION {Range(walk[j]) : j \in Range(visits[k])}
    <3>1. UNION {Range(next(k)[j]) : j \in DOMAIN next(k)} = UNION {Range(walk[visits[k][j]]) : j \in DOMAIN visits[k]}
      BY <2>2
    <3>2. \A x : x \in Range(visits[k]) <=> \E j \in DOMAIN visits[k] : visits[k][j] = x
      BY DEF Range
    <3>3. {Range(walk[visits[k][j]]) : j \in DOMAIN visits[k]} = {Range(walk[j]) : j \in Range(visits[k])}
      BY <3>2
    <3> QED
      BY <2>3, <3>1, <3>3
  <2> QED
    BY <2>5, <2>6
<1> DEFINE Listed == {k \in 0..n : k \in B => walk[k] \in Seq(T)}
<1>5. \A k \in 0..n : (k + 1)..n \subseteq Listed => k \in Listed
  BY <1>4
<1>6. 0..n \subseteq Listed
  <2> HIDE DEF Listed
  <2> QED
    BY <1>5, FromTheEnd
<1>7. \A k \in 0..n : (k + 1)..n \subseteq 0..n
  OBVIOUS
<1>8. \A k \in (0..n) \cap B : \A i \in ((k + 1)..n) \cap B : walk[i] \in Seq(T)
  BY <1>6, <1>7
<1>9. \A k \in (0..n) \cap B :
         /\ walk[k] \in Seq(T)
         /\ Range(walk[k]) = Range(own[k]) \cup UNION {Range(walk[j]) : j \in Range(visits[k])}
  BY <1>4, <1>8
<1> QED
  BY <1>9 DEF walk, Meets

\* A walk that meets the places themselves: no visit leads out of what is met,
\* and to every place met but the first leads a visit.
Reaches(own, visits, n, k) ==
  LET met == Range(Walk(own, visits)[k])
  IN /\ k \in met
     /\ \A i \in met : /\ i \in k..n
                       /\ Range(visits[i]) \subseteq met
                       /\ i # k => \E p \in met : i \in Range(visits[p])

\* A walk that offers each place itself meets what can be visited.
LEMMA PlacesMet ==
  ASSUME NEW n \in Nat, NEW visits, Onward(visits, n),
         NEW own, DOMAIN own = 0..n, \A k \in 0..n : own[k] = <<k>>
  PROVE  \A k \in 0..n : Reaches(own, visits, n, k)
<1> DEFINE met(k) == Range(Walk(own, visits)[k])
           Fine(k) == /\ k \in met(k)
                      /\ \A i \in met(k) : /\ i \in k..n
                                           /\ Range(visits[i]) \subseteq met(k)
                                           /\ i # k => \E p \in met(k) : i \in Range(visits[p])
           S == {k \in 0..n : Fine(k)}
<1>1. \A k \in 0..n : own[k] \in Seq(0..n) /\ Range(own[k]) = {k}
  <2> TAKE k \in 0..n
  <2>1. own[k] = <<k>> /\ DOMAIN <<k>> = {1} /\ <<k>>[1] = k
    OBVIOUS
  <2> QED
    BY <2>1 DEF Range
<1>2. \A k \in 0..n : Range(visits[k]) \subseteq (k + 1)..n
  <2> TAKE k \in 0..n
  <2>1. visits[k] \in Seq((k + 1)..n)
    BY DEF Onward
  <2> QED
    BY <2>1 DEF Range
<1>3. \A k \in 0..n : Range(visits[k]) \subseteq 0..n
  BY <1>2
<1>4. \A k \in 0..n : met(k) = {k} \cup UNION {met(j) : j \in Range(visits[k])}
  <2>1. DOMAIN own = 0..n
    OBVIOUS
  <2> DEFINE T == 0..n
  <2>2. Within(T, own, visits, T)
    BY <1>1, <1>3 DEF Within
  <2> HIDE DEF T
  <2>3. \A k \in (0..n) \cap T : Meets(own, visits, T, k)
    BY <2>1, <2>2, WalkFacts
  <2> QED
    BY <1>1, <2>3 DEF T, Meets
<1> HIDE DEF met
<1>5. ASSUME NEW k \in 0..n, (k + 1)..n \subseteq S PROVE Fine(k)
  <2>1. k \in met(k)
    BY <1>4
  <2>2. \A j \in Range(visits[k]) : j \in (k + 1)..n /\ Fine(j) /\ met(j) \subseteq met(k)
    BY <1>2, <1>4, <1>5
  <2>3. ASSUME NEW i \in met(k), i # k
        PROVE  /\ i \in k..n
               /\ Range(visits[i]) \subseteq met(k)
               /\ \E p \in met(k) : i \in Range(visits[p])
    <3>1. PICK j \in Range(visits[k]) : i \in met(j)
      BY <1>4, <2>3
    <3>2. i \in j..n /\ Range(visits[i]) \subseteq met(j)
      BY <2>2, <3>1
    <3>3. \E p \in met(k) : i \in Range(visits[p])
      <4>1. CASE i = j
        BY <2>1, <4>1
      <4>2. CASE i # j
        BY <2>2, <3>1, <4>2
      <4> QED
        BY <4>1, <4>2
    <3>4. j \in (k + 1)..n /\ met(j) \subseteq met(k)
      BY <2>2
    <3>5. i \in k..n
      BY <3>2, <3>4
    <3> QED
      BY <3>2, <3>3, <3>4, <3>5
  <2>4. k \in k..n /\ Range(visits[k]) \subseteq met(k)
    BY <2>2
  <2> QED
    BY <2>1, <2>3, <2>4
<1>6. \A k \in 0..n : (k + 1)..n \subseteq S => k \in S
  BY <1>5
<1>7. 0..n \subseteq S
  <2> HIDE DEF S
  <2> QED
    BY <1>6, FromTheEnd
<1> QED
  BY <1>7 DEF met, Reaches

---------------------------------------------------------------------------
(* Declarations and what they stand in *)

\* A function on 1..n is a sequence.
LEMMA IndexedIsSequence ==
  ASSUME NEW n \in Nat, NEW s, s = [k \in 1..n |-> s[k]]
  PROVE  s \in Seq(Range(s)) /\ Len(s) = n
<1>1. \A k \in 1..n : s[k] \in Range(s)
  <2>1. DOMAIN s = 1..n
    OBVIOUS
  <2> QED
    BY <2>1 DEF Range
<1>2. s \in [1..n -> Range(s)]
  BY <1>1
<1> QED
  BY <1>2

\* Declarations behind the ones they stand in.
Forest(ns) == Len(ns) \in Nat /\ \A k \in 1..Len(ns) : ns[k].parent \in 0..(k - 1)

\* f answers for the declarations up to n as Around is written.
AnswersTo(f, ns, n) == \A k \in 0..n : f[k] = {k} \cup IF k = 0 THEN {} ELSE f[ns[k].parent]

\* What a declaration stands in can be computed for all of them.
LEMMA AnswersExist ==
  ASSUME NEW ns, Forest(ns), NEW n \in 0..Len(ns)
  PROVE  \E f : f = [k \in 0..n |-> f[k]] /\ AnswersTo(f, ns, n)
<1> DEFINE Answer(f, m) == f = [k \in 0..m |-> f[k]] /\ AnswersTo(f, ns, m)
           Unanswered == {m \in 0..n : ~\E f : Answer(f, m)}
<1> SUFFICES ASSUME Unanswered # {} PROVE FALSE
  BY DEF Forest
<1>1. PICK m \in Unanswered : \A l \in Unanswered : m <= l
  <2>1. Unanswered \subseteq Nat
    BY DEF Forest
  <2> QED
    BY <2>1, LeastExists
<1>2. m # 0
  <2> DEFINE f == [k \in 0..0 |-> {k}]
  <2>1. Answer(f, 0)
    BY DEF AnswersTo
  <2> HIDE DEF f, Answer
  <2> QED
    BY <1>1, <2>1
<1>3. m \in Nat \ {0} /\ m - 1 \in 0..n /\ m \in 1..Len(ns)
  BY <1>1, <1>2 DEF Forest
<1>4. PICK f : Answer(f, m - 1)
  <2> HIDE DEF Answer
  <2> QED
    BY <1>1, <1>3
<1> DEFINE g == [k \in 0..m |-> IF k = m THEN {m} \cup f[ns[m].parent] ELSE f[k]]
<1>5. \A k \in 0..(m - 1) : g[k] = f[k]
  BY <1>3
<1>6. g[m] = {m} \cup g[ns[m].parent]
  BY <1>3, <1>5 DEF Forest
<1>7. \A k \in 1..(m - 1) : ns[k].parent \in 0..(m - 1)
  BY <1>3 DEF Forest
<1>8. g = [k \in 0..m |-> g[k]]
  OBVIOUS
<1> HIDE DEF g
<1>9. \A k \in 0..m : g[k] = {k} \cup IF k = 0 THEN {} ELSE g[ns[k].parent]
  BY <1>3, <1>4, <1>5, <1>6, <1>7 DEF AnswersTo
<1>10. Answer(g, m)
  BY <1>8, <1>9 DEF AnswersTo
<1> HIDE DEF Answer
<1> QED
  BY <1>1, <1>10

\* What a declaration is in: itself, and what the one around it is in.
LEMMA AroundUnfolds ==
  ASSUME NEW ns, Forest(ns)
  PROVE  /\ Around(ns)[0] = {0}
         /\ \A k \in 1..Len(ns) : Around(ns)[k] = {k} \cup Around(ns)[ns[k].parent]
<1> DEFINE body(f) == [k \in 0..Len(ns) |-> {k} \cup IF k = 0 THEN {} ELSE f[ns[k].parent]]
<1>1. Len(ns) \in 0..Len(ns) /\ 0 \in 0..Len(ns) /\ 1..Len(ns) \subseteq 0..Len(ns)
  BY DEF Forest
<1>2. PICK f : f = [k \in 0..Len(ns) |-> f[k]] /\ AnswersTo(f, ns, Len(ns))
  BY <1>1, AnswersExist
<1>3. f = body(f)
  BY <1>2 DEF AnswersTo
<1>4. Around(ns) = CHOOSE g : g = body(g)
  BY DEF Around
<1>5. Around(ns) = body(Around(ns))
  <2> HIDE DEF body
  <2> QED
    BY <1>3, <1>4
<1> QED
  BY <1>1, <1>5

---------------------------------------------------------------------------
(* Collection *)

\* A list of what is in S only is a list over S.
LEMMA Narrowed ==
  ASSUME NEW T, NEW s \in Seq(T), NEW S, Range(s) \subseteq S
  PROVE  s \in Seq(S)
<1>1. DOMAIN s = 1..Len(s) /\ Len(s) \in Nat /\ s = [j \in 1..Len(s) |-> s[j]]
  OBVIOUS
<1>2. \A j \in DOMAIN s : s[j] \in S
  BY DEF Range
<1> QED
  BY <1>1, <1>2

\* Declarations, each behind the one it stands in.
Declared(ns) == Forest(ns) /\ DOMAIN ns = 1..Len(ns)

\* All declarations, each once.
LEMMA DeclarationsFacts ==
  ASSUME NEW ns, Declared(ns)
  PROVE  /\ Declarations(ns) \in Seq(DOMAIN ns)
         /\ Range(Declarations(ns)) = DOMAIN ns
         /\ IsInjective(Declarations(ns))
<1>1. Len(ns) \in Nat /\ DOMAIN ns = 1..Len(ns)
  BY DEF Declared, Forest
<1> DEFINE list == Declarations(ns)
<1>2. list = [k \in 1..Len(ns) |-> k]
  BY <1>1 DEF Declarations
<1>3. DOMAIN list = 1..Len(ns) /\ \A k \in 1..Len(ns) : list[k] = k
  BY <1>2
<1>4. list \in Seq(1..Len(ns))
  BY <1>1, <1>2
<1> HIDE DEF list
<1> QED
  BY <1>1, <1>3, <1>4 DEF Range, IsInjective, list

\* Some of the declarations, each once.
LEMMA SelectedFacts ==
  ASSUME NEW ns, Declared(ns), NEW S
  PROVE  /\ Among(Declarations(ns), S) \in Seq(DOMAIN ns \cap S)
         /\ Range(Among(Declarations(ns), S)) = DOMAIN ns \cap S
         /\ IsInjective(Among(Declarations(ns), S))
<1> DEFINE list == Declarations(ns)
<1>1. list \in Seq(DOMAIN ns) /\ Range(list) = DOMAIN ns /\ IsInjective(list)
  BY DeclarationsFacts
<1> HIDE DEF list
<1>2. /\ Among(list, S) \in Seq(DOMAIN ns)
      /\ Range(Among(list, S)) = DOMAIN ns \cap S
      /\ IsInjective(Among(list, S))
  BY <1>1, AmongFacts
<1>3. Among(list, S) \in Seq(DOMAIN ns \cap S)
  BY <1>2, Narrowed
<1> QED
  BY <1>2, <1>3 DEF list

\* What stands directly in a place comes after it.
LEMMA ChildrenFacts ==
  ASSUME NEW ns, Declared(ns), NEW i \in Places(ns)
  PROVE  /\ ChildrenOf(ns, i) \in Seq((i + 1)..Len(ns))
         /\ Range(ChildrenOf(ns, i)) = {k \in DOMAIN ns : ns[k].parent = i}
         /\ IsInjective(ChildrenOf(ns, i))
<1> DEFINE S == {k \in DOMAIN ns : ns[k].parent = i}
           list == ChildrenOf(ns, i)
<1>1. list = Among(Declarations(ns), S)
  BY DEF ChildrenOf
<1>2. list \in Seq(DOMAIN ns \cap S) /\ Range(list) = DOMAIN ns \cap S /\ IsInjective(list)
  <2> HIDE DEF S, list
  <2> QED
    BY <1>1, SelectedFacts
<1>3. S \subseteq (i + 1)..Len(ns)
  <2> SUFFICES ASSUME NEW k \in 1..Len(ns), ns[k].parent = i PROVE k \in (i + 1)..Len(ns)
    BY DEF Declared
  <2>1. i \in 0..(k - 1) /\ Len(ns) \in Nat
    BY DEF Declared, Forest
  <2> QED
    BY <2>1 DEF Places
<1>4. DOMAIN ns \cap S = S
  OBVIOUS
<1>5. list \in Seq((i + 1)..Len(ns))
  <2> HIDE DEF S, list
  <2> QED
    BY <1>2, <1>3, <1>4, Narrowed
<1> QED
  BY <1>2, <1>4, <1>5

\* The same of what is of one kind.
LEMMA ChildrenOfKindFacts ==
  ASSUME NEW ns, Declared(ns), NEW i \in Places(ns), NEW kind
  PROVE  /\ ChildrenOfKind(ns, i, kind) \in Seq((i + 1)..Len(ns))
         /\ Range(ChildrenOfKind(ns, i, kind)) = {k \in DOMAIN ns : ns[k].parent = i /\ ns[k].kind = kind}
         /\ IsInjective(ChildrenOfKind(ns, i, kind))
<1> DEFINE S == {k \in DOMAIN ns : ns[k].kind = kind}
           all == ChildrenOf(ns, i)
           T == (i + 1)..Len(ns)
<1>1. all \in Seq(T) /\ Range(all) = {k \in DOMAIN ns : ns[k].parent = i} /\ IsInjective(all)
  BY ChildrenFacts
<1>2. ChildrenOfKind(ns, i, kind) = Among(all, S)
  BY DEF ChildrenOfKind
<1>3. /\ Among(all, S) \in Seq(T)
      /\ Range(Among(all, S)) = Range(all) \cap S
      /\ IsInjective(Among(all, S))
  <2> HIDE DEF all, S, T
  <2> QED
    BY <1>1, AmongFacts
<1>4. Range(all) \cap S = {k \in DOMAIN ns : ns[k].parent = i /\ ns[k].kind = kind}
  BY <1>1
<1> QED
  BY <1>2, <1>3, <1>4

\* Where a collection goes is behind where it comes from.
LEMMA CollectionIsOnward ==
  ASSUME NEW ns, Declared(ns)
  PROVE  /\ Onward(CollectedFrom(ns), Len(ns))
         /\ \A k \in Places(ns) : Range(CollectedFrom(ns)[k]) \subseteq {i \in DOMAIN ns : ns[i].parent = k}
<1> DEFINE from == CollectedFrom(ns)
<1>1. \A k \in Places(ns) : \/ from[k] = ChildrenOf(ns, k)
                            \/ from[k] = ChildrenOfKind(ns, k, "package")
                            \/ from[k] = <<>>
  BY DEF CollectedFrom
<1> HIDE DEF from
<1>2. \A k \in Places(ns) : /\ from[k] \in Seq((k + 1)..Len(ns))
                            /\ Range(from[k]) \subseteq {i \in DOMAIN ns : ns[i].parent = k}
  <2> TAKE k \in Places(ns)
  <2>1. CASE from[k] = ChildrenOf(ns, k)
    BY <2>1, ChildrenFacts
  <2>2. CASE from[k] = ChildrenOfKind(ns, k, "package")
    BY <2>2, ChildrenOfKindFacts
  <2>3. CASE from[k] = <<>>
    <3>1. << >> \in Seq((k + 1)..Len(ns)) /\ DOMAIN << >> = {}
      OBVIOUS
    <3>2. DOMAIN from[k] = {}
      BY <2>3, <3>1
    <3>3. Range(from[k]) = {}
      BY <3>2 DEF Range
    <3> QED
      BY <2>3, <3>1, <3>3
  <2> QED
    BY <1>1, <2>1, <2>2, <2>3
<1> QED
  BY <1>2 DEF Onward, Places, from
---------------------------------------------------------------------------
(* Trees *)

\* The usages in a usage, in what order they are resolved and emitted.
LEMMA UsageOrderFacts ==
  ASSUME NEW ns, Declared(ns), NEW k \in DOMAIN ns
  PROVE  /\ UsageOrder(ns, k) \in Seq(DOMAIN ns)
         /\ k \in Range(UsageOrder(ns, k))
         /\ \A i \in Range(UsageOrder(ns, k)) :
              /\ i \in k..Len(ns)
              /\ Range(UsagesIn(ns, i)) \subseteq Range(UsageOrder(ns, k))
              /\ i # k => ns[i].kind = "usage" /\ ns[i].parent \in Range(UsageOrder(ns, k))
<1> DEFINE n == Len(ns)
           own == [i \in Places(ns) |-> <<i>>]
           visits == [i \in Places(ns) |-> UsagesIn(ns, i)]
           order == Walk(own, visits)[k]
<1>1. n \in Nat /\ DOMAIN ns = 1..n /\ Places(ns) = 0..n /\ k \in 1..n
  BY DEF Declared, Forest, Places
<1>2. \A i \in 0..n : /\ visits[i] \in Seq((i + 1)..n)
                      /\ Range(visits[i]) = {j \in DOMAIN ns : ns[j].parent = i /\ ns[j].kind = "usage"}
  <2> TAKE i \in 0..n
  <2>1. i \in Places(ns) /\ visits[i] = ChildrenOfKind(ns, i, "usage")
    BY <1>1 DEF UsagesIn
  <2> HIDE DEF visits
  <2> QED
    BY <2>1, ChildrenOfKindFacts
<1>3. \A i \in 0..n : visits[i] = UsagesIn(ns, i)
  BY <1>1
<1>4. DOMAIN own = 0..n /\ \A i \in 0..n : own[i] = <<i>>
  BY <1>1
<1>5. UsageOrder(ns, k) = order
  BY DEF UsageOrder
<1> HIDE DEF own, visits
<1>6. Onward(visits, n)
  BY <1>2 DEF Onward
<1>7. order \in Seq(DOMAIN ns)
  <2> DEFINE T == DOMAIN ns
  <2>1. T \subseteq 0..n
    BY <1>1
  <2>2. Within(T, own, visits, T)
    <3> SUFFICES ASSUME NEW i \in T PROVE own[i] \in Seq(T) /\ Range(visits[i]) \subseteq T
      BY DEF Within
    <3>1. own[i] = <<i>> /\ Range(visits[i]) \subseteq T
      BY <1>2, <1>4, <2>1
    <3> HIDE DEF T
    <3> QED
      BY <3>1
  <2> HIDE DEF T
  <2>3. \A i \in (0..n) \cap T : Meets(own, visits, T, i)
    BY <1>1, <1>4, <1>6, <2>2, WalkFacts
  <2>4. k \in (0..n) \cap T
    BY <1>1, <2>1 DEF T
  <2> QED
    BY <2>3, <2>4 DEF T, Meets
<1>8. /\ k \in Range(order)
      /\ \A i \in Range(order) :
           /\ i \in k..n
           /\ Range(visits[i]) \subseteq Range(order)
           /\ i # k => \E p \in Range(order) : i \in Range(visits[p])
  <2>1. k \in 0..n
    BY <1>1
  <2>2. Reaches(own, visits, n, k)
    BY <1>1, <1>4, <1>6, <2>1, PlacesMet
  <2> QED
    BY <2>2 DEF Reaches
<1>9. \A i \in Range(order) : i \in 0..n
  BY <1>1, <1>8
<1> HIDE DEF order
<1>10. ASSUME NEW i \in Range(order), i # k PROVE ns[i].kind = "usage" /\ ns[i].parent \in Range(order)
  <2>1. PICK p \in Range(order) : i \in Range(visits[p])
    BY <1>8, <1>10
  <2>2. Range(visits[p]) = {j \in DOMAIN ns : ns[j].parent = p /\ ns[j].kind = "usage"}
    BY <1>2, <1>9
  <2> QED
    BY <2>1, <2>2
<1> QED
  BY <1>3, <1>5, <1>7, <1>8, <1>9, <1>10

Definitions(ns) == {k \in DOMAIN ns : ns[k].kind = "definition"}

\* A definition and those nested in it are definitions.
LEMMA DefinitionTreeFacts ==
  ASSUME NEW ns, Declared(ns), NEW k \in Definitions(ns)
  PROVE  DefinitionTree(ns, k) \in Seq(Definitions(ns))
<1> DEFINE n == Len(ns)
           own == [i \in Places(ns) |-> <<i>>]
           visits == [i \in Places(ns) |-> ChildrenOfKind(ns, i, "definition")]
           T == Definitions(ns)
<1>1. n \in Nat /\ DOMAIN ns = 1..n /\ Places(ns) = 0..n /\ k \in 0..n
  BY DEF Declared, Forest, Places, Definitions
<1>2. \A i \in 0..n : visits[i] \in Seq((i + 1)..n) /\ Range(visits[i]) \subseteq T
  <2> TAKE i \in 0..n
  <2>1. i \in Places(ns) /\ visits[i] = ChildrenOfKind(ns, i, "definition")
    BY <1>1
  <2>2. /\ ChildrenOfKind(ns, i, "definition") \in Seq((i + 1)..n)
        /\ Range(ChildrenOfKind(ns, i, "definition")) =
             {j \in DOMAIN ns : ns[j].parent = i /\ ns[j].kind = "definition"}
    BY <2>1, ChildrenOfKindFacts
  <2> QED
    BY <2>1, <2>2 DEF Definitions
<1>3. DOMAIN own = 0..n /\ \A i \in 0..n : own[i] = <<i>>
  BY <1>1
<1>4. DefinitionTree(ns, k) = Walk(own, visits)[k]
  BY DEF DefinitionTree
<1>5. T \subseteq 0..n
  BY <1>1 DEF Definitions
<1> HIDE DEF own, visits, T
<1>6. Onward(visits, n)
  BY <1>2 DEF Onward
<1>7. Within(T, own, visits, T)
  <2> SUFFICES ASSUME NEW i \in T PROVE own[i] \in Seq(T) /\ Range(visits[i]) \subseteq T
    BY DEF Within
  <2>1. own[i] = <<i>> /\ Range(visits[i]) \subseteq T
    BY <1>2, <1>3, <1>5
  <2> QED
    BY <2>1
<1>8. \A i \in (0..n) \cap T : Meets(own, visits, T, i)
  BY <1>1, <1>3, <1>6, <1>7, WalkFacts
<1>9. k \in (0..n) \cap T
  BY <1>1 DEF T
<1> QED
  BY <1>4, <1>8, <1>9 DEF T, Meets

\* Whatever is taken from every place a collection comes to.
LEMMA CollectedFacts ==
  ASSUME NEW ns, Declared(ns), NEW own, DOMAIN own = Places(ns), NEW T, \A k \in Places(ns) : own[k] \in Seq(T)
  PROVE  Walk(own, CollectedFrom(ns))[0] \in Seq(T)
<1> DEFINE n == Len(ns)
           visits == CollectedFrom(ns)
           B == 0..n
<1>1. n \in Nat /\ DOMAIN ns = 1..n /\ Places(ns) = B /\ 0 \in B
  BY DEF Declared, Forest, Places
<1>2. Onward(visits, n) /\ \A k \in B : Range(visits[k]) \subseteq B
  BY <1>1, CollectionIsOnward
<1>3. DOMAIN own = 0..n
  BY <1>1
<1>4. Within(B, own, visits, T)
  BY <1>1, <1>2 DEF Within
<1> HIDE DEF visits, B
<1>5. \A k \in (0..n) \cap B : Meets(own, visits, T, k)
  BY <1>1, <1>2, <1>3, <1>4, WalkFacts
<1>6. 0 \in 0..n
  BY <1>1
<1> QED
  BY <1>1, <1>5, <1>6 DEF visits, Meets

\* The definitions collected are definitions.
LEMMA DefinitionOrderFacts ==
  ASSUME NEW ns, Declared(ns)
  PROVE  DefinitionOrder(ns) \in Seq(Definitions(ns))
<1> DEFINE own == [k \in Places(ns) |->
                     IF k # 0 /\ ns[k].kind = "definition" THEN DefinitionTree(ns, k) ELSE <<>>]
<1>1. \A k \in Places(ns) : own[k] \in Seq(Definitions(ns))
  <2> SUFFICES ASSUME NEW k \in Places(ns), k # 0, ns[k].kind = "definition"
               PROVE  DefinitionTree(ns, k) \in Seq(Definitions(ns))
    OBVIOUS
  <2>1. k \in Definitions(ns)
    BY DEF Places, Declared, Forest, Definitions
  <2> QED
    BY <2>1, DefinitionTreeFacts
<1>2. DefinitionOrder(ns) = Walk(own, CollectedFrom(ns))[0]
  BY DEF DefinitionOrder
<1> HIDE DEF own
<1>3. DOMAIN own = Places(ns)
  BY DEF own
<1> QED
  BY <1>1, <1>2, <1>3, CollectedFacts

\* Usages with the usages in them are declarations.
LEMMA OrdersFacts ==
  ASSUME NEW ns, Declared(ns), NEW list \in Seq(DOMAIN ns)
  PROVE  Orders(ns, list) \in Seq(DOMAIN ns)
<1> DEFINE orders == [j \in DOMAIN list |-> UsageOrder(ns, list[j])]
<1>1. DOMAIN list = 1..Len(list) /\ Len(list) \in Nat /\ \A j \in DOMAIN list : list[j] \in DOMAIN ns
  OBVIOUS
<1>2. \A j \in DOMAIN list : UsageOrder(ns, list[j]) \in Seq(DOMAIN ns)
  BY <1>1, UsageOrderFacts
<1>3. orders \in Seq(Seq(DOMAIN ns))
  BY <1>1, <1>2
<1>4. Orders(ns, list) = FlattenSeq(orders)
  BY DEF Orders
<1> HIDE DEF orders
<1> QED
  BY <1>3, <1>4, FlattenFacts

Usages(ns) == {k \in DOMAIN ns : ns[k].kind = "usage"}

\* The usages directly in a declaration.
LEMMA UsagesInFacts ==
  ASSUME NEW ns, Declared(ns), NEW k \in DOMAIN ns
  PROVE  /\ UsagesIn(ns, k) \in Seq(Usages(ns))
         /\ Range(UsagesIn(ns, k)) = {i \in Usages(ns) : ns[i].parent = k}
<1>1. k \in Places(ns)
  BY DEF Declared, Forest, Places
<1>2. /\ UsagesIn(ns, k) \in Seq((k + 1)..Len(ns))
      /\ Range(UsagesIn(ns, k)) = {i \in DOMAIN ns : ns[i].parent = k /\ ns[i].kind = "usage"}
  BY <1>1, ChildrenOfKindFacts DEF UsagesIn
<1>3. Range(UsagesIn(ns, k)) \subseteq Usages(ns)
  BY <1>2 DEF Usages
<1> QED
  BY <1>2, <1>3, Narrowed DEF Usages

\* Usages of the module are usages, and no other declaration has them in it
\* than a package.
LEMMA FreeUsagesFacts ==
  ASSUME NEW ns, Declared(ns)
  PROVE  /\ FreeUsages(ns) \in Seq(Usages(ns))
         /\ \A k \in Range(FreeUsages(ns)) : ns[k].parent = 0 \/ ns[ns[k].parent].kind = "package"
<1> DEFINE S == {k \in CollectedUsages(ns) : ns[k].parent = 0 \/ ns[ns[k].parent].kind = "package"}
           list == FreeUsages(ns)
<1>1. list = Among(Declarations(ns), S)
  BY DEF FreeUsages
<1>2. list \in Seq(DOMAIN ns \cap S) /\ Range(list) = DOMAIN ns \cap S
  <2> HIDE DEF S, list
  <2> QED
    BY <1>1, SelectedFacts
<1>3. ASSUME NEW k \in CollectedUsages(ns) PROVE k \in Usages(ns)
  <2>1. PICK r \in DOMAIN ns : ns[r].kind = "usage" /\ k \in Range(UsageOrder(ns, r))
    BY <1>3 DEF CollectedUsages
  <2>2. UsageOrder(ns, r) \in Seq(DOMAIN ns) /\ (k # r => ns[k].kind = "usage")
    BY <2>1, UsageOrderFacts
  <2>3. k \in DOMAIN ns
    BY <2>1, <2>2 DEF Range
  <2> QED
    BY <2>1, <2>2, <2>3 DEF Usages
<1>4. Range(list) \subseteq Usages(ns)
  BY <1>2, <1>3
<1> QED
  BY <1>2, <1>4, Narrowed
---------------------------------------------------------------------------
(* What an attempt goes through *)

\* What is found in a body is declared.
LEMMA NestedInFacts ==
  ASSUME NEW ns, Declared(ns), NEW i \in Places(ns), NEW kind
  PROVE  NestedIn(ns, i, kind) \in Seq(DOMAIN ns)
<1> DEFINE n == Len(ns)
           found(k) == k # 0 /\ ns[k].kind = kind
           own == [k \in Places(ns) |-> IF found(k) THEN <<k>> ELSE <<>>]
           visits == [k \in Places(ns) |-> IF found(k) THEN <<>> ELSE ChildrenOf(ns, k)]
           B == 0..n
           T == DOMAIN ns
<1>1. n \in Nat /\ T = 1..n /\ Places(ns) = 0..n /\ i \in 0..n
  BY DEF Declared, Forest, Places
<1>2. \A k \in 0..n : visits[k] \in Seq((k + 1)..n) /\ Range(visits[k]) \subseteq B
  <2> TAKE k \in 0..n
  <2>1. k \in Places(ns) /\ (visits[k] = <<>> \/ visits[k] = ChildrenOf(ns, k))
    BY <1>1
  <2> HIDE DEF visits
  <2>2. visits[k] \in Seq((k + 1)..n)
    <3>1. <<>> \in Seq((k + 1)..n)
      OBVIOUS
    <3> QED
      BY <2>1, <3>1, ChildrenFacts
  <2> QED
    BY <2>2 DEF Range
<1>3. DOMAIN own = 0..n /\ \A k \in 0..n : own[k] \in Seq(T)
  <2>1. DOMAIN own = 0..n
    BY <1>1
  <2>2. ASSUME NEW k \in 0..n PROVE own[k] \in Seq(T)
    <3>1. own[k] = <<>> \/ (k # 0 /\ own[k] = <<k>>)
      BY <1>1
    <3>2. k # 0 => k \in T
      BY <1>1
    <3> HIDE DEF own, T
    <3>3. <<>> \in Seq(T) /\ (k \in T => <<k>> \in Seq(T))
      OBVIOUS
    <3> QED
      BY <3>1, <3>2, <3>3
  <2> QED
    BY <2>1, <2>2
<1>4. NestedIn(ns, i, kind) = Walk(own, visits)[i]
  BY DEF NestedIn
<1>5. \A k \in B : k \in 0..n
  OBVIOUS
<1> HIDE DEF own, visits, B, T
<1>6. Onward(visits, n) /\ Within(B, own, visits, T)
  BY <1>2, <1>3, <1>5 DEF Onward, Within
<1>7. \A k \in (0..n) \cap B : Meets(own, visits, T, k)
  BY <1>1, <1>3, <1>6, WalkFacts
<1>8. i \in (0..n) \cap B
  BY <1>1 DEF B
<1> QED
  BY <1>4, <1>7, <1>8 DEF Meets, T

\* The imports of a module are declared in it.
LEMMA ImportsFacts ==
  ASSUME NEW m, Declared(m.nodes)
  PROVE  ImportsOf(m) \in Seq(DOMAIN m.nodes)
<1> DEFINE ns == m.nodes
           taken(k) == CASE ns[k].kind = "import"                  -> <<k>>
                         [] ns[k].kind \in {"usage", "definition"} -> NestedIn(ns, k, "import")
                         [] OTHER                                  -> <<>>
           own == [k \in Places(ns) |-> IF k = 0 THEN <<>> ELSE taken(k)]
           T == DOMAIN ns
<1>1. \A k \in Places(ns) : own[k] \in Seq(T)
  <2> TAKE k \in Places(ns)
  <2>1. \/ own[k] = <<>>
        \/ k # 0 /\ own[k] = <<k>>
        \/ own[k] = NestedIn(ns, k, "import")
    OBVIOUS
  <2>2. k # 0 => k \in T
    BY DEF Places, Declared, Forest
  <2>3. NestedIn(ns, k, "import") \in Seq(T)
    BY NestedInFacts
  <2> HIDE DEF own, T, ns
  <2>4. <<>> \in Seq(T) /\ (k \in T => <<k>> \in Seq(T))
    OBVIOUS
  <2> QED
    BY <2>1, <2>2, <2>3, <2>4
<1>2. ImportsOf(m) = Walk(own, CollectedFrom(ns))[0]
  BY DEF ImportsOf
<1>3. DOMAIN own = Places(ns)
  OBVIOUS
<1> HIDE DEF own
<1> QED
  BY <1>1, <1>2, <1>3, CollectedFacts

\* A list of what is listed for each of the elements of a list.
LEMMA JoinedFacts ==
  ASSUME NEW T, NEW list \in Seq(T), NEW U, NEW ss, DOMAIN ss = DOMAIN list,
         ss = [j \in DOMAIN list |-> ss[j]], \A j \in DOMAIN list : ss[j] \in Seq(U)
  PROVE  /\ FlattenSeq(ss) \in Seq(U)
         /\ \A x : x \in Range(FlattenSeq(ss)) <=> \E j \in DOMAIN list : x \in Range(ss[j])
<1>1. DOMAIN list = 1..Len(list) /\ Len(list) \in Nat
  OBVIOUS
<1>2. ss \in Seq(Seq(U))
  BY <1>1
<1>3. FlattenSeq(ss) \in Seq(U) /\ Range(FlattenSeq(ss)) = UNION {Range(ss[j]) : j \in DOMAIN ss}
  BY <1>2, FlattenFacts
<1> QED
  BY <1>3

\* The usages of a definition are declared.
LEMMA OrdersInDefinitions ==
  ASSUME NEW ns, Declared(ns), NEW k \in DOMAIN ns
  PROVE  Orders(ns, UsagesIn(ns, k)) \in Seq(DOMAIN ns)
<1>1. UsagesIn(ns, k) \in Seq(Usages(ns)) /\ Range(UsagesIn(ns, k)) \subseteq DOMAIN ns
  BY UsagesInFacts DEF Usages
<1>2. UsagesIn(ns, k) \in Seq(DOMAIN ns)
  BY <1>1, Narrowed
<1> QED
  BY <1>2, OrdersFacts

\* The usages outside definitions are declared.
LEMMA FreeOrders ==
  ASSUME NEW ns, Declared(ns)
  PROVE  Orders(ns, FreeUsages(ns)) \in Seq(DOMAIN ns)
<1>1. FreeUsages(ns) \in Seq(Usages(ns)) /\ Usages(ns) \subseteq DOMAIN ns
  BY FreeUsagesFacts DEF Usages
<1>2. FreeUsages(ns) \in Seq(DOMAIN ns)
  BY <1>1
<1> QED
  BY <1>2, OrdersFacts

\* What is resolved are declarations of the module.
LEMMA ResolutionFacts ==
  ASSUME NEW m, Declared(m.nodes)
  PROVE  ResolutionOrder(m) \in Seq(DOMAIN m.nodes)
<1> DEFINE ns == m.nodes
           T == DOMAIN ns
           definitions == DefinitionOrder(ns)
           within(k) == <<k>> \o Orders(ns, UsagesIn(ns, k))
           ss == [j \in DOMAIN definitions |-> within(definitions[j])]
           free == Orders(ns, FreeUsages(ns))
<1>1. definitions \in Seq(Definitions(ns)) /\ free \in Seq(T)
  BY DefinitionOrderFacts, FreeOrders
<1>2. \A j \in DOMAIN definitions : ss[j] \in Seq(T)
  <2> TAKE j \in DOMAIN definitions
  <2>1. definitions[j] \in T
    <3> HIDE DEF definitions
    <3>1. definitions[j] \in Definitions(ns)
      BY <1>1
    <3> QED
      BY <3>1 DEF Definitions
  <2> DEFINE k == definitions[j]
             rest == Orders(ns, UsagesIn(ns, k))
  <2>2. rest \in Seq(T)
    BY <2>1, OrdersInDefinitions
  <2>3. ss[j] = <<k>> \o rest
    OBVIOUS
  <2>4. k \in T
    BY <2>1
  <2> HIDE DEF k, rest, T, ss
  <2>5. <<k>> \in Seq(T)
    BY <2>4
  <2> QED
    BY <2>2, <2>3, <2>5
<1>3. ss = [j \in DOMAIN definitions |-> ss[j]] /\ DOMAIN ss = DOMAIN definitions
  OBVIOUS
<1>4. ResolutionOrder(m) = FlattenSeq(ss) \o free
  BY DEF ResolutionOrder
<1> HIDE DEF ss, definitions, free, T
<1>5. FlattenSeq(ss) \in Seq(T)
  BY <1>1, <1>2, <1>3, JoinedFacts
<1> QED
  BY <1>1, <1>4, <1>5 DEF T

\* What is checked for metadata are declarations of the module.
LEMMA MetadataFacts ==
  ASSUME NEW m, Declared(m.nodes), NEW found
  PROVE  MetadataFaults(m, found) \in Seq(DOMAIN m.nodes)
<1> DEFINE ns == m.nodes
           T == DOMAIN ns
           definitions == DefinitionOrder(ns)
           ss == [j \in DOMAIN definitions |-> Orders(ns, UsagesIn(ns, definitions[j]))]
           free == Orders(ns, FreeUsages(ns))
           faulty == {k \in T : /\ ns[k].construct = "MetadataUsage"
                                /\ MetadataFault(ns, found, k, MetadataNamed(ns, ns[k].name))}
<1>1. definitions \in Seq(Definitions(ns)) /\ free \in Seq(T)
  BY DefinitionOrderFacts, FreeOrders
<1>2. \A j \in DOMAIN definitions : ss[j] \in Seq(T)
  <2> TAKE j \in DOMAIN definitions
  <2>1. definitions[j] \in T
    <3> HIDE DEF definitions
    <3>1. definitions[j] \in Definitions(ns)
      BY <1>1
    <3> QED
      BY <3>1 DEF Definitions
  <2> QED
    BY <2>1, OrdersInDefinitions
<1>3. ss = [j \in DOMAIN definitions |-> ss[j]] /\ DOMAIN ss = DOMAIN definitions
  OBVIOUS
<1>4. ResolvedUsages(ns) = free \o FlattenSeq(ss)
  BY DEF ResolvedUsages, UsagesInDefinitions
<1>5. MetadataFaults(m, found) = Among(ResolvedUsages(ns), faulty)
  BY DEF MetadataFaults
<1> HIDE DEF ss, definitions, free, T, faulty
<1>6. FlattenSeq(ss) \in Seq(T)
  BY <1>1, <1>2, <1>3, JoinedFacts
<1>7. free \o FlattenSeq(ss) \in Seq(T)
  BY <1>1, <1>6
<1>8. Among(ResolvedUsages(ns), faulty) \in Seq(T)
  BY <1>4, <1>7, AmongFacts
<1> QED
  BY <1>5, <1>8 DEF T

---------------------------------------------------------------------------
(* Paths *)

\* What holds of the module, and of a declaration when it holds of the one it
\* stands in, holds of all.
LEMMA FromTheRoot ==
  ASSUME NEW ns, Forest(ns), NEW S, 0 \in S, \A k \in 1..Len(ns) : ns[k].parent \in S => k \in S
  PROVE  \A k \in 0..Len(ns) : k \in S
<1> DEFINE Bad == {k \in 0..Len(ns) : k \notin S}
<1> SUFFICES ASSUME Bad # {} PROVE FALSE
  OBVIOUS
<1>1. Len(ns) \in Nat /\ \A k \in 1..Len(ns) : ns[k].parent \in 0..(k - 1)
  BY DEF Forest
<1>2. PICK k \in Bad : \A l \in Bad : k <= l
  BY LeastExists, Bad \subseteq Nat
<1>3. k \in 1..Len(ns) /\ k \notin S
  BY <1>2
<1>4. ns[k].parent \in 0..Len(ns) /\ ~(k <= ns[k].parent)
  BY <1>1, <1>3
<1>5. ns[k].parent \in S
  BY <1>2, <1>4
<1> QED
  BY <1>3, <1>5

\* f[k] is what step makes of a declaration and of what f is for the one it
\* stands in.
Descends(f, ns, base, step, n) ==
  \A k \in 0..n : f[k] = IF k = 0 THEN base ELSE step[<<k, f[ns[k].parent]>>]

IsDescent(f, ns, base, step, n) == f = [k \in 0..n |-> f[k]] /\ Descends(f, ns, base, step, n)

\* A function that goes from owner to member can be made.
LEMMA DescentsExist ==
  ASSUME NEW ns, Forest(ns), NEW base, NEW step
  PROVE  \E f : IsDescent(f, ns, base, step, Len(ns))
<1> DEFINE n == Len(ns)
           Found(m) == \E f : IsDescent(f, ns, base, step, m)
           Missing == {m \in 0..n : ~Found(m)}
<1> SUFFICES ASSUME Missing # {} PROVE FALSE
  BY DEF Forest
<1>1. PICK m \in Missing : \A l \in Missing : m <= l
  <2>1. Missing \subseteq Nat
    BY DEF Forest
  <2> QED
    BY <2>1, LeastExists
<1>2. m \in 0..n /\ ~Found(m)
  BY <1>1
<1>3. m # 0
  <2> DEFINE f == [k \in 0..0 |-> base]
  <2>1. f = [k \in 0..0 |-> f[k]] /\ \A k \in 0..0 : k = 0 /\ f[k] = base
    OBVIOUS
  <2> HIDE DEF f
  <2>2. IsDescent(f, ns, base, step, 0)
    BY <2>1 DEF IsDescent, Descends
  <2> QED
    BY <1>2, <2>2
<1>4. m \in Nat \ {0} /\ m - 1 \in 0..n /\ m \in 1..Len(ns) /\ ~(m <= m - 1)
  BY <1>2, <1>3 DEF Forest
<1>5. Found(m - 1)
  <2>1. m - 1 \notin Missing
    BY <1>1, <1>4
  <2> HIDE DEF Found
  <2> QED
    BY <1>4, <2>1
<1>6. PICK f : IsDescent(f, ns, base, step, m - 1)
  BY <1>5
<1> DEFINE g == [k \in 0..m |-> IF k = m THEN step[<<m, f[ns[m].parent]>>] ELSE f[k]]
<1>7. \A k \in 0..(m - 1) : g[k] = f[k]
  BY <1>4
<1>8. g[m] = step[<<m, g[ns[m].parent]>>]
  <2>1. ns[m].parent \in 0..(m - 1) /\ m \in 0..m
    BY <1>4 DEF Forest
  <2>2. g[ns[m].parent] = f[ns[m].parent]
    BY <1>7, <2>1
  <2>3. g[m] = step[<<m, f[ns[m].parent]>>]
    BY <2>1
  <2> QED
    BY <2>2, <2>3
<1>9. \A k \in 1..(m - 1) : ns[k].parent \in 0..(m - 1)
  BY <1>4 DEF Forest
<1>10. g = [k \in 0..m |-> g[k]]
  OBVIOUS
<1> HIDE DEF g
<1>11. \A k \in 0..m : g[k] = IF k = 0 THEN base ELSE step[<<k, g[ns[k].parent]>>]
  <2> TAKE k \in 0..m
  <2>1. CASE k = m
    BY <1>3, <1>8, <2>1
  <2>2. CASE k # m
    <3>1. k \in 0..(m - 1) /\ (k # 0 => k \in 1..(m - 1))
      BY <1>4, <2>2
    <3>2. f[k] = IF k = 0 THEN base ELSE step[<<k, f[ns[k].parent]>>]
      BY <1>6, <3>1 DEF IsDescent, Descends
    <3> QED
      BY <1>7, <1>9, <3>1, <3>2
  <2> QED
    BY <2>1, <2>2
<1>12. IsDescent(g, ns, base, step, m)
  BY <1>10, <1>11 DEF IsDescent, Descends
<1> QED
  BY <1>2, <1>12

NamesIn(ns) == {ns[k].name : k \in DOMAIN ns}

\* The path of a declaration is that of the one it stands in and its name.
LEMMA PathUnfolds ==
  ASSUME NEW ns, Declared(ns)
  PROVE  /\ PathOf(ns, 0) = <<>>
         /\ \A k \in DOMAIN ns : PathOf(ns, k) = Append(PathOf(ns, ns[k].parent), ns[k].name)
<1> DEFINE n == Len(ns)
           body(f) == [k \in 0..n |-> IF k = 0 THEN <<>> ELSE Append(f[ns[k].parent], ns[k].name)]
           path == CHOOSE f : f = body(f)
           Lists == Seq(NamesIn(ns))
           step == [p \in (1..n) \X Lists |-> Append(p[2], ns[p[1]].name)]
<1>1. n \in Nat /\ DOMAIN ns = 1..n /\ Forest(ns) /\ 0 \in 0..n /\ \A k \in 1..n : ns[k].parent \in 0..n /\ k \in 0..n
  BY DEF Declared, Forest
<1>2. PICK f : IsDescent(f, ns, <<>>, step, n)
  BY <1>1, DescentsExist
<1>3. f = [k \in 0..n |-> f[k]] /\ \A k \in 0..n : f[k] = IF k = 0 THEN <<>> ELSE step[<<k, f[ns[k].parent]>>]
  BY <1>2 DEF IsDescent, Descends
<1>4. \A k \in 1..n : \A s \in Lists : step[<<k, s>>] = Append(s, ns[k].name) /\ Append(s, ns[k].name) \in Lists
  <2> SUFFICES ASSUME NEW k \in 1..n, NEW s \in Lists
               PROVE  step[<<k, s>>] = Append(s, ns[k].name) /\ Append(s, ns[k].name) \in Lists
    OBVIOUS
  <2>1. <<k, s>> \in (1..n) \X Lists
    OBVIOUS
  <2>2. step[<<k, s>>] = Append(s, ns[k].name)
    BY <2>1
  <2>3. ns[k].name \in NamesIn(ns)
    BY <1>1 DEF NamesIn
  <2> QED
    BY <2>2, <2>3
<1> HIDE DEF step
<1>5. \A k \in 0..n : f[k] \in Lists
  <2> DEFINE S == {k \in 0..n : f[k] \in Lists}
  <2>1. 0 \in S
    <3>1. <<>> \in Lists
      OBVIOUS
    <3>2. f[0] = <<>>
      BY <1>1, <1>3
    <3> QED
      BY <1>1, <3>1, <3>2
  <2>2. ASSUME NEW k \in 1..n, ns[k].parent \in S PROVE k \in S
    <3>1. k \in 0..n /\ k # 0 /\ f[ns[k].parent] \in Lists
      BY <1>1, <2>2
    <3>2. f[k] = step[<<k, f[ns[k].parent]>>]
      BY <1>3, <3>1
    <3>3. f[k] \in Lists
      BY <1>4, <3>1, <3>2
    <3> QED
      BY <3>1, <3>3
  <2> HIDE DEF S
  <2>3. \A k \in 0..n : k \in S
    BY <1>1, <2>1, <2>2, FromTheRoot
  <2> QED
    BY <2>3 DEF S
<1>6. f = body(f)
  <2>1. \A k \in 0..n : f[k] = IF k = 0 THEN <<>> ELSE Append(f[ns[k].parent], ns[k].name)
    <3> TAKE k \in 0..n
    <3>1. CASE k = 0
      BY <1>3, <3>1
    <3>2. CASE k # 0
      <4>1. k \in 1..n
        BY <3>2
      <4> QED
        BY <1>1, <1>3, <1>4, <1>5, <3>2, <4>1
    <3> QED
      BY <3>1, <3>2
  <2> QED
    BY <1>3, <2>1
<1>7. path = body(path)
  <2> HIDE DEF body
  <2> QED
    BY <1>6
<1>8. \A k \in 0..n : PathOf(ns, k) = path[k]
  BY DEF PathOf
<1> HIDE DEF path
<1>9. path[0] = <<>> /\ \A k \in 1..n : path[k] = Append(path[ns[k].parent], ns[k].name)
  <2>1. \A k \in 0..n : path[k] = IF k = 0 THEN <<>> ELSE Append(path[ns[k].parent], ns[k].name)
    BY <1>7
  <2>2. \A k \in 1..n : k \in 0..n /\ k # 0
    OBVIOUS
  <2> QED
    BY <1>1, <2>1, <2>2
<1> QED
  BY <1>1, <1>8, <1>9

\* The path of a declaration is that of its owner with its name.
LEMMA PathFacts ==
  ASSUME NEW ns, Declared(ns)
  PROVE  /\ \A k \in Places(ns) : PathOf(ns, k) \in Seq(NamesIn(ns))
         /\ \A k \in DOMAIN ns : Front(PathOf(ns, k)) = PathOf(ns, ns[k].parent) /\ PathOf(ns, k) # <<>>
<1> DEFINE n == Len(ns)
           Lists == Seq(NamesIn(ns))
           S == {k \in 0..n : PathOf(ns, k) \in Lists}
<1>1. n \in Nat /\ DOMAIN ns = 1..n /\ Places(ns) = 0..n /\ \A k \in 1..n : ns[k].parent \in 0..(k - 1)
  BY DEF Declared, Forest, Places
<1>2. 0 \in S
  <2>1. <<>> \in Lists /\ 0 \in 0..n
    BY <1>1
  <2>2. PathOf(ns, 0) = <<>>
    BY PathUnfolds
  <2> QED
    BY <2>1, <2>2
<1>3. \A k \in 0..n : PathOf(ns, k) \in Lists
  <2>1. ASSUME NEW k \in 1..n, ns[k].parent \in S PROVE k \in S
    <3>1. PathOf(ns, k) = Append(PathOf(ns, ns[k].parent), ns[k].name) /\ ns[k].name \in NamesIn(ns)
      BY <1>1, PathUnfolds DEF NamesIn
    <3>2. Append(PathOf(ns, ns[k].parent), ns[k].name) \in Lists
      BY <2>1, <3>1
    <3> QED
      BY <3>1, <3>2
  <2> HIDE DEF S
  <2>2. \A k \in 0..n : k \in S
    BY <1>2, <2>1, FromTheRoot DEF Declared
  <2> QED
    BY <2>2 DEF S
<1>4. ASSUME NEW k \in 1..n
      PROVE  Front(PathOf(ns, k)) = PathOf(ns, ns[k].parent) /\ PathOf(ns, k) # <<>>
  <2> DEFINE s == PathOf(ns, ns[k].parent)
             x == ns[k].name
  <2>1. s \in Lists /\ x \in NamesIn(ns) /\ PathOf(ns, k) = Append(s, x)
    <3>1. k \in DOMAIN ns /\ ns[k].parent \in 0..n
      BY <1>1
    <3> QED
      BY <1>3, <3>1, PathUnfolds DEF NamesIn
  <2> HIDE DEF s, x
  <2>2. Front(Append(s, x)) = s /\ Append(s, x) # <<>>
    BY <2>1 DEF Front
  <2> QED
    BY <2>1, <2>2 DEF s
<1> QED
  BY <1>1, <1>3, <1>4

\* A declaration stands in itself and otherwise in earlier ones.
LEMMA AroundBounds ==
  ASSUME NEW ns, Forest(ns)
  PROVE  \A x \in 0..Len(ns) : x \in Around(ns)[x] /\ Around(ns)[x] \subseteq 0..x
<1> DEFINE S == {x \in 0..Len(ns) : x \in Around(ns)[x] /\ Around(ns)[x] \subseteq 0..x}
<1>1. Len(ns) \in Nat /\ \A k \in 1..Len(ns) : ns[k].parent \in 0..(k - 1)
  BY DEF Forest
<1>2. 0 \in S
  BY <1>1, AroundUnfolds
<1>3. ASSUME NEW k \in 1..Len(ns), ns[k].parent \in S PROVE k \in S
  <2>1. Around(ns)[k] = {k} \cup Around(ns)[ns[k].parent]
    BY AroundUnfolds
  <2>2. Around(ns)[ns[k].parent] \subseteq 0..ns[k].parent /\ ns[k].parent \in 0..(k - 1)
    BY <1>1, <1>3
  <2>3. 0..ns[k].parent \subseteq 0..k
    BY <2>2
  <2> QED
    BY <1>1, <2>1, <2>2, <2>3
<1> HIDE DEF S
<1>4. \A k \in 0..Len(ns) : k \in S
  BY <1>2, <1>3, FromTheRoot
<1> QED
  BY <1>4 DEF S

Under(ns, k) == {x \in 0..Len(ns) : k \in Around(ns)[x]}

\* What stands in one declaration stands in no other one beside it.
LEMMA SiblingsApart ==
  ASSUME NEW ns, Forest(ns), NEW i \in 1..Len(ns), NEW j \in 1..Len(ns), i # j, ns[i].parent = ns[j].parent
  PROVE  Under(ns, i) \cap Under(ns, j) = {}
<1> DEFINE S == {x \in 0..Len(ns) : ~(i \in Around(ns)[x] /\ j \in Around(ns)[x])}
<1>1. Len(ns) \in Nat /\ \A k \in 1..Len(ns) : ns[k].parent \in 0..(k - 1) /\ ns[k].parent \in 0..Len(ns)
  BY DEF Forest
<1>2. 0 \in S
  BY <1>1, AroundUnfolds
<1>3. ASSUME NEW x \in 1..Len(ns), ns[x].parent \in S PROVE x \in S
  <2> DEFINE p == ns[x].parent
  <2>1. Around(ns)[x] = {x} \cup Around(ns)[p]
    BY AroundUnfolds
  <2>2. ~(i \in Around(ns)[p] /\ j \in Around(ns)[p])
    BY <1>3
  <2>3. Around(ns)[p] \subseteq 0..p
    BY <1>1, AroundBounds
  <2>4. \A k \in 1..Len(ns) : ns[k].parent = p => k \notin Around(ns)[p]
    <3> SUFFICES ASSUME NEW k \in 1..Len(ns), ns[k].parent = p, k \in 0..p PROVE FALSE
      BY <2>3
    <3> QED
      BY <1>1
  <2>5. i = x => j \notin Around(ns)[p]
    BY <2>4
  <2>6. j = x => i \notin Around(ns)[p]
    BY <2>4
  <2>7. x \in 0..Len(ns)
    OBVIOUS
  <2> QED
    BY <2>1, <2>2, <2>5, <2>6, <2>7
<1> HIDE DEF S
<1>4. \A x \in 0..Len(ns) : x \in S
  BY <1>2, <1>3, FromTheRoot
<1> QED
  BY <1>4 DEF S, Under

\* A walk down a forest: it takes from each place what stands there.
Descending(ns, own, visits, T) ==
  /\ DOMAIN own = Places(ns)
  /\ Onward(visits, Len(ns))
  /\ \A k \in Places(ns) : /\ own[k] \in Seq(T)
                           /\ Range(own[k]) \subseteq Under(ns, k)
                           /\ Range(visits[k]) \subseteq {i \in DOMAIN ns : ns[i].parent = k}

\* A walk down the forest meets only what stands in the place it starts at.
LEMMA DescendingFacts ==
  ASSUME NEW ns, Declared(ns), NEW own, NEW visits, NEW T, Descending(ns, own, visits, T)
  PROVE  \A k \in Places(ns) : Meets(own, visits, T, k) /\ Range(Walk(own, visits)[k]) \subseteq Under(ns, k)
<1> DEFINE n == Len(ns)
           B == 0..n
           S == {k \in 0..n : Range(Walk(own, visits)[k]) \subseteq Under(ns, k)}
<1>1. n \in Nat /\ DOMAIN ns = 1..n /\ Places(ns) = 0..n
  BY DEF Declared, Forest, Places
<1>2. Onward(visits, n) /\ Within(B, own, visits, T) /\ DOMAIN own = 0..n
  <2>1. Onward(visits, n) /\ DOMAIN own = 0..n
    BY <1>1 DEF Descending
  <2>2. \A k \in 0..n : own[k] \in Seq(T) /\ Range(visits[k]) \subseteq 1..n
    BY <1>1 DEF Descending
  <2>3. 1..n \subseteq 0..n
    BY <1>1
  <2> QED
    BY <2>1, <2>2, <2>3 DEF Within
<1>3. \A k \in 0..n : Meets(own, visits, T, k)
  <2> HIDE DEF B
  <2>1. \A k \in (0..n) \cap B : Meets(own, visits, T, k)
    BY <1>1, <1>2, WalkFacts
  <2> QED
    BY <2>1 DEF B
<1>4. \A k \in 0..n : Range(visits[k]) \subseteq (k + 1)..n
  <2> TAKE k \in 0..n
  <2>1. visits[k] \in Seq((k + 1)..n)
    BY <1>2 DEF Onward
  <2> QED
    BY <2>1 DEF Range
<1>5. ASSUME NEW k \in 0..n, (k + 1)..n \subseteq S PROVE k \in S
  <2>1. Range(own[k]) \subseteq Under(ns, k)
    BY <1>1 DEF Descending
  <2>2. ASSUME NEW j \in Range(visits[k]) PROVE Range(Walk(own, visits)[j]) \subseteq Under(ns, k)
    <3>1. j \in 1..n /\ ns[j].parent = k /\ j \in S
      BY <1>1, <1>4, <1>5, <2>2 DEF Descending
    <3>2. Range(Walk(own, visits)[j]) \subseteq Under(ns, j)
      BY <3>1
    <3>3. Under(ns, j) \subseteq Under(ns, k)
      <4> DEFINE R == {x \in 0..n : j \in Around(ns)[x] => k \in Around(ns)[x]}
      <4>1. 0 \in R
        BY <1>1, <3>1, AroundUnfolds DEF Declared
      <4>2. ASSUME NEW x \in 1..n, ns[x].parent \in R PROVE x \in R
        <5>1. Around(ns)[x] = {x} \cup Around(ns)[ns[x].parent]
          BY AroundUnfolds DEF Declared
        <5>2. x = j => k \in Around(ns)[ns[x].parent]
          BY <1>1, <3>1, AroundBounds DEF Declared
        <5>3. x \in 0..n
          OBVIOUS
        <5> QED
          BY <4>2, <5>1, <5>2, <5>3
      <4> HIDE DEF R
      <4>3. \A x \in 0..n : x \in R
        BY <4>1, <4>2, FromTheRoot DEF Declared
      <4> QED
        BY <4>3 DEF R, Under
    <3> QED
      BY <3>2, <3>3
  <2>3. Range(Walk(own, visits)[k]) = Range(own[k]) \cup UNION {Range(Walk(own, visits)[j]) : j \in Range(visits[k])}
    BY <1>3 DEF Meets
  <2> QED
    BY <2>1, <2>2, <2>3
<1> HIDE DEF S
<1>6. 0..n \subseteq S
  BY <1>1, <1>5, FromTheEnd
<1> QED
  BY <1>1, <1>3, <1>6 DEF S

\* A walk down the forest meets nothing twice if no place offers what is met
\* further down.
LEMMA WalkOnce ==
  ASSUME NEW ns, Declared(ns), NEW own, NEW visits, NEW T, Descending(ns, own, visits, T),
         \A k \in Places(ns) : IsInjective(own[k]) /\ IsInjective(visits[k]),
         \A k \in Places(ns) : \A j \in Range(visits[k]) : Range(own[k]) \cap Range(Walk(own, visits)[j]) = {}
  PROVE  \A k \in Places(ns) : IsInjective(Walk(own, visits)[k])
<1> DEFINE n == Len(ns)
           walk == Walk(own, visits)
           next(k) == [j \in DOMAIN visits[k] |-> walk[visits[k][j]]]
           S == {k \in 0..n : IsInjective(walk[k])}
<1>1. n \in Nat /\ DOMAIN ns = 1..n /\ Places(ns) = 0..n /\ DOMAIN own = 0..n /\ Onward(visits, n)
  BY DEF Declared, Forest, Places, Descending
<1>2. \A k \in 0..n : walk[k] = own[k] \o FlattenSeq(next(k))
  <2>1. \A k \in 0..n : walk[k] = Met(walk, own, visits, k)
    BY <1>1, WalkUnfolds
  <2> HIDE DEF walk
  <2> QED
    BY <2>1 DEF Met
<1>3. \A k \in 0..n : walk[k] \in Seq(T) /\ Range(walk[k]) \subseteq Under(ns, k) /\ own[k] \in Seq(T)
  <2>1. \A k \in Places(ns) : Meets(own, visits, T, k) /\ Range(Walk(own, visits)[k]) \subseteq Under(ns, k)
    BY DescendingFacts
  <2> QED
    BY <1>1, <2>1 DEF Meets, Descending
<1>4. \A k \in 0..n : /\ visits[k] \in Seq((k + 1)..n) /\ IsInjective(visits[k]) /\ IsInjective(own[k])
                      /\ \A j \in Range(visits[k]) : Range(own[k]) \cap Range(walk[j]) = {}
  BY <1>1 DEF Onward
<1> HIDE DEF walk
<1>5. ASSUME NEW k \in 0..n, (k + 1)..n \subseteq S PROVE k \in S
  <2>1. /\ DOMAIN visits[k] = 1..Len(visits[k]) /\ Len(visits[k]) \in Nat
        /\ \A j \in DOMAIN visits[k] : visits[k][j] \in (k + 1)..n /\ visits[k][j] \in Range(visits[k])
    <3>1. visits[k] \in Seq((k + 1)..n)
      BY <1>4
    <3> QED
      BY <3>1 DEF Range
  <2>2. \A j \in DOMAIN visits[k] : /\ visits[k][j] \in 1..n
                                    /\ ns[visits[k][j]].parent = k
                                    /\ visits[k][j] \in S
    BY <1>1, <1>5, <2>1 DEF Descending
  <2>3. DOMAIN next(k) = DOMAIN visits[k] /\ \A j \in DOMAIN visits[k] : next(k)[j] = walk[visits[k][j]]
    OBVIOUS
  <2>4. next(k) \in Seq(Seq(T))
    <3>1. \A j \in 1..Len(visits[k]) : walk[visits[k][j]] \in Seq(T)
      BY <1>3, <2>1, <2>2
    <3>2. next(k) = [j \in 1..Len(visits[k]) |-> walk[visits[k][j]]]
      BY <2>1
    <3> HIDE DEF next
    <3> QED
      BY <2>1, <3>1, <3>2
  <2>5. Disjoint(next(k)) /\ \A j \in DOMAIN next(k) : IsInjective(next(k)[j])
    <3> HIDE DEF next
    <3>1. \A j \in DOMAIN next(k) : IsInjective(next(k)[j])
      BY <2>2, <2>3
    <3>2. ASSUME NEW a \in DOMAIN visits[k], NEW b \in DOMAIN visits[k], a # b
          PROVE  Range(next(k)[a]) \cap Range(next(k)[b]) = {}
      <4> DEFINE i == visits[k][a]
                 j == visits[k][b]
      <4>1. i # j
        BY <1>4, <3>2 DEF IsInjective
      <4>2. i \in 1..n /\ j \in 1..n /\ ns[i].parent = ns[j].parent
        BY <2>2
      <4>3. Under(ns, i) \cap Under(ns, j) = {}
        BY <4>1, <4>2, SiblingsApart DEF Declared
      <4>4. Range(walk[i]) \subseteq Under(ns, i) /\ Range(walk[j]) \subseteq Under(ns, j)
        BY <1>3, <4>2
      <4> QED
        BY <2>3, <4>3, <4>4
    <3> QED
      BY <2>3, <3>1, <3>2 DEF Disjoint
  <2> DEFINE flat == FlattenSeq(next(k))
  <2>6. /\ flat \in Seq(T) /\ IsInjective(flat)
        /\ Range(flat) = UNION {Range(next(k)[j]) : j \in DOMAIN next(k)}
    BY <2>4, <2>5, FlattenFacts
  <2>7. Range(own[k]) \cap Range(flat) = {}
    <3> HIDE DEF next, flat
    <3>1. \A j \in DOMAIN next(k) : Range(own[k]) \cap Range(next(k)[j]) = {}
      BY <1>4, <2>1, <2>3
    <3> QED
      BY <2>6, <3>1
  <2> HIDE DEF flat
  <2>8. IsInjective(own[k] \o flat)
    BY <1>3, <1>4, <2>6, <2>7, ConcatRange
  <2> QED
    BY <1>2, <2>8 DEF flat
<1> HIDE DEF S
<1>6. 0..n \subseteq S
  BY <1>1, <1>5, FromTheEnd
<1> QED
  BY <1>1, <1>6 DEF S, walk

\* A definition is met once in the order of the definitions it stands in.
LEMMA PlacesAreUnder ==
  ASSUME NEW ns, Declared(ns), NEW own, own = [i \in Places(ns) |-> <<i>>]
  PROVE  \A k \in Places(ns) : /\ own[k] \in Seq(Places(ns)) /\ IsInjective(own[k])
                               /\ Range(own[k]) = {k} /\ {k} \subseteq Under(ns, k)
<1> TAKE k \in Places(ns)
<1>1. own[k] = <<k>>
  OBVIOUS
<1>2. <<k>> \in Seq(Places(ns)) /\ DOMAIN <<k>> = {1} /\ <<k>>[1] = k
  OBVIOUS
<1>3. Range(own[k]) = {k} /\ IsInjective(own[k])
  BY <1>1, <1>2 DEF Range, IsInjective
<1>4. k \in Under(ns, k)
  BY AroundBounds DEF Under, Declared, Places
<1> QED
  BY <1>1, <1>2, <1>3, <1>4

\* Nothing is under what stands in it.
LEMMA ParentIsNotUnder ==
  ASSUME NEW ns, Declared(ns), NEW j \in DOMAIN ns
  PROVE  ns[j].parent \notin Under(ns, j)
<1>1. ns[j].parent \in 0..(j - 1) /\ ns[j].parent \in 0..Len(ns) /\ j \in 1..Len(ns)
  BY DEF Declared, Forest
<1>2. Around(ns)[ns[j].parent] \subseteq 0..ns[j].parent
  BY <1>1, AroundBounds DEF Declared
<1> QED
  BY <1>1, <1>2 DEF Under

TreeMet(ns, own, visits, kind, k) ==
  LET tree(i) == Range(Walk(own, visits)[i])
  IN /\ IsInjective(Walk(own, visits)[k])
     /\ tree(k) \subseteq Under(ns, k)
     /\ tree(k) = {k} \cup UNION {tree(j) : j \in {i \in DOMAIN ns : ns[i].parent = k /\ ns[i].kind = kind}}

\* A declaration with those of its kind in it: each once.
LEMMA TreeOnce ==
  ASSUME NEW ns, Declared(ns), NEW kind, NEW own, own = [i \in Places(ns) |-> <<i>>],
         NEW visits, visits = [i \in Places(ns) |-> ChildrenOfKind(ns, i, kind)]
  PROVE  \A k \in Places(ns) : TreeMet(ns, own, visits, kind, k)
<1> DEFINE T == Places(ns)
<1>1. \A k \in Places(ns) : /\ own[k] \in Seq(T) /\ IsInjective(own[k])
                            /\ Range(own[k]) = {k} /\ {k} \subseteq Under(ns, k)
  BY PlacesAreUnder
<1>2. \A k \in Places(ns) : /\ visits[k] \in Seq((k + 1)..Len(ns))
                            /\ Range(visits[k]) = {i \in DOMAIN ns : ns[i].parent = k /\ ns[i].kind = kind}
                            /\ IsInjective(visits[k])
  <2> TAKE k \in Places(ns)
  <2>1. visits[k] = ChildrenOfKind(ns, k, kind)
    OBVIOUS
  <2> QED
    BY <2>1, ChildrenOfKindFacts
<1>3. DOMAIN own = Places(ns)
  OBVIOUS
<1> HIDE DEF T
<1>4. Onward(visits, Len(ns))
  BY <1>2 DEF Onward, Places
<1>5. Descending(ns, own, visits, T)
  BY <1>1, <1>2, <1>3, <1>4 DEF Descending
<1>6. \A k \in Places(ns) : Meets(own, visits, T, k) /\ Range(Walk(own, visits)[k]) \subseteq Under(ns, k)
  BY <1>5, DescendingFacts
<1>7. \A k \in Places(ns) : \A j \in Range(visits[k]) : Range(own[k]) \cap Range(Walk(own, visits)[j]) = {}
  <2> SUFFICES ASSUME NEW k \in Places(ns), NEW j \in Range(visits[k])
               PROVE  Range(own[k]) \cap Range(Walk(own, visits)[j]) = {}
    OBVIOUS
  <2>1. j \in DOMAIN ns /\ ns[j].parent = k /\ j \in Places(ns)
    BY <1>2 DEF Places, Declared, Forest
  <2>2. k \notin Under(ns, j)
    BY <2>1, ParentIsNotUnder
  <2>3. Range(Walk(own, visits)[j]) \subseteq Under(ns, j)
    BY <1>6, <2>1
  <2> QED
    BY <1>1, <2>2, <2>3
<1>8. \A k \in Places(ns) : IsInjective(own[k]) /\ IsInjective(visits[k])
  BY <1>1, <1>2
<1>9. \A k \in Places(ns) : IsInjective(Walk(own, visits)[k])
  <2>1. Declared(ns)
    OBVIOUS
  <2> QED
    BY ONLY <2>1, <1>5, <1>7, <1>8, WalkOnce
<1> QED
  BY <1>1, <1>2, <1>6, <1>9 DEF Meets, TreeMet

\* A usage with the usages in it: each once.
LEMMA UsageOrderOnce ==
  ASSUME NEW ns, Declared(ns), NEW k \in DOMAIN ns
  PROVE  IsInjective(UsageOrder(ns, k))
<1> DEFINE own == [i \in Places(ns) |-> <<i>>]
           visits == [i \in Places(ns) |-> ChildrenOfKind(ns, i, "usage")]
<1>1. k \in Places(ns)
  BY DEF Places, Declared, Forest
<1>2. UsageOrder(ns, k) = Walk(own, visits)[k]
  BY DEF UsageOrder, UsagesIn
<1>3. \A i \in Places(ns) : TreeMet(ns, own, visits, "usage", i)
  BY TreeOnce
<1> QED
  BY <1>1, <1>2, <1>3 DEF TreeMet

\* What is met where definitions are collected, and is not met in the packages
\* in them.
LEMMA DefinitionOrderOnce ==
  ASSUME NEW ns, Declared(ns)
  PROVE  IsInjective(DefinitionOrder(ns))
<1> DEFINE self == [i \in Places(ns) |-> <<i>>]
           nested == [i \in Places(ns) |-> ChildrenOfKind(ns, i, "definition")]
           own == [k \in Places(ns) |->
                     IF k # 0 /\ ns[k].kind = "definition" THEN DefinitionTree(ns, k) ELSE <<>>]
           visits == CollectedFrom(ns)
           T == Definitions(ns)
           tree(k) == Range(Walk(self, nested)[k])
<1>1. \A k \in Places(ns) : /\ IsInjective(Walk(self, nested)[k])
                            /\ tree(k) \subseteq Under(ns, k)
                            /\ tree(k) = {k} \cup UNION {tree(j) : j \in {i \in DOMAIN ns : ns[i].parent = k /\ ns[i].kind = "definition"}}
  <2>1. \A k \in Places(ns) : TreeMet(ns, self, nested, "definition", k)
    BY TreeOnce
  <2> HIDE DEF self, nested
  <2> QED
    BY <2>1 DEF TreeMet
<1>2. \A k \in Places(ns) : DefinitionTree(ns, k) = Walk(self, nested)[k]
  BY DEF DefinitionTree
<1>3. \A k \in Places(ns) : \/ own[k] = <<>>
                            \/ k \in T /\ own[k] = DefinitionTree(ns, k)
  BY DEF Definitions, Places, Declared, Forest
<1>4. DefinitionOrder(ns) = Walk(own, visits)[0]
  BY DEF DefinitionOrder
<1>5. DOMAIN own = Places(ns) /\ 0 \in Places(ns)
  BY DEF Places, Declared, Forest
<1>6. /\ Onward(visits, Len(ns))
      /\ \A k \in Places(ns) : Range(visits[k]) \subseteq {i \in DOMAIN ns : ns[i].parent = k}
  BY CollectionIsOnward
<1>7. \A k \in Places(ns) : IsInjective(visits[k])
  <2> TAKE k \in Places(ns)
  <2>1. visits[k] = ChildrenOf(ns, k) \/ visits[k] = ChildrenOfKind(ns, k, "package") \/ visits[k] = <<>>
    BY DEF CollectedFrom
  <2>2. IsInjective(<<>>)
    BY DEF IsInjective
  <2> QED
    BY <2>1, <2>2, ChildrenFacts, ChildrenOfKindFacts
<1>8. \A k \in T : \A j \in Range(visits[k]) : ns[j].kind = "package"
  <2> SUFFICES ASSUME NEW k \in T PROVE \A j \in Range(visits[k]) : ns[j].kind = "package"
    OBVIOUS
  <2>1. k \in Places(ns) /\ k # 0 /\ ns[k].kind = "definition"
    BY DEF Definitions, Places, Declared, Forest
  <2>2. visits[k] = ChildrenOfKind(ns, k, "package")
    BY <2>1 DEF CollectedFrom
  <2> HIDE DEF visits
  <2> QED
    BY <2>1, <2>2, ChildrenOfKindFacts
<1> HIDE DEF self, nested, own, visits, T
<1>9. \A k \in Places(ns) : own[k] \in Seq(T) /\ IsInjective(own[k]) /\ Range(own[k]) \subseteq Under(ns, k)
  <2> TAKE k \in Places(ns)
  <2>1. CASE own[k] = <<>>
    <3>1. <<>> \in Seq(T) /\ DOMAIN <<>> = {}
      OBVIOUS
    <3>2. DOMAIN own[k] = {}
      BY <2>1, <3>1
    <3> QED
      BY <2>1, <3>1, <3>2 DEF Range, IsInjective
  <2>2. CASE k \in T /\ own[k] = DefinitionTree(ns, k)
    <3>1. DefinitionTree(ns, k) \in Seq(T)
      BY <2>2, DefinitionTreeFacts DEF T
    <3> QED
      BY <1>1, <1>2, <2>2, <3>1
  <2> QED
    BY <1>3, <2>1, <2>2
<1>10. Descending(ns, own, visits, T)
  BY <1>5, <1>6, <1>9 DEF Descending
<1>11. \A k \in Places(ns) : Range(Walk(own, visits)[k]) \subseteq Under(ns, k)
  BY <1>10, DescendingFacts
<1>12. ASSUME NEW k \in Places(ns), NEW j \in Range(visits[k]), NEW x \in Range(own[k]), x \in Range(Walk(own, visits)[j])
       PROVE  FALSE
  <2>1. j \in 1..Len(ns) /\ j \in DOMAIN ns /\ j \in Places(ns) /\ ns[j].parent = k
    BY <1>6, <1>12 DEF Places, Declared, Forest
  <2>2. x \in Under(ns, j)
    BY <1>11, <1>12, <2>1
  <2>3. k \in T /\ own[k] = DefinitionTree(ns, k)
    <3>1. own[k] # <<>>
      <4>1. DOMAIN <<>> = {}
        OBVIOUS
      <4> QED
        BY <1>12, <4>1 DEF Range
    <3> QED
      BY <1>3, <3>1
  <2>4. x \in tree(k)
    BY <1>2, <1>12, <2>3
  <2>5. CASE x = k
    BY <2>1, <2>2, <2>5, ParentIsNotUnder
  <2>6. CASE x # k
    <3>1. PICK i \in DOMAIN ns : ns[i].parent = k /\ ns[i].kind = "definition" /\ x \in tree(i)
      BY <1>1, <2>4, <2>6
    <3>2. i \in 1..Len(ns) /\ i \in Places(ns) /\ i # j
      BY <1>8, <1>12, <2>3, <3>1 DEF Places, Declared, Forest
    <3>3. x \in Under(ns, i)
      BY <1>1, <3>1, <3>2
    <3>4. Under(ns, i) \cap Under(ns, j) = {}
      BY <2>1, <3>1, <3>2, SiblingsApart DEF Declared
    <3> QED
      BY <2>2, <3>3, <3>4
  <2> QED
    BY <2>5, <2>6
<1>13. \A k \in Places(ns) : IsInjective(Walk(own, visits)[k])
  BY <1>7, <1>9, <1>10, <1>12, WalkOnce
<1> QED
  BY <1>4, <1>5, <1>13

Outermost(ns) == {k \in Usages(ns) : ns[k].parent = 0 \/ ns[ns[k].parent].kind # "usage"}

\* A usage is in one outermost usage.
LEMMA OutermostApart ==
  ASSUME NEW ns, Declared(ns), NEW u \in Outermost(ns), NEW w \in Outermost(ns), u # w
  PROVE  Range(UsageOrder(ns, u)) \cap Range(UsageOrder(ns, w)) = {}
<1> DEFINE Both == Range(UsageOrder(ns, u)) \cap Range(UsageOrder(ns, w))
<1> SUFFICES ASSUME Both # {} PROVE FALSE
  OBVIOUS
<1>1. \A k \in Outermost(ns) : /\ k \in DOMAIN ns /\ ns[k].kind = "usage"
                               /\ ns[k].parent = 0 \/ ns[ns[k].parent].kind # "usage"
  BY DEF Outermost, Usages
<1>2. \A k \in Outermost(ns) : \A i \in Range(UsageOrder(ns, k)) :
         /\ i \in k..Len(ns)
         /\ i # k => ns[i].kind = "usage" /\ ns[i].parent \in Range(UsageOrder(ns, k))
  BY <1>1, UsageOrderFacts
<1>3. \A k \in Outermost(ns) : \A i \in Range(UsageOrder(ns, k)) : i \in 1..Len(ns) /\ ns[i].kind = "usage"
  BY <1>1, <1>2 DEF Declared, Forest
<1>4. PICK i \in Both : \A j \in Both : i <= j
  <2>1. Both \subseteq Nat
    BY <1>3
  <2> HIDE DEF Both
  <2> QED
    BY <2>1, LeastExists
<1>5. i \in 1..Len(ns) /\ ns[i].parent \in 0..(i - 1)
  BY <1>3, <1>4 DEF Declared, Forest
<1>6. ASSUME NEW k \in Outermost(ns), i \in Range(UsageOrder(ns, k)), ns[i].parent \in Range(UsageOrder(ns, k)),
             i \in Outermost(ns)
      PROVE  FALSE
  <2>1. ns[i].parent \in 1..Len(ns) /\ ns[ns[i].parent].kind = "usage"
    BY <1>3, <1>6
  <2> QED
    BY <1>1, <1>6, <2>1
<1>7. CASE i = u
  BY <1>2, <1>4, <1>6, <1>7
<1>8. CASE i = w
  BY <1>2, <1>4, <1>6, <1>8
<1>9. CASE i # u /\ i # w
  <2>1. ns[i].parent \in Both
    BY <1>2, <1>4, <1>9
  <2> QED
    BY <1>4, <1>5, <2>1
<1> QED
  BY <1>7, <1>8, <1>9

\* Outermost usages with the usages in them: each once.
LEMMA OrdersOnce ==
  ASSUME NEW ns, Declared(ns), NEW list \in Seq(Outermost(ns)), IsInjective(list)
  PROVE  /\ Orders(ns, list) \in Seq(Usages(ns))
         /\ IsInjective(Orders(ns, list))
         /\ Range(Orders(ns, list)) = UNION {Range(UsageOrder(ns, k)) : k \in Range(list)}
<1> DEFINE orders == [j \in DOMAIN list |-> UsageOrder(ns, list[j])]
<1>1. DOMAIN list = 1..Len(list) /\ Len(list) \in Nat /\ \A j \in DOMAIN list : list[j] \in Outermost(ns)
  OBVIOUS
<1>2. \A k \in Outermost(ns) : UsageOrder(ns, k) \in Seq(Usages(ns)) /\ IsInjective(UsageOrder(ns, k))
  <2> SUFFICES ASSUME NEW k \in Outermost(ns)
               PROVE  UsageOrder(ns, k) \in Seq(Usages(ns)) /\ IsInjective(UsageOrder(ns, k))
    OBVIOUS
  <2>1. k \in DOMAIN ns /\ ns[k].kind = "usage"
    BY DEF Outermost, Usages
  <2>2. /\ UsageOrder(ns, k) \in Seq(DOMAIN ns)
        /\ \A i \in Range(UsageOrder(ns, k)) : i # k => ns[i].kind = "usage"
    BY <2>1, UsageOrderFacts
  <2>3. Range(UsageOrder(ns, k)) \subseteq Usages(ns)
    <3>1. Range(UsageOrder(ns, k)) \subseteq DOMAIN ns
      BY <2>2 DEF Range
    <3> QED
      BY <2>1, <2>2, <3>1 DEF Usages
  <2> QED
    BY <2>1, <2>2, <2>3, Narrowed, UsageOrderOnce
<1>3. DOMAIN orders = DOMAIN list /\ \A j \in DOMAIN list : orders[j] = UsageOrder(ns, list[j])
  OBVIOUS
<1>4. orders \in Seq(Seq(Usages(ns)))
  BY <1>1, <1>2
<1>5. Orders(ns, list) = FlattenSeq(orders)
  BY DEF Orders
<1> HIDE DEF orders
<1>6. Disjoint(orders)
  <2> SUFFICES ASSUME NEW i \in DOMAIN list, NEW j \in DOMAIN list, i # j
               PROVE  Range(orders[i]) \cap Range(orders[j]) = {}
    BY <1>3 DEF Disjoint
  <2>1. list[i] # list[j]
    BY DEF IsInjective
  <2> QED
    BY <1>1, <1>3, <2>1, OutermostApart
<1>7. /\ FlattenSeq(orders) \in Seq(Usages(ns))
      /\ Range(FlattenSeq(orders)) = UNION {Range(orders[j]) : j \in DOMAIN orders}
      /\ IsInjective(FlattenSeq(orders))
  BY <1>1, <1>2, <1>3, <1>4, <1>6, FlattenFacts
<1>8. UNION {Range(orders[j]) : j \in DOMAIN orders} = UNION {Range(UsageOrder(ns, k)) : k \in Range(list)}
  BY <1>3 DEF Range
<1> QED
  BY <1>5, <1>7, <1>8

\* Where the usages that are resolved and emitted come from.
LEMMA OutermostLists ==
  ASSUME NEW ns, Declared(ns)
  PROVE  /\ FreeUsages(ns) \in Seq(Outermost(ns)) /\ IsInjective(FreeUsages(ns))
         /\ \A k \in Definitions(ns) : UsagesIn(ns, k) \in Seq(Outermost(ns)) /\ IsInjective(UsagesIn(ns, k))
<1>1. FreeUsages(ns) \in Seq(Outermost(ns)) /\ IsInjective(FreeUsages(ns))
  <2>1. /\ FreeUsages(ns) \in Seq(Usages(ns))
        /\ \A k \in Range(FreeUsages(ns)) : ns[k].parent = 0 \/ ns[ns[k].parent].kind = "package"
    BY FreeUsagesFacts
  <2>2. Range(FreeUsages(ns)) \subseteq Outermost(ns)
    <3>1. Range(FreeUsages(ns)) \subseteq Usages(ns)
      BY <2>1 DEF Range
    <3> QED
      BY <2>1, <3>1 DEF Outermost
  <2>3. IsInjective(FreeUsages(ns))
    BY SelectedFacts DEF FreeUsages
  <2> QED
    BY <2>1, <2>2, <2>3, Narrowed
<1>2. ASSUME NEW k \in Definitions(ns)
      PROVE  UsagesIn(ns, k) \in Seq(Outermost(ns)) /\ IsInjective(UsagesIn(ns, k))
  <2>1. k \in DOMAIN ns /\ ns[k].kind = "definition" /\ k \in Places(ns)
    BY DEF Definitions, Declared, Forest, Places
  <2>2. /\ UsagesIn(ns, k) \in Seq(Usages(ns))
        /\ Range(UsagesIn(ns, k)) = {i \in Usages(ns) : ns[i].parent = k}
    BY <2>1, UsagesInFacts
  <2>3. Range(UsagesIn(ns, k)) \subseteq Outermost(ns)
    BY <2>1, <2>2 DEF Outermost
  <2>4. IsInjective(UsagesIn(ns, k))
    BY <2>1, ChildrenOfKindFacts DEF UsagesIn
  <2> QED
    BY <2>2, <2>3, <2>4, Narrowed
<1> QED
  BY <1>1, <1>2

\* The usages in a definition, and those of the module.
UsagesOf(ns, k)  == UNION {Range(UsageOrder(ns, u)) : u \in Range(UsagesIn(ns, k))}
UsagesOutside(ns) == UNION {Range(UsageOrder(ns, u)) : u \in Range(FreeUsages(ns))}

\* Two definitions share no usages, nor one with what is outside of definitions.
LEMMA UsagesApart ==
  ASSUME NEW ns, Declared(ns)
  PROVE  /\ \A d \in Definitions(ns), e \in Definitions(ns) : d # e => UsagesOf(ns, d) \cap UsagesOf(ns, e) = {}
         /\ \A d \in Definitions(ns) : UsagesOf(ns, d) \cap UsagesOutside(ns) = {}
<1>1. \A d \in Definitions(ns) : \A u \in Range(UsagesIn(ns, d)) : u \in Outermost(ns) /\ ns[u].parent = d
  <2> SUFFICES ASSUME NEW d \in Definitions(ns), NEW u \in Range(UsagesIn(ns, d))
               PROVE  u \in Outermost(ns) /\ ns[u].parent = d
    OBVIOUS
  <2>1. d \in DOMAIN ns
    BY DEF Definitions
  <2>2. ns[u].parent = d
    BY <2>1, UsagesInFacts
  <2>3. UsagesIn(ns, d) \in Seq(Outermost(ns))
    BY OutermostLists
  <2> QED
    BY <2>2, <2>3 DEF Range
<1>2. \A u \in Range(FreeUsages(ns)) :
         u \in Outermost(ns) /\ (ns[u].parent = 0 \/ ns[ns[u].parent].kind = "package")
  <2>1. FreeUsages(ns) \in Seq(Outermost(ns))
    BY OutermostLists
  <2> QED
    BY <2>1, FreeUsagesFacts DEF Range
<1>3. \A d \in Definitions(ns) : d # 0 /\ ns[d].kind = "definition"
  BY DEF Definitions, Declared, Forest
<1>4. ASSUME NEW d \in Definitions(ns), NEW e \in Definitions(ns), d # e, NEW x \in UsagesOf(ns, d), x \in UsagesOf(ns, e)
      PROVE  FALSE
  <2>1. PICK u \in Range(UsagesIn(ns, d)) : x \in Range(UsageOrder(ns, u))
    BY <1>4 DEF UsagesOf
  <2>2. PICK w \in Range(UsagesIn(ns, e)) : x \in Range(UsageOrder(ns, w))
    BY <1>4 DEF UsagesOf
  <2>3. u # w /\ u \in Outermost(ns) /\ w \in Outermost(ns)
    BY <1>1, <1>4
  <2> QED
    BY <2>1, <2>2, <2>3, OutermostApart
<1>5. ASSUME NEW d \in Definitions(ns), NEW x \in UsagesOf(ns, d), x \in UsagesOutside(ns)
      PROVE  FALSE
  <2>1. PICK u \in Range(UsagesIn(ns, d)) : x \in Range(UsageOrder(ns, u))
    BY <1>5 DEF UsagesOf
  <2>2. PICK w \in Range(FreeUsages(ns)) : x \in Range(UsageOrder(ns, w))
    BY <1>5 DEF UsagesOutside
  <2>3. u # w /\ u \in Outermost(ns) /\ w \in Outermost(ns)
    BY <1>1, <1>2, <1>3
  <2> QED
    BY <2>1, <2>2, <2>3, OutermostApart
<1> QED
  BY <1>4, <1>5

\* No declaration is resolved twice in an attempt.
LEMMA ResolutionOnce ==
  ASSUME NEW m, Declared(m.nodes)
  PROVE  IsInjective(ResolutionOrder(m))
<1> DEFINE ns == m.nodes
           T == DOMAIN ns
           definitions == DefinitionOrder(ns)
           rest(k) == Orders(ns, UsagesIn(ns, k))
           within(k) == <<k>> \o rest(k)
           ss == [j \in DOMAIN definitions |-> within(definitions[j])]
           free == Orders(ns, FreeUsages(ns))
<1>1. definitions \in Seq(Definitions(ns)) /\ IsInjective(definitions)
  BY DefinitionOrderFacts, DefinitionOrderOnce
<1>2. free \in Seq(Usages(ns)) /\ IsInjective(free) /\ Range(free) = UsagesOutside(ns)
  BY OutermostLists, OrdersOnce DEF UsagesOutside
<1>3. \A k \in Definitions(ns) : /\ rest(k) \in Seq(Usages(ns)) /\ IsInjective(rest(k))
                                 /\ Range(rest(k)) = UsagesOf(ns, k)
  <2> SUFFICES ASSUME NEW k \in Definitions(ns)
               PROVE  rest(k) \in Seq(Usages(ns)) /\ IsInjective(rest(k)) /\ Range(rest(k)) = UsagesOf(ns, k)
    OBVIOUS
  <2>1. UsagesIn(ns, k) \in Seq(Outermost(ns)) /\ IsInjective(UsagesIn(ns, k))
    BY OutermostLists
  <2> QED
    BY <2>1, OrdersOnce DEF UsagesOf
<1>4. /\ Usages(ns) \cap Definitions(ns) = {} /\ Usages(ns) \subseteq T /\ Definitions(ns) \subseteq T
  BY DEF Usages, Definitions
<1>5. ResolutionOrder(m) = FlattenSeq(ss) \o free
  BY DEF ResolutionOrder
<1>6. DOMAIN ss = DOMAIN definitions /\ \A j \in DOMAIN definitions : ss[j] = within(definitions[j])
  OBVIOUS
<1>7. /\ DOMAIN definitions = 1..Len(definitions) /\ Len(definitions) \in Nat
      /\ \A j \in DOMAIN definitions : definitions[j] \in Definitions(ns)
  <2> HIDE DEF definitions
  <2> QED
    BY <1>1
<1> HIDE DEF definitions, free, rest, T
<1>8. \A k \in Definitions(ns) :
         within(k) \in Seq(T) /\ IsInjective(within(k)) /\ Range(within(k)) = {k} \cup UsagesOf(ns, k)
  <2> TAKE k \in Definitions(ns)
  <2>1. k \in T /\ rest(k) \in Seq(T)
    BY <1>3, <1>4
  <2>2. <<k>> \in Seq(T) /\ DOMAIN <<k>> = {1} /\ <<k>>[1] = k
    BY <2>1
  <2>3. Range(<<k>>) = {k} /\ IsInjective(<<k>>)
    BY <2>2 DEF Range, IsInjective
  <2>4. k \notin Range(rest(k))
    <3>1. Range(rest(k)) \subseteq Usages(ns)
      BY <1>3 DEF Range
    <3> QED
      BY <1>4, <3>1
  <2>5. /\ <<k>> \o rest(k) \in Seq(T)
        /\ Range(<<k>> \o rest(k)) = {k} \cup Range(rest(k))
        /\ IsInjective(<<k>> \o rest(k))
    <3> DEFINE s == <<k>>
               t == rest(k)
    <3>1. s \in Seq(T) /\ t \in Seq(T) /\ IsInjective(s) /\ IsInjective(t) /\ Range(s) \cap Range(t) = {}
      BY <1>3, <2>1, <2>2, <2>3, <2>4
    <3> HIDE DEF s, t
    <3>2. s \o t \in Seq(T) /\ Range(s \o t) = Range(s) \cup Range(t) /\ IsInjective(s \o t)
      BY <3>1, ConcatRange
    <3> QED
      BY <2>3, <3>2 DEF s, t
  <2> QED
    BY <1>3, <2>5
<1> HIDE DEF within
<1>9. \A k \in Definitions(ns) : UsagesOf(ns, k) \subseteq Usages(ns)
  BY <1>3 DEF Range
<1>10. Disjoint(ss)
  <2> SUFFICES ASSUME NEW i \in DOMAIN definitions, NEW j \in DOMAIN definitions, i # j
               PROVE  Range(ss[i]) \cap Range(ss[j]) = {}
    BY <1>6 DEF Disjoint
  <2> DEFINE d == definitions[i]
             e == definitions[j]
  <2>1. d # e /\ d \in Definitions(ns) /\ e \in Definitions(ns)
    BY <1>1, <1>7 DEF IsInjective
  <2>2. UsagesOf(ns, d) \cap UsagesOf(ns, e) = {}
    BY <2>1, UsagesApart
  <2>3. Range(ss[i]) = {d} \cup UsagesOf(ns, d) /\ Range(ss[j]) = {e} \cup UsagesOf(ns, e)
    BY <1>6, <1>8, <2>1
  <2> QED
    BY <1>4, <1>9, <2>1, <2>2, <2>3
<1>11. ss \in Seq(Seq(T))
  BY <1>6, <1>7, <1>8
<1> HIDE DEF ss
<1>12. /\ FlattenSeq(ss) \in Seq(T) /\ IsInjective(FlattenSeq(ss))
       /\ Range(FlattenSeq(ss)) = UNION {Range(ss[j]) : j \in DOMAIN ss}
  BY <1>6, <1>7, <1>8, <1>10, <1>11, FlattenFacts
<1>13. Range(FlattenSeq(ss)) \cap Range(free) = {}
  <2> SUFFICES ASSUME NEW j \in DOMAIN definitions PROVE Range(ss[j]) \cap Range(free) = {}
    BY <1>6, <1>12
  <2>1. Range(ss[j]) = {definitions[j]} \cup UsagesOf(ns, definitions[j]) /\ definitions[j] \in Definitions(ns)
    BY <1>6, <1>7, <1>8
  <2>2. Range(free) \subseteq Usages(ns)
    BY <1>2 DEF Range
  <2> QED
    BY <1>2, <1>4, <2>1, <2>2, UsagesApart
<1>14. free \in Seq(T)
  BY <1>2, <1>4
<1>15. IsInjective(FlattenSeq(ss) \o free)
  BY <1>2, <1>12, <1>13, <1>14, ConcatRange
<1> QED
  BY <1>5, <1>15

---------------------------------------------------------------------------
(* Ids that repeat *)

IdsOver(K, N, A)          == [kind : K, name : N, at : A, copy : Nat]
ElementsOver(K, N, A, O, M) == [id : IdsOver(K, N, A), owner : O, members : M]

\* There is a number that no element of the id has.
LEMMA FreeCopyFacts ==
  ASSUME NEW done, Len(done) \in Nat, DOMAIN done = 1..Len(done),
         NEW K, NEW N, NEW A, NEW id \in IdsOver(K, N, A)
  PROVE  FreeCopy(done, id) \in Nat \ {0}
<1> DEFINE L == Len(done)
           copy(n) == [id EXCEPT !.copy = n]
           free == {n \in 1..(L + 1) : ~Taken(done, copy(n))}
<1>1. \A n \in Nat : copy(n).copy = n
  BY DEF IdsOver
<1>2. free # {}
  <2> SUFFICES ASSUME free = {} PROVE FALSE
    OBVIOUS
  <2> HIDE DEF copy
  <2>1. \A n \in 1..(L + 1) : \E i \in 1..L : done[i].id = copy(n)
    <3> TAKE n \in 1..(L + 1)
    <3>1. Taken(done, copy(n))
      OBVIOUS
    <3> QED
      BY <3>1 DEF Taken, Range
  <2> DEFINE f == [n \in 1..(L + 1) |-> CHOOSE i \in 1..L : done[i].id = copy(n)]
  <2>2. f \in [1..(L + 1) -> 1..L] /\ \A n \in 1..(L + 1) : done[f[n]].id = copy(n)
    BY <2>1
  <2> HIDE DEF f
  <2>3. /\ IsFiniteSet(1..(L + 1)) /\ IsFiniteSet(1..L)
        /\ Cardinality(1..L) < Cardinality(1..(L + 1))
    <3>1. L \in Int /\ L + 1 \in Int /\ 1 \in Int
      OBVIOUS
    <3>2. /\ IsFiniteSet(1..L) /\ Cardinality(1..L) = IF 1 > L THEN 0 ELSE L - 1 + 1
          /\ IsFiniteSet(1..(L + 1)) /\ Cardinality(1..(L + 1)) = IF 1 > L + 1 THEN 0 ELSE L + 1 - 1 + 1
      BY <3>1, FS_Interval
    <3> QED
      BY <3>2
  <2>4. PICK x \in 1..(L + 1), y \in 1..(L + 1) : x # y /\ f[x] = f[y]
    BY <2>2, <2>3, FS_PigeonHole
  <2>5. copy(x) = copy(y)
    BY <2>2, <2>4
  <2> QED
    BY <1>1, <2>4, <2>5
<1>3. PICK n \in free : \A m \in free : n <= m
  BY <1>2, LeastExists, free \subseteq Nat
<1>4. /\ n \in 1..(L + 1) /\ ~Taken(done, copy(n))
      /\ \A l \in 1..(n - 1) : Taken(done, copy(l))
  <2> HIDE DEF copy
  <2>1. n \in 1..(L + 1) /\ ~Taken(done, copy(n))
    BY <1>3
  <2>2. ASSUME NEW l \in 1..(n - 1) PROVE Taken(done, copy(l))
    <3>1. l \in 1..(L + 1) /\ ~(n <= l)
      BY <2>1
    <3> QED
      BY <1>3, <3>1
  <2> QED
    BY <2>1, <2>2
<1>5. FreeCopy(done, id) \in 1..(L + 1)
  BY <1>4 DEF FreeCopy
<1> QED
  BY <1>5

\* Only the id of an element is changed, and only of one that repeats.
LEMMA ToldApartFacts ==
  ASSUME NEW K, NEW N, NEW A, NEW O, NEW M,
         NEW done \in Seq(ElementsOver(K, N, A, O, M)), NEW e \in ElementsOver(K, N, A, O, M)
  PROVE  /\ ToldApart(done, e) \in ElementsOver(K, N, A, O, M)
         /\ ToldApart(done, e).owner = e.owner /\ ToldApart(done, e).members = e.members
         /\ ToldApart(done, e).id = e.id \/ (ToldApart(done, e).id.copy # 0 /\ Taken(done, e.id) /\ e.id.kind \in Disambiguable)
<1>1. CASE Taken(done, e.id) /\ e.id.kind \in Disambiguable
  <2> DEFINE n == FreeCopy(done, e.id)
  <2>1. n \in Nat \ {0}
    <3>1. e.id \in IdsOver(K, N, A) /\ Len(done) \in Nat /\ DOMAIN done = 1..Len(done)
      BY DEF ElementsOver
    <3> QED
      BY <3>1, FreeCopyFacts
  <2>2. ToldApart(done, e) = [e EXCEPT !.id.copy = n]
    BY <1>1 DEF ToldApart
  <2> HIDE DEF n
  <2> QED
    BY <1>1, <2>1, <2>2 DEF ElementsOver, IdsOver
<1>2. CASE ~(Taken(done, e.id) /\ e.id.kind \in Disambiguable)
  <2>1. ToldApart(done, e) = e
    BY <1>2 DEF ToldApart
  <2> QED
    BY <2>1
<1> QED
  BY <1>1, <1>2

\* Telling repeated ids apart changes nothing but ids, and of these the ones
\* that repeat an earlier one.
LEMMA DisambiguatedFacts ==
  ASSUME NEW K, NEW N, NEW A, NEW O, NEW M,
         NEW raw \in Seq(ElementsOver(K, N, A, O, M)), \A e \in Range(raw) : e.id.copy = 0
  PROVE  /\ DOMAIN Disambiguated(raw) = DOMAIN raw
         /\ \A i \in DOMAIN raw :
              /\ Disambiguated(raw)[i].owner = raw[i].owner
              /\ Disambiguated(raw)[i].members = raw[i].members
              /\ \/ Disambiguated(raw)[i].id = raw[i].id
                 \/ raw[i].id.kind \in Disambiguable /\ \E j \in 1..(i - 1) : raw[j].id = raw[i].id
<1> DEFINE L == Len(raw)
           U == ElementsOver(K, N, A, O, M)
           chain == [k \in 1..L |-> [parent |-> k - 1]]
           step == [p \in (1..L) \X Seq(U) |-> Append(p[2], ToldApart(p[2], raw[p[1]]))]
           body(f) == [n \in 0..L |-> IF n = 0 THEN <<>> ELSE Append(f[n - 1], ToldApart(f[n - 1], raw[n]))]
           done == CHOOSE f : f = body(f)
<1>1. L \in Nat /\ DOMAIN raw = 1..L /\ \A i \in 1..L : raw[i] \in U /\ raw[i].id.copy = 0
  <2>1. L \in Nat /\ DOMAIN raw = 1..L /\ \A i \in 1..L : raw[i] \in U
    OBVIOUS
  <2> QED
    BY <2>1 DEF Range
<1>2. Len(chain) = L /\ Forest(chain) /\ \A k \in 1..L : chain[k].parent = k - 1
  BY <1>1 DEF Forest
<1> HIDE DEF chain
<1>3. PICK f : IsDescent(f, chain, <<>>, step, L)
  BY <1>2, DescentsExist
<1>4. f = [k \in 0..L |-> f[k]] /\ \A k \in 0..L : f[k] = IF k = 0 THEN <<>> ELSE step[<<k, f[chain[k].parent]>>]
  BY <1>3 DEF IsDescent, Descends
<1>5. \A k \in 1..L : \A s \in Seq(U) :
         step[<<k, s>>] = Append(s, ToldApart(s, raw[k])) /\ Append(s, ToldApart(s, raw[k])) \in Seq(U)
  <2> SUFFICES ASSUME NEW k \in 1..L, NEW s \in Seq(U)
               PROVE  step[<<k, s>>] = Append(s, ToldApart(s, raw[k])) /\ Append(s, ToldApart(s, raw[k])) \in Seq(U)
    OBVIOUS
  <2>1. <<k, s>> \in (1..L) \X Seq(U)
    OBVIOUS
  <2>2. step[<<k, s>>] = Append(s, ToldApart(s, raw[k]))
    BY <2>1
  <2>3. ToldApart(s, raw[k]) \in U
    BY <1>1, ToldApartFacts
  <2> HIDE DEF U
  <2> QED
    BY <2>2, <2>3
<1> HIDE DEF step, U
<1>6. \A n \in 0..L : f[n] \in Seq(U)
  <2> DEFINE S == {n \in 0..L : f[n] \in Seq(U)}
  <2>1. 0 \in S
    <3>1. <<>> \in Seq(U) /\ 0 \in 0..L
      BY <1>1
    <3>2. f[0] = <<>>
      BY <1>4, <3>1
    <3> QED
      BY <3>1, <3>2
  <2>2. ASSUME NEW n \in 1..L, chain[n].parent \in S PROVE n \in S
    <3>1. n \in 0..L /\ n # 0 /\ f[chain[n].parent] \in Seq(U)
      BY <2>2
    <3>2. f[n] = step[<<n, f[chain[n].parent]>>]
      BY <1>4, <3>1
    <3>3. f[n] \in Seq(U)
      BY <1>5, <3>1, <3>2
    <3> QED
      BY <3>1, <3>3
  <2> HIDE DEF S
  <2>3. \A n \in 0..Len(chain) : n \in S
    BY <1>2, <2>1, <2>2, FromTheRoot
  <2> QED
    BY <1>2, <2>3 DEF S
<1>7. f = body(f)
  <2>1. \A n \in 0..L : f[n] = IF n = 0 THEN <<>> ELSE Append(f[n - 1], ToldApart(f[n - 1], raw[n]))
    <3> TAKE n \in 0..L
    <3>1. CASE n = 0
      BY <1>4, <3>1
    <3>2. CASE n # 0
      <4>1. n \in 1..L /\ n - 1 \in 0..L
        BY <1>1, <3>2
      <4>2. f[n] = step[<<n, f[n - 1]>>] /\ f[n - 1] \in Seq(U)
        BY <1>2, <1>4, <1>6, <3>2, <4>1
      <4> QED
        BY <1>5, <3>2, <4>1, <4>2
    <3> QED
      BY <3>1, <3>2
  <2> QED
    BY <1>4, <2>1
<1>8. done = body(done)
  <2> HIDE DEF body
  <2> QED
    BY <1>7
<1>9. Disambiguated(raw) = done[L]
  BY DEF Disambiguated
<1> HIDE DEF done
<1>10. done[0] = <<>> /\ \A n \in 1..L : done[n] = Append(done[n - 1], ToldApart(done[n - 1], raw[n]))
  <2>1. \A n \in 0..L : done[n] = IF n = 0 THEN <<>> ELSE Append(done[n - 1], ToldApart(done[n - 1], raw[n]))
    BY <1>8
  <2>2. 0 \in 0..L /\ \A n \in 1..L : n \in 0..L /\ n # 0
    BY <1>1
  <2> QED
    BY <2>1, <2>2
<1> DEFINE new(i) == ToldApart(done[i - 1], raw[i])
           Built(n) == /\ done[n] \in Seq(U)
                       /\ Len(done[n]) = n
                       /\ \A i \in 1..n : done[n][i] = new(i)
<1>11. \A n \in 0..L : Built(n)
  <2> DEFINE S == {n \in 0..L : Built(n)}
  <2>1. 0 \in S
    <3>1. <<>> \in Seq(U) /\ Len(<<>>) = 0 /\ 0 \in 0..L /\ 1..0 = {}
      BY <1>1
    <3> QED
      BY <1>10, <3>1
  <2>2. ASSUME NEW n \in 1..L, chain[n].parent \in S PROVE n \in S
    <3>1. n - 1 \in 0..L /\ n \in 0..L /\ Built(n - 1)
      <4>1. n - 1 \in 0..L /\ n \in 0..L
        BY <1>1
      <4>2. chain[n].parent = n - 1
        BY <1>2
      <4>3. n - 1 \in S
        BY <2>2, <4>2
      <4> HIDE DEF Built
      <4> QED
        BY <4>1, <4>3
    <3> DEFINE s == done[n - 1]
               x == new(n)
    <3>2. s \in Seq(U) /\ Len(s) = n - 1 /\ \A i \in 1..(n - 1) : s[i] = new(i)
      BY <3>1
    <3>3. x \in U
      <4>1. s \in Seq(ElementsOver(K, N, A, O, M)) /\ raw[n] \in ElementsOver(K, N, A, O, M)
        BY <1>1, <3>2 DEF U
      <4> QED
        BY <4>1, ToldApartFacts DEF U
    <3>4. done[n] = Append(s, x)
      BY <1>10
    <3> HIDE DEF s, x, new
    <3>5. /\ Append(s, x) \in Seq(U) /\ Len(Append(s, x)) = n
          /\ \A i \in 1..n : Append(s, x)[i] = IF i = n THEN x ELSE s[i]
      BY <3>2, <3>3
    <3>6. \A i \in 1..n : Append(s, x)[i] = new(i)
      <4> TAKE i \in 1..n
      <4>1. i = n \/ i \in 1..(n - 1)
        OBVIOUS
      <4> QED
        BY <3>2, <3>5, <4>1 DEF x
    <3> QED
      BY <3>1, <3>4, <3>5, <3>6
  <2> HIDE DEF S
  <2>3. \A n \in 0..Len(chain) : n \in S
    BY <1>2, <2>1, <2>2, FromTheRoot
  <2> QED
    BY <1>2, <2>3 DEF S
<1>12. DOMAIN done[L] = 1..L /\ \A i \in 1..L : done[L][i] = new(i)
  <2>1. Built(L)
    BY <1>1, <1>11
  <2>2. done[L] \in Seq(U) /\ Len(done[L]) = L /\ \A i \in 1..L : done[L][i] = new(i)
    BY <2>1
  <2> HIDE DEF new
  <2> QED
    BY <2>2
<1>13. ASSUME NEW i \in 1..L
       PROVE  /\ new(i).owner = raw[i].owner /\ new(i).members = raw[i].members
              /\ \/ new(i).id = raw[i].id
                 \/ new(i).id.copy # 0 /\ Taken(done[i - 1], raw[i].id) /\ raw[i].id.kind \in Disambiguable
  <2>1. i - 1 \in 0..L
    BY <1>1
  <2>2. done[i - 1] \in Seq(ElementsOver(K, N, A, O, M)) /\ raw[i] \in ElementsOver(K, N, A, O, M)
    BY <1>1, <1>11, <2>1 DEF U
  <2> QED
    BY <2>2, ToldApartFacts
<1>14. ASSUME NEW i \in 1..L, Taken(done[i - 1], raw[i].id)
       PROVE  \E j \in 1..(i - 1) : raw[j].id = raw[i].id
  <2>1. i - 1 \in 0..L
    BY <1>1
  <2>2. done[i - 1] \in Seq(U) /\ Len(done[i - 1]) = i - 1 /\ \A j \in 1..(i - 1) : done[i - 1][j] = new(j)
    BY <1>11, <2>1
  <2> HIDE DEF new
  <2>3. DOMAIN done[i - 1] = 1..(i - 1)
    BY <2>2
  <2>4. PICK j \in 1..(i - 1) : new(j).id = raw[i].id
    BY <1>14, <2>2, <2>3 DEF Taken, Range
  <2>5. j \in 1..L /\ raw[i].id.copy = 0
    BY <1>1
  <2>6. new(j).id = raw[j].id
    BY <1>13, <2>4, <2>5
  <2> QED
    BY <2>4, <2>6
<1> HIDE DEF new
<1> QED
  BY <1>1, <1>9, <1>12, <1>13, <1>14

---------------------------------------------------------------------------
(* Maps over lists *)

Map(F, s) == [j \in DOMAIN s |-> F[s[j]]]

Images(F, T) == {F[x] : x \in T}

\* The image of a list, and of two put together.
LEMMA MapFacts ==
  ASSUME NEW T, NEW s \in Seq(T), NEW t \in Seq(T), NEW F
  PROVE  /\ Map(F, s) \in Seq(Images(F, T)) /\ Len(Map(F, s)) = Len(s)
         /\ DOMAIN Map(F, s) = DOMAIN s /\ \A j \in DOMAIN s : Map(F, s)[j] = F[s[j]]
         /\ Map(F, s \o t) = Map(F, s) \o Map(F, t)
<1> DEFINE U == Images(F, T)
<1>1. \A r \in Seq(T) : /\ Map(F, r) \in Seq(U) /\ Len(Map(F, r)) = Len(r)
                        /\ DOMAIN Map(F, r) = DOMAIN r /\ \A j \in DOMAIN r : Map(F, r)[j] = F[r[j]]
  <2> SUFFICES ASSUME NEW r \in Seq(T)
               PROVE  /\ Map(F, r) \in Seq(U) /\ Len(Map(F, r)) = Len(r)
                      /\ DOMAIN Map(F, r) = DOMAIN r /\ \A j \in DOMAIN r : Map(F, r)[j] = F[r[j]]
    OBVIOUS
  <2>1. DOMAIN r = 1..Len(r) /\ Len(r) \in Nat /\ \A j \in 1..Len(r) : F[r[j]] \in U
    BY DEF Images
  <2>2. Map(F, r) = [j \in 1..Len(r) |-> F[r[j]]]
    BY <2>1 DEF Map
  <2> HIDE DEF U
  <2> QED
    BY <2>1, <2>2
<1>2. s \o t \in Seq(T) /\ Len(s \o t) = Len(s) + Len(t) /\ Len(s) \in Nat /\ Len(t) \in Nat
  OBVIOUS
<1> DEFINE a == Map(F, s)
           b == Map(F, t)
           c == Map(F, s \o t)
<1>3. a \in Seq(U) /\ b \in Seq(U) /\ c \in Seq(U) /\ Len(a) = Len(s) /\ Len(b) = Len(t) /\ Len(c) = Len(s) + Len(t)
  BY <1>1, <1>2
<1>4. \A j \in 1..(Len(s) + Len(t)) : c[j] = (a \o b)[j]
  <2> TAKE j \in 1..(Len(s) + Len(t))
  <2>1. c[j] = F[(s \o t)[j]]
    <3>1. DOMAIN (s \o t) = 1..(Len(s) + Len(t))
      BY <1>2
    <3> QED
      BY <3>1 DEF Map
  <2>2. CASE j <= Len(s)
    <3>1. (s \o t)[j] = s[j] /\ j \in DOMAIN s
      BY <1>2, <2>2
    <3>2. (a \o b)[j] = a[j]
      <4> HIDE DEF a, b
      <4> QED
        BY <1>2, <1>3, <2>2
    <3> QED
      BY <1>1, <2>1, <3>1, <3>2
  <2>3. CASE ~(j <= Len(s))
    <3>1. (s \o t)[j] = t[j - Len(s)] /\ j - Len(s) \in DOMAIN t
      BY <1>2, <2>3
    <3>2. (a \o b)[j] = b[j - Len(s)]
      <4> HIDE DEF a, b
      <4> QED
        BY <1>2, <1>3, <2>3
    <3> QED
      BY <1>1, <2>1, <3>1, <3>2
  <2> QED
    BY <2>2, <2>3
<1>5. c = a \o b
  <2> HIDE DEF a, b, c
  <2>0. \A V : a \in Seq(V) /\ b \in Seq(V) => a \o b \in Seq(V) /\ Len(a \o b) = Len(a) + Len(b)
    OBVIOUS
  <2> HIDE DEF U
  <2>1. a \o b \in Seq(U) /\ Len(a \o b) = Len(s) + Len(t)
    BY <1>3, <2>0
  <2> QED
    BY <1>2, <1>3, <1>4, <2>1
<1> QED
  BY <1>1, <1>5

\* The same without the bounds.
LEMMA MapConcat ==
  ASSUME NEW T, NEW s \in Seq(T), NEW t \in Seq(T), NEW F
  PROVE  Map(F, s \o t) = Map(F, s) \o Map(F, t)
BY MapFacts

\* The lists a FlattenSeq goes through.
LEMMA FlattenSteps ==
  ASSUME NEW T, NEW ss \in Seq(Seq(T)), ss # <<>>
  PROVE  \E f : /\ Joins(f, ss, Len(ss)) /\ FlattenSeq(ss) = f[Len(ss)]
                /\ \A i \in 1..Len(ss) : f[i] \in Seq(T)
<1> DEFINE n == Len(ss)
           body(f) == [i \in 1..n |-> IF i = 1 THEN ss[i] ELSE f[i - 1] \o ss[i]]
           F == CHOOSE f : f = body(f)
           Bad == {i \in 1..n : F[i] \notin Seq(T)}
<1>1. n \in Nat /\ n # 0 /\ DOMAIN ss = 1..n /\ \A j \in 1..n : ss[j] \in Seq(T)
  OBVIOUS
<1>2. FlattenSeq(ss) = F[n]
  BY <1>1 DEF FlattenSeq
<1>3. PICK f : f = [i \in 1..n |-> f[i]] /\ Joins(f, ss, n)
  BY <1>1, JoinsExist
<1>4. f = body(f)
  BY <1>3 DEF Joins
<1>5. F = body(F)
  <2> HIDE DEF body
  <2> QED
    BY <1>4
<1> HIDE DEF F
<1>6. \A i \in 1..n : F[i] = IF i = 1 THEN ss[i] ELSE F[i - 1] \o ss[i]
  BY <1>5
<1>7. Joins(F, ss, n)
  BY <1>6 DEF Joins
<1>8. Bad = {}
  <2> SUFFICES ASSUME Bad # {} PROVE FALSE
    OBVIOUS
  <2>1. PICK i \in Bad : \A l \in Bad : i <= l
    BY LeastExists, Bad \subseteq Nat
  <2>2. i \in 1..n /\ F[i] \notin Seq(T)
    BY <2>1
  <2>3. i # 1
    BY <1>1, <1>6, <2>2
  <2>4. i - 1 \in 1..n /\ ~(i <= i - 1)
    BY <2>2, <2>3
  <2>5. F[i - 1] \in Seq(T)
    BY <2>1, <2>4
  <2>6. F[i - 1] \o ss[i] \in Seq(T)
    BY <1>1, <2>2, <2>5
  <2> QED
    BY <1>6, <2>2, <2>3, <2>6
<1> QED
  BY <1>2, <1>7, <1>8

\* The image of lists put together is that of each, put together.
LEMMA MapFlatten ==
  ASSUME NEW T, NEW ss \in Seq(Seq(T)), NEW F,
         NEW mm, DOMAIN mm = DOMAIN ss, mm = [j \in DOMAIN ss |-> mm[j]], \A j \in DOMAIN ss : mm[j] = Map(F, ss[j])
  PROVE  FlattenSeq(mm) = Map(F, FlattenSeq(ss))
<1> DEFINE n == Len(ss)
           U == Images(F, T)
<1>1. n \in Nat /\ DOMAIN ss = 1..n /\ \A j \in 1..n : ss[j] \in Seq(T) /\ mm[j] = Map(F, ss[j]) /\ mm[j] \in Seq(U)
  <2>1. n \in Nat /\ DOMAIN ss = 1..n /\ \A j \in 1..n : ss[j] \in Seq(T) /\ mm[j] = Map(F, ss[j])
    OBVIOUS
  <2> HIDE DEF U
  <2>2. ASSUME NEW j \in 1..n PROVE mm[j] \in Seq(U)
    <3>1. ss[j] \in Seq(T) /\ mm[j] = Map(F, ss[j])
      BY <2>1
    <3>2. Map(F, ss[j]) \in Seq(U)
      BY <3>1, MapFacts DEF U
    <3> QED
      BY <3>1, <3>2
  <2> QED
    BY <2>1, <2>2
<1>2. mm \in Seq(Seq(U)) /\ Len(mm) = n
  <2> HIDE DEF U
  <2> QED
    BY <1>1
<1>3. CASE ss = <<>>
  <2>1. n = 0 /\ FlattenSeq(ss) = <<>>
    BY <1>3 DEF FlattenSeq
  <2>2. mm = <<>>
    BY <1>2, <2>1
  <2>3. FlattenSeq(mm) = <<>> /\ Map(F, <<>>) = <<>>
    BY <2>2 DEF FlattenSeq, Map
  <2> QED
    BY <2>1, <2>3
<1>4. CASE ss # <<>>
  <2>1. n # 0 /\ mm # <<>> /\ n \in 1..n
    <3>1. n # 0 /\ n \in 1..n
      BY <1>1, <1>4
    <3>2. Len(<<>>) = 0
      OBVIOUS
    <3> QED
      BY <1>2, <3>1, <3>2
  <2>2. PICK f : /\ Joins(f, ss, n) /\ FlattenSeq(ss) = f[n]
                 /\ \A i \in 1..n : f[i] \in Seq(T)
    BY <1>4, FlattenSteps
  <2>3. PICK g : Joins(g, mm, n) /\ FlattenSeq(mm) = g[n]
    <3> HIDE DEF U
    <3> QED
      BY <1>2, <2>1, FlattenSteps
  <2>4. \A i \in 1..n : /\ f[i] = IF i = 1 THEN ss[1] ELSE f[i - 1] \o ss[i]
                        /\ g[i] = IF i = 1 THEN mm[1] ELSE g[i - 1] \o mm[i]
    BY <2>2, <2>3 DEF Joins
  <2> DEFINE Bad == {i \in 1..n : g[i] # Map(F, f[i])}
  <2>5. Bad = {}
    <3> SUFFICES ASSUME Bad # {} PROVE FALSE
      OBVIOUS
    <3>1. PICK i \in Bad : \A l \in Bad : i <= l
      BY LeastExists, Bad \subseteq Nat
    <3>2. i \in 1..n /\ g[i] # Map(F, f[i])
      BY <3>1
    <3>3. i # 1
      BY <1>1, <2>4, <3>2
    <3>4. i - 1 \in 1..n /\ ~(i <= i - 1)
      BY <3>2, <3>3
    <3>5. g[i - 1] = Map(F, f[i - 1])
      BY <3>1, <3>4
    <3>6. f[i - 1] \in Seq(T) /\ ss[i] \in Seq(T) /\ mm[i] = Map(F, ss[i])
      BY <1>1, <2>2, <3>2, <3>4
    <3>7. Map(F, f[i - 1] \o ss[i]) = Map(F, f[i - 1]) \o Map(F, ss[i])
      <4> DEFINE s == f[i - 1]
                 t == ss[i]
      <4>1. s \in Seq(T) /\ t \in Seq(T)
        BY <3>6
      <4> HIDE DEF s, t
      <4>2. Map(F, s \o t) = Map(F, s) \o Map(F, t)
        BY ONLY <4>1, MapConcat
      <4> QED
        BY <4>2 DEF s, t
    <3> QED
      BY <2>4, <3>2, <3>3, <3>5, <3>6, <3>7
  <2> QED
    BY <2>1, <2>2, <2>3, <2>5
<1> QED
  BY <1>3, <1>4

---------------------------------------------------------------------------
(* What the elements of a document stand for *)

\* The element a usage is emitted with.
OwnerId(ns, k) ==
  LET p == ns[k].parent
  IN IF p = 0 THEN PackageRoot
     ELSE CASE ns[p].kind = "package" -> PackageId(PathOf(ns, p))
            [] ns[p].kind = "usage"   -> UsageId(ns, p)
            [] OTHER                  -> DefinitionId(ns, p)

UsageElement(ns, k) == Element(UsageId(ns, k), OwnerId(ns, k), MemberUsages(ns, k))

Companion(ns, k) == IF ns[k].companion THEN <<k>> ELSE <<>>

DefinitionElement(m, k) ==
  LET ns == m.nodes
      owner == Front(PathOf(ns, k))
      companion == IF ns[k].companion THEN <<CompanionId(m, k)>> ELSE <<>>
  IN Element(DefinitionId(ns, k), IF owner = <<>> THEN None ELSE PackageId(owner), MemberUsages(ns, k) \o companion)

\* A sign says what an element is emitted for: a declaration, the companion of
\* one, or an import by its number.
SignSet == {"package", "import", "definition", "companion", "usage"} \X Nat

ElementFor(m) ==
  [x \in SignSet |->
     CASE x[1] = "package"    -> PackageElement(m.nodes, x[2])
       [] x[1] = "import"     -> ImportElement(m.nodes, ImportsOf(m), x[2])
       [] x[1] = "definition" -> DefinitionElement(m, x[2])
       [] x[1] = "companion"  -> Element(CompanionId(m, x[2]), DefinitionId(m.nodes, x[2]), <<>>)
       [] OTHER               -> UsageElement(m.nodes, x[2])]

Signed(kind, s) == [j \in DOMAIN s |-> <<kind, s[j]>>]

DefinitionSigns(ns, k) ==
  Signed("definition", <<k>>) \o Signed("usage", Orders(ns, UsagesIn(ns, k))) \o Signed("companion", Companion(ns, k))

Signs(m) ==
  LET ns == m.nodes
      imports == ImportsOf(m)
      definitions == DefinitionOrder(ns)
  IN Signed("package", PackagesOf(ns))
       \o Signed("import", [j \in DOMAIN imports |-> j])
       \o FlattenSeq([j \in DOMAIN definitions |-> DefinitionSigns(ns, definitions[j])])
       \o Signed("usage", Orders(ns, FreeUsages(ns)))

Kinds == {"package", "import", "definition", "companion", "usage"}

\* A list with a sign to each of its numbers.
LEMMA SignedFacts ==
  ASSUME NEW kind \in Kinds, NEW s \in Seq(Nat)
  PROVE  /\ Signed(kind, s) \in Seq(SignSet)
         /\ DOMAIN Signed(kind, s) = DOMAIN s /\ \A j \in DOMAIN s : Signed(kind, s)[j] = <<kind, s[j]>>
         /\ Range(Signed(kind, s)) = {kind} \X Range(s)
         /\ IsInjective(s) => IsInjective(Signed(kind, s))
<1> DEFINE t == Signed(kind, s)
<1>1. DOMAIN s = 1..Len(s) /\ Len(s) \in Nat /\ \A j \in DOMAIN s : s[j] \in Nat
  OBVIOUS
<1>2. DOMAIN t = DOMAIN s /\ \A j \in DOMAIN s : t[j] = <<kind, s[j]>>
  BY DEF Signed
<1>3. t \in Seq(SignSet)
  <2>1. \A j \in 1..Len(s) : <<kind, s[j]>> \in SignSet
    BY <1>1 DEF SignSet, Kinds
  <2>2. t = [j \in 1..Len(s) |-> <<kind, s[j]>>]
    BY <1>1 DEF Signed
  <2> HIDE DEF t
  <2> QED
    BY <1>1, <2>1, <2>2
<1> HIDE DEF t
<1>4. Range(t) = {kind} \X Range(s)
  <2>1. \A x : x \in Range(t) <=> \E j \in DOMAIN s : x = <<kind, s[j]>>
    BY <1>2 DEF Range
  <2>2. \A x : x \in {kind} \X Range(s) <=> \E j \in DOMAIN s : x = <<kind, s[j]>>
    BY DEF Range
  <2> QED
    BY <2>1, <2>2
<1>5. IsInjective(s) => IsInjective(t)
  BY <1>2 DEF IsInjective
<1> QED
  BY <1>2, <1>3, <1>4, <1>5 DEF t

\* What the elements are that are emitted for signs of one kind.
LEMMA SignedMap ==
  ASSUME NEW m, NEW kind \in Kinds, NEW s \in Seq(Nat)
  PROVE  /\ DOMAIN Map(ElementFor(m), Signed(kind, s)) = DOMAIN s
         /\ Map(ElementFor(m), Signed(kind, s)) = [j \in DOMAIN s |-> ElementFor(m)[<<kind, s[j]>>]]
BY SignedFacts DEF Map

\* The element for each kind of sign.
LEMMA ElementForFacts ==
  ASSUME NEW m, NEW k \in Nat
  PROVE  /\ ElementFor(m)[<<"package", k>>] = PackageElement(m.nodes, k)
         /\ ElementFor(m)[<<"import", k>>] = ImportElement(m.nodes, ImportsOf(m), k)
         /\ ElementFor(m)[<<"definition", k>>] = DefinitionElement(m, k)
         /\ ElementFor(m)[<<"companion", k>>] = Element(CompanionId(m, k), DefinitionId(m.nodes, k), <<>>)
         /\ ElementFor(m)[<<"usage", k>>] = UsageElement(m.nodes, k)
<1>1. \A kind \in Kinds : <<kind, k>> \in SignSet
  BY DEF SignSet, Kinds
<1>2. {"package", "import", "definition", "companion", "usage"} \subseteq Kinds
  BY DEF Kinds
<1> QED
  BY <1>1, <1>2 DEF ElementFor

\* A usage with those in it is emitted as they are resolved.
LEMMA UsageTreeIsMap ==
  ASSUME NEW m, Declared(m.nodes), NEW u \in Outermost(m.nodes)
  PROVE  UsageTree(m.nodes, u, OwnerId(m.nodes, u)) =
           [j \in DOMAIN UsageOrder(m.nodes, u) |-> UsageElement(m.nodes, UsageOrder(m.nodes, u)[j])]
<1> DEFINE ns == m.nodes
           order == UsageOrder(ns, u)
           owner == OwnerId(ns, u)
           ownerOf(i) == IF i = u THEN owner ELSE UsageId(ns, ns[i].parent)
<1>1. u \in DOMAIN ns /\ ns[u].kind = "usage"
  BY DEF Outermost, Usages
<1>2. /\ order \in Seq(DOMAIN ns)
      /\ \A i \in Range(order) : i # u => ns[i].kind = "usage" /\ ns[i].parent \in Range(order)
  BY <1>1, UsageOrderFacts
<1>3. \A i \in Range(order) : i \in DOMAIN ns /\ i # 0 /\ ns[i].kind = "usage"
  <2>1. \A i \in Range(order) : i \in DOMAIN ns
    BY <1>2 DEF Range
  <2>2. 0 \notin DOMAIN ns
    BY DEF Declared, Forest
  <2> QED
    BY <1>1, <1>2, <2>1, <2>2
<1>4. \A i \in Range(order) : ownerOf(i) = OwnerId(ns, i)
  <2> SUFFICES ASSUME NEW i \in Range(order), i # u PROVE UsageId(ns, ns[i].parent) = OwnerId(ns, i)
    OBVIOUS
  <2>1. ns[i].parent # 0 /\ ns[ns[i].parent].kind = "usage"
    BY <1>2, <1>3
  <2> QED
    BY <2>1 DEF OwnerId
<1>5. UsageTree(ns, u, owner) =
        [j \in DOMAIN order |-> Element(UsageId(ns, order[j]), ownerOf(order[j]), MemberUsages(ns, order[j]))]
  BY DEF UsageTree
<1>6. \A j \in DOMAIN order : order[j] \in Range(order)
  BY DEF Range
<1> HIDE DEF order, owner, ownerOf
<1>7. \A j \in DOMAIN order :
        Element(UsageId(ns, order[j]), ownerOf(order[j]), MemberUsages(ns, order[j])) = UsageElement(ns, order[j])
  BY <1>4, <1>6 DEF UsageElement
<1> QED
  BY <1>5, <1>7 DEF order, owner

\* So are the usages of a definition or of the module.
LEMMA TreesAreMap ==
  ASSUME NEW m, Declared(m.nodes), NEW list \in Seq(Outermost(m.nodes)),
         NEW trees, trees = [j \in DOMAIN list |-> UsageTree(m.nodes, list[j], OwnerId(m.nodes, list[j]))]
  PROVE  FlattenSeq(trees) = Map(ElementFor(m), Signed("usage", Orders(m.nodes, list)))
<1> DEFINE ns == m.nodes
           T == DOMAIN ns
           orders == [j \in DOMAIN list |-> UsageOrder(ns, list[j])]
           F == [i \in T |-> UsageElement(ns, i)]
<1>1. DOMAIN list = 1..Len(list) /\ Len(list) \in Nat /\ \A j \in DOMAIN list : list[j] \in Outermost(ns)
  OBVIOUS
<1>2. \A u \in Outermost(ns) : u \in T /\ UsageOrder(ns, u) \in Seq(T)
  BY UsageOrderFacts DEF Outermost, Usages
<1>3. orders \in Seq(Seq(T)) /\ DOMAIN orders = DOMAIN list /\ \A j \in DOMAIN list : orders[j] = UsageOrder(ns, list[j])
  <2>1. \A j \in 1..Len(list) : UsageOrder(ns, list[j]) \in Seq(T)
    BY <1>1, <1>2
  <2>2. orders = [j \in 1..Len(list) |-> UsageOrder(ns, list[j])]
    BY <1>1
  <2> HIDE DEF orders, T
  <2> QED
    BY <1>1, <2>1, <2>2
<1>4. \A u \in Outermost(ns) : UsageTree(ns, u, OwnerId(ns, u)) = Map(F, UsageOrder(ns, u))
  <2> TAKE u \in Outermost(ns)
  <2> DEFINE order == UsageOrder(ns, u)
  <2>1. UsageTree(ns, u, OwnerId(ns, u)) = [j \in DOMAIN order |-> UsageElement(ns, order[j])]
    BY UsageTreeIsMap
  <2>2. \A j \in DOMAIN order : order[j] \in T
    BY <1>2
  <2> HIDE DEF order
  <2>3. \A j \in DOMAIN order : F[order[j]] = UsageElement(ns, order[j])
    BY <2>2
  <2> HIDE DEF F
  <2> QED
    BY <2>1, <2>3 DEF Map, order
<1> HIDE DEF F, orders
<1>5. DOMAIN trees = DOMAIN orders /\ trees = [j \in DOMAIN orders |-> trees[j]]
  BY <1>3
<1>6. \A j \in DOMAIN orders : trees[j] = Map(F, orders[j])
  BY <1>1, <1>3, <1>4
<1>7. FlattenSeq(trees) = Map(F, FlattenSeq(orders))
  BY <1>3, <1>5, <1>6, MapFlatten
<1> DEFINE all == Orders(ns, list)
<1>8. all = FlattenSeq(orders) /\ all \in Seq(T)
  BY <1>3, FlattenFacts DEF Orders, orders
<1> HIDE DEF all
<1>9. T \subseteq Nat
  BY DEF Declared, Forest
<1>10. all \in Seq(Nat) /\ \A j \in DOMAIN all : all[j] \in T
  BY <1>8, <1>9
<1>11. Map(ElementFor(m), Signed("usage", all)) = [j \in DOMAIN all |-> ElementFor(m)[<<"usage", all[j]>>]]
  <2>1. "usage" \in Kinds
    BY DEF Kinds
  <2> QED
    BY <1>10, <2>1, SignedMap
<1>12. \A j \in DOMAIN all : ElementFor(m)[<<"usage", all[j]>>] = F[all[j]]
  <2> TAKE j \in DOMAIN all
  <2>1. all[j] \in T /\ all[j] \in Nat
    BY <1>9, <1>10
  <2> QED
    BY <2>1, ElementForFacts DEF F
<1>13. Map(F, all) = [j \in DOMAIN all |-> F[all[j]]]
  BY DEF Map
<1>14. Map(F, all) = Map(ElementFor(m), Signed("usage", all))
  BY <1>11, <1>12, <1>13
<1> QED
  BY <1>7, <1>8, <1>14 DEF all

---------------------------------------------------------------------------
(* The elements as a map over the signs *)

\* Three lists in a row.
LEMMA ConcatThree ==
  ASSUME NEW T, NEW a \in Seq(T), NEW b \in Seq(T), NEW c \in Seq(T)
  PROVE  /\ a \o b \o c \in Seq(T)
         /\ Range(a \o b \o c) = Range(a) \cup Range(b) \cup Range(c)
<1> DEFINE ab == a \o b
<1>1. ab \in Seq(T) /\ Range(ab) = Range(a) \cup Range(b)
  BY ConcatRange
<1> HIDE DEF ab
<1>2. ab \o c \in Seq(T) /\ Range(ab \o c) = Range(ab) \cup Range(c)
  BY <1>1, ConcatRange
<1> QED
  BY <1>1, <1>2 DEF ab

\* A definition is emitted with the usages in it and its companion.
LEMMA DefinitionIsMap ==
  ASSUME NEW m, Declared(m.nodes), NEW k \in Definitions(m.nodes)
  PROVE  /\ DefinitionSigns(m.nodes, k) \in Seq(SignSet)
         /\ Range(DefinitionSigns(m.nodes, k)) =
              {<<"definition", k>>} \cup ({"usage"} \X UsagesOf(m.nodes, k))
                \cup (IF m.nodes[k].companion THEN {<<"companion", k>>} ELSE {})
         /\ DefinitionElements(m, k) = Map(ElementFor(m), DefinitionSigns(m.nodes, k))
<1> DEFINE ns == m.nodes
           E == ElementFor(m)
           list == UsagesIn(ns, k)
           usages == Orders(ns, list)
           companion == Companion(ns, k)
           companions == IF ns[k].companion THEN <<CompanionId(m, k)>> ELSE <<>>
           id == DefinitionId(ns, k)
           A == Signed("definition", <<k>>)
           B == Signed("usage", usages)
           C == Signed("companion", companion)
<1>1. k \in DOMAIN ns /\ k \in Nat /\ ns[k].kind = "definition" /\ DOMAIN ns \subseteq Nat \ {0}
  BY DEF Definitions, Declared, Forest
<1>2. {"definition", "usage", "companion"} \subseteq Kinds
  BY DEF Kinds
<1>3. <<k>> \in Seq(Nat) /\ DOMAIN <<k>> = {1} /\ <<k>>[1] = k /\ Range(<<k>>) = {k}
  BY <1>1 DEF Range
<1>4. companion \in Seq(Nat) /\ Range(companion) = IF ns[k].companion THEN {k} ELSE {}
  BY <1>3 DEF Companion, Range
<1>5. list \in Seq(Outermost(ns)) /\ IsInjective(list)
  BY OutermostLists
<1>6. usages \in Seq(Nat) /\ Range(usages) = UsagesOf(ns, k)
  <2>1. usages \in Seq(Usages(ns)) /\ Range(usages) = UNION {Range(UsageOrder(ns, u)) : u \in Range(list)}
    BY <1>5, OrdersOnce
  <2>2. Usages(ns) \subseteq Nat
    BY <1>1 DEF Usages
  <2> HIDE DEF usages, list
  <2>3. usages \in Seq(Nat)
    BY <2>1, <2>2
  <2> QED
    BY <2>1, <2>3 DEF UsagesOf, list
<1>7. /\ A \in Seq(SignSet) /\ Range(A) = {"definition"} \X {k}
      /\ B \in Seq(SignSet) /\ Range(B) = {"usage"} \X UsagesOf(ns, k)
      /\ C \in Seq(SignSet) /\ Range(C) = {"companion"} \X Range(companion)
  <2> HIDE DEF usages, companion
  <2>1. A \in Seq(SignSet) /\ Range(A) = {"definition"} \X Range(<<k>>)
    <3> DEFINE one == <<k>>
    <3>1. one \in Seq(Nat)
      BY <1>3
    <3> HIDE DEF one
    <3>2. Signed("definition", one) \in Seq(SignSet) /\ Range(Signed("definition", one)) = {"definition"} \X Range(one)
      BY <1>2, <3>1, SignedFacts
    <3> QED
      BY <3>2 DEF one
  <2>2. B \in Seq(SignSet) /\ Range(B) = {"usage"} \X Range(usages)
    BY <1>2, <1>6, SignedFacts
  <2>3. C \in Seq(SignSet) /\ Range(C) = {"companion"} \X Range(companion)
    BY <1>2, <1>4, SignedFacts
  <2> HIDE DEF A, B, C
  <2> QED
    BY <1>3, <1>6, <2>1, <2>2, <2>3
<1>8. DefinitionSigns(ns, k) = A \o B \o C
  BY DEF DefinitionSigns
<1>9. Map(E, A) = <<DefinitionElement(m, k)>>
  <2>1. Map(E, A) = [j \in DOMAIN <<k>> |-> E[<<"definition", <<k>>[j]>>]]
    <3> DEFINE one == <<k>>
    <3>1. one \in Seq(Nat)
      BY <1>3
    <3> HIDE DEF one
    <3>2. Map(E, Signed("definition", one)) = [j \in DOMAIN one |-> E[<<"definition", one[j]>>]]
      BY <1>2, <3>1, SignedMap
    <3> QED
      BY <3>2 DEF one
  <2>2. E[<<"definition", k>>] = DefinitionElement(m, k)
    BY <1>1, ElementForFacts
  <2> HIDE DEF E, A
  <2>3. Map(E, A) = [j \in {1} |-> DefinitionElement(m, k)]
    BY <1>3, <2>1, <2>2
  <2> QED
    BY <2>3
<1>10. Map(E, B) = FlattenSeq([j \in DOMAIN list |-> UsageTree(ns, list[j], id)])
  <2>1. \A j \in DOMAIN list : list[j] \in DOMAIN ns /\ ns[list[j]].parent = k
    <3>1. list \in Seq(Usages(ns)) /\ Range(list) = {i \in Usages(ns) : ns[i].parent = k}
      BY <1>1, UsagesInFacts
    <3> HIDE DEF list
    <3> QED
      BY <3>1 DEF Range, Usages
  <2>2. \A j \in DOMAIN list : OwnerId(ns, list[j]) = id
    BY <1>1, <2>1 DEF OwnerId
  <2> DEFINE trees == [j \in DOMAIN list |-> UsageTree(ns, list[j], id)]
  <2>3. trees = [j \in DOMAIN list |-> UsageTree(ns, list[j], OwnerId(ns, list[j]))]
    BY <2>2
  <2> HIDE DEF trees
  <2>4. FlattenSeq(trees) = Map(E, B)
    BY <1>5, <2>3, TreesAreMap
  <2> QED
    BY <2>4 DEF trees
<1>11. Map(E, C) = [j \in DOMAIN companions |-> Element(companions[j], id, <<>>)]
  <2>1. Map(E, C) = [j \in DOMAIN companion |-> E[<<"companion", companion[j]>>]]
    <3> HIDE DEF companion
    <3> QED
      BY <1>2, <1>4, SignedMap
  <2>2. E[<<"companion", k>>] = Element(CompanionId(m, k), id, <<>>)
    BY <1>1, ElementForFacts
  <2>3. DOMAIN companion = DOMAIN companions
    BY DEF Companion
  <2>4. \A j \in DOMAIN companion : companion[j] = k /\ companions[j] = CompanionId(m, k)
    BY DEF Companion
  <2> HIDE DEF E, companion, companions, id
  <2> QED
    BY <2>1, <2>2, <2>3, <2>4
<1>12. DefinitionElements(m, k) =
         <<DefinitionElement(m, k)>> \o FlattenSeq([j \in DOMAIN list |-> UsageTree(ns, list[j], id)])
           \o [j \in DOMAIN companions |-> Element(companions[j], id, <<>>)]
  BY DEF DefinitionElements, DefinitionElement
<1> HIDE DEF A, B, C, E, id, list, companions, companion
<1>13. A \o B \o C \in Seq(SignSet) /\ Range(A \o B \o C) = Range(A) \cup Range(B) \cup Range(C)
  BY <1>7, ConcatThree
<1>14. Map(E, A \o B \o C) = Map(E, A) \o Map(E, B) \o Map(E, C)
  <2> DEFINE AB == A \o B
  <2>1. AB \in Seq(SignSet)
    BY <1>7
  <2>2. Map(E, AB) = Map(E, A) \o Map(E, B)
    BY <1>7, MapConcat
  <2> HIDE DEF AB
  <2>3. Map(E, AB \o C) = Map(E, AB) \o Map(E, C)
    BY <1>7, <2>1, MapConcat
  <2> QED
    BY <2>2, <2>3 DEF AB
<1>15. {"definition"} \X {k} = {<<"definition", k>>} /\ {"companion"} \X Range(companion) = IF ns[k].companion THEN {<<"companion", k>>} ELSE {}
  BY <1>4
<1>16. Range(A \o B \o C) =
         {<<"definition", k>>} \cup ({"usage"} \X UsagesOf(ns, k)) \cup (IF ns[k].companion THEN {<<"companion", k>>} ELSE {})
  BY ONLY <1>7, <1>13, <1>15
<1>17. DefinitionElements(m, k) = Map(E, DefinitionSigns(ns, k))
  BY <1>8, <1>9, <1>10, <1>11, <1>12, <1>14
<1> QED
  BY <1>8, <1>13, <1>16, <1>17 DEF E

\* So is the module.
LEMMA RenderedIsMap ==
  ASSUME NEW m, Declared(m.nodes)
  PROVE  /\ Signs(m) \in Seq(SignSet)
         /\ Rendered(m) = Map(ElementFor(m), Signs(m))
<1> DEFINE ns == m.nodes
           E == ElementFor(m)
           packages == PackagesOf(ns)
           imports == ImportsOf(m)
           numbers == [j \in DOMAIN imports |-> j]
           definitions == DefinitionOrder(ns)
           signs == [j \in DOMAIN definitions |-> DefinitionSigns(ns, definitions[j])]
           elements == [j \in DOMAIN definitions |-> DefinitionElements(m, definitions[j])]
           usages == FreeUsages(ns)
           trees == [j \in DOMAIN usages |-> FreeUsageElements(ns, usages[j])]
           P == Signed("package", packages)
           I == Signed("import", numbers)
           U == Signed("usage", Orders(ns, usages))
<1>1. DOMAIN ns \subseteq Nat
  BY DEF Declared, Forest
<1>2. {"package", "import", "usage"} \subseteq Kinds
  BY DEF Kinds
<1>3. packages \in Seq(Nat)
  <2>1. packages \in Seq(DOMAIN ns \cap {k \in Visited(ns) : ns[k].kind = "package"})
    BY SelectedFacts DEF PackagesOf
  <2> HIDE DEF packages
  <2> QED
    BY <1>1, <2>1
<1>4. numbers \in Seq(Nat) /\ DOMAIN numbers = DOMAIN imports /\ \A j \in DOMAIN imports : numbers[j] = j
  <2>1. imports \in Seq(DOMAIN ns)
    BY ImportsFacts
  <2> HIDE DEF imports
  <2> QED
    BY <2>1
<1>5. Orders(ns, usages) \in Seq(Nat)
  <2>1. Orders(ns, usages) \in Seq(DOMAIN ns)
    BY FreeOrders
  <2> HIDE DEF usages
  <2> QED
    BY <1>1, <2>1
<1>6. P \in Seq(SignSet) /\ I \in Seq(SignSet) /\ U \in Seq(SignSet)
  BY <1>2, <1>3, <1>4, <1>5, SignedFacts
<1>7. definitions \in Seq(Definitions(ns))
  BY DefinitionOrderFacts
<1>8. /\ signs \in Seq(Seq(SignSet)) /\ DOMAIN signs = DOMAIN elements
      /\ \A j \in DOMAIN signs : elements[j] = Map(E, signs[j])
  <2>1. DOMAIN definitions = 1..Len(definitions) /\ Len(definitions) \in Nat
        /\ \A j \in DOMAIN definitions : definitions[j] \in Definitions(ns)
    BY <1>7
  <2>2. \A j \in 1..Len(definitions) : DefinitionSigns(ns, definitions[j]) \in Seq(SignSet)
    BY <2>1, DefinitionIsMap
  <2>3. \A j \in DOMAIN definitions : DefinitionElements(m, definitions[j]) = Map(E, DefinitionSigns(ns, definitions[j]))
    BY <2>1, DefinitionIsMap
  <2>4. signs = [j \in 1..Len(definitions) |-> DefinitionSigns(ns, definitions[j])]
    BY <2>1
  <2>5. DOMAIN signs = DOMAIN definitions /\ \A j \in DOMAIN definitions : signs[j] = DefinitionSigns(ns, definitions[j])
    OBVIOUS
  <2>6. DOMAIN elements = DOMAIN definitions /\ \A j \in DOMAIN definitions : elements[j] = DefinitionElements(m, definitions[j])
    OBVIOUS
  <2> HIDE DEF E, signs, elements, definitions
  <2>7. signs \in Seq(Seq(SignSet))
    BY <2>1, <2>2, <2>4
  <2> QED
    BY <2>3, <2>5, <2>6, <2>7
<1>9. elements = [j \in DOMAIN signs |-> elements[j]]
  OBVIOUS
<1>10. Map(E, P) = [j \in DOMAIN packages |-> PackageElement(ns, packages[j])]
  <2>1. Map(E, P) = [j \in DOMAIN packages |-> E[<<"package", packages[j]>>]]
    <3> HIDE DEF packages
    <3> QED
      BY <1>2, <1>3, SignedMap
  <2>2. \A j \in DOMAIN packages : packages[j] \in Nat
    BY <1>3
  <2>3. \A k \in Nat : E[<<"package", k>>] = PackageElement(ns, k)
    BY ElementForFacts
  <2> HIDE DEF E, packages
  <2> QED
    BY <2>1, <2>2, <2>3
<1>11. Map(E, I) = [j \in DOMAIN imports |-> ImportElement(ns, imports, j)]
  <2>1. Map(E, I) = [j \in DOMAIN numbers |-> E[<<"import", numbers[j]>>]]
    <3> HIDE DEF numbers
    <3> QED
      BY <1>2, <1>4, SignedMap
  <2>2. \A j \in DOMAIN numbers : numbers[j] \in Nat
    BY <1>4
  <2>3. \A k \in Nat : E[<<"import", k>>] = ImportElement(ns, imports, k)
    BY ElementForFacts
  <2> HIDE DEF E, imports, numbers
  <2> QED
    BY <1>4, <2>1, <2>2, <2>3
<1>12. Map(E, U) = FlattenSeq(trees)
  <2>1. usages \in Seq(Outermost(ns))
    BY OutermostLists
  <2>2. trees = [j \in DOMAIN usages |-> UsageTree(ns, usages[j], OwnerId(ns, usages[j]))]
    <3>1. usages \in Seq(Usages(ns)) /\ \A k \in Range(usages) : ns[k].parent = 0 \/ ns[ns[k].parent].kind = "package"
      BY FreeUsagesFacts
    <3>2. \A j \in DOMAIN usages : usages[j] \in Range(usages)
      BY DEF Range
    <3>3. \A j \in DOMAIN usages : FreeUsageElements(ns, usages[j]) = UsageTree(ns, usages[j], OwnerId(ns, usages[j]))
      <4> SUFFICES ASSUME NEW j \in DOMAIN usages
                   PROVE  FreeUsageElements(ns, usages[j]) = UsageTree(ns, usages[j], OwnerId(ns, usages[j]))
        OBVIOUS
      <4>1. ns[usages[j]].parent = 0 \/ ns[ns[usages[j]].parent].kind = "package"
        BY <3>1, <3>2
      <4> QED
        BY <4>1 DEF FreeUsageElements, OwnerId
    <3> HIDE DEF usages
    <3> QED
      BY <3>3
  <2> HIDE DEF trees, usages
  <2> QED
    BY <2>1, <2>2, TreesAreMap DEF U
<1>13. Rendered(m) = [j \in DOMAIN packages |-> PackageElement(ns, packages[j])]
                       \o [j \in DOMAIN imports |-> ImportElement(ns, imports, j)]
                       \o FlattenSeq(elements) \o FlattenSeq(trees)
  BY DEF Rendered
<1>14. Signs(m) = P \o I \o FlattenSeq(signs) \o U
  BY DEF Signs
<1> HIDE DEF E, P, I, U, signs, elements, trees
<1>15. FlattenSeq(elements) = Map(E, FlattenSeq(signs))
  BY <1>8, <1>9, MapFlatten
<1>16. FlattenSeq(signs) \in Seq(SignSet)
  BY <1>8, FlattenFacts
<1> DEFINE S == FlattenSeq(signs)
           PIS == P \o I \o S
<1> HIDE DEF S
<1>17. S \in Seq(SignSet)
  BY <1>16 DEF S
<1>18. PIS \in Seq(SignSet)
  BY <1>6, <1>17, ConcatThree
<1>19. Map(E, PIS) = Map(E, P) \o Map(E, I) \o Map(E, S)
  <2> DEFINE PI == P \o I
  <2>1. PI \in Seq(SignSet)
    BY <1>6
  <2>2. Map(E, PI) = Map(E, P) \o Map(E, I)
    BY <1>6, MapConcat
  <2> HIDE DEF PI
  <2>3. Map(E, PI \o S) = Map(E, PI) \o Map(E, S)
    BY <1>17, <2>1, MapConcat
  <2> QED
    BY <2>2, <2>3 DEF PI
<1> HIDE DEF PIS
<1>20. PIS \o U \in Seq(SignSet)
  BY <1>6, <1>18
<1>21. Map(E, PIS \o U) = Map(E, PIS) \o Map(E, U)
  BY <1>6, <1>18, MapConcat
<1>22. Signs(m) = PIS \o U
  BY <1>14 DEF S, PIS
<1>23. Rendered(m) = Map(E, P) \o Map(E, I) \o Map(E, S) \o Map(E, U)
  BY <1>10, <1>11, <1>12, <1>13, <1>15 DEF S
<1> QED
  BY <1>19, <1>20, <1>21, <1>22, <1>23 DEF E

---------------------------------------------------------------------------
(* What is emitted *)

\* The usages that are emitted.
UsagesEmitted(ns) == UsagesOutside(ns) \cup UNION {UsagesOf(ns, d) : d \in CollectedDefinitions(ns)}

\* Nothing is emitted twice for one definition.
LEMMA DefinitionSignsOnce ==
  ASSUME NEW ns, Declared(ns), NEW k \in Definitions(ns)
  PROVE  IsInjective(DefinitionSigns(ns, k))
<1> DEFINE list == UsagesIn(ns, k)
           usages == Orders(ns, list)
           companion == Companion(ns, k)
           one == <<k>>
           A == Signed("definition", one)
           B == Signed("usage", usages)
           C == Signed("companion", companion)
           AB == A \o B
<1>1. k \in DOMAIN ns /\ k \in Nat /\ DOMAIN ns \subseteq Nat \ {0}
  BY DEF Definitions, Declared, Forest
<1>2. "definition" \in Kinds /\ "usage" \in Kinds /\ "companion" \in Kinds
  BY DEF Kinds
<1>3. one \in Seq(Nat) /\ IsInjective(one)
  BY <1>1 DEF IsInjective
<1>4. companion \in Seq(Nat) /\ IsInjective(companion)
  BY <1>1 DEF Companion, IsInjective
<1>5. usages \in Seq(Nat) /\ IsInjective(usages)
  <2>1. list \in Seq(Outermost(ns)) /\ IsInjective(list)
    BY OutermostLists
  <2>2. usages \in Seq(Usages(ns)) /\ IsInjective(usages)
    BY <2>1, OrdersOnce
  <2>3. Usages(ns) \subseteq Nat
    BY <1>1 DEF Usages
  <2> HIDE DEF usages
  <2> QED
    BY <2>2, <2>3
<1> HIDE DEF one, companion, usages
<1>6. A \in Seq(SignSet) /\ Range(A) = {"definition"} \X Range(one) /\ IsInjective(A)
  BY <1>2, <1>3, SignedFacts
<1>7. B \in Seq(SignSet) /\ Range(B) = {"usage"} \X Range(usages) /\ IsInjective(B)
  BY <1>2, <1>5, SignedFacts
<1>8. C \in Seq(SignSet) /\ Range(C) = {"companion"} \X Range(companion) /\ IsInjective(C)
  BY <1>2, <1>4, SignedFacts
<1>9. DefinitionSigns(ns, k) = AB \o C
  BY DEF DefinitionSigns, one, companion, usages
<1> HIDE DEF A, B, C
<1>10. Range(A) \cap Range(B) = {} /\ (Range(A) \cup Range(B)) \cap Range(C) = {}
  BY <1>6, <1>7, <1>8
<1>11. AB \in Seq(SignSet) /\ Range(AB) = Range(A) \cup Range(B) /\ IsInjective(AB)
  BY <1>6, <1>7, <1>10, ConcatRange
<1> HIDE DEF AB
<1> QED
  BY <1>8, <1>9, <1>10, <1>11, ConcatRange

\* What is emitted, and that nothing is emitted twice.
LEMMA SignsFacts ==
  ASSUME NEW m, Declared(m.nodes)
  PROVE  /\ IsInjective(Signs(m))
         /\ Range(Signs(m)) =
              ({"package"} \X Range(PackagesOf(m.nodes))) \cup ({"import"} \X DOMAIN ImportsOf(m))
                \cup ({"definition"} \X CollectedDefinitions(m.nodes))
                \cup ({"companion"} \X {k \in CollectedDefinitions(m.nodes) : m.nodes[k].companion})
                \cup ({"usage"} \X UsagesEmitted(m.nodes))
<1> DEFINE ns == m.nodes
           packages == PackagesOf(ns)
           imports == ImportsOf(m)
           numbers == [j \in DOMAIN imports |-> j]
           definitions == DefinitionOrder(ns)
           signs == [j \in DOMAIN definitions |-> DefinitionSigns(ns, definitions[j])]
           usages == Orders(ns, FreeUsages(ns))
           P == Signed("package", packages)
           I == Signed("import", numbers)
           S == FlattenSeq(signs)
           U == Signed("usage", usages)
           PI == P \o I
           PIS == PI \o S
<1>1. DOMAIN ns \subseteq Nat
  BY DEF Declared, Forest
<1>2. "package" \in Kinds /\ "import" \in Kinds /\ "usage" \in Kinds
  BY DEF Kinds
<1>3. packages \in Seq(Nat) /\ IsInjective(packages)
  <2>1. packages \in Seq(DOMAIN ns \cap {k \in Visited(ns) : ns[k].kind = "package"}) /\ IsInjective(packages)
    BY SelectedFacts DEF PackagesOf
  <2> HIDE DEF packages
  <2> QED
    BY <1>1, <2>1
<1>4. numbers \in Seq(Nat) /\ Range(numbers) = DOMAIN imports /\ IsInjective(numbers)
  <2>1. imports \in Seq(DOMAIN ns)
    BY ImportsFacts
  <2> HIDE DEF imports
  <2>2. DOMAIN imports = 1..Len(imports) /\ Len(imports) \in Nat
    BY <2>1
  <2>3. DOMAIN numbers = DOMAIN imports /\ \A j \in DOMAIN imports : numbers[j] = j
    OBVIOUS
  <2>4. numbers \in Seq(Nat)
    BY <2>2
  <2> HIDE DEF numbers
  <2>5. Range(numbers) = DOMAIN imports
    BY <2>3 DEF Range
  <2> QED
    BY <2>3, <2>4, <2>5 DEF IsInjective
<1>5. usages \in Seq(Nat) /\ IsInjective(usages) /\ Range(usages) = UsagesOutside(ns)
  <2>1. FreeUsages(ns) \in Seq(Outermost(ns)) /\ IsInjective(FreeUsages(ns))
    BY OutermostLists
  <2>2. usages \in Seq(Usages(ns)) /\ IsInjective(usages)
        /\ Range(usages) = UNION {Range(UsageOrder(ns, k)) : k \in Range(FreeUsages(ns))}
    BY <2>1, OrdersOnce
  <2>3. Usages(ns) \subseteq Nat
    BY <1>1 DEF Usages
  <2> HIDE DEF usages
  <2> QED
    BY <2>2, <2>3 DEF UsagesOutside
<1>6. P \in Seq(SignSet) /\ Range(P) = {"package"} \X Range(packages) /\ IsInjective(P)
  <2> HIDE DEF packages
  <2> QED
    BY <1>2, <1>3, SignedFacts
<1>7. I \in Seq(SignSet) /\ Range(I) = {"import"} \X DOMAIN imports /\ IsInjective(I)
  <2> HIDE DEF numbers
  <2> QED
    BY <1>2, <1>4, SignedFacts
<1>8. U \in Seq(SignSet) /\ Range(U) = {"usage"} \X UsagesOutside(ns) /\ IsInjective(U)
  <2> HIDE DEF usages
  <2> QED
    BY <1>2, <1>5, SignedFacts
<1>9. definitions \in Seq(Definitions(ns)) /\ IsInjective(definitions)
  BY DefinitionOrderFacts, DefinitionOrderOnce
<1> DEFINE about(k) == {<<"definition", k>>} \cup ({"usage"} \X UsagesOf(ns, k))
                         \cup (IF ns[k].companion THEN {<<"companion", k>>} ELSE {})
<1>10. /\ DOMAIN definitions = 1..Len(definitions) /\ Len(definitions) \in Nat
       /\ \A j \in DOMAIN definitions : definitions[j] \in Definitions(ns)
  BY <1>9
<1>11. \A k \in Definitions(ns) : /\ DefinitionSigns(ns, k) \in Seq(SignSet)
                                  /\ IsInjective(DefinitionSigns(ns, k))
                                  /\ Range(DefinitionSigns(ns, k)) = about(k)
  BY DefinitionIsMap, DefinitionSignsOnce
<1>12. CollectedDefinitions(ns) = Range(definitions) /\ Range(definitions) \subseteq Definitions(ns)
  BY <1>10 DEF CollectedDefinitions, Range
<1>13. \A d \in Definitions(ns), e \in Definitions(ns) : d # e => about(d) \cap about(e) = {}
  <2>1. \A d \in Definitions(ns), e \in Definitions(ns) : d # e => UsagesOf(ns, d) \cap UsagesOf(ns, e) = {}
    BY UsagesApart
  <2> QED
    BY <2>1
<1>14. \A d \in Definitions(ns) : UsagesOf(ns, d) \cap UsagesOutside(ns) = {}
  BY UsagesApart
<1>15. DOMAIN signs = DOMAIN definitions /\ \A j \in DOMAIN definitions : signs[j] = DefinitionSigns(ns, definitions[j])
  OBVIOUS
<1> HIDE DEF signs, definitions, packages, imports, numbers, usages
<1>16. signs \in Seq(Seq(SignSet))
  <2>1. \A j \in 1..Len(definitions) : DefinitionSigns(ns, definitions[j]) \in Seq(SignSet)
    BY <1>10, <1>11
  <2>2. signs = [j \in 1..Len(definitions) |-> DefinitionSigns(ns, definitions[j])]
    BY <1>10 DEF signs
  <2> QED
    BY <1>10, <2>1, <2>2
<1>17. \A j \in DOMAIN signs : Range(signs[j]) = about(definitions[j]) /\ IsInjective(signs[j])
  BY <1>10, <1>11, <1>15
<1> HIDE DEF about
<1>18. Disjoint(signs)
  <2>1. \A j \in DOMAIN definitions, l \in DOMAIN definitions : j # l => definitions[j] # definitions[l]
    BY <1>9 DEF IsInjective
  <2>2. \A j \in DOMAIN signs, l \in DOMAIN signs : j # l => Range(signs[j]) \cap Range(signs[l]) = {}
    BY <1>10, <1>13, <1>15, <1>17, <2>1
  <2> QED
    BY <2>2 DEF Disjoint
<1>19. S \in Seq(SignSet) /\ IsInjective(S) /\ Range(S) = UNION {Range(signs[j]) : j \in DOMAIN signs}
  BY <1>16, <1>17, <1>18, FlattenFacts
<1>20. Range(S) = UNION {about(k) : k \in CollectedDefinitions(ns)}
  <2>1. Range(S) = UNION {about(definitions[j]) : j \in DOMAIN definitions}
    BY <1>15, <1>17, <1>19
  <2>2. \A x : (\E j \in DOMAIN definitions : x \in about(definitions[j])) <=> \E k \in Range(definitions) : x \in about(k)
    BY DEF Range
  <2> QED
    BY <1>12, <2>1, <2>2
<1> HIDE DEF P, I, S, U
<1>21. PI \in Seq(SignSet) /\ Range(PI) = Range(P) \cup Range(I) /\ IsInjective(PI)
  <2>1. Range(P) \cap Range(I) = {}
    BY <1>6, <1>7
  <2> QED
    BY <1>6, <1>7, <2>1, ConcatRange
<1> HIDE DEF PI
<1>22. PIS \in Seq(SignSet) /\ Range(PIS) = Range(PI) \cup Range(S) /\ IsInjective(PIS)
  <2>1. Range(PI) \cap Range(S) = {}
    BY <1>6, <1>7, <1>20, <1>21 DEF about
  <2> QED
    BY <1>19, <1>21, <2>1, ConcatRange
<1> HIDE DEF PIS
<1>23. PIS \o U \in Seq(SignSet) /\ Range(PIS \o U) = Range(PIS) \cup Range(U) /\ IsInjective(PIS \o U)
  <2>1. Range(S) \cap Range(U) = {}
    BY <1>8, <1>12, <1>14, <1>20 DEF about
  <2>2. (Range(P) \cup Range(I)) \cap Range(U) = {}
    BY <1>6, <1>7, <1>8
  <2>3. Range(PIS) \cap Range(U) = {}
    BY <1>21, <1>22, <2>1, <2>2
  <2> QED
    BY <1>8, <1>22, <2>3, ConcatRange
<1>24. Signs(m) = PIS \o U
  BY DEF Signs, P, I, S, U, PI, PIS, signs, definitions, packages, imports, numbers, usages
<1>25. Range(S) = ({"definition"} \X CollectedDefinitions(ns))
                    \cup ({"companion"} \X {k \in CollectedDefinitions(ns) : ns[k].companion})
                    \cup ({"usage"} \X UNION {UsagesOf(ns, d) : d \in CollectedDefinitions(ns)})
  BY <1>20 DEF about
<1>26. Range(Signs(m)) = Range(P) \cup Range(I) \cup Range(S) \cup Range(U)
  BY <1>21, <1>22, <1>23, <1>24
<1> DEFINE D == CollectedDefinitions(ns)
           inside == UNION {UsagesOf(ns, d) : d \in CollectedDefinitions(ns)}
           twins == {k \in CollectedDefinitions(ns) : ns[k].companion}
<1>27. UsagesEmitted(ns) = UsagesOutside(ns) \cup inside
  BY DEF UsagesEmitted
<1> HIDE DEF D, inside, twins
<1>28. Range(S) = ({"definition"} \X D) \cup ({"companion"} \X twins) \cup ({"usage"} \X inside)
  BY <1>25 DEF D, inside, twins
<1>29. Range(Signs(m)) = ({"package"} \X Range(packages)) \cup ({"import"} \X DOMAIN imports)
                            \cup ({"definition"} \X D) \cup ({"companion"} \X twins)
                            \cup ({"usage"} \X UsagesEmitted(ns))
  BY <1>6, <1>7, <1>8, <1>26, <1>27, <1>28
<1> QED
  BY <1>23, <1>24, <1>29 DEF D, twins, packages, imports

---------------------------------------------------------------------------
(* Members *)

\* A list of members of U, as long as another list.
Beside(g, s, U) == g = [j \in DOMAIN s |-> g[j]] /\ \A j \in DOMAIN s : g[j] \in U

\* Such a list is one over U.
LEMMA MappedRange ==
  ASSUME NEW T, NEW s \in Seq(T), NEW U, NEW g, Beside(g, s, U)
  PROVE  g \in Seq(U) /\ \A y \in Range(g) : \E j \in DOMAIN s : y = g[j]
<1>1. DOMAIN g = DOMAIN s /\ DOMAIN s = 1..Len(s) /\ Len(s) \in Nat
  BY DEF Beside
<1>2. g \in Seq(U)
  BY <1>1 DEF Beside
<1> QED
  BY <1>1, <1>2 DEF Range

\* The members that are usages stand in the declaration.
LEMMA MemberUsagesFacts ==
  ASSUME NEW ns, Declared(ns), NEW i \in DOMAIN ns,
         NEW U, \A k \in Usages(ns) : UsageId(ns, k) \in U
  PROVE  /\ MemberUsages(ns, i) \in Seq(U)
         /\ \A x \in Range(MemberUsages(ns, i)) : \E k \in Usages(ns) : ns[k].parent = i /\ x = UsageId(ns, k)
<1> DEFINE list == UsagesIn(ns, i)
           S == {k \in DOMAIN ns : ns[k].construct # "ConnectionUsage"}
           owned == Among(list, S)
           ids == [j \in DOMAIN owned |-> UsageId(ns, owned[j])]
<1>1. list \in Seq(Usages(ns)) /\ Range(list) = {k \in Usages(ns) : ns[k].parent = i}
  BY UsagesInFacts
<1>2. owned \in Seq(Usages(ns)) /\ Range(owned) = Range(list) \cap S
  BY <1>1, AmongFacts
<1>3. MemberUsages(ns, i) = ids
  BY DEF MemberUsages, OwnedUsages
<1> HIDE DEF owned, list, S
<1>4. \A j \in DOMAIN owned : owned[j] \in Usages(ns) /\ ns[owned[j]].parent = i
  <2>1. \A j \in DOMAIN owned : owned[j] \in Range(owned)
    BY DEF Range
  <2> QED
    BY <1>1, <1>2, <2>1
<1>5. ids = [j \in DOMAIN owned |-> ids[j]] /\ \A j \in DOMAIN owned : ids[j] = UsageId(ns, owned[j]) /\ ids[j] \in U
  BY <1>4
<1> HIDE DEF ids
<1>6. ids \in Seq(U) /\ \A y \in Range(ids) : \E j \in DOMAIN owned : y = ids[j]
  <2>1. owned \in Seq(Usages(ns)) /\ Beside(ids, owned, U)
    BY <1>2, <1>5 DEF Beside
  <2> QED
    BY ONLY <2>1, MappedRange
<1> QED
  BY <1>3, <1>4, <1>5, <1>6

\* The members of a package are named directly below it.
LEMMA PackageMembersFacts ==
  ASSUME NEW ns, Declared(ns), NEW p,
         NEW U, \A k \in DOMAIN ns : PackageId(PathOf(ns, k)) \in U /\ DefinitionId(ns, k) \in U /\ UsageId(ns, k) \in U
  PROVE  /\ PackageMembers(ns, p) \in Seq(U)
         /\ \A x \in Range(PackageMembers(ns, p)) :
              \/ \E k \in Range(PackagesOf(ns)) : DirectlyIn(ns, p, k) /\ x = PackageId(PathOf(ns, k))
              \/ \E k \in CollectedDefinitions(ns) : DirectlyIn(ns, p, k) /\ x = DefinitionId(ns, k)
              \/ \E k \in Range(FreeUsages(ns)) : DirectlyIn(ns, p, k) /\ x = UsageId(ns, k)
<1> DEFINE S == {k \in DOMAIN ns : DirectlyIn(ns, p, k)}
           O == {k \in DOMAIN ns : ns[k].construct # "ConnectionUsage"}
           packages == Among(PackagesOf(ns), S)
           definitions == Among(DefinitionOrder(ns), S)
           owned == Among(FreeUsages(ns), O)
           usages == Among(owned, S)
           A == [j \in DOMAIN packages |-> PackageId(PathOf(ns, packages[j]))]
           B == [j \in DOMAIN definitions |-> DefinitionId(ns, definitions[j])]
           C == [j \in DOMAIN usages |-> UsageId(ns, usages[j])]
<1>1. packages \in Seq(DOMAIN ns) /\ Range(packages) = Range(PackagesOf(ns)) \cap S
  <2> DEFINE P == {k \in Visited(ns) : ns[k].kind = "package"}
             all == PackagesOf(ns)
  <2>1. all \in Seq(DOMAIN ns \cap P)
    BY SelectedFacts DEF PackagesOf
  <2> HIDE DEF all, P
  <2>2. all \in Seq(DOMAIN ns)
    BY <2>1
  <2> HIDE DEF S
  <2>3. Among(all, S) \in Seq(DOMAIN ns) /\ Range(Among(all, S)) = Range(all) \cap S
    BY <2>2, AmongFacts
  <2> QED
    BY <2>3 DEF all
<1>2. definitions \in Seq(DOMAIN ns) /\ Range(definitions) = CollectedDefinitions(ns) \cap S
  <2> DEFINE all == DefinitionOrder(ns)
  <2>1. all \in Seq(Definitions(ns))
    BY DefinitionOrderFacts
  <2> HIDE DEF all
  <2>2. all \in Seq(DOMAIN ns)
    BY <2>1 DEF Definitions
  <2> HIDE DEF S
  <2>3. Among(all, S) \in Seq(DOMAIN ns) /\ Range(Among(all, S)) = Range(all) \cap S
    BY <2>2, AmongFacts
  <2> QED
    BY <2>3 DEF all, CollectedDefinitions
<1>3. usages \in Seq(DOMAIN ns) /\ Range(usages) = Range(owned) \cap S /\ Range(owned) \subseteq Range(FreeUsages(ns))
  <2> DEFINE all == FreeUsages(ns)
  <2>1. all \in Seq(Usages(ns))
    BY FreeUsagesFacts
  <2> HIDE DEF all
  <2>2. all \in Seq(DOMAIN ns)
    BY <2>1 DEF Usages
  <2> HIDE DEF S, O
  <2>3. Among(all, O) \in Seq(DOMAIN ns) /\ Range(Among(all, O)) = Range(all) \cap O
    BY <2>2, AmongFacts
  <2>4. owned = Among(all, O)
    BY DEF all
  <2> HIDE DEF owned
  <2>5. Among(owned, S) \in Seq(DOMAIN ns) /\ Range(Among(owned, S)) = Range(owned) \cap S
    BY <2>3, <2>4, AmongFacts
  <2> QED
    BY <2>3, <2>4, <2>5 DEF all
<1>4. PackageMembers(ns, p) = A \o B \o C
  BY DEF PackageMembers, OwnedUsages
<1>5. \A k \in S : k \in DOMAIN ns /\ DirectlyIn(ns, p, k)
  OBVIOUS
<1> HIDE DEF packages, definitions, owned, usages, S, O
<1>6. /\ \A j \in DOMAIN packages : packages[j] \in Range(packages)
      /\ \A j \in DOMAIN definitions : definitions[j] \in Range(definitions)
      /\ \A j \in DOMAIN usages : usages[j] \in Range(usages)
  BY DEF Range
<1>7. A \in Seq(U) /\ \A x \in Range(A) : \E k \in Range(packages) : x = PackageId(PathOf(ns, k))
  <2>1. A = [j \in DOMAIN packages |-> A[j]] /\ \A j \in DOMAIN packages : A[j] = PackageId(PathOf(ns, packages[j])) /\ A[j] \in U
    BY <1>1, <1>5, <1>6
  <2> HIDE DEF A
  <2>2. packages \in Seq(DOMAIN ns) /\ Beside(A, packages, U)
    BY <1>1, <2>1 DEF Beside
  <2>3. A \in Seq(U) /\ \A y \in Range(A) : \E j \in DOMAIN packages : y = A[j]
    BY ONLY <2>2, MappedRange
  <2> QED
    BY <1>6, <2>1, <2>3
<1>8. B \in Seq(U) /\ \A x \in Range(B) : \E k \in Range(definitions) : x = DefinitionId(ns, k)
  <2>1. B = [j \in DOMAIN definitions |-> B[j]] /\ \A j \in DOMAIN definitions : B[j] = DefinitionId(ns, definitions[j]) /\ B[j] \in U
    BY <1>2, <1>5, <1>6
  <2> HIDE DEF B
  <2>2. definitions \in Seq(DOMAIN ns) /\ Beside(B, definitions, U)
    BY <1>2, <2>1 DEF Beside
  <2>3. B \in Seq(U) /\ \A y \in Range(B) : \E j \in DOMAIN definitions : y = B[j]
    BY ONLY <2>2, MappedRange
  <2> QED
    BY <1>6, <2>1, <2>3
<1>9. C \in Seq(U) /\ \A x \in Range(C) : \E k \in Range(usages) : x = UsageId(ns, k)
  <2>1. C = [j \in DOMAIN usages |-> C[j]] /\ \A j \in DOMAIN usages : C[j] = UsageId(ns, usages[j]) /\ C[j] \in U
    BY <1>3, <1>5, <1>6
  <2> HIDE DEF C
  <2>2. usages \in Seq(DOMAIN ns) /\ Beside(C, usages, U)
    BY <1>3, <2>1 DEF Beside
  <2>3. C \in Seq(U) /\ \A y \in Range(C) : \E j \in DOMAIN usages : y = C[j]
    BY ONLY <2>2, MappedRange
  <2> QED
    BY <1>6, <2>1, <2>3
<1> HIDE DEF A, B, C
<1>10. A \o B \o C \in Seq(U) /\ Range(A \o B \o C) = Range(A) \cup Range(B) \cup Range(C)
  BY <1>7, <1>8, <1>9, ConcatThree
<1> QED
  <2> SUFFICES ASSUME NEW x \in Range(A \o B \o C)
               PROVE  \/ \E k \in Range(PackagesOf(ns)) : DirectlyIn(ns, p, k) /\ x = PackageId(PathOf(ns, k))
                      \/ \E k \in CollectedDefinitions(ns) : DirectlyIn(ns, p, k) /\ x = DefinitionId(ns, k)
                      \/ \E k \in Range(FreeUsages(ns)) : DirectlyIn(ns, p, k) /\ x = UsageId(ns, k)
    BY <1>4, <1>10
  <2>1. CASE x \in Range(A)
    BY <1>1, <1>5, <1>7, <2>1
  <2>2. CASE x \in Range(B)
    BY <1>2, <1>5, <1>8, <2>2
  <2>3. CASE x \in Range(C)
    BY <1>3, <1>5, <1>9, <2>3
  <2> QED
    BY <1>10, <2>1, <2>2, <2>3

\* An element with an id that is not a copy of another.
Fine(e) ==
  /\ e = Element(e.id, e.owner, e.members)
  /\ e.id = [kind |-> e.id.kind, name |-> e.id.name, at |-> e.id.at, copy |-> 0]

\* Every element has an id without a copy number, and only that of a usage may
\* be given one.
LEMMA ElementShape ==
  ASSUME NEW m, NEW x \in SignSet
  PROVE  /\ Fine(ElementFor(m)[x])
         /\ ElementFor(m)[x].id.kind \in Disambiguable => x[1] = "usage"
<1> DEFINE e == ElementFor(m)[x]
           k == x[2]
<1>1. x = <<x[1], k>> /\ k \in Nat /\ x[1] \in {"package", "import", "definition", "companion", "usage"}
  BY DEF SignSet
<1>2. \A id, owner, members, kind, name, at :
        id = [[kind |-> kind, name |-> name, at |-> 0, copy |-> 0] EXCEPT !.at = at] =>
          id.kind = kind /\ Fine(Element(id, owner, members)) /\ Element(id, owner, members).id = id
  BY DEF Fine, Element
<1>3. \A id, owner, members, kind, name :
        id = Id(kind, name) => id.kind = kind /\ Fine(Element(id, owner, members)) /\ Element(id, owner, members).id = id
  BY DEF Fine, Element, Id
<1> HIDE DEF k
<1>4. CASE x[1] = "package"
  <2>1. e = PackageElement(m.nodes, k)
    <3>1. x = <<"package", k>>
      BY <1>1, <1>4
    <3> QED
      BY <1>1, <3>1, ElementForFacts
  <2>2. \E owner, members : e = Element(Id("pkg", PathOf(m.nodes, k)), owner, members)
    BY <2>1 DEF PackageElement, PackageId
  <2>3. Fine(e) /\ e.id.kind = "pkg"
    BY <1>3, <2>2
  <2> QED
    BY <2>3 DEF Disambiguable
<1>5. CASE x[1] = "import"
  <2>1. e = ImportElement(m.nodes, ImportsOf(m), k)
    <3>1. x = <<"import", k>>
      BY <1>1, <1>5
    <3> QED
      BY <1>1, <3>1, ElementForFacts
  <2> DEFINE ns == m.nodes
             i == ImportsOf(m)[k]
             kind == IF ns[i].expose THEN "expose" ELSE "import"
             usage == IF ns[i].parent \in Range(FreeUsages(ns)) THEN UsageId(ns, ns[i].parent) ELSE PackageRoot
             owner == IF ns[i].parent = 0 THEN PackageRoot ELSE NamespaceId(ns, PathOf(ns, ns[i].parent)) ?? usage
             name == owner.name
             id == [Id(kind, name) EXCEPT !.at = k]
  <2>2. e = Element(id, owner, <<>>)
    BY <2>1 DEF ImportElement
  <2>3. kind \in {"import", "expose"}
    OBVIOUS
  <2> HIDE DEF kind, name, owner
  <2>4. id = [[kind |-> kind, name |-> name, at |-> 0, copy |-> 0] EXCEPT !.at = k]
    BY DEF Id
  <2> HIDE DEF id
  <2>5. id.kind = kind /\ Fine(Element(id, owner, <<>>)) /\ Element(id, owner, <<>>).id = id
    BY <1>2, <2>4
  <2> QED
    BY <2>2, <2>3, <2>5 DEF Disambiguable
<1>6. CASE x[1] = "definition"
  <2>1. e = DefinitionElement(m, k)
    <3>1. x = <<"definition", k>>
      BY <1>1, <1>6
    <3> QED
      BY <1>1, <3>1, ElementForFacts
  <2>2. \E owner, members : e = Element(Id("type", PathOf(m.nodes, k)), owner, members)
    BY <2>1 DEF DefinitionElement, DefinitionId, TypeId
  <2>3. Fine(e) /\ e.id.kind = "type"
    BY <1>3, <2>2
  <2> QED
    BY <2>3 DEF Disambiguable
<1>7. CASE x[1] = "companion"
  <2>1. e = Element(CompanionId(m, k), DefinitionId(m.nodes, k), <<>>)
    <3>1. x = <<"companion", k>>
      BY <1>1, <1>7
    <3> QED
      BY <1>1, <3>1, ElementForFacts
  <2>2. \E name : CompanionId(m, k) = Id("type", name)
    BY DEF CompanionId, TypeId
  <2>3. Fine(e) /\ e.id.kind = "type"
    BY <1>3, <2>1, <2>2
  <2> QED
    BY <2>3 DEF Disambiguable
<1>8. CASE x[1] = "usage"
  <2>1. e = UsageElement(m.nodes, k)
    <3>1. x = <<"usage", k>>
      BY <1>1, <1>8
    <3> QED
      BY <1>1, <3>1, ElementForFacts
  <2>2. PICK kind, name, at : UsageId(m.nodes, k) = [[kind |-> kind, name |-> name, at |-> 0, copy |-> 0] EXCEPT !.at = at]
    BY DEF UsageId, Id
  <2>3. Fine(e)
    BY <1>2, <2>1, <2>2 DEF UsageElement
  <2> QED
    BY <1>8, <2>3
<1> QED
  BY <1>1, <1>4, <1>5, <1>6, <1>7, <1>8

\* What an element with a sign is.
LEMMA EmittedFacts ==
  ASSUME NEW m, Declared(m.nodes), NEW k
  PROVE  /\ <<"package", k>> \in Range(Signs(m)) <=> k \in Range(PackagesOf(m.nodes))
         /\ <<"definition", k>> \in Range(Signs(m)) <=> k \in CollectedDefinitions(m.nodes)
         /\ <<"companion", k>> \in Range(Signs(m)) <=> k \in CollectedDefinitions(m.nodes) /\ m.nodes[k].companion
         /\ <<"usage", k>> \in Range(Signs(m)) <=> k \in UsagesEmitted(m.nodes)
BY SignsFacts

\* The usages that are emitted are usages, and those in them are emitted too.
LEMMA UsagesEmittedFacts ==
  ASSUME NEW ns, Declared(ns)
  PROVE  /\ UsagesEmitted(ns) \subseteq Usages(ns)
         /\ Range(FreeUsages(ns)) \subseteq UsagesEmitted(ns)
         /\ \A k \in Usages(ns) :
              ns[k].parent \in CollectedDefinitions(ns) \cup UsagesEmitted(ns) => k \in UsagesEmitted(ns)
<1>1. \A u \in Usages(ns) : /\ u \in Range(UsageOrder(ns, u))
                            /\ Range(UsageOrder(ns, u)) \subseteq Usages(ns)
                            /\ \A i \in Range(UsageOrder(ns, u)) : Range(UsagesIn(ns, i)) \subseteq Range(UsageOrder(ns, u))
  <2> SUFFICES ASSUME NEW u \in Usages(ns)
               PROVE  /\ u \in Range(UsageOrder(ns, u))
                      /\ Range(UsageOrder(ns, u)) \subseteq Usages(ns)
                      /\ \A i \in Range(UsageOrder(ns, u)) : Range(UsagesIn(ns, i)) \subseteq Range(UsageOrder(ns, u))
    OBVIOUS
  <2>1. u \in DOMAIN ns /\ ns[u].kind = "usage"
    BY DEF Usages
  <2>2. /\ u \in Range(UsageOrder(ns, u)) /\ UsageOrder(ns, u) \in Seq(DOMAIN ns)
        /\ \A i \in Range(UsageOrder(ns, u)) : /\ Range(UsagesIn(ns, i)) \subseteq Range(UsageOrder(ns, u))
                                               /\ i # u => ns[i].kind = "usage"
    BY <2>1, UsageOrderFacts
  <2>3. \A i \in Range(UsageOrder(ns, u)) : i \in DOMAIN ns
    BY <2>2 DEF Range
  <2> QED
    BY <2>1, <2>2, <2>3 DEF Usages
<1>2. \A i \in DOMAIN ns : Range(UsagesIn(ns, i)) = {k \in Usages(ns) : ns[k].parent = i}
  BY UsagesInFacts
<1>3. Range(FreeUsages(ns)) \subseteq Usages(ns)
  <2>1. FreeUsages(ns) \in Seq(Usages(ns))
    BY FreeUsagesFacts
  <2> QED
    BY <2>1 DEF Range
<1>4. CollectedDefinitions(ns) \subseteq DOMAIN ns
  <2>1. DefinitionOrder(ns) \in Seq(Definitions(ns))
    BY DefinitionOrderFacts
  <2> QED
    BY <2>1 DEF CollectedDefinitions, Definitions, Range
<1> DEFINE roots == Range(FreeUsages(ns)) \cup {u \in Usages(ns) : ns[u].parent \in CollectedDefinitions(ns)}
<1>5. \A k : k \in UsagesEmitted(ns) <=> \E u \in roots : k \in Range(UsageOrder(ns, u))
  <2>1. \A d \in CollectedDefinitions(ns) : \A u : u \in Range(UsagesIn(ns, d)) <=> u \in Usages(ns) /\ ns[u].parent = d
    BY <1>2, <1>4
  <2>2. \A k : k \in UsagesEmitted(ns) <=>
          \/ \E u \in Range(FreeUsages(ns)) : k \in Range(UsageOrder(ns, u))
          \/ \E d \in CollectedDefinitions(ns) : \E u \in Range(UsagesIn(ns, d)) : k \in Range(UsageOrder(ns, u))
    BY DEF UsagesEmitted, UsagesOutside, UsagesOf
  <2> QED
    BY <2>1, <2>2
<1>6. roots \subseteq Usages(ns)
  BY <1>3
<1>7. UsagesEmitted(ns) \subseteq Usages(ns)
  BY <1>1, <1>5, <1>6
<1>8. roots \subseteq UsagesEmitted(ns)
  BY <1>1, <1>5, <1>6
<1>9. \A k \in Usages(ns) : ns[k].parent \in UsagesEmitted(ns) => k \in UsagesEmitted(ns)
  <2> SUFFICES ASSUME NEW k \in Usages(ns), ns[k].parent \in UsagesEmitted(ns) PROVE k \in UsagesEmitted(ns)
    OBVIOUS
  <2> DEFINE p == ns[k].parent
  <2>1. PICK u \in roots : p \in Range(UsageOrder(ns, u))
    BY <1>5
  <2>2. p \in DOMAIN ns /\ k \in Range(UsagesIn(ns, p))
    BY <1>2, <1>7 DEF Usages
  <2> QED
    BY <1>1, <1>5, <1>6, <2>1, <2>2
<1> QED
  BY <1>7, <1>8, <1>9

\* Two elements of a module of which one is a member of the other.
Owns(m, x, y) ==
  /\ y \in Range(Signs(m))
  /\ ElementFor(m)[y].owner = ElementFor(m)[x].id

\* A usage in something that is emitted is emitted with it as its owner.
LEMMA UsageIsOwned ==
  ASSUME NEW m, Declared(m.nodes), NEW x \in Range(Signs(m)), NEW i \in DOMAIN m.nodes,
         x = <<"definition", i>> \/ x = <<"usage", i>>,
         NEW k \in Usages(m.nodes), m.nodes[k].parent = i
  PROVE  Owns(m, x, <<"usage", k>>) /\ ElementFor(m)[<<"usage", k>>].id = UsageId(m.nodes, k)
<1> DEFINE ns == m.nodes
           E == ElementFor(m)
           y == <<"usage", k>>
<1>1. k \in Nat /\ i \in Nat /\ i # 0
  BY DEF Usages, Declared, Forest
<1>2. i \in CollectedDefinitions(ns) \cup UsagesEmitted(ns)
  BY EmittedFacts
<1>3. y \in Range(Signs(m))
  BY <1>2, UsagesEmittedFacts, EmittedFacts
<1>4. E[y] = UsageElement(ns, k) /\ E[<<"definition", i>>] = DefinitionElement(m, i) /\ E[<<"usage", i>>] = UsageElement(ns, i)
  BY <1>1, ElementForFacts
<1> HIDE DEF E, y
<1>5. E[y].owner = OwnerId(ns, k) /\ E[y].id = UsageId(ns, k)
  BY <1>4 DEF UsageElement, Element
<1>6. CASE x = <<"definition", i>>
  <2>1. i \in CollectedDefinitions(ns)
    BY <1>6, EmittedFacts
  <2>2. ns[i].kind = "definition"
    <3>1. DefinitionOrder(ns) \in Seq(Definitions(ns))
      BY DefinitionOrderFacts
    <3> QED
      BY <2>1, <3>1 DEF CollectedDefinitions, Range, Definitions
  <2>3. OwnerId(ns, k) = DefinitionId(ns, i)
    BY <1>1, <2>2 DEF OwnerId
  <2>4. E[x].id = DefinitionId(ns, i)
    BY <1>4, <1>6 DEF DefinitionElement, Element
  <2> QED
    BY <1>3, <1>5, <2>3, <2>4 DEF Owns, E, y
<1>7. CASE x = <<"usage", i>>
  <2>1. ns[i].kind = "usage"
    BY <1>7, EmittedFacts, UsagesEmittedFacts DEF Usages
  <2>2. OwnerId(ns, k) = UsageId(ns, i)
    BY <1>1, <2>1 DEF OwnerId
  <2>3. E[x].id = UsageId(ns, i)
    BY <1>4, <1>7 DEF UsageElement, Element
  <2> QED
    BY <1>3, <1>5, <2>2, <2>3 DEF Owns, E, y
<1> QED
  BY <1>6, <1>7

\* What is named directly below a package is emitted with it as its owner.
LEMMA PackagedIsOwned ==
  ASSUME NEW m, Declared(m.nodes), NEW p \in Range(PackagesOf(m.nodes)), NEW k, DirectlyIn(m.nodes, p, k)
  PROVE  /\ k \in Range(PackagesOf(m.nodes)) =>
              /\ Owns(m, <<"package", p>>, <<"package", k>>)
              /\ ElementFor(m)[<<"package", k>>].id = PackageId(PathOf(m.nodes, k))
         /\ k \in CollectedDefinitions(m.nodes) =>
              /\ Owns(m, <<"package", p>>, <<"definition", k>>)
              /\ ElementFor(m)[<<"definition", k>>].id = DefinitionId(m.nodes, k)
         /\ k \in Range(FreeUsages(m.nodes)) =>
              /\ Owns(m, <<"package", p>>, <<"usage", k>>)
              /\ ElementFor(m)[<<"usage", k>>].id = UsageId(m.nodes, k)
<1> DEFINE ns == m.nodes
           E == ElementFor(m)
           path == PathOf(ns, p)
<1>1. DOMAIN ns \subseteq Nat \ {0}
  BY DEF Declared, Forest
<1>2. Range(PackagesOf(ns)) \subseteq DOMAIN ns
  <2>1. Range(PackagesOf(ns)) = DOMAIN ns \cap {i \in Visited(ns) : ns[i].kind = "package"}
    BY SelectedFacts DEF PackagesOf
  <2> QED
    BY <2>1
<1>3. CollectedDefinitions(ns) \subseteq DOMAIN ns
  <2>1. DefinitionOrder(ns) \in Seq(Definitions(ns))
    BY DefinitionOrderFacts
  <2> QED
    BY <2>1 DEF CollectedDefinitions, Definitions, Range
<1>4. Range(FreeUsages(ns)) \subseteq DOMAIN ns
      /\ \A i \in Range(FreeUsages(ns)) : ns[i].parent = 0 \/ ns[ns[i].parent].kind = "package"
  <2>1. FreeUsages(ns) \in Seq(Usages(ns))
    BY FreeUsagesFacts
  <2>2. Range(FreeUsages(ns)) \subseteq DOMAIN ns
    BY <2>1 DEF Usages, Range
  <2> QED
    BY <2>2, FreeUsagesFacts
<1>5. path # <<>> /\ Front(PathOf(ns, k)) = path
  BY <1>2, PathFacts DEF DirectlyIn
<1>6. p \in Nat /\ E[<<"package", p>>] = PackageElement(ns, p)
  BY <1>1, <1>2, ElementForFacts
<1> HIDE DEF E
<1>7. E[<<"package", p>>].id = PackageId(path)
  BY <1>6 DEF PackageElement, Element
<1>8. ASSUME k \in Range(PackagesOf(ns))
      PROVE  Owns(m, <<"package", p>>, <<"package", k>>) /\ E[<<"package", k>>].id = PackageId(PathOf(ns, k))
  <2>1. E[<<"package", k>>] = PackageElement(ns, k)
    BY <1>1, <1>2, <1>8, ElementForFacts DEF E
  <2>2. E[<<"package", k>>].id = PackageId(PathOf(ns, k)) /\ E[<<"package", k>>].owner = NamespaceId(ns, path)
    BY <1>5, <2>1 DEF PackageElement, Element
  <2>3. NamespaceId(ns, path) = PackageId(path)
    BY DEF NamespaceId
  <2>4. <<"package", k>> \in Range(Signs(m))
    BY <1>8, EmittedFacts
  <2> QED
    BY <1>7, <2>2, <2>3, <2>4 DEF Owns, E
<1>9. ASSUME k \in CollectedDefinitions(ns)
      PROVE  Owns(m, <<"package", p>>, <<"definition", k>>) /\ E[<<"definition", k>>].id = DefinitionId(ns, k)
  <2>1. E[<<"definition", k>>] = DefinitionElement(m, k)
    BY <1>1, <1>3, <1>9, ElementForFacts DEF E
  <2>2. E[<<"definition", k>>].id = DefinitionId(ns, k) /\ E[<<"definition", k>>].owner = PackageId(path)
    BY <1>5, <2>1 DEF DefinitionElement, Element
  <2>3. <<"definition", k>> \in Range(Signs(m))
    BY <1>9, EmittedFacts
  <2> QED
    BY <1>7, <2>2, <2>3 DEF Owns, E
<1>10. ASSUME k \in Range(FreeUsages(ns))
       PROVE  Owns(m, <<"package", p>>, <<"usage", k>>) /\ E[<<"usage", k>>].id = UsageId(ns, k)
  <2>1. E[<<"usage", k>>] = UsageElement(ns, k)
    BY <1>1, <1>4, <1>10, ElementForFacts DEF E
  <2>2. k \in DOMAIN ns /\ (ns[k].parent = 0 \/ ns[ns[k].parent].kind = "package")
    BY <1>4, <1>10
  <2>3. PathOf(ns, ns[k].parent) = path /\ PathOf(ns, 0) = <<>>
    BY <1>5, <2>2, PathFacts, PathUnfolds
  <2>4. ns[k].parent # 0
    BY <1>5, <2>3
  <2>5. OwnerId(ns, k) = PackageId(path)
    BY <2>2, <2>3, <2>4 DEF OwnerId
  <2>6. E[<<"usage", k>>].id = UsageId(ns, k) /\ E[<<"usage", k>>].owner = PackageId(path)
    BY <2>1, <2>5 DEF UsageElement, Element
  <2>7. <<"usage", k>> \in Range(Signs(m))
    BY <1>10, UsagesEmittedFacts, EmittedFacts
  <2> QED
    BY <1>7, <2>6, <2>7 DEF Owns, E
<1> QED
  BY <1>8, <1>9, <1>10 DEF E

\* The members that an element lists are emitted with it as their owner, as
\* long as no repeated id is told apart.
LEMMA MembersAreOwned ==
  ASSUME NEW m, Declared(m.nodes), NEW x \in Range(Signs(m)), NEW id \in Range(ElementFor(m)[x].members)
  PROVE  /\ \E y : Owns(m, x, y) /\ ElementFor(m)[y].id = id
         /\ x[1] = "usage" => \E k \in Usages(m.nodes) : m.nodes[k].parent = x[2]
<1> DEFINE ns == m.nodes
           E == ElementFor(m)
           U == {PackageId(PathOf(ns, k)) : k \in DOMAIN ns} \cup {DefinitionId(ns, k) : k \in DOMAIN ns}
                  \cup {UsageId(ns, k) : k \in DOMAIN ns} \cup {CompanionId(m, k) : k \in DOMAIN ns}
<1>1. /\ \A k \in DOMAIN ns : PackageId(PathOf(ns, k)) \in U /\ DefinitionId(ns, k) \in U /\ UsageId(ns, k) \in U
                              /\ CompanionId(m, k) \in U
      /\ \A k \in Usages(ns) : UsageId(ns, k) \in U
  BY DEF Usages
<1> HIDE DEF U
<1>2. DOMAIN ns \subseteq Nat \ {0}
  BY DEF Declared, Forest
<1>3. \A k \in CollectedDefinitions(ns) : k \in DOMAIN ns
  <2>1. DefinitionOrder(ns) \in Seq(Definitions(ns))
    BY DefinitionOrderFacts
  <2> QED
    BY <2>1 DEF CollectedDefinitions, Definitions, Range
<1>4. Range(<<>>) = {}
  <2>1. DOMAIN <<>> = {}
    OBVIOUS
  <2> QED
    BY <2>1 DEF Range
<1>5. PICK kind, k : x = <<kind, k>>
                     /\ \/ kind = "package" /\ k \in Range(PackagesOf(ns))
                        \/ kind = "import" /\ k \in DOMAIN ImportsOf(m)
                        \/ kind = "definition" /\ k \in CollectedDefinitions(ns)
                        \/ kind = "companion" /\ k \in CollectedDefinitions(ns)
                        \/ kind = "usage" /\ k \in UsagesEmitted(ns)
  BY SignsFacts
<1>6. x[1] = kind /\ x[2] = k
  BY <1>5
<1>7. CASE kind = "package" /\ k \in Range(PackagesOf(ns))
  <2>1. k \in DOMAIN ns
    <3>1. Range(PackagesOf(ns)) = DOMAIN ns \cap {i \in Visited(ns) : ns[i].kind = "package"}
      BY SelectedFacts DEF PackagesOf
    <3> QED
      BY <1>7, <3>1
  <2>2. E[x] = PackageElement(ns, k)
    BY <1>2, <1>5, <1>7, <2>1, ElementForFacts
  <2>3. id \in Range(PackageMembers(ns, k))
    BY <2>2 DEF PackageElement, Element
  <2>4. \/ \E i \in Range(PackagesOf(ns)) : DirectlyIn(ns, k, i) /\ id = PackageId(PathOf(ns, i))
        \/ \E i \in CollectedDefinitions(ns) : DirectlyIn(ns, k, i) /\ id = DefinitionId(ns, i)
        \/ \E i \in Range(FreeUsages(ns)) : DirectlyIn(ns, k, i) /\ id = UsageId(ns, i)
    BY <1>1, <2>3, PackageMembersFacts
  <2>5. \E y : Owns(m, x, y) /\ E[y].id = id
    BY <1>5, <1>7, <2>4, PackagedIsOwned
  <2> QED
    BY <1>6, <1>7, <2>5
<1>8. CASE kind = "import"
  <2>1. k \in Nat
    <3>1. ImportsOf(m) \in Seq(DOMAIN ns)
      BY ImportsFacts
    <3> QED
      BY <1>5, <1>8, <3>1
  <2>2. E[x] = ImportElement(ns, ImportsOf(m), k)
    BY <1>5, <1>8, <2>1, ElementForFacts
  <2>3. E[x].members = <<>>
    <3>1. \A i, owner : Element(i, owner, <<>>).members = <<>>
      BY DEF Element
    <3> HIDE DEF E
    <3> QED
      BY <2>2, <3>1 DEF ImportElement
  <2> QED
    BY <1>4, <2>3
<1>9. CASE kind = "companion"
  <2>1. k \in Nat
    BY <1>2, <1>3, <1>5, <1>9
  <2>2. E[x] = Element(CompanionId(m, k), DefinitionId(ns, k), <<>>)
    BY <1>5, <1>9, <2>1, ElementForFacts
  <2>3. E[x].members = <<>>
    BY <2>2 DEF Element
  <2> QED
    BY <1>4, <2>3
<1>10. CASE kind = "usage"
  <2>1. k \in UsagesEmitted(ns) /\ k \in DOMAIN ns /\ x = <<"usage", k>>
    BY <1>5, <1>10, UsagesEmittedFacts DEF Usages
  <2>2. E[x] = UsageElement(ns, k)
    BY <1>2, <2>1, ElementForFacts
  <2>3. id \in Range(MemberUsages(ns, k))
    BY <2>2 DEF UsageElement, Element
  <2>4. PICK i \in Usages(ns) : ns[i].parent = k /\ id = UsageId(ns, i)
    BY <1>1, <2>1, <2>3, MemberUsagesFacts
  <2>5. Owns(m, x, <<"usage", i>>) /\ E[<<"usage", i>>].id = id
    BY <2>1, <2>4, UsageIsOwned
  <2> QED
    BY <1>6, <2>4, <2>5
<1>11. CASE kind = "definition"
  <2>1. k \in CollectedDefinitions(ns) /\ k \in DOMAIN ns /\ x = <<"definition", k>>
    BY <1>3, <1>5, <1>11
  <2>2. E[x] = DefinitionElement(m, k)
    BY <1>2, <2>1, ElementForFacts
  <2> DEFINE companion == IF ns[k].companion THEN <<CompanionId(m, k)>> ELSE <<>>
             members == MemberUsages(ns, k)
  <2>3. id \in Range(members \o companion) /\ E[x].id = DefinitionId(ns, k)
    BY <2>2 DEF DefinitionElement, Element
  <2>4. members \in Seq(U) /\ \A y \in Range(members) : \E i \in Usages(ns) : ns[i].parent = k /\ y = UsageId(ns, i)
    BY <1>1, <2>1, MemberUsagesFacts
  <2>5. companion \in Seq(U) /\ \A y \in Range(companion) : ns[k].companion /\ y = CompanionId(m, k)
    <3>1. <<CompanionId(m, k)>> \in Seq(U) /\ Range(<<CompanionId(m, k)>>) = {CompanionId(m, k)}
      BY <1>1, <2>1 DEF Range
    <3> QED
      BY <1>4, <3>1
  <2> HIDE DEF companion, members
  <2>6. id \in Range(members) \/ id \in Range(companion)
    <3>1. Range(members \o companion) = Range(members) \cup Range(companion)
      BY <2>4, <2>5, ConcatRange
    <3> QED
      BY <2>3, <3>1
  <2>7. CASE id \in Range(members)
    <3>1. PICK i \in Usages(ns) : ns[i].parent = k /\ id = UsageId(ns, i)
      BY <2>4, <2>7
    <3>2. Owns(m, x, <<"usage", i>>) /\ E[<<"usage", i>>].id = id
      BY <2>1, <3>1, UsageIsOwned
    <3> QED
      BY <1>6, <1>11, <3>2
  <2>8. CASE id \in Range(companion)
    <3> DEFINE y == <<"companion", k>>
    <3>1. y \in Range(Signs(m)) /\ id = CompanionId(m, k)
      BY <2>1, <2>5, <2>8, EmittedFacts
    <3>2. E[y] = Element(CompanionId(m, k), DefinitionId(ns, k), <<>>)
      BY <1>2, <2>1, ElementForFacts
    <3>3. E[y].id = id /\ E[y].owner = E[x].id
      BY <2>3, <3>1, <3>2 DEF Element
    <3> QED
      BY <1>6, <1>11, <3>1, <3>3 DEF Owns
  <2> QED
    BY <2>6, <2>7, <2>8
<1> QED
  BY <1>5, <1>7, <1>8, <1>9, <1>10, <1>11

---------------------------------------------------------------------------
(* The document *)

\* Usages told apart only by a number, such as references of one name on one
\* line, are alike: they stand side by side and nothing stands in them.
RepeatsAreAlike(ns) ==
  \A i \in Usages(ns), k \in Usages(ns) :
    i # k /\ UsageId(ns, i) = UsageId(ns, k) /\ UsageId(ns, k).kind \in Disambiguable =>
      /\ ns[i].parent = ns[k].parent
      /\ \A j \in Usages(ns) : ns[j].parent \notin {i, k}

\* The elements before repeated ids are told apart.
LEMMA RenderedFacts ==
  ASSUME NEW m, Declared(m.nodes)
  PROVE  LET raw == Rendered(m)
             doc == Elements(m)
             sign(i) == Signs(m)[i]
         IN /\ DOMAIN raw = DOMAIN Signs(m) /\ DOMAIN doc = DOMAIN raw /\ DOMAIN raw \subseteq Nat \ {0}
            /\ \A i \in DOMAIN raw : /\ sign(i) \in SignSet
                                     /\ sign(i) \in Range(Signs(m))
                                     /\ raw[i] = ElementFor(m)[sign(i)]
                                     /\ doc[i].owner = raw[i].owner
                                     /\ doc[i].members = raw[i].members
                                     /\ \/ doc[i].id = raw[i].id
                                        \/ raw[i].id.kind \in Disambiguable /\ \E j \in 1..(i - 1) : raw[j].id = raw[i].id
            /\ \A y \in Range(Signs(m)) : \E j \in DOMAIN raw : sign(j) = y
<1> DEFINE E == ElementFor(m)
           signs == Signs(m)
           raw == Rendered(m)
           doc == Elements(m)
           K == {E[x].id.kind : x \in SignSet}
           N == {E[x].id.name : x \in SignSet}
           A == {E[x].id.at : x \in SignSet}
           O == {E[x].owner : x \in SignSet}
           M == {E[x].members : x \in SignSet}
<1>1. signs \in Seq(SignSet) /\ raw = Map(E, signs)
  BY RenderedIsMap
<1>2. \A x \in SignSet : Fine(E[x])
  BY ElementShape
<1>3. \A x \in SignSet : /\ E[x].id.kind \in K /\ E[x].id.name \in N /\ E[x].id.at \in A
                         /\ E[x].owner \in O /\ E[x].members \in M
  OBVIOUS
<1> HIDE DEF E, signs, raw, K, N, A, O, M
<1>4. \A x \in SignSet : E[x] \in ElementsOver(K, N, A, O, M) /\ E[x].id.copy = 0
  <2> SUFFICES ASSUME NEW x \in SignSet PROVE E[x] \in ElementsOver(K, N, A, O, M) /\ E[x].id.copy = 0
    OBVIOUS
  <2> DEFINE id == E[x].id
             kind == id.kind
             name == id.name
             at == id.at
             owner == E[x].owner
             members == E[x].members
  <2>1. id = [kind |-> kind, name |-> name, at |-> at, copy |-> 0] /\ E[x] = [id |-> id, owner |-> owner, members |-> members]
    BY <1>2 DEF Fine, Element
  <2>2. kind \in K /\ name \in N /\ at \in A /\ owner \in O /\ members \in M
    BY <1>3
  <2> HIDE DEF kind, name, at, owner, members
  <2>3. id \in IdsOver(K, N, A) /\ id.copy = 0
    BY <2>1, <2>2 DEF IdsOver
  <2> HIDE DEF id
  <2>4. E[x] \in ElementsOver(K, N, A, O, M)
    BY <2>1, <2>2, <2>3 DEF ElementsOver
  <2> QED
    BY <2>3, <2>4 DEF id
<1>5. raw \in Seq(ElementsOver(K, N, A, O, M)) /\ DOMAIN raw = DOMAIN signs /\ \A j \in DOMAIN signs : raw[j] = E[signs[j]]
  <2>1. raw \in Seq(Images(E, SignSet)) /\ DOMAIN raw = DOMAIN signs /\ \A j \in DOMAIN signs : raw[j] = E[signs[j]]
    BY <1>1, MapFacts
  <2>2. Images(E, SignSet) \subseteq ElementsOver(K, N, A, O, M)
    BY <1>4 DEF Images
  <2> QED
    BY <2>1, <2>2
<1>6. DOMAIN signs = 1..Len(signs) /\ Len(signs) \in Nat /\ \A j \in DOMAIN signs : signs[j] \in SignSet
  BY <1>1
<1>7. \A e \in Range(raw) : e.id.copy = 0
  BY <1>4, <1>5, <1>6 DEF Range
<1>8. doc = Disambiguated(raw)
  BY DEF Elements, raw
<1>9. /\ DOMAIN doc = DOMAIN raw
      /\ \A i \in DOMAIN raw :
           /\ doc[i].owner = raw[i].owner
           /\ doc[i].members = raw[i].members
           /\ \/ doc[i].id = raw[i].id
              \/ raw[i].id.kind \in Disambiguable /\ \E j \in 1..(i - 1) : raw[j].id = raw[i].id
  BY <1>5, <1>7, <1>8, DisambiguatedFacts
<1>10. DOMAIN raw \subseteq Nat \ {0}
  BY <1>5, <1>6
<1>11. \A i \in DOMAIN signs : signs[i] \in Range(signs)
  BY DEF Range
<1>12. \A y \in Range(signs) : \E j \in DOMAIN signs : signs[j] = y
  BY DEF Range
<1> HIDE DEF doc
<1> QED
  BY <1>5, <1>6, <1>9, <1>10, <1>11, <1>12 DEF E, signs, raw, doc

\* Elements with the same id of one of these kinds are usages that are alike.
LEMMA AlikeFacts ==
  ASSUME NEW m, Declared(m.nodes), RepeatsAreAlike(m.nodes),
         NEW y \in Range(Signs(m)), NEW z \in Range(Signs(m)), y # z,
         ElementFor(m)[y].id = ElementFor(m)[z].id, ElementFor(m)[y].id.kind \in Disambiguable
  PROVE  /\ ElementFor(m)[y].owner = ElementFor(m)[z].owner
         /\ y[1] = "usage" /\ \A j \in Usages(m.nodes) : m.nodes[j].parent # y[2]
<1> DEFINE ns == m.nodes
           E == ElementFor(m)
<1>1. y \in SignSet /\ z \in SignSet
  <2>1. Signs(m) \in Seq(SignSet)
    BY RenderedIsMap
  <2> QED
    BY <2>1 DEF Range
<1>2. y[1] = "usage" /\ z[1] = "usage"
  BY <1>1, ElementShape
<1>3. PICK i, k : y = <<"usage", i>> /\ z = <<"usage", k>>
  BY <1>1, <1>2 DEF SignSet
<1>4. i \in Usages(ns) /\ k \in Usages(ns) /\ i # k
  BY <1>3, EmittedFacts, UsagesEmittedFacts
<1>5. i \in Nat /\ k \in Nat
  BY <1>4 DEF Usages, Declared, Forest
<1>6. E[y] = UsageElement(ns, i) /\ E[z] = UsageElement(ns, k)
  BY <1>3, <1>5, ElementForFacts
<1> HIDE DEF E
<1>7. E[y].id = UsageId(ns, i) /\ E[z].id = UsageId(ns, k) /\ E[y].owner = OwnerId(ns, i) /\ E[z].owner = OwnerId(ns, k)
  BY <1>6 DEF UsageElement, Element
<1>8. ns[i].parent = ns[k].parent /\ \A j \in Usages(ns) : ns[j].parent # i
  <2>1. UsageId(ns, i) = UsageId(ns, k) /\ UsageId(ns, k).kind \in Disambiguable
    <3>1. E[y].id = E[z].id /\ E[y].id.kind \in Disambiguable
      BY DEF E
    <3> QED
      BY <1>7, <3>1
  <2>2. ns[i].parent = ns[k].parent /\ \A j \in Usages(ns) : ns[j].parent \notin {i, k}
    BY <1>4, <2>1 DEF RepeatsAreAlike
  <2> QED
    BY <2>2
<1>9. OwnerId(ns, i) = OwnerId(ns, k)
  BY <1>8 DEF OwnerId
<1>10. y[2] = i
  BY <1>3
<1> QED
  BY <1>2, <1>7, <1>8, <1>9, <1>10 DEF E

\* The members that an element lists name it as their owner.
MembersNamed(elements) ==
  \A e \in Range(elements) : \A id \in Range(e.members) :
    \E f \in Range(elements) : f.id = id /\ f.owner = e.id

\* In every document the members of an element name it as their owner.
LEMMA ElementsAreNamed ==
  ASSUME NEW m, Declared(m.nodes), RepeatsAreAlike(m.nodes)
  PROVE  MembersNamed(Elements(m))
<1> DEFINE ns == m.nodes
           E == ElementFor(m)
           signs == Signs(m)
           raw == Rendered(m)
           doc == Elements(m)
<1>1. /\ DOMAIN raw = DOMAIN signs /\ DOMAIN doc = DOMAIN raw /\ DOMAIN raw \subseteq Nat \ {0}
      /\ \A i \in DOMAIN raw : /\ signs[i] \in SignSet /\ signs[i] \in Range(signs)
                               /\ raw[i] = E[signs[i]]
                               /\ doc[i].owner = raw[i].owner /\ doc[i].members = raw[i].members
                               /\ \/ doc[i].id = raw[i].id
                                  \/ raw[i].id.kind \in Disambiguable /\ \E j \in 1..(i - 1) : raw[j].id = raw[i].id
      /\ \A y \in Range(signs) : \E j \in DOMAIN raw : signs[j] = y
  BY RenderedFacts
<1>2. IsInjective(signs)
  BY SignsFacts
<1>3. DOMAIN raw = 1..Len(signs) /\ Len(signs) \in Nat
  <2>1. signs \in Seq(SignSet)
    BY RenderedIsMap
  <2> HIDE DEF signs, raw
  <2> QED
    BY <1>1, <2>1
<1>4. \A y \in Range(signs), z \in Range(signs) :
        y # z /\ E[y].id = E[z].id /\ E[y].id.kind \in Disambiguable =>
          /\ E[y].owner = E[z].owner
          /\ y[1] = "usage" /\ \A j \in Usages(ns) : ns[j].parent # y[2]
  BY AlikeFacts
<1>5. \A x \in Range(signs) : \A id \in Range(E[x].members) :
        /\ \E y \in Range(signs) : E[y].owner = E[x].id /\ E[y].id = id
        /\ x[1] = "usage" => \E k \in Usages(ns) : ns[k].parent = x[2]
  BY MembersAreOwned DEF Owns
<1> HIDE DEF E, signs, raw, doc, ns
<1>6. \A i \in DOMAIN raw, j \in DOMAIN raw : i # j => signs[i] # signs[j]
  BY <1>1, <1>2 DEF IsInjective
<1>7. SUFFICES ASSUME NEW i \in DOMAIN raw, NEW id \in Range(doc[i].members)
               PROVE  \E j \in DOMAIN raw : doc[j].id = id /\ doc[j].owner = doc[i].id
  <2> SUFFICES ASSUME NEW e \in Range(doc), NEW id \in Range(e.members)
               PROVE  \E f \in Range(doc) : f.id = id /\ f.owner = e.id
    BY DEF MembersNamed, doc
  <2>1. PICK i \in DOMAIN doc : e = doc[i]
    BY DEF Range
  <2>2. PICK j \in DOMAIN raw : doc[j].id = id /\ doc[j].owner = doc[i].id
    BY <1>1, <1>7, <2>1
  <2>3. doc[j] \in Range(doc)
    BY <1>1 DEF Range
  <2> QED
    BY <2>1, <2>2, <2>3
<1> DEFINE x == signs[i]
<1>8. x \in Range(signs) /\ raw[i] = E[x] /\ id \in Range(E[x].members)
  BY <1>1, <1>7
<1>9. PICK y \in Range(signs) : E[y].owner = E[x].id /\ E[y].id = id
  BY <1>5, <1>8
<1>10. doc[i].id = E[x].id
  <2> SUFFICES ASSUME NEW j \in 1..(i - 1), raw[j].id = raw[i].id, raw[i].id.kind \in Disambiguable PROVE FALSE
    BY <1>1, <1>8
  <2>1. j \in DOMAIN raw /\ j # i
    BY <1>3, <1>7
  <2>2. signs[j] # x /\ signs[j] \in Range(signs) /\ E[signs[j]].id = E[x].id
    BY <1>1, <1>6, <1>8, <2>1
  <2>3. x[1] = "usage" /\ \A l \in Usages(ns) : ns[l].parent # x[2]
    BY <1>4, <1>8, <2>2
  <2> QED
    BY <1>5, <1>8, <2>3
<1> DEFINE T == {j \in DOMAIN raw : raw[j].id = id}
<1>11. T # {}
  BY <1>1, <1>9
<1>12. PICK j \in T : \A l \in T : j <= l
  <2>1. T \subseteq Nat
    BY <1>1
  <2> HIDE DEF T
  <2> QED
    BY <1>11, <2>1, LeastExists
<1>13. j \in DOMAIN raw /\ raw[j].id = id /\ signs[j] \in Range(signs) /\ E[signs[j]].id = id
  BY <1>1, <1>12
<1>14. CASE id.kind \in Disambiguable
  <2>1. doc[j].id = id
    <3> SUFFICES ASSUME NEW l \in 1..(j - 1), raw[l].id = raw[j].id PROVE FALSE
      BY <1>1, <1>13
    <3>1. l \in T /\ l < j
      BY <1>3, <1>13
    <3> QED
      BY <1>3, <1>12, <3>1
  <2>2. E[signs[j]].owner = E[y].owner
    BY <1>4, <1>9, <1>13, <1>14
  <2> QED
    BY <1>1, <1>9, <1>10, <1>13, <2>1, <2>2
<1>15. CASE id.kind \notin Disambiguable
  <2>1. PICK l \in DOMAIN raw : signs[l] = y
    BY <1>1
  <2>2. doc[l].id = id /\ doc[l].owner = E[y].owner
    BY <1>1, <1>9, <1>15, <2>1
  <2> QED
    BY <1>9, <1>10, <2>2
<1> QED
  BY <1>14, <1>15

---------------------------------------------------------------------------
(* The invariant *)

\* A declaration as it was written, or without its type, or taken out.
Alters(e, d) ==
  /\ DOMAIN e = DOMAIN d
  /\ e.parent = d.parent
  /\ e.name = d.name /\ e.construct = d.construct /\ e.line = d.line /\ e.index = d.index
  /\ e.kind \in {d.kind, "gone"}
  /\ e.ty \in {d.ty, <<>>}

\* ns are the declarations of m after some recoveries.
Variant(ns, m) ==
  /\ ns \in Seq(Range(ns))
  /\ Len(ns) = Len(m.nodes)
  /\ \A k \in DOMAIN ns : Alters(ns[k], m.nodes[k])

\* What every declaration says.
Fields == {"kind", "parent", "ty", "name", "construct", "line", "index"}

\* Declarations as they are written.
Written(m) ==
  /\ m.nodes \in Seq(Range(m.nodes))
  /\ \A k \in DOMAIN m.nodes : Fields \subseteq DOMAIN m.nodes[k]

Typed == {k \in Kept : nodes[k].kind = "usage" /\ nodes[k].ty # <<>>}

\* What is still to be done, and what went wrong, is of the declarations that
\* are being compiled.
IInv ==
  /\ TypeOK
  /\ Variant(nodes, module)
  /\ status = "running" => attempts < limit
  /\ phase = "resolve" => todo \in Seq(DOMAIN nodes)
  /\ fault.at \in 0..Len(nodes)
  /\ fault.what = "type" => fault.at \in Typed
  /\ \A f \in reported : f.at \in 0..Len(nodes)

\* The declarations that are left are still a forest, that of the module.
LEMMA DeclarationsAreForest ==
  ASSUME IInv
  PROVE  /\ Forest(nodes)
         /\ DOMAIN nodes = 1..Len(nodes) /\ DOMAIN module.nodes = 1..Len(nodes)
         /\ \A k \in DOMAIN nodes : /\ Fields \subseteq DOMAIN nodes[k]
                                    /\ nodes[k].parent = module.nodes[k].parent
                                    /\ nodes[k].kind \in {module.nodes[k].kind, "gone"}
BY ModulesAssumption DEF IInv, TypeOK, Variant, Alters, Forest, Fields

\* The declarations that are compiled are declarations, each behind the one it
\* stands in.
LEMMA WorkingIsDeclared ==
  ASSUME IInv
  PROVE  Working.nodes = nodes /\ Declared(nodes) /\ Declared(Working.nodes)
<1>1. Working.nodes = nodes
  BY ModulesAssumption DEF IInv, TypeOK, Working
<1>2. Declared(nodes)
  BY DeclarationsAreForest DEF Declared
<1> QED
  BY <1>1, <1>2

\* What is compiled first is the module as it was parsed.
LEMMA InitInv == Init => IInv
<1> SUFFICES ASSUME Init PROVE IInv
  OBVIOUS
<1>1. limit \in Nat \ {0}
  BY LimitsAssumption DEF Init
<1>2. /\ Len(nodes) \in Nat
      /\ DOMAIN nodes = 1..Len(nodes)
      /\ Variant(nodes, module)
  BY ModulesAssumption DEF Init, Variant, Alters
<1> QED
  BY <1>1, <1>2 DEF Init, IInv, TypeOK, NoFault, Fault

\* Declarations taken out leave the others as they are.
LEMMA GoneAlters ==
  ASSUME NEW ns, NEW m, NEW S, Variant(ns, m), Written(m)
  PROVE  /\ Variant(Gone(ns, S), m)
         /\ DOMAIN Gone(ns, S) = DOMAIN ns
         /\ \A k \in DOMAIN ns : /\ Gone(ns, S)[k].kind = IF k \in S THEN "gone" ELSE ns[k].kind
                                 /\ Gone(ns, S)[k].ty = ns[k].ty
<1> DEFINE gone == Gone(ns, S)
<1>1. /\ Len(ns) \in Nat /\ DOMAIN ns = 1..Len(ns) /\ DOMAIN m.nodes = 1..Len(ns)
      /\ DOMAIN gone = DOMAIN ns
  BY DEF Variant, Gone, Written
<1>2. ASSUME NEW k \in DOMAIN ns
      PROVE  /\ Alters(gone[k], m.nodes[k])
             /\ gone[k].kind = IF k \in S THEN "gone" ELSE ns[k].kind
             /\ gone[k].ty = ns[k].ty
  <2>1. gone[k] = IF k \in S THEN [ns[k] EXCEPT !.kind = "gone"] ELSE ns[k]
    BY DEF Gone
  <2>2. Alters(ns[k], m.nodes[k]) /\ Fields \subseteq DOMAIN ns[k]
    BY <1>1 DEF Variant, Alters, Written
  <2> QED
    BY <2>1, <2>2 DEF Alters
<1>3. gone \in Seq(Range(gone)) /\ Len(gone) = Len(m.nodes)
  <2>1. gone = [k \in 1..Len(ns) |-> gone[k]]
    BY <1>1 DEF Gone
  <2> HIDE DEF gone
  <2> QED
    BY <1>1, <2>1, IndexedIsSequence DEF Variant
<1> QED
  BY <1>1, <1>2, <1>3 DEF Variant

\* So does a type that is taken out.
LEMMA StrippedAlters ==
  ASSUME NEW ns, NEW m, NEW at, Variant(ns, m), Written(m)
  PROVE  /\ Variant(WithoutType(ns, at), m)
         /\ DOMAIN WithoutType(ns, at) = DOMAIN ns
         /\ \A k \in DOMAIN ns : /\ WithoutType(ns, at)[k].kind = ns[k].kind
                                 /\ WithoutType(ns, at)[k].ty = IF k = at THEN <<>> ELSE ns[k].ty
<1> DEFINE stripped == WithoutType(ns, at)
<1>1. /\ Len(ns) \in Nat /\ DOMAIN ns = 1..Len(ns) /\ DOMAIN m.nodes = 1..Len(ns)
      /\ DOMAIN stripped = DOMAIN ns
  BY DEF Variant, WithoutType, Written
<1>2. ASSUME NEW k \in DOMAIN ns
      PROVE  /\ Alters(stripped[k], m.nodes[k])
             /\ stripped[k].kind = ns[k].kind
             /\ stripped[k].ty = IF k = at THEN <<>> ELSE ns[k].ty
  <2>1. stripped[k] = IF k = at THEN [ns[k] EXCEPT !.ty = <<>>] ELSE ns[k]
    BY DEF WithoutType
  <2>2. Alters(ns[k], m.nodes[k]) /\ Fields \subseteq DOMAIN ns[k]
    BY <1>1 DEF Variant, Alters, Written
  <2> HIDE DEF stripped
  <2> QED
    BY <2>1, <2>2 DEF Alters
<1>3. stripped = [k \in 1..Len(ns) |-> stripped[k]]
  BY <1>1 DEF WithoutType
<1> HIDE DEF stripped
<1>4. Variant(stripped, m)
  BY <1>1, <1>2, <1>3, IndexedIsSequence DEF Variant
<1> QED
  BY <1>1, <1>2, <1>4 DEF stripped

\* What a failed step leaves for the recovery, or for nobody.
LEMMA FailureIsPlaced ==
  ASSUME IInv, NEW what, NEW id, NEW at \in 0..Len(nodes), FailsFor(what, id, at),
         what = "type" => at \in Typed, status = "running",
         UNCHANGED <<module, limit, nodes, reported, attempts>>
  PROVE  IInv'
<1>1. Typed' = Typed /\ Len(nodes)' = Len(nodes) /\ Variant(nodes, module)'
  BY DEF Typed, Kept, IInv, Variant
<1>2. CASE id = Endless
  BY <1>1, <1>2 DEF FailsFor, IInv, TypeOK
<1>3. CASE id # Endless
  <2>1. /\ phase' = "recover" /\ status' = "running"
        /\ fault' = Fault(what, IF what = "placeless" THEN 0 ELSE at)
    BY <1>3 DEF FailsFor, FailWith
  <2>2. fault'.at \in 0..Len(nodes) /\ (fault'.what = "type" => fault'.at \in Typed)
    <3>1. 0 \in 0..Len(nodes)
      BY DeclarationsAreForest DEF Forest
    <3> QED
      BY <2>1, <3>1 DEF Fault
  <2> QED
    BY <1>1, <2>1, <2>2 DEF IInv, TypeOK
<1> QED
  BY <1>2, <1>3

\* The recovery alters declarations and leaves a report.
LEMMA RecoverInv ==
  ASSUME IInv, Recover
  PROVE  IInv'
<1>1. /\ module \in Modules /\ limit \in Nat \ {0} /\ attempts \in Nat /\ attempts < limit
      /\ Len(nodes) \in Nat /\ 0 \in 0..Len(nodes)
  BY DeclarationsAreForest, LimitsAssumption DEF IInv, TypeOK, Recover, Forest
<1>2. /\ UNCHANGED <<module, limit>>
      /\ status = "running" /\ phase = "recover"
      /\ reported' = reported \cup {fault}
      /\ fault' = NoFault
  BY DEF Recover, Diagnosis
<1>3. /\ fault'.at = 0 /\ fault'.what = "none"
      /\ \A f \in reported' : f.at \in 0..Len(nodes)
  BY <1>2 DEF IInv, NoFault, Fault
<1>4. CASE fault.at \in Reach /\ nodes' = Recovered
  <2>1. Variant(nodes', module)
    <3> DEFINE stripped == WithoutType(nodes, fault.at)
    <3>1. Variant(nodes, module) /\ Written(module)
      BY <1>1, ModulesAssumption DEF IInv, Written, Fields
    <3>2. Variant(stripped, module) /\ Variant(Gone(nodes, Inside(fault.at)), module)
      BY <3>1, StrippedAlters, GoneAlters
    <3> HIDE DEF stripped
    <3>3. Variant(Gone(stripped, Left), module) /\ Variant(Gone(Gone(nodes, Inside(fault.at)), Left), module)
      BY <3>1, <3>2, GoneAlters
    <3> QED
      BY <1>4, <3>3 DEF Recovered, stripped
  <2>2. Variant(nodes, module)' /\ Len(nodes)' = Len(nodes)
    BY <1>2, <2>1 DEF Variant, IInv
  <2>3. /\ attempts' = attempts + 1
        /\ IF attempts' = limit THEN status' = "failed" /\ phase' = "over"
           ELSE phase' = "tables" /\ UNCHANGED status
    BY <1>4 DEF Recover, Exhausted
  <2> QED
    BY <1>1, <1>2, <1>3, <2>2, <2>3 DEF IInv, TypeOK
<1>5. CASE status' = "failed" /\ phase' = "over" /\ UNCHANGED <<nodes, attempts>>
  <2>1. Variant(nodes, module)'
    BY <1>2, <1>5 DEF IInv, Variant
  <2> QED
    BY <1>1, <1>2, <1>3, <1>5, <2>1 DEF IInv, TypeOK
<1> QED
  BY <1>4, <1>5 DEF Recover

\* One step at a time.
LEMMA StepInv ==
  ASSUME LegalDemands, IInv, [Next]_vars
  PROVE  IInv'
<1>1. /\ module \in Modules /\ limit \in Nat \ {0}
      /\ Len(nodes) \in Nat
      /\ DOMAIN nodes = 1..Len(nodes)
      /\ DOMAIN nodes \subseteq 0..Len(nodes)
      /\ Variant(nodes, module)
  BY DeclarationsAreForest, LimitsAssumption DEF IInv, TypeOK, Forest
<1>2. ASSUME UNCHANGED <<module, nodes>>
      PROVE  /\ Typed' = Typed /\ Len(nodes)' = Len(nodes) /\ Working' = Working
             /\ DOMAIN nodes' = DOMAIN nodes
             /\ Variant(nodes, module)'
  BY <1>1, <1>2 DEF Typed, Kept, Working
<1>3. CASE BuildTables
  <2>1. /\ UNCHANGED <<module, limit, nodes, todo, fault, attempts>> /\ status = "running"
        /\ \/ status' = "failed" /\ phase' = "over"
           \/ UNCHANGED status /\ phase' = "imports"
    BY <1>3 DEF BuildTables, NotCollected, Collected
  <2>2. \A f \in reported' : f \in reported \/ f = Fault("placeless", 0)
    BY <1>3 DEF BuildTables, NotCollected, Collected
  <2>3. Fault("placeless", 0).at \in 0..Len(nodes)
    BY <1>1 DEF Fault
  <2>4. \A f \in reported' : f.at \in 0..Len(nodes)
    BY <2>2, <2>3 DEF IInv
  <2> QED
    BY <1>2, <2>1, <2>4 DEF IInv, TypeOK
<1>4. CASE ResolveImports
  <2> DEFINE imports == ImportsOf(Working)
             idOf(j) == ImportIdOf(tables, Working, imports[j])
  <2>1. UNCHANGED <<module, limit, nodes, reported, attempts>> /\ status = "running" /\ phase = "imports"
    BY <1>4 DEF ResolveImports
  <2>2. CASE \E j \in DOMAIN imports : FailsFor("import", idOf(j), imports[j])
    <3>1. PICK j \in DOMAIN imports : FailsFor("import", idOf(j), imports[j])
      BY <2>2
    <3>2. imports[j] \in 0..Len(nodes)
      <4> DEFINE list == ImportsOf(Working)
      <4>1. list \in Seq(DOMAIN nodes)
        BY ImportsFacts, WorkingIsDeclared
      <4> HIDE DEF list
      <4>2. \A l \in DOMAIN list : list[l] \in DOMAIN nodes
        BY <4>1
      <4> QED
        BY <1>1, <3>1, <4>2 DEF list
    <3> QED
      BY <2>1, <3>1, <3>2, FailureIsPlaced
  <2>3. CASE todo' = BindingsBy(tables, Working) /\ phase' = "bind" /\ UNCHANGED <<fault, status>>
    BY <1>2, <2>1, <2>3 DEF IInv, TypeOK
  <2> QED
    BY <1>4, <2>2, <2>3 DEF ResolveImports
<1>5. CASE BindAlias
  BY <1>2, <1>5 DEF BindAlias, IInv, TypeOK
<1>6. CASE FinishImports
  <2>1. todo' \in Seq(DOMAIN nodes)
    BY <1>6, ResolutionFacts, WorkingIsDeclared DEF FinishImports
  <2> QED
    BY <1>2, <1>6, <2>1 DEF FinishImports, IInv, TypeOK
<1>7. CASE ResolveDeclaration
  <2> DEFINE asked == AskedBy(tables, Working, Head(todo))
  <2>1. /\ UNCHANGED <<module, limit, nodes, reported, attempts>>
        /\ status = "running" /\ phase = "resolve" /\ todo # <<>> /\ todo' = Tail(todo)
    BY <1>7 DEF ResolveDeclaration
  <2>2. todo \in Seq(DOMAIN nodes) /\ Head(todo) \in DOMAIN nodes /\ Tail(todo) \in Seq(DOMAIN nodes)
    BY <2>1 DEF IInv
  <2>3. CASE \E j \in DOMAIN asked : FailsFor(asked[j].what, asked[j].id, Head(todo))
    <3>1. PICK j \in DOMAIN asked : FailsFor(asked[j].what, asked[j].id, Head(todo))
      BY <2>3
    <3>2. asked[j].what = "type" => Head(todo) \in Typed
      BY <2>1, <2>2 DEF LegalDemands, Typed, Kept
    <3> HIDE DEF asked
    <3> QED
      BY <1>1, <2>1, <2>2, <3>1, <3>2, FailureIsPlaced
  <2>4. CASE UNCHANGED <<phase, fault, status>>
    BY <1>2, <2>1, <2>2, <2>4 DEF IInv, TypeOK
  <2> QED
    BY <1>7, <2>3, <2>4 DEF ResolveDeclaration
<1>8. CASE ValidateMetadata
  <2> DEFINE faulty == MetadataFaults(Working, resolved)
  <2>1. /\ UNCHANGED <<module, limit, nodes, todo, reported, attempts, status>>
        /\ status = "running" /\ phase = "resolve" /\ todo = <<>>
    BY <1>8 DEF ValidateMetadata
  <2>2. CASE faulty # <<>> /\ FailWith(Fault("metadata", Head(faulty)))
    <3>1. faulty \in Seq(DOMAIN nodes)
      BY MetadataFacts, WorkingIsDeclared
    <3> HIDE DEF faulty
    <3>2. Head(faulty) \in 0..Len(nodes)
      BY <1>1, <2>2, <3>1
    <3> QED
      BY <1>2, <2>1, <2>2, <3>2 DEF FailWith, Fault, IInv, TypeOK
  <2>3. CASE phase' = "emit" /\ UNCHANGED fault
    BY <1>2, <2>1, <2>3 DEF IInv, TypeOK
  <2> QED
    BY <1>8, <2>2, <2>3 DEF ValidateMetadata
<1>9. CASE Emit
  BY <1>1, <1>2, <1>9 DEF Emit, FailWith, Fault, IInv, TypeOK
<1>10. CASE Recover
  BY <1>10, RecoverInv
<1>11. CASE UNCHANGED vars
  BY <1>2, <1>11 DEF vars, IInv, TypeOK
<1> QED
  BY <1>3, <1>4, <1>5, <1>6, <1>7, <1>8, <1>9, <1>10, <1>11 DEF Next

\* The invariant holds of every compilation.
LEMMA Invariance == Spec /\ []LegalDemands => []IInv
  BY InitInv, StepInv, PTL DEF Spec

\* The variables of the attempts stay of their types (parser.rs,
\* compile_sysml_text_with_context_report): no attempt begins after the limit,
\* and the compilation is over exactly when it has an outcome.
THEOREM TypeCorrect == Spec /\ []LegalDemands => []TypeOK
<1>1. IInv => TypeOK
  BY DEF IInv
<1> QED
  BY <1>1, Invariance, PTL

---------------------------------------------------------------------------
(* Declarations are resolved once *)

\* The declarations still to be resolved are different ones, and none of them
\* was resolved before in this attempt.
EachOnce ==
  phase = "resolve" =>
    /\ \A i, j \in DOMAIN todo : i # j => todo[i] # todo[j]
    /\ \A r \in Range(resolved) : \A j \in DOMAIN todo : todo[j] # r.at

\* The strengthening: what was resolved is a list, empty before the imports are.
OnceInv ==
  /\ resolved \in Seq(Range(resolved))
  /\ phase \in {"imports", "bind"} => resolved = <<>>
  /\ EachOnce

\* What is noted of one more declaration.
LEMMA PlacedFacts ==
  ASSUME NEW s, s \in Seq(Range(s)), NEW asked, asked \in Seq(Range(asked)), NEW k,
         NEW t, t = s \o PlacedAt(k, asked)
  PROVE  /\ t \in Seq(Range(t))
         /\ \A r \in Range(t) : r \in Range(s) \/ r.at = k
<1> DEFINE placed == PlacedAt(k, asked)
           T == Range(s) \cup Range(placed)
<1>1. /\ DOMAIN asked = 1..Len(asked) /\ Len(asked) \in Nat
      /\ placed = [j \in 1..Len(asked) |-> placed[j]]
      /\ \A j \in DOMAIN placed : placed[j].at = k
  BY DEF PlacedAt
<1> HIDE DEF placed
<1>2. placed \in Seq(Range(placed))
  BY <1>1, IndexedIsSequence
<1>3. \A r \in Range(placed) : r.at = k
  BY <1>1 DEF Range
<1>4. s \in Seq(T) /\ placed \in Seq(T)
  BY <1>2
<1> HIDE DEF T
<1>5. t \in Seq(T) /\ Range(t) = Range(s) \cup Range(placed)
  BY <1>4, ConcatRange DEF placed
<1>6. t \in Seq(Range(t))
  <2>1. Range(t) = T
    BY <1>5 DEF T
  <2> QED
    BY <1>5, <2>1
<1> QED
  BY <1>3, <1>5, <1>6

\* Each step keeps what is still to be resolved apart from what was.
LEMMA StepOnce ==
  ASSUME IInv, LegalDemands, OnceInv, [Next]_vars
  PROVE  OnceInv'
<1>1. CASE UNCHANGED <<todo, resolved>> /\ phase' \notin {"imports", "bind", "resolve"}
  BY <1>1 DEF OnceInv, EachOnce
<1>2. CASE UNCHANGED <<todo, resolved, phase>>
  BY <1>2 DEF OnceInv, EachOnce
<1>3. CASE BuildTables
  <2>1. CASE UNCHANGED <<todo, resolved>> /\ phase' = "over"
    BY <1>1, <2>1
  <2>2. CASE resolved' = <<>> /\ phase' = "imports"
    BY <2>2 DEF OnceInv, EachOnce
  <2> QED
    BY <1>3, <2>1, <2>2 DEF BuildTables, NotCollected, Collected
<1>4. CASE ResolveImports
  <2>1. /\ resolved' = resolved /\ phase = "imports"
        /\ (phase' = "bind" \/ (todo' = todo /\ phase' \in {"over", "recover"}))
    BY <1>4 DEF ResolveImports, FailsFor, FailWith
  <2> QED
    BY <1>1, <2>1 DEF OnceInv, EachOnce
<1>5. CASE BindAlias
  BY <1>5 DEF BindAlias, OnceInv, EachOnce
<1>6. CASE FinishImports
  <2> DEFINE order == ResolutionOrder(Working)
  <2>1. phase = "bind" /\ todo' = order /\ resolved' = resolved /\ phase' = "resolve"
    BY <1>6 DEF FinishImports
  <2>2. IsInjective(order)
    BY WorkingIsDeclared, ResolutionOnce
  <2>3. resolved = <<>> /\ Range(resolved) = {}
    BY <2>1 DEF OnceInv, Range
  <2> HIDE DEF order
  <2> QED
    BY <2>1, <2>2, <2>3 DEF OnceInv, EachOnce, IsInjective
<1>7. CASE ResolveDeclaration
  <2> DEFINE k == Head(todo)
             asked == AskedBy(tables, Working, k)
  <2>1. /\ phase = "resolve" /\ todo # <<>> /\ todo' = Tail(todo) /\ resolved' = resolved \o PlacedAt(k, asked)
        /\ phase' \in {"resolve", "over", "recover"}
    BY <1>7 DEF ResolveDeclaration, FailsFor, FailWith
  <2>2. todo \in Seq(DOMAIN nodes)
    BY <2>1 DEF IInv
  <2>3. asked \in Seq(Range(asked))
    BY <2>1 DEF LegalDemands
  <2> HIDE DEF asked
  <2>4. resolved' \in Seq(Range(resolved')) /\ \A r \in Range(resolved') : r \in Range(resolved) \/ r.at = k
    BY <2>1, <2>3, PlacedFacts DEF OnceInv
  <2>5. /\ DOMAIN todo = 1..Len(todo) /\ Len(todo) \in Nat \ {0} /\ k = todo[1]
        /\ DOMAIN todo' = 1..(Len(todo) - 1) /\ \A j \in DOMAIN todo' : todo'[j] = todo[j + 1]
    BY <2>1, <2>2
  <2>6. \A j \in DOMAIN todo' : j + 1 \in DOMAIN todo /\ j + 1 # 1 /\ 1 \in DOMAIN todo
    BY <2>5
  <2> HIDE DEF k
  <2>7. /\ \A i, j \in DOMAIN todo' : i # j => todo'[i] # todo'[j]
        /\ \A j \in DOMAIN todo' : todo'[j] # k
        /\ \A r \in Range(resolved) : \A j \in DOMAIN todo' : todo'[j] # r.at
    BY <2>1, <2>5, <2>6 DEF OnceInv, EachOnce
  <2> QED
    BY <2>1, <2>4, <2>7 DEF OnceInv, EachOnce
<1>8. CASE ValidateMetadata
  BY <1>1, <1>8 DEF ValidateMetadata, FailWith
<1>9. CASE Emit
  BY <1>1, <1>2, <1>9 DEF Emit, FailWith
<1>10. CASE Recover
  BY <1>1, <1>10 DEF Recover
<1>11. CASE UNCHANGED vars
  BY <1>2, <1>11 DEF vars
<1> QED
  BY <1>3, <1>4, <1>5, <1>6, <1>7, <1>8, <1>9, <1>10, <1>11 DEF Next

\* No declaration is resolved twice in an attempt, wherever it stands: what is
\* collected from packages in definitions and from the bodies around them is
\* collected once (collect.rs, collect_declarations and
\* collect_nested_owned_packages; resolve.rs,
\* resolve_module_with_policy_context).
THEOREM ResolvesOnce == Spec /\ []LegalDemands => []EachOnce
<1>1. Init => OnceInv
  <2> SUFFICES ASSUME Init PROVE OnceInv
    OBVIOUS
  <2>1. resolved = <<>> /\ phase = "tables"
    BY DEF Init
  <2> QED
    BY <2>1 DEF OnceInv, EachOnce
<1>2. OnceInv => EachOnce
  BY DEF OnceInv
<1> QED
  BY <1>1, <1>2, StepOnce, Invariance, PTL DEF Spec

---------------------------------------------------------------------------
(* Members and their owners *)

\* What is left of the declarations has the names and the ids it was parsed with.
LEMMA VariantIsAlike ==
  ASSUME NEW ns, NEW m, Variant(ns, m), Declared(ns), Declared(m.nodes), RepeatsAreAlike(m.nodes)
  PROVE  RepeatsAreAlike(ns)
<1> DEFINE ms == m.nodes
<1>1. DOMAIN ns = 1..Len(ns) /\ DOMAIN ms = 1..Len(ns) /\ Len(ns) = Len(ms) /\ Len(ns) \in Nat
  BY DEF Variant, Declared, Forest
<1>2. \A k \in DOMAIN ns : /\ ns[k].parent = ms[k].parent /\ ns[k].name = ms[k].name
                           /\ ns[k].construct = ms[k].construct /\ ns[k].line = ms[k].line /\ ns[k].index = ms[k].index
                           /\ ns[k].kind \in {ms[k].kind, "gone"}
  BY DEF Variant, Alters
<1>3. \A k \in 0..Len(ns) : PathOf(ns, k) = PathOf(ms, k)
  <2> DEFINE S == {k \in 0..Len(ns) : PathOf(ns, k) = PathOf(ms, k)}
  <2>1. 0 \in S
    BY <1>1, PathUnfolds
  <2>2. ASSUME NEW k \in 1..Len(ns), ns[k].parent \in S PROVE k \in S
    <3>1. PathOf(ns, k) = Append(PathOf(ns, ns[k].parent), ns[k].name)
      BY <1>1, PathUnfolds
    <3>2. PathOf(ms, k) = Append(PathOf(ms, ms[k].parent), ms[k].name)
      BY <1>1, PathUnfolds
    <3> QED
      BY <1>1, <1>2, <2>2, <3>1, <3>2
  <2> HIDE DEF S
  <2>3. \A k \in 0..Len(ns) : k \in S
    BY <2>1, <2>2, FromTheRoot DEF Declared
  <2> QED
    BY <2>3 DEF S
<1>4. Usages(ns) \subseteq Usages(ms)
  BY <1>1, <1>2 DEF Usages
<1>5. \A k \in Usages(ns) : UsageId(ns, k) = UsageId(ms, k)
  <2> SUFFICES ASSUME NEW k \in Usages(ns) PROVE UsageId(ns, k) = UsageId(ms, k)
    OBVIOUS
  <2>1. k \in DOMAIN ns
    BY DEF Usages
  <2>2. ns[k].parent \in 0..Len(ns)
    BY <1>1, <2>1 DEF Declared, Forest
  <2>3. OwnerOf(ns, k) = OwnerOf(ms, k)
    BY <1>2, <1>3, <2>1, <2>2 DEF OwnerOf
  <2> HIDE DEF ms
  <2> QED
    BY <1>2, <2>1, <2>3 DEF UsageId
<1>6. RepeatsAreAlike(ms)
  OBVIOUS
<1> HIDE DEF ms
<1>7. \A k \in Usages(ns) : ns[k].parent = ms[k].parent
  BY <1>2 DEF Usages
<1> SUFFICES ASSUME NEW i \in Usages(ns), NEW k \in Usages(ns),
                    i # k, UsageId(ns, i) = UsageId(ns, k), UsageId(ns, k).kind \in Disambiguable
             PROVE  ns[i].parent = ns[k].parent /\ \A j \in Usages(ns) : ns[j].parent \notin {i, k}
  BY DEF RepeatsAreAlike
<1>8. i \in Usages(ms) /\ k \in Usages(ms) /\ UsageId(ms, i) = UsageId(ms, k) /\ UsageId(ms, k).kind \in Disambiguable
  BY <1>4, <1>5
<1>9. ms[i].parent = ms[k].parent /\ \A j \in Usages(ms) : ms[j].parent \notin {i, k}
  BY <1>6, <1>8 DEF RepeatsAreAlike
<1> QED
  BY <1>4, <1>7, <1>9

\* A member that an element lists is emitted, and names the element as its
\* owner, in every document of a module whose repeated references are alike,
\* after any recovery (emit.rs, build_package_member_ids,
\* render_owned_usage_tree_ids and
\* disambiguate_duplicate_source_position_usage_ids).
THEOREM MembersAreNamed ==
  Spec /\ RepeatsAreAlike(module.nodes) /\ []LegalDemands => []MembersNameTheirOwner
<1> DEFINE Alike == RepeatsAreAlike(module.nodes)
           Named == MembersNamed(document)
<1>1. Init => Named
  <2>1. Range(<<>>) = {}
    BY DEF Range
  <2> QED
    BY <2>1 DEF Init, MembersNamed
<1>2. Alike /\ [Next]_vars => Alike'
  <2> SUFFICES ASSUME Alike, [Next]_vars PROVE Alike'
    OBVIOUS
  <2>1. module' = module
    BY DEF Next, BuildTables, ResolveImports, BindAlias, FinishImports, ResolveDeclaration, ValidateMetadata, Emit,
           Recover, vars
  <2> QED
    BY <2>1
<1>3. IInv /\ Alike /\ Named /\ [Next]_vars => Named'
  <2> SUFFICES ASSUME IInv, Alike, Named, [Next]_vars PROVE Named'
    OBVIOUS
  <2>1. CASE document' = document
    BY <2>1
  <2>2. CASE document' = <<>>
    <3>1. Range(<<>>) = {}
      BY DEF Range
    <3> QED
      BY <2>2, <3>1 DEF MembersNamed
  <2>3. CASE document' = Elements(Working)
    <3>1. Working.nodes = nodes /\ Declared(nodes) /\ Declared(Working.nodes)
      BY WorkingIsDeclared
    <3>2. Declared(module.nodes)
      BY DeclarationsAreForest, ModulesAssumption DEF IInv, TypeOK, Declared, Forest
    <3>3. RepeatsAreAlike(nodes)
      BY <3>1, <3>2, VariantIsAlike DEF IInv
    <3>4. RepeatsAreAlike(Working.nodes)
      BY <3>1, <3>3
    <3>5. MembersNamed(Elements(Working))
      BY <3>1, <3>4, ElementsAreNamed
    <3> QED
      BY <2>3, <3>5
  <2> QED
    BY <2>1, <2>2, <2>3 DEF Next, BuildTables, ResolveImports, BindAlias, FinishImports, ResolveDeclaration,
                            ValidateMetadata, Emit, Recover, vars
<1>4. Named => MembersNameTheirOwner
  BY DEF MembersNamed, MembersNameTheirOwner
<1> HIDE DEF Alike, Named
<1> QED
  BY <1>1, <1>2, <1>3, <1>4, Invariance, PTL DEF Spec, Alike

---------------------------------------------------------------------------
(* Imported names *)

\* What an imported name stands for while the module is compiled is not a matter
\* of the order of the imports, whatever they are resolved to (imports.rs,
\* build_import_alias_map and bind_value_alias).
THEOREM NamesAreUnanimous == Spec => []AliasesAreUnanimous
<1> DEFINE Agreed == \A name : Promises!Unanimous(name)
<1>1. Init => Agreed
  BY DEF Init, Promises!Unanimous, Promises!Of, Empty
<1>2. Agreed /\ [Next]_vars => Agreed'
  <2> SUFFICES ASSUME Agreed, [Next]_vars, NEW name PROVE Promises!Unanimous(name)'
    OBVIOUS
  <2>1. CASE UNCHANGED <<made, bound, ambiguous>>
    <3>1. made' = made /\ bound' = bound /\ ambiguous' = ambiguous /\ Promises!Unanimous(name)
      BY <2>1
    <3> QED
      BY <3>1 DEF Promises!Unanimous, Promises!Of
  <2>2. CASE Collected
    BY <2>2 DEF Collected, ResetAliases, Empty, Promises!Unanimous, Promises!Of
  <2>3. CASE BindAlias
    <3>1. CASE Aliases!Bind(Head(todo).alias, Head(todo).target)
      <4>1. Promises!Aliases!Bind(Head(todo).alias, Head(todo).target)
        BY <3>1 DEF Aliases!Bind, Aliases!Without, Promises!Aliases!Bind, Promises!Aliases!Without
      <4> QED
        BY <4>1, Promises!BindingIsUnanimous
    <3> QED
      BY <2>1, <2>3, <3>1 DEF BindAlias
  <2> QED
    BY <2>1, <2>2, <2>3 DEF Next, BuildTables, NotCollected, ResolveImports, FinishImports, ResolveDeclaration,
                            ValidateMetadata, Emit, Recover, aliasVars, vars
<1>3. AliasesAreUnanimous <=> Agreed
  BY Promises!OfEveryName
     DEF AliasesAreUnanimous, Aliases!ValueAliasesAreUnanimous, Aliases!TargetsOf,
         Promises!Aliases!ValueAliasesAreUnanimous, Promises!Aliases!TargetsOf
<1> HIDE DEF Agreed
<1> QED
  BY <1>1, <1>2, <1>3, PTL DEF Spec

---------------------------------------------------------------------------
(* The promises of CompileRecovery *)

\* A declaration that is kept stands in one that is.
Closed == \A k \in Kept : nodes[k].parent \in Kept \cup {0}

\* What stands in a declaration stands in it with what is around it.
LEMMA InsideIsClosed ==
  ASSUME IInv, Closed, NEW d \in Kept
  PROVE  /\ d \in Inside(d) /\ Inside(d) \subseteq Kept /\ 0 \notin Inside(d)
         /\ \A k \in Kept \ {d} : k \in Inside(d) <=> nodes[k].parent \in Inside(d)
<1>1. Forest(nodes) /\ DOMAIN nodes = 1..Len(nodes)
  BY DeclarationsAreForest
<1>2. /\ Around(nodes)[0] = {0}
      /\ \A k \in Kept : k \in 1..Len(nodes) /\ Around(nodes)[k] = {k} \cup Around(nodes)[nodes[k].parent]
  BY <1>1, AroundUnfolds DEF Kept
<1>3. d # 0 /\ 0 \notin Kept
  BY <1>1, <1>2 DEF Forest
<1> QED
  BY <1>2, <1>3 DEF Inside, Closed

\* A package at the top of the module is around all of it.
LEMMA NothingIsLeft ==
  ASSUME IInv, OnePackageOrNone
  PROVE  Left = {}
<1> SUFFICES ASSUME FirstPackage # 0 PROVE Inside(0) \subseteq Inside(FirstPackage)
  BY DEF Left
<1>1. /\ Forest(nodes) /\ DOMAIN nodes = 1..Len(nodes) /\ DOMAIN module.nodes = 1..Len(nodes)
      /\ \A k \in 1..Len(nodes) : /\ nodes[k].parent = module.nodes[k].parent
                                  /\ nodes[k].kind \in {module.nodes[k].kind, "gone"}
  BY DeclarationsAreForest
<1> DEFINE tops == {k \in DOMAIN nodes : nodes[k].parent = 0}
           packages == {k \in DOMAIN nodes : nodes[k].parent = 0 /\ nodes[k].kind = "package"}
<1>2. tops = {1} /\ packages \subseteq {1}
  <2>1. packages # {}
    BY DEF FirstPackage
  <2>2. \A k \in packages : k \in DOMAIN module.nodes /\ module.nodes[k].parent = 0 /\ module.nodes[k].kind = "package"
    BY <1>1
  <2> QED
    BY <1>1, <2>1, <2>2 DEF OnePackageOrNone
<1>3. FirstPackage = 1
  <2>1. packages = {1}
    BY <1>2 DEF FirstPackage
  <2> QED
    BY <2>1 DEF FirstPackage
<1>4. \A k \in 1..Len(nodes) : 1 \in Around(nodes)[k]
  <2> DEFINE Outside == {k \in 1..Len(nodes) : 1 \notin Around(nodes)[k]}
  <2> SUFFICES ASSUME Outside # {} PROVE FALSE
    OBVIOUS
  <2>1. PICK k \in Outside : \A j \in Outside : k <= j
    <3>1. Outside \subseteq Nat
      BY <1>1 DEF Forest
    <3> QED
      BY <3>1, LeastExists
  <2>2. /\ Around(nodes)[k] = {k} \cup Around(nodes)[nodes[k].parent]
        /\ nodes[k].parent \in 0..(k - 1)
    BY <1>1, AroundUnfolds DEF Forest
  <2>3. nodes[k].parent # 0
    BY <1>1, <1>2, <2>2
  <2>4. nodes[k].parent \in 1..Len(nodes) /\ nodes[k].parent < k
    BY <1>1, <2>2, <2>3 DEF Forest
  <2>5. 1 \in Around(nodes)[nodes[k].parent]
    BY <1>1, <2>1, <2>4 DEF Forest
  <2> QED
    BY <2>1, <2>2, <2>5
<1> QED
  BY <1>1, <1>3, <1>4 DEF Inside, Kept

\* What a recovery does to the declarations and their types.
LEMMA RecoveredIsPruned ==
  ASSUME IInv, OnePackageOrNone, UNCHANGED module, nodes' = Recovered, fault.at \in Kept
  PROVE  /\ fault.what = "type" => Kept' = Kept /\ Typed' = Typed \ {fault.at}
         /\ fault.what # "type" => Kept' = Kept \ Inside(fault.at) /\ Typed' = Typed \ Inside(fault.at)
         /\ \A k \in DOMAIN nodes : nodes'[k].parent = nodes[k].parent
<1> DEFINE stripped == WithoutType(nodes, fault.at)
           pruned == Gone(nodes, Inside(fault.at))
<1>1. Variant(nodes, module) /\ Written(module)
  BY ModulesAssumption DEF IInv, TypeOK, Written, Fields
<1>2. /\ Variant(stripped, module) /\ DOMAIN stripped = DOMAIN nodes
      /\ \A k \in DOMAIN nodes : /\ stripped[k].kind = nodes[k].kind
                                 /\ stripped[k].ty = IF k = fault.at THEN <<>> ELSE nodes[k].ty
  BY <1>1, StrippedAlters
<1>3. /\ Variant(pruned, module) /\ DOMAIN pruned = DOMAIN nodes
      /\ \A k \in DOMAIN nodes : /\ pruned[k].kind = IF k \in Inside(fault.at) THEN "gone" ELSE nodes[k].kind
                                 /\ pruned[k].ty = nodes[k].ty
  BY <1>1, GoneAlters
<1> HIDE DEF stripped, pruned
<1>4. nodes' = Gone(IF fault.what = "type" THEN stripped ELSE pruned, {})
  BY NothingIsLeft DEF Recovered, stripped, pruned
<1>5. /\ Variant(nodes', module) /\ DOMAIN nodes' = DOMAIN nodes
      /\ \A k \in DOMAIN nodes :
           /\ nodes'[k].kind = IF fault.what = "type" THEN stripped[k].kind ELSE pruned[k].kind
           /\ nodes'[k].ty = IF fault.what = "type" THEN stripped[k].ty ELSE pruned[k].ty
  <2>1. CASE fault.what = "type"
    <3>1. nodes' = Gone(stripped, {})
      BY <1>4, <2>1
    <3>2. /\ Variant(Gone(stripped, {}), module) /\ DOMAIN Gone(stripped, {}) = DOMAIN stripped
          /\ \A k \in DOMAIN stripped : /\ Gone(stripped, {})[k].kind = stripped[k].kind
                                        /\ Gone(stripped, {})[k].ty = stripped[k].ty
      BY <1>1, <1>2, GoneAlters
    <3> QED
      BY <1>2, <2>1, <3>1, <3>2
  <2>2. CASE fault.what # "type"
    <3>1. nodes' = Gone(pruned, {})
      BY <1>4, <2>2
    <3>2. /\ Variant(Gone(pruned, {}), module) /\ DOMAIN Gone(pruned, {}) = DOMAIN pruned
          /\ \A k \in DOMAIN pruned : /\ Gone(pruned, {})[k].kind = pruned[k].kind
                                      /\ Gone(pruned, {})[k].ty = pruned[k].ty
      BY <1>1, <1>3, GoneAlters
    <3> QED
      BY <1>3, <2>2, <3>1, <3>2
  <2> QED
    BY <2>1, <2>2
<1>6. \A k \in DOMAIN nodes : nodes'[k].parent = nodes[k].parent
  BY <1>1, <1>5 DEF Variant, Alters
<1>7. fault.what = "type" => Kept' = Kept /\ Typed' = Typed \ {fault.at}
  BY <1>2, <1>5 DEF Kept, Typed
<1>8. fault.what # "type" => Kept' = Kept \ Inside(fault.at) /\ Typed' = Typed \ Inside(fault.at)
  BY <1>3, <1>5 DEF Kept, Typed
<1> QED
  BY <1>6, <1>7, <1>8

\* The declarations that are compiled, and where something was reported.
Same == UNCHANGED <<module, limit, nodes, reported, attempts>>

\* Where no declaration and no report changes, nothing does for the recovery.
LEMMA Unaltered ==
  ASSUME Same
  PROVE  /\ UNCHANGED Recovery!given
         /\ Kept' = Kept /\ Typed' = Typed
         /\ {f.at : f \in reported}' = {f.at : f \in reported} /\ attempts' = attempts
         /\ Closed <=> Closed'
  BY DEF Same, Recovery!given, Kept, Typed, Closed

\* A recovery drops the type of a declaration, or the declaration with what
\* stands in it, or gives up.
LEMMA RecoverRefines ==
  ASSUME IInv, Closed, OnePackageOrNone, Recover
  PROVE  Recovery!Next /\ Closed'
<1> DEFINE where == {f.at : f \in reported}
<1>0. PICK d \in DOMAIN module.nodes \cup {0} : d = fault.at
  BY DeclarationsAreForest DEF IInv, Forest
<1>1. /\ UNCHANGED <<module, limit>> /\ status = "running"
      /\ reported' = reported \cup {fault}
  BY DEF Recover, Diagnosis
<1>2. UNCHANGED Recovery!given
  BY <1>1 DEF Recovery!given
<1>3. where' = where \cup {d}
  BY <1>0, <1>1
<1>4. DOMAIN nodes = 1..Len(nodes) /\ DOMAIN module.nodes = DOMAIN nodes
  BY DeclarationsAreForest
<1>5. CASE fault.at \in Reach /\ nodes' = Recovered
  <2>1. d \in Kept /\ d \in DOMAIN module.nodes
    BY <1>0, <1>4, <1>5 DEF Reach, Inside, Kept
  <2>2. /\ fault.what = "type" => Kept' = Kept /\ Typed' = Typed \ {d}
        /\ fault.what # "type" => Kept' = Kept \ Inside(d) /\ Typed' = Typed \ Inside(d)
        /\ \A k \in DOMAIN nodes : nodes'[k].parent = nodes[k].parent
    BY <1>0, <1>1, <1>5, <2>1, RecoveredIsPruned
  <2>3. attempts' = attempts + 1 /\ status' = IF attempts + 1 = limit THEN "failed" ELSE "running"
    BY <1>1, <1>5 DEF Recover, Exhausted
  <2>4. Recovery!Again(d)
    BY <1>3, <2>3 DEF Recovery!Again
  <2>5. CASE fault.what = "type"
    <3>1. d \in Typed
      BY <1>0, <2>5 DEF IInv
    <3>2. Recovery!StripType(d)
      BY <1>1, <1>2, <2>2, <2>4, <2>5, <3>1 DEF Recovery!StripType, Typed
    <3>3. Closed'
      BY <2>2, <2>5 DEF Closed, Kept
    <3> QED
      BY <2>1, <3>2, <3>3 DEF Recovery!Next
  <2>6. CASE fault.what # "type"
    <3>1. /\ d \in Inside(d) /\ Inside(d) \subseteq Kept /\ 0 \notin Inside(d)
          /\ \A k \in Kept \ {d} : k \in Inside(d) <=> nodes[k].parent \in Inside(d)
      BY <2>1, InsideIsClosed
    <3>2. \A k \in Kept : k \in DOMAIN nodes /\ nodes[k].parent = module.nodes[k].parent
      BY DeclarationsAreForest DEF Kept
    <3>3. PICK R : R = Inside(d)
      OBVIOUS
    <3>4. Recovery!Prune(d, R)
      BY <1>1, <1>2, <1>4, <2>2, <2>4, <2>6, <3>1, <3>2, <3>3 DEF Recovery!Prune, Typed
    <3>5. Closed'
      BY <2>2, <2>6, <3>1, <3>2 DEF Closed
    <3> QED
      BY <2>1, <3>1, <3>3, <3>4, <3>5 DEF Recovery!Next
  <2> QED
    BY <2>5, <2>6
<1>6. CASE status' = "failed" /\ UNCHANGED <<nodes, attempts>>
  <2>1. Kept' = Kept /\ Typed' = Typed /\ Closed'
    BY <1>6 DEF Kept, Typed, Closed
  <2>2. Recovery!GiveUp(d)
    BY <1>1, <1>2, <1>3, <1>6, <2>1 DEF Recovery!GiveUp, Typed
  <2> QED
    BY <1>4, <2>1, <2>2 DEF Recovery!Next, Recovery!Places
<1> QED
  BY <1>5, <1>6 DEF Recover

\* A step of an attempt ends the compilation or is not seen.
LEMMA FailureRefines ==
  ASSUME NEW what, NEW id, NEW at, status = "running", Same, FailsFor(what, id, at)
  PROVE  Recovery!Overflow \/ UNCHANGED Recovery!vars
<1>1. /\ UNCHANGED Recovery!given /\ Kept' = Kept /\ Typed' = Typed
      /\ {f.at : f \in reported}' = {f.at : f \in reported} /\ attempts' = attempts
  BY Unaltered
<1>2. CASE status' = "overflow"
  BY <1>1, <1>2 DEF Recovery!Overflow, Typed
<1>3. CASE status' = status
  BY <1>1, <1>3 DEF Recovery!vars, Recovery!given, Typed
<1> QED
  BY <1>2, <1>3 DEF FailsFor

\* A module that cannot be collected is given up.
LEMMA UncollectedRefines ==
  ASSUME Closed, BuildTables, NotCollected
  PROVE  [Recovery!Next]_Recovery!vars /\ Closed'
<1>1. UNCHANGED <<module, limit, nodes, attempts>> /\ status = "running" /\ status' = "failed"
  BY DEF BuildTables, NotCollected
<1>2. PICK f : f = Fault("placeless", 0) /\ f.at = 0
  <2>1. Fault("placeless", 0).at = 0
    BY DEF Fault
  <2> QED
    BY <2>1, Zenon
<1>3. {g.at : g \in reported}' = {g.at : g \in reported} \cup {0}
  <2>1. reported' = reported \cup {f}
    BY <1>2 DEF NotCollected
  <2> QED
    BY <1>2, <2>1
<1>4. UNCHANGED Recovery!given /\ Kept' = Kept /\ Typed' = Typed /\ Closed'
  BY <1>1 DEF Recovery!given, Kept, Typed, Closed
<1>5. Recovery!GiveUp(0)
  BY <1>1, <1>3, <1>4 DEF Recovery!GiveUp, Typed
<1> QED
  BY <1>4, <1>5 DEF Recovery!Next, Recovery!Places

\* Every step of an attempt is a step of the recovery, or none.
LEMMA StepRefines ==
  ASSUME IInv, Closed, OnePackageOrNone, [Next]_vars
  PROVE  [Recovery!Next]_Recovery!vars /\ Closed'
<1> DEFINE Seen == Recovery!Finish \/ Recovery!Overflow \/ UNCHANGED Recovery!vars
<1>1. ASSUME Same, Seen
      PROVE  [Recovery!Next]_Recovery!vars /\ Closed'
  BY <1>1, Unaltered DEF Recovery!Next
<1>2. ASSUME Same, UNCHANGED status
      PROVE  Seen
  <2>1. /\ UNCHANGED Recovery!given /\ Kept' = Kept /\ Typed' = Typed
        /\ {f.at : f \in reported}' = {f.at : f \in reported} /\ attempts' = attempts
    BY <1>2, Unaltered
  <2> QED
    BY <1>2, <2>1 DEF Recovery!vars, Recovery!given, Typed
<1>3. CASE BindAlias \/ FinishImports \/ ValidateMetadata \/ UNCHANGED vars
  BY <1>1, <1>2, <1>3 DEF Same, BindAlias, FinishImports, ValidateMetadata, vars
<1>4. CASE ResolveImports
  <2>1. Same /\ status = "running"
    BY <1>4 DEF Same, ResolveImports
  <2>2. UNCHANGED status \/ \E what, id, at : FailsFor(what, id, at)
    BY <1>4 DEF ResolveImports
  <2> QED
    BY <1>1, <1>2, <2>1, <2>2, FailureRefines
<1>5. CASE ResolveDeclaration
  <2>1. Same /\ status = "running"
    BY <1>5 DEF Same, ResolveDeclaration
  <2>2. UNCHANGED status \/ \E what, id, at : FailsFor(what, id, at)
    BY <1>5 DEF ResolveDeclaration
  <2> QED
    BY <1>1, <1>2, <2>1, <2>2, FailureRefines
<1>6. CASE Emit
  <2>1. Same /\ status = "running"
    BY <1>6 DEF Same, Emit
  <2>2. CASE status' = IF reported = {} THEN "ok" ELSE "partial"
    <3>1. /\ UNCHANGED Recovery!given /\ Kept' = Kept /\ Typed' = Typed
          /\ {f.at : f \in reported}' = {f.at : f \in reported} /\ attempts' = attempts
      BY <2>1, Unaltered
    <3>2. reported = {} <=> {f.at : f \in reported} = {}
      OBVIOUS
    <3>3. Recovery!Finish
      BY <2>1, <2>2, <3>1, <3>2 DEF Recovery!Finish, Typed
    <3> QED
      BY <1>1, <2>1, <3>3
  <2>3. CASE UNCHANGED status
    BY <1>1, <1>2, <2>1, <2>3
  <2> QED
    BY <1>6, <2>2, <2>3 DEF Emit
<1>7. CASE Recover
  BY <1>7, RecoverRefines
<1>8. CASE BuildTables
  <2>1. CASE Collected
    BY <1>1, <1>2, <1>8, <2>1 DEF Same, BuildTables, Collected
  <2>2. CASE NotCollected
    BY <1>8, <2>2, UncollectedRefines
  <2> QED
    BY <1>8, <2>1, <2>2 DEF BuildTables
<1> QED
  BY <1>3, <1>4, <1>5, <1>6, <1>7, <1>8 DEF Next

\* The first attempt begins where the recovery does.
LEMMA InitRefines == Init => Recovery!Init /\ Closed
<1> SUFFICES ASSUME Init PROVE Recovery!Init /\ Closed
  OBVIOUS
<1>1. /\ module \in Modules /\ nodes = module.nodes
      /\ limit \in Nat \ {0} /\ attempts = 0 /\ status = "running"
      /\ reported \in {{}, {Fault("parse", 0)}}
  BY LimitsAssumption DEF Init
<1>2. /\ Len(nodes) \in Nat /\ DOMAIN nodes = 1..Len(nodes)
      /\ \A k \in 1..Len(nodes) : nodes[k].kind # "gone" /\ nodes[k].parent \in 0..(k - 1)
  BY <1>1, ModulesAssumption
<1>3. Kept = DOMAIN nodes
  BY <1>2 DEF Kept
<1>4. {f.at : f \in reported} \subseteq {0}
  BY <1>1 DEF Fault
<1>5. \A k \in DOMAIN nodes : nodes[k].parent \in DOMAIN nodes \cup {0}
  BY <1>2
<1>6. [k \in DOMAIN module.nodes |-> module.nodes[k].parent] \in [DOMAIN module.nodes -> DOMAIN module.nodes \cup {0}]
  BY <1>1, <1>5
<1>7. DOMAIN nodes \subseteq Nat \ {0}
  BY <1>2
<1> QED
  BY <1>1, <1>3, <1>4, <1>5, <1>6, <1>7 DEF Recovery!Init, Recovery!Places, Closed

\* The module that is compiled stays the one that was parsed.
LEMMA ModuleStays == [Next]_vars => module' = module
BY DEF Next, BuildTables, ResolveImports, BindAlias, FinishImports, ResolveDeclaration, ValidateMetadata, Emit,
       Recover, vars

LEMMA ModuleIsGiven == OnePackageOrNone /\ [Next]_vars => OnePackageOrNone'
BY ModuleStays DEF OnePackageOrNone

\* What the compilation of a module without a package, or all in one, does is
\* what CompileRecovery promises: every attempt that fails is reported where it
\* failed and costs this type or this declaration with what stands in it,
\* whatever the declarations are resolved to (parser.rs, the loop of
\* compile_sysml_module_with_resolver_context_report_with_limit,
\* strip_type_for_span and prune_declaration_for_span).
THEOREM ImplementsRecovery == Spec /\ OnePackageOrNone /\ []LegalDemands => CompilesAsPromised
<1> DEFINE Inv == IInv /\ Closed /\ OnePackageOrNone
<1>1. Init /\ OnePackageOrNone => Inv
  BY InitInv, InitRefines
<1>2. LegalDemands /\ Inv /\ [Next]_vars => Inv'
  <2> SUFFICES ASSUME LegalDemands, Inv, [Next]_vars PROVE Inv'
    OBVIOUS
  <2> QED
    BY ModuleIsGiven, StepInv, StepRefines
<1>3. Inv /\ [Next]_vars => [Recovery!Next]_Recovery!vars
  BY StepRefines
<1>4. Init => Recovery!Init
  BY InitRefines
<1> HIDE DEF Inv
<1> QED
  BY <1>1, <1>2, <1>3, <1>4, PTL DEF Spec, CompilesAsPromised, Recovery!Spec

\* CompileProofs proves of every recovery what then holds of the compilation:
\* a declaration that is left out was reported itself or stands in one that is
\* left out, "ok" is said only of a module compiled as it was written and
\* "partial" only with a report (parser.rs, prune_declaration_for_span and the
\* status of the report).
THEOREM PromisesHold ==
  Spec /\ OnePackageOrNone /\ []LegalDemands =>
    [](Recovery!NothingIsDroppedSilently /\ Recovery!OkMeansComplete)
<1>1. Recovery!Init => Promises!Init
  BY DEF Recovery!Init, Recovery!Places, Promises!Init, Promises!Places
<1>2. [Recovery!Next]_Recovery!vars => [Promises!Next]_Promises!vars
  BY DEF Recovery!Next, Recovery!Finish, Recovery!StripType, Recovery!Prune, Recovery!GiveUp, Recovery!Overflow,
         Recovery!Again, Recovery!given, Recovery!vars, Recovery!Places,
         Promises!Next, Promises!Finish, Promises!StripType, Promises!Prune, Promises!GiveUp, Promises!Overflow,
         Promises!Again, Promises!given, Promises!vars, Promises!Places
<1>3. Promises!NothingIsDroppedSilently => Recovery!NothingIsDroppedSilently
  BY DEF Recovery!NothingIsDroppedSilently, Promises!NothingIsDroppedSilently
<1>4. Promises!OkMeansComplete => Recovery!OkMeansComplete
  BY DEF Recovery!OkMeansComplete, Promises!OkMeansComplete
<1>5. CompilesAsPromised => Promises!Spec
  BY <1>1, <1>2, PTL DEF CompilesAsPromised, Recovery!Spec, Promises!Spec
<1> QED
  BY <1>3, <1>4, <1>5, ImplementsRecovery, Promises!DropsAreReported, Promises!OkIsComplete, PTL

\* In a module without a package, or all in one, an unresolved type that is the
\* first or only one of its usage costs no declaration; a further one does, and
\* so does what stands beside the first package (parser.rs, strip_type_for_span
\* and strip_type_in_declaration).
THEOREM FirstTypesAloneCostNothing ==
  Spec /\ []LegalDemands => []FirstTypesCostNothing
<1> DEFINE Whole == OnePackageOrNone /\ (\A f \in reported : f.what = "type") => Kept = DOMAIN nodes
<1>1. Init => Whole
  BY ModulesAssumption DEF Init, Kept
<1>2. IInv /\ Whole /\ [Next]_vars => Whole'
  <2> SUFFICES ASSUME IInv, OnePackageOrNone, Whole, [Next]_vars PROVE Whole'
    BY ModuleStays DEF OnePackageOrNone
  <2>1. CASE UNCHANGED <<nodes, reported>>
    BY <2>1 DEF Kept
  <2>2. CASE NotCollected
    <3>1. Fault("placeless", 0) \in reported' /\ Fault("placeless", 0).what # "type"
      BY <2>2 DEF NotCollected, Fault
    <3> QED
      BY <3>1
  <2>3. CASE Recover
    <3>1. UNCHANGED module /\ reported' = reported \cup {fault}
      BY <2>3 DEF Recover, Diagnosis
    <3>2. CASE UNCHANGED nodes
      BY <3>1, <3>2 DEF Kept
    <3>3. CASE fault.at \in Reach /\ nodes' = Recovered
      <4> SUFFICES ASSUME fault.what = "type" PROVE Kept' = Kept /\ DOMAIN nodes' = DOMAIN nodes
        BY <3>1
      <4>1. fault.at \in Kept
        BY <3>3 DEF Reach, Inside
      <4>2. Kept' = Kept
        BY <3>1, <3>3, <4>1, RecoveredIsPruned
      <4>3. DOMAIN nodes' = DOMAIN nodes
        BY <3>3 DEF Recovered, Gone, WithoutType
      <4> QED
        BY <4>2, <4>3
    <3> QED
      BY <2>3, <3>2, <3>3 DEF Recover
  <2> QED
    BY <2>1, <2>2, <2>3 DEF Next, BuildTables, Collected, ResolveImports, BindAlias, FinishImports, ResolveDeclaration,
                      ValidateMetadata, Emit, vars
<1>3. Whole => FirstTypesCostNothing
  BY DEF FirstTypesCostNothing
<1> HIDE DEF Whole
<1> QED
  BY <1>1, <1>2, <1>3, Invariance, PTL DEF Spec
=============================================================================
