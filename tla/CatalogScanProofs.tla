-------------------------- MODULE CatalogScanProofs --------------------------
(***************************************************************************)
(* Proofs about scans, for every finite set of paths, every separator and  *)
(* every size of batches.                                                  *)
(***************************************************************************)
EXTENDS CatalogScan, FiniteSetTheorems, SequenceTheorems, WellFoundedInduction, TLAPS

\* Every set of numbers has a least one, and so induction is sound.
LEMMA Least == ASSUME NEW T \in SUBSET Nat, T # {} PROVE \E n \in T : \A k \in T : n <= k
<1>1. PICK n \in T : \A k \in T : ~(<<k, n>> \in OpToRel(<, Nat))
  BY NatLessThanWellFounded, WFMin
<1>2. \A k \in T : ~(k < n)
  BY <1>1 DEF OpToRel
<1> QED BY <1>2

LEMMA NatSet == ASSUME NEW T \in SUBSET Nat, 0 \in T, \A n \in T : n + 1 \in T PROVE T = Nat
<1> SUFFICES ASSUME T # Nat PROVE FALSE
  OBVIOUS
<1>1. PICK n \in Nat \ T : \A k \in Nat \ T : n <= k
  BY Least
<1>2. n - 1 \in T
  BY <1>1
<1> QED BY <1>1, <1>2

-----------------------------------------------------------------------------
(* Strings.                                                                *)

Strings == Seq(Nat)

LEMMA SameString ==
    ASSUME NEW s \in Strings, NEW t \in Strings, Len(s) = Len(t), \A i \in 1 .. Len(s) : s[i] = t[i]
    PROVE  s = t
BY DEF Strings

LEMMA StringFacts ==
    \A s \in Strings : Len(s) \in Nat /\ (\A i \in 1 .. Len(s) : s[i] \in Nat) /\ (Len(s) = 0 <=> s = <<>>)
<1>1. ASSUME NEW s \in Strings PROVE Len(s) \in Nat /\ \A i \in 1 .. Len(s) : s[i] \in Nat
  BY DEF Strings
<1>2. ASSUME NEW s \in Strings PROVE Len(s) = 0 <=> s = <<>>
  <2>1. <<>> \in Strings /\ Len(<<>>) = 0
    BY DEF Strings
  <2> QED BY <1>1, <2>1, SameString
<1> QED BY <1>1, <1>2

LEMMA LessOrders ==
    /\ \A s \in Strings : ~Less(s, s)
    /\ \A s, t, u \in Strings : Less(s, t) /\ Less(t, u) => Less(s, u)
    /\ \A s, t \in Strings : s # t => Less(s, t) \/ Less(t, s)
    /\ \A s \in Strings : s # <<>> => Less(<<>>, s)
<1>1. ASSUME NEW s \in Strings PROVE ~Less(s, s)
  BY StringFacts DEF Less
<1>2. ASSUME NEW s \in Strings, NEW t \in Strings, NEW u \in Strings, Less(s, t), Less(t, u)
      PROVE  Less(s, u)
  <2>0. Len(s) \in Nat /\ Len(t) \in Nat /\ Len(u) \in Nat
    BY StringFacts
  <2>1. PICK n \in 0 .. Len(s) : /\ n < Len(t) /\ \A i \in 1 .. n : s[i] = t[i]
                                 /\ n = Len(s) \/ s[n + 1] < t[n + 1]
    BY <1>2 DEF Less
  <2>2. PICK m \in 0 .. Len(t) : /\ m < Len(u) /\ \A i \in 1 .. m : t[i] = u[i]
                                 /\ m = Len(t) \/ t[m + 1] < u[m + 1]
    BY <1>2 DEF Less
  <2>3. /\ n < Len(s) => s[n + 1] \in Nat
        /\ t[n + 1] \in Nat
        /\ m < Len(t) => t[m + 1] \in Nat
        /\ u[m + 1] \in Nat
        /\ n < Len(u) => u[n + 1] \in Nat
        /\ m < Len(s) => s[m + 1] \in Nat
    BY <2>0, <2>1, <2>2, StringFacts
  <2>4. CASE n <= m
    <3>1. n < Len(u) /\ \A i \in 1 .. n : s[i] = u[i]
      BY <2>0, <2>1, <2>2, <2>4
    <3>2. ASSUME n # Len(s) PROVE s[n + 1] < u[n + 1]
      <4>1. CASE n = m
        <5>1. s[n + 1] < t[n + 1] /\ t[n + 1] < u[n + 1]
          BY <2>0, <2>1, <2>2, <3>2, <4>1
        <5> QED BY <2>0, <2>1, <2>2, <2>3, <3>2, <4>1, <5>1
      <4>2. CASE n < m
        <5>1. s[n + 1] < t[n + 1] /\ t[n + 1] = u[n + 1]
          BY <2>0, <2>1, <2>2, <3>2, <4>2
        <5> QED BY <5>1
      <4> QED BY <2>0, <2>4, <4>1, <4>2
    <3> QED BY <2>0, <3>1, <3>2 DEF Less
  <2>5. CASE m < n
    <3>1. m < Len(s) /\ m \in 0 .. Len(s) /\ \A i \in 1 .. m : s[i] = u[i]
      BY <2>0, <2>1, <2>2, <2>5
    <3>2. s[m + 1] = t[m + 1] /\ t[m + 1] < u[m + 1]
      BY <2>0, <2>1, <2>2, <2>5
    <3> QED BY <2>2, <3>1, <3>2 DEF Less
  <2> QED BY <2>0, <2>4, <2>5
<1>3. ASSUME NEW s \in Strings, NEW t \in Strings, s # t PROVE Less(s, t) \/ Less(t, s)
  <2>0. Len(s) \in Nat /\ Len(t) \in Nat
    BY StringFacts
  <2> DEFINE D == {i \in Nat : i >= 1 /\ i <= Len(s) /\ i <= Len(t) /\ s[i] # t[i]}
  <2>1. CASE D = {}
    <3>1. \A i \in Nat : i >= 1 /\ i <= Len(s) /\ i <= Len(t) => s[i] = t[i]
      BY <2>1
    <3>2. Len(s) # Len(t)
      BY <1>3, <2>0, <3>1, SameString
    <3>3. CASE Len(s) < Len(t)
      <4>1. Len(s) \in 0 .. Len(s) /\ \A i \in 1 .. Len(s) : s[i] = t[i]
        BY <2>0, <3>1, <3>3
      <4> QED BY <3>3, <4>1 DEF Less
    <3>4. CASE Len(t) < Len(s)
      <4>1. Len(t) \in 0 .. Len(t) /\ \A i \in 1 .. Len(t) : t[i] = s[i]
        BY <2>0, <3>1, <3>4
      <4> QED BY <3>4, <4>1 DEF Less
    <3> QED BY <2>0, <3>2, <3>3, <3>4
  <2>2. CASE D # {}
    <3>1. PICK d \in D : \A k \in D : d <= k
      BY <2>2, Least
    <3> DEFINE n == d - 1
    <3>2. /\ n \in Nat /\ n + 1 = d /\ n < Len(s) /\ n < Len(t) /\ s[n + 1] # t[n + 1]
          /\ s[n + 1] \in Nat /\ t[n + 1] \in Nat
      BY <2>0, <3>1, StringFacts
    <3>3. \A i \in 1 .. n : s[i] = t[i]
      BY <2>0, <3>1, <3>2
    <3> HIDE DEF n, D
    <3>4. CASE s[n + 1] < t[n + 1]
      <4>1. n \in 0 .. Len(s)
        BY <2>0, <3>2
      <4> QED BY <3>2, <3>3, <3>4, <4>1 DEF Less
    <3>5. CASE t[n + 1] < s[n + 1]
      <4>1. n \in 0 .. Len(t)
        BY <2>0, <3>2
      <4> QED BY <3>2, <3>3, <3>5, <4>1 DEF Less
    <3> QED BY <3>2, <3>4, <3>5
  <2> QED BY <2>1, <2>2
<1>4. ASSUME NEW s \in Strings, s # <<>> PROVE Less(<<>>, s)
  <2>1. Len(s) \in Nat /\ Len(s) > 0 /\ Len(<<>>) = 0
    BY <1>4, StringFacts
  <2> QED BY <2>1 DEF Less
<1> QED BY <1>1, <1>2, <1>3, <1>4

-----------------------------------------------------------------------------
(* Paths.                                                                  *)

LEMMA NameFacts ==
    \A s \in Names : /\ s \in Strings /\ s # <<>> /\ Len(s) \in Nat \ {0}
                     /\ \A i \in 1 .. Len(s) : s[i] \in Nat /\ s[i] # Slash
<1> SUFFICES ASSUME NEW s \in Names
             PROVE  /\ s \in Strings /\ s # <<>> /\ Len(s) \in Nat \ {0}
                    /\ \A i \in 1 .. Len(s) : s[i] \in Nat /\ s[i] # Slash
  OBVIOUS
<1>1. s \in Seq(Nat \ {Slash}) /\ s # <<>>
  BY DEF Names
<1>2. s \in Strings /\ \A i \in 1 .. Len(s) : s[i] \in Nat /\ s[i] # Slash
  BY <1>1 DEF Strings
<1> QED BY <1>1, <1>2, StringFacts

LEMMA PathFacts ==
    \A p \in Paths :
        /\ p \in Seq(Names) /\ Len(p) \in Nat \ {0}
        /\ \A i \in 1 .. Len(p) : p[i] \in Names
        /\ Last(p) = p[Len(p)] /\ Last(p) \in Names
        /\ Front(p) = Root <=> Len(p) = 1
        /\ Len(p) # 1 => /\ Front(p) \in Paths /\ Len(Front(p)) = Len(p) - 1
                         /\ \A i \in 1 .. Len(p) - 1 : Front(p)[i] = p[i]
<1> SUFFICES ASSUME NEW p \in Paths
             PROVE  /\ p \in Seq(Names) /\ Len(p) \in Nat \ {0}
                    /\ \A i \in 1 .. Len(p) : p[i] \in Names
                    /\ Last(p) = p[Len(p)] /\ Last(p) \in Names
                    /\ Front(p) = Root <=> Len(p) = 1
                    /\ Len(p) # 1 => /\ Front(p) \in Paths /\ Len(Front(p)) = Len(p) - 1
                                     /\ \A i \in 1 .. Len(p) - 1 : Front(p)[i] = p[i]
  OBVIOUS
<1>1. p \in Seq(Names) /\ p # Root /\ Front(p) \in Paths \cup {Root}
  BY PathsAssumption
<1>2. Len(p) \in Nat /\ \A i \in 1 .. Len(p) : p[i] \in Names
  BY <1>1
<1>3. Len(p) # 0
  <2>1. Len(p) = 0 => p = <<>>
    BY <1>1
  <2> QED BY <1>1, <2>1 DEF Root
<1>4. Last(p) = p[Len(p)] /\ Last(p) \in Names
  BY <1>2, <1>3 DEF Last
<1>5. /\ Len(Front(p)) = Len(p) - 1
      /\ \A i \in 1 .. Len(p) - 1 : Front(p)[i] = p[i]
  <2>1. /\ Front(p) = SubSeq(p, 1, Len(p) - 1) /\ Len(p) - 1 \in Int
        /\ \A i \in 1 .. Len(p) - 1 : p[i] \in Names
    BY <1>2, <1>3 DEF Front
  <2>2. /\ Len(Front(p)) = IF 1 <= Len(p) - 1 THEN (Len(p) - 1) - 1 + 1 ELSE 0
        /\ \A i \in 1 .. (Len(p) - 1) - 1 + 1 : Front(p)[i] = p[1 + i - 1]
    BY <2>1, SubSeqProperties
  <2>3. Len(Front(p)) = Len(p) - 1
    <3>1. PICK n \in Nat \ {0} : n = Len(p)
      BY <1>2, <1>3
    <3>2. (IF 1 <= n - 1 THEN (n - 1) - 1 + 1 ELSE 0) = n - 1
      OBVIOUS
    <3> QED BY <2>2, <3>1, <3>2
  <2>4. ASSUME NEW i \in 1 .. Len(p) - 1 PROVE Front(p)[i] = p[i]
    BY <1>2, <2>2
  <2> QED BY <2>3, <2>4
<1>6. Front(p) \in Seq(Names)
  BY <1>1, <1>2, <1>3 DEF Front
<1>7. Front(p) = Root <=> Len(p) = 1
  <2>1. Len(Root) = 0
    BY DEF Root
  <2>2. Len(Front(p)) = 0 => Front(p) = <<>>
    BY <1>6
  <2> QED BY <1>2, <1>5, <2>1, <2>2 DEF Root
<1> QED BY <1>1, <1>2, <1>3, <1>4, <1>5, <1>7

LEMMA SamePath ==
    ASSUME NEW p \in Paths, NEW q \in Paths, Len(p) = Len(q), \A i \in 1 .. Len(p) : p[i] = q[i]
    PROVE  p = q
BY PathFacts

LEMMA PrefixFacts ==
    /\ \A p, q \in Paths : IsPrefix(p, q) <=> Len(p) <= Len(q) /\ \A i \in 1 .. Len(p) : p[i] = q[i]
    /\ \A p \in Paths : IsPrefix(p, p)
    /\ \A p, q \in Paths : IsPrefix(p, q) /\ p # q => Len(p) < Len(q) /\ IsPrefix(p, Front(q))
    /\ \A p, q, s \in Paths : IsPrefix(p, q) /\ IsPrefix(q, s) => IsPrefix(p, s)
<1>1. ASSUME NEW p \in Paths, NEW q \in Paths
      PROVE  IsPrefix(p, q) <=> Len(p) <= Len(q) /\ \A i \in 1 .. Len(p) : p[i] = q[i]
  BY PathFacts DEF IsPrefix
<1>2. \A p \in Paths : IsPrefix(p, p)
  BY <1>1, PathFacts
<1>3. ASSUME NEW p \in Paths, NEW q \in Paths, IsPrefix(p, q), p # q
      PROVE  Len(p) < Len(q) /\ IsPrefix(p, Front(q))
  <2>1. Len(p) <= Len(q) /\ \A i \in 1 .. Len(p) : p[i] = q[i]
    BY <1>1, <1>3
  <2>2. Len(p) < Len(q)
    BY <1>3, <2>1, SamePath, PathFacts
  <2>3. /\ Front(q) \in Paths /\ Len(p) <= Len(Front(q))
        /\ \A i \in 1 .. Len(p) : p[i] = Front(q)[i]
    BY <2>1, <2>2, PathFacts
  <2> QED BY <1>1, <2>2, <2>3
<1>4. ASSUME NEW p \in Paths, NEW q \in Paths, NEW s \in Paths, IsPrefix(p, q), IsPrefix(q, s)
      PROVE  IsPrefix(p, s)
  <2>1. Len(p) \in Nat /\ Len(q) \in Nat /\ Len(s) \in Nat
    BY PathFacts
  <2>2. Len(p) <= Len(q) /\ \A i \in 1 .. Len(p) : p[i] = q[i]
    BY <1>1, <1>4
  <2>3. Len(q) <= Len(s) /\ \A i \in 1 .. Len(q) : q[i] = s[i]
    BY <1>1, <1>4
  <2>4. \A i \in 1 .. Len(p) : p[i] = s[i]
    BY <2>1, <2>2, <2>3
  <2> QED BY <1>1, <2>1, <2>2, <2>3, <2>4
<1> QED BY <1>1, <1>2, <1>3, <1>4

\* Between a directory and what is below it lies one of its entries.
LEMMA EntryBetween ==
    ASSUME NEW p \in Paths, NEW q \in Paths, IsPrefix(p, q), p # q
    PROVE  \E e \in Paths : Front(e) = p /\ IsPrefix(e, q)
<1> DEFINE Above == {e \in Paths : IsPrefix(e, q) /\ Len(e) > Len(p)}
           T == {n \in Nat : \E e \in Above : Len(e) = n}
<1>1. q \in Above /\ Len(p) < Len(q)
  BY PrefixFacts
<1>2. PICK n \in T : \A k \in T : n <= k
  <2>1. T # {} /\ T \in SUBSET Nat
    BY <1>1, PathFacts
  <2> HIDE DEF T
  <2> QED BY <2>1, Least
<1>3. PICK e \in Above : Len(e) = n
  BY <1>2
<1>4. Len(e) # 1 /\ Len(e) > Len(p) /\ IsPrefix(e, q)
  BY <1>3, PathFacts
<1>5. /\ Front(e) \in Paths /\ Len(Front(e)) = Len(e) - 1
      /\ \A i \in 1 .. Len(e) - 1 : Front(e)[i] = e[i]
  BY <1>3, <1>4, PathFacts
<1>6. Len(Front(e)) = Len(p)
  <2> SUFFICES ASSUME Len(Front(e)) > Len(p) PROVE FALSE
    BY <1>4, <1>5, PathFacts
  <2>1. IsPrefix(Front(e), q)
    <3>1. Len(e) <= Len(q) /\ \A i \in 1 .. Len(e) : e[i] = q[i]
      BY <1>3, PrefixFacts
    <3>2. Len(Front(e)) <= Len(q) /\ \A i \in 1 .. Len(Front(e)) : Front(e)[i] = q[i]
      BY <1>3, <1>5, <3>1, PathFacts
    <3> QED BY <1>5, <3>2, PrefixFacts
  <2>2. Len(e) - 1 \in T
    BY <1>5, <2>1, PathFacts
  <2> QED BY <1>2, <1>3, <2>2
<1>7. Front(e) = p
  <2>1. \A i \in 1 .. Len(p) : p[i] = q[i]
    BY PrefixFacts
  <2>2. \A i \in 1 .. Len(e) : e[i] = q[i]
    BY <1>3, <1>4, PrefixFacts
  <2>3. \A i \in 1 .. Len(p) : Front(e)[i] = p[i]
    BY <1>3, <1>5, <1>6, <2>1, <2>2, PathFacts
  <2> QED BY <1>5, <1>6, <2>3, SamePath
<1> QED BY <1>3, <1>7

-----------------------------------------------------------------------------
(* The texts of paths.  Two paths never have the same.                     *)

Join(s, name) == s \o <<Slash>> \o name

Texts(p) == CHOOSE text : text = [n \in DOMAIN p |-> IF n = 1 THEN p[1] ELSE Join(text[n - 1], p[n])]

TextsUpTo(p, k) ==
    {f \in [1 .. k -> Strings] : \A n \in 1 .. k : f[n] = IF n = 1 THEN p[1] ELSE Join(f[n - 1], p[n])}

LEMMA TextIs == ASSUME NEW p PROVE Text(p) = Texts(p)[Len(p)]
BY DEF Text, Texts, Join

LEMMA JoinFacts ==
    ASSUME NEW s \in Strings, NEW a \in Names
    PROVE  /\ Join(s, a) \in Strings /\ Len(Join(s, a)) = Len(s) + 1 + Len(a)
           /\ \A i \in 1 .. Len(s) : Join(s, a)[i] = s[i]
           /\ Join(s, a)[Len(s) + 1] = Slash
           /\ \A i \in 1 .. Len(a) : Join(s, a)[Len(s) + 1 + i] = a[i]
<1>1. /\ s \in Seq(Nat) /\ Len(s) \in Nat /\ a \in Seq(Nat) /\ Len(a) \in Nat
      /\ <<Slash>> \in Seq(Nat) /\ Len(<<Slash>>) = 1 /\ <<Slash>>[1] = Slash
  BY NameFacts, StringFacts, SlashAssumption DEF Strings
<1> DEFINE u == s \o <<Slash>>
<1>2. /\ u \in Seq(Nat) /\ Len(u) = Len(s) + 1
      /\ \A i \in 1 .. Len(s) : u[i] = s[i]
      /\ u[Len(s) + 1] = Slash
  BY <1>1
<1> HIDE DEF u
<1>3. /\ u \o a \in Seq(Nat) /\ Len(u \o a) = Len(u) + Len(a)
      /\ \A i \in 1 .. Len(u) : (u \o a)[i] = u[i]
      /\ \A i \in 1 .. Len(a) : (u \o a)[Len(u) + i] = a[i]
  <2>1. u \o a \in Seq(Nat) /\ Len(u \o a) = Len(u) + Len(a)
    BY <1>1, <1>2, ConcatProperties
  <2>2. \A i \in 1 .. Len(u) + Len(a) : (u \o a)[i] = IF i <= Len(u) THEN u[i] ELSE a[i - Len(u)]
    BY <1>1, <1>2, ConcatProperties
  <2>3. ASSUME NEW i \in 1 .. Len(u) PROVE (u \o a)[i] = u[i]
    BY <1>1, <1>2, <2>2
  <2>4. ASSUME NEW i \in 1 .. Len(a) PROVE (u \o a)[Len(u) + i] = a[i]
    <3>1. PICK n \in Nat : n = Len(u)
      BY <1>1, <1>2
    <3>2. n + i \in 1 .. n + Len(a) /\ ~(n + i <= n) /\ (n + i) - n = i
      BY <1>1, <3>1
    <3> QED BY <2>2, <3>1, <3>2
  <2> QED BY <2>1, <2>3, <2>4
<1>4. Join(s, a) = u \o a
  BY DEF Join, u
<1> QED BY <1>1, <1>2, <1>3, <1>4 DEF Strings

LEMMA JoinOnce ==
    ASSUME NEW s \in Strings, NEW a \in Names, NEW t \in Strings, NEW b \in Names
    PROVE  Join(s, a) = Join(t, b) => s = t /\ a = b
<1>1. Len(s) \in Nat /\ Len(a) \in Nat \ {0} /\ Len(t) \in Nat /\ Len(b) \in Nat \ {0}
  BY NameFacts, StringFacts
<1>2. ASSUME NEW x \in Strings, NEW c \in Names, NEW y \in Strings, NEW d \in Names,
             Join(x, c) = Join(y, d)
      PROVE  ~(Len(x) < Len(y))
  <2> SUFFICES ASSUME Len(x) < Len(y) PROVE FALSE
    OBVIOUS
  <2>1. Len(x) \in Nat /\ Len(c) \in Nat \ {0} /\ Len(y) \in Nat /\ Len(d) \in Nat \ {0}
    BY NameFacts, StringFacts
  <2>2. Len(x) + 1 + Len(c) = Len(y) + 1 + Len(d)
    <3>1. Len(Join(x, c)) = Len(x) + 1 + Len(c)
      BY JoinFacts
    <3>2. Len(Join(y, d)) = Len(y) + 1 + Len(d)
      BY JoinFacts
    <3> QED BY <1>2, <3>1, <3>2
  <2> DEFINE i == Len(y) - Len(x)
  <2>3. i \in 1 .. Len(c) /\ Len(x) + 1 + i = Len(y) + 1
    BY <2>1, <2>2
  <2>4. Join(x, c)[Len(x) + 1 + i] = c[i] /\ c[i] # Slash
    BY <2>3, JoinFacts, NameFacts
  <2>5. Join(y, d)[Len(y) + 1] = Slash
    BY JoinFacts
  <2> QED BY <1>2, <2>3, <2>4, <2>5
<1> SUFFICES ASSUME Join(s, a) = Join(t, b) PROVE s = t /\ a = b
  OBVIOUS
<1>3. Len(s) = Len(t)
  BY <1>1, <1>2
<1>4. Len(a) = Len(b)
  <2>1. Len(Join(s, a)) = Len(s) + 1 + Len(a)
    BY JoinFacts
  <2>2. Len(Join(t, b)) = Len(t) + 1 + Len(b)
    BY JoinFacts
  <2> QED BY <1>1, <1>3, <2>1, <2>2
<1>5. s = t
  <2>1. \A i \in 1 .. Len(s) : Join(s, a)[i] = s[i]
    BY JoinFacts
  <2>2. \A i \in 1 .. Len(t) : Join(t, b)[i] = t[i]
    BY JoinFacts
  <2> QED BY <1>3, <2>1, <2>2, SameString
<1>6. a = b
  <2>1. a \in Strings /\ b \in Strings
    BY NameFacts
  <2>2. \A i \in 1 .. Len(a) : Join(s, a)[Len(s) + 1 + i] = a[i]
    BY JoinFacts
  <2>3. \A i \in 1 .. Len(b) : Join(t, b)[Len(t) + 1 + i] = b[i]
    BY JoinFacts
  <2>4. \A i \in 1 .. Len(a) : a[i] = b[i]
    BY <1>3, <1>4, <2>2, <2>3
  <2> QED BY <1>4, <2>1, <2>4, SameString
<1> QED BY <1>5, <1>6

LEMMA JoinIsNoName ==
    ASSUME NEW s \in Strings, NEW a \in Names PROVE Join(s, a) \notin Names /\ Join(s, a) # <<>>
<1>1. Len(s) \in Nat /\ Len(a) \in Nat
  BY NameFacts, StringFacts
<1>2. Len(Join(s, a)) \in Nat /\ Len(s) + 1 \in 1 .. Len(Join(s, a)) /\ Join(s, a)[Len(s) + 1] = Slash
  BY <1>1, JoinFacts
<1>3. Join(s, a) \in Strings
  BY JoinFacts
<1>4. Join(s, a) # <<>>
  BY <1>2, <1>3, StringFacts
<1> QED BY <1>2, <1>4, NameFacts

LEMMA TextsFacts ==
    ASSUME NEW p \in Paths
    PROVE  /\ \A n \in 1 .. Len(p) : Texts(p)[n] \in Strings
           /\ Texts(p)[1] = p[1]
           /\ \A n \in 2 .. Len(p) : Texts(p)[n] = Join(Texts(p)[n - 1], p[n])
<1>0. DOMAIN p = 1 .. Len(p) /\ Len(p) \in Nat \ {0} /\ \A n \in 1 .. Len(p) : p[n] \in Names
  BY PathFacts
<1> DEFINE T == {k \in Nat : k <= Len(p) => TextsUpTo(p, k) # {}}
<1>1. 0 \in T
  <2> DEFINE f == [n \in 1 .. 0 |-> <<>>]
  <2>1. f \in TextsUpTo(p, 0)
    BY DEF TextsUpTo
  <2> QED BY <2>1
<1>2. ASSUME NEW k \in T PROVE k + 1 \in T
  <2> SUFFICES ASSUME k + 1 <= Len(p) PROVE TextsUpTo(p, k + 1) # {}
    OBVIOUS
  <2>1. PICK f \in TextsUpTo(p, k) : TRUE
    BY <1>0
  <2>2. /\ \A n \in 1 .. k : f[n] \in Strings
        /\ \A n \in 1 .. k : f[n] = IF n = 1 THEN p[1] ELSE Join(f[n - 1], p[n])
    BY <2>1 DEF TextsUpTo
  <2> DEFINE g == [n \in 1 .. (k + 1) |-> IF n = 1 THEN p[1] ELSE Join(f[n - 1], p[n])]
  <2>3. ASSUME NEW n \in 1 .. (k + 1) PROVE g[n] \in Strings
    <3>1. CASE n = 1
      BY <1>0, <3>1, NameFacts
    <3>2. CASE n # 1
      <4>1. n - 1 \in 1 .. k /\ n \in 1 .. Len(p)
        BY <1>0, <3>2
      <4> QED BY <1>0, <2>2, <3>2, <4>1, JoinFacts
    <3> QED BY <3>1, <3>2
  <2>4. \A n \in 1 .. k : g[n] = f[n]
    BY <2>2
  <2>5. ASSUME NEW n \in 1 .. (k + 1) PROVE g[n] = IF n = 1 THEN p[1] ELSE Join(g[n - 1], p[n])
    <3>1. n # 1 => n - 1 \in 1 .. k
      OBVIOUS
    <3> QED BY <2>4, <3>1
  <2>6. g \in TextsUpTo(p, k + 1)
    <3> HIDE DEF g
    <3>1. g = [n \in 1 .. (k + 1) |-> g[n]]
      BY DEF g
    <3> QED BY <2>3, <2>5, <3>1 DEF TextsUpTo
  <2> QED BY <2>6
<1> HIDE DEF T
<1>3. T = Nat
  BY <1>1, <1>2, NatSet DEF T
<1>4. PICK f \in TextsUpTo(p, Len(p)) : TRUE
  BY <1>0, <1>3 DEF T
<1>5. f = [n \in DOMAIN p |-> IF n = 1 THEN p[1] ELSE Join(f[n - 1], p[n])]
  BY <1>0, <1>4 DEF TextsUpTo
<1>6. Texts(p) = [n \in DOMAIN p |-> IF n = 1 THEN p[1] ELSE Join(Texts(p)[n - 1], p[n])]
  BY <1>5 DEF Texts
<1>7. \A n \in 1 .. Len(p) : Texts(p)[n] = IF n = 1 THEN p[1] ELSE Join(Texts(p)[n - 1], p[n])
  BY <1>0, <1>6
<1> DEFINE U == {k \in Nat : k + 1 <= Len(p) => Texts(p)[k + 1] \in Strings}
<1>8. 0 \in U
  BY <1>0, <1>7, NameFacts
<1>9. ASSUME NEW k \in U PROVE k + 1 \in U
  <2> SUFFICES ASSUME k + 1 + 1 <= Len(p) PROVE Texts(p)[k + 1 + 1] \in Strings
    OBVIOUS
  <2>1. k + 1 + 1 \in 1 .. Len(p) /\ k + 1 + 1 # 1 /\ (k + 1 + 1) - 1 = k + 1 /\ k + 1 <= Len(p)
    BY <1>0
  <2>2. Texts(p)[k + 1 + 1] = Join(Texts(p)[k + 1], p[k + 1 + 1])
    BY <1>7, <2>1
  <2> QED BY <1>0, <2>1, <2>2, JoinFacts
<1> HIDE DEF U
<1>10. U = Nat
  BY <1>8, <1>9, NatSet DEF U
<1>11. ASSUME NEW n \in 1 .. Len(p) PROVE Texts(p)[n] \in Strings
  <2>1. n - 1 \in U /\ n - 1 + 1 = n
    BY <1>0, <1>10
  <2> QED BY <1>0, <2>1 DEF U
<1> QED BY <1>0, <1>7, <1>11

LEMMA TextFacts ==
    /\ \A p \in Paths : Text(p) \in Strings /\ Text(p) # <<>>
    /\ \A p, q \in Paths : Text(p) = Text(q) => p = q
<1>1. ASSUME NEW p \in Paths PROVE Text(p) \in Strings /\ Text(p) # <<>>
  <2>0. Len(p) \in Nat \ {0} /\ \A n \in 1 .. Len(p) : p[n] \in Names
    BY PathFacts
  <2>1. Text(p) \in Strings
    BY <2>0, TextIs, TextsFacts
  <2>2. CASE Len(p) = 1
    BY <2>0, <2>2, TextIs, TextsFacts, NameFacts
  <2>3. CASE Len(p) # 1
    <3>1. Len(p) \in 2 .. Len(p) /\ Len(p) - 1 \in 1 .. Len(p)
      BY <2>0, <2>3
    <3> QED BY <2>0, <2>1, <3>1, TextIs, TextsFacts, JoinIsNoName
  <2> QED BY <2>1, <2>2, <2>3
<1>2. ASSUME NEW p \in Paths, NEW q \in Paths, Text(p) = Text(q) PROVE p = q
  <2>0. /\ Len(p) \in Nat \ {0} /\ \A n \in 1 .. Len(p) : p[n] \in Names
        /\ Len(q) \in Nat \ {0} /\ \A n \in 1 .. Len(q) : q[n] \in Names
    BY PathFacts
  <2> DEFINE Same(n, m) == n = m /\ \A i \in 1 .. n : p[i] = q[i]
             T == {k \in Nat : k + 1 <= Len(p) =>
                    \A m \in 1 .. Len(q) : Texts(p)[k + 1] = Texts(q)[m] => Same(k + 1, m)}
  <2>1. 0 \in T
    <3> SUFFICES ASSUME NEW m \in 1 .. Len(q), Texts(p)[1] = Texts(q)[m] PROVE Same(1, m)
      OBVIOUS
    <3>1. Texts(p)[1] = p[1] /\ p[1] \in Names
      BY <2>0, TextsFacts
    <3>2. m = 1
      <4> SUFFICES ASSUME m # 1 PROVE FALSE
        OBVIOUS
      <4>1. m \in 2 .. Len(q) /\ m - 1 \in 1 .. Len(q)
        BY <2>0
      <4>2. /\ Texts(q)[m] = Join(Texts(q)[m - 1], q[m])
            /\ Texts(q)[m - 1] \in Strings /\ q[m] \in Names
        BY <2>0, <4>1, TextsFacts
      <4> QED BY <3>1, <4>2, JoinIsNoName
    <3>3. Texts(q)[1] = q[1]
      BY TextsFacts
    <3>4. p[1] = q[1]
      BY <3>1, <3>2, <3>3
    <3> QED BY <3>2, <3>4
  <2>2. ASSUME NEW k \in T PROVE k + 1 \in T
    <3> SUFFICES ASSUME k + 1 + 1 <= Len(p), NEW m \in 1 .. Len(q),
                        Texts(p)[k + 1 + 1] = Texts(q)[m]
                 PROVE  Same(k + 1 + 1, m)
      OBVIOUS
    <3>1. /\ k + 1 + 1 \in 2 .. Len(p) /\ (k + 1 + 1) - 1 = k + 1 /\ k + 1 \in 1 .. Len(p)
          /\ k + 1 <= Len(p)
      BY <2>0
    <3>3. Texts(p)[k + 1 + 1] = Join(Texts(p)[k + 1], p[k + 1 + 1])
      BY <3>1, TextsFacts
    <3>4. m \in 2 .. Len(q) /\ m - 1 \in 1 .. Len(q)
      <4> SUFFICES ASSUME m = 1 PROVE FALSE
        BY <2>0
      <4>1. Texts(q)[m] \in Names
        BY <2>0, TextsFacts
      <4>2. Texts(p)[k + 1] \in Strings /\ p[k + 1 + 1] \in Names
        BY <2>0, <3>1, TextsFacts
      <4> QED BY <3>3, <4>1, <4>2, JoinIsNoName
    <3>5. Texts(q)[m] = Join(Texts(q)[m - 1], q[m])
      BY <3>4, TextsFacts
    <3>6. /\ Texts(p)[k + 1] \in Strings /\ p[k + 1 + 1] \in Names
          /\ Texts(q)[m - 1] \in Strings /\ q[m] \in Names
      BY <2>0, <3>1, <3>4, TextsFacts
    <3>7. Texts(p)[k + 1] = Texts(q)[m - 1] /\ p[k + 1 + 1] = q[m]
      <4>1. Join(Texts(p)[k + 1], p[k + 1 + 1]) = Join(Texts(q)[m - 1], q[m])
        BY <3>3, <3>5
      <4> QED BY <3>6, <4>1, JoinOnce
    <3>8. Same(k + 1, m - 1)
      BY <3>1, <3>4, <3>7
    <3> QED BY <3>4, <3>7, <3>8
  <2> HIDE DEF T
  <2>3. T = Nat
    BY <2>1, <2>2, NatSet DEF T
  <2>4. PICK k \in Nat : k + 1 = Len(p)
    <3>1. Len(p) - 1 \in Nat /\ Len(p) - 1 + 1 = Len(p)
      BY <2>0
    <3> QED BY <3>1
  <2>5. Texts(p)[Len(p)] = Texts(q)[Len(q)]
    BY <1>2, TextIs
  <2>6. Same(Len(p), Len(q))
    <3>1. k \in T /\ k + 1 <= Len(p) /\ Len(q) \in 1 .. Len(q)
      BY <2>0, <2>3, <2>4
    <3>2. \A m \in 1 .. Len(q) : Texts(p)[k + 1] = Texts(q)[m] => Same(k + 1, m)
      BY <3>1 DEF T
    <3> QED BY <2>4, <2>5, <3>1, <3>2
  <2> QED BY <2>6, SamePath
<1> QED BY <1>1, <1>2

-----------------------------------------------------------------------------
(* The recursion of the walk.  What is below the entries that are left is  *)
(* less at every call.                                                     *)

Below(s) == {q \in Paths : \E p \in s : IsPrefix(p, q)}
Size(s) == Cardinality(Below(s))

LEMMA SubsetFacts ==
    /\ \A s \in SUBSET Paths : IsFiniteSet(s) /\ Cardinality(s) \in Nat /\ (Cardinality(s) = 0 <=> s = {})
    /\ \A s \in SUBSET Paths : \A x \in s : Cardinality(s \ {x}) = Cardinality(s) - 1
    /\ \A s \in SUBSET Paths : \A r \in SUBSET s : Cardinality(r) <= Cardinality(s)
<1>1. ASSUME NEW s \in SUBSET Paths
      PROVE  IsFiniteSet(s) /\ Cardinality(s) \in Nat
  BY PathsAssumption, FS_Subset, FS_CardinalityType
<1>2. \A s \in SUBSET Paths : Cardinality(s) = 0 <=> s = {}
  BY <1>1, FS_EmptySet
<1>3. \A s \in SUBSET Paths : \A x \in s : Cardinality(s \ {x}) = Cardinality(s) - 1
  BY <1>1, FS_RemoveElement
<1>4. \A s \in SUBSET Paths : \A r \in SUBSET s : Cardinality(r) <= Cardinality(s)
  BY <1>1, FS_Subset
<1> QED BY <1>1, <1>2, <1>3, <1>4

LEMMA FirstFacts ==
    ASSUME NEW s \in SUBSET Paths, s # {}
    PROVE  FirstOf(s) \in s /\ \A q \in s : ~Less(Last(q), Last(FirstOf(s)))
<1> DEFINE Has(r) == \E p \in r : \A q \in r : ~Less(Last(q), Last(p))
           T == {n \in Nat : \A r \in SUBSET Paths : Cardinality(r) = n + 1 => Has(r)}
<1>1. \A p \in Paths : Last(p) \in Strings
  BY PathFacts, NameFacts
<1>2. 0 \in T
  <2> SUFFICES ASSUME NEW r \in SUBSET Paths, Cardinality(r) = 1 PROVE Has(r)
    OBVIOUS
  <2>1. PICK x \in r : TRUE
    BY SubsetFacts
  <2>2. Cardinality(r \ {x}) = 0
    BY SubsetFacts
  <2>3. r \ {x} = {}
    BY <2>2, SubsetFacts
  <2>4. \A q \in r : q = x
    BY <2>3
  <2>5. ~Less(Last(x), Last(x))
    BY <1>1, LessOrders
  <2> QED BY <2>1, <2>4, <2>5
<1>3. ASSUME NEW n \in T PROVE n + 1 \in T
  <2> SUFFICES ASSUME NEW r \in SUBSET Paths, Cardinality(r) = n + 1 + 1 PROVE Has(r)
    OBVIOUS
  <2>1. PICK x \in r : TRUE
    BY SubsetFacts
  <2>2. Cardinality(r \ {x}) = n + 1 /\ r \ {x} \in SUBSET Paths
    BY SubsetFacts
  <2>3. PICK m \in r \ {x} : \A q \in r \ {x} : ~Less(Last(q), Last(m))
    BY <2>2
  <2>4. ~Less(Last(x), Last(x))
    BY <1>1, LessOrders
  <2>5. CASE Less(Last(x), Last(m))
    <3>1. ASSUME NEW q \in r, Less(Last(q), Last(x)) PROVE FALSE
      <4>1. q # x
        BY <2>4, <3>1
      <4>2. Less(Last(q), Last(m))
        BY <1>1, <2>3, <2>5, <3>1, LessOrders
      <4> QED BY <2>3, <4>1, <4>2
    <3> QED BY <3>1
  <2>6. CASE ~Less(Last(x), Last(m))
    BY <2>3, <2>6
  <2> QED BY <2>5, <2>6
<1> HIDE DEF T
<1>4. T = Nat
  BY <1>2, <1>3, NatSet DEF T
<1>5. Cardinality(s) - 1 \in Nat
  BY SubsetFacts
<1>6. Has(s)
  <2>1. Cardinality(s) - 1 \in T /\ Cardinality(s) - 1 + 1 = Cardinality(s)
    BY <1>4, <1>5, SubsetFacts
  <2> QED BY <2>1 DEF T
<1> QED BY <1>6 DEF FirstOf

LEMMA EntryFacts ==
    ASSUME NEW t, NEW p \in Paths
    PROVE  /\ Entries(t, p) \in Siblings
           /\ \A e \in Entries(t, p) : e \in Paths /\ Len(e) = Len(p) + 1 /\ IsPrefix(p, e)
<1>1. Entries(t, p) \in Siblings
  BY DEF Entries, Siblings
<1>2. ASSUME NEW e \in Paths, Front(e) = p PROVE Len(e) = Len(p) + 1 /\ IsPrefix(p, e)
  <2>1. Len(p) # 0 /\ p # Root
    BY PathFacts, PathsAssumption
  <2>2. Len(e) # 1 /\ Len(p) = Len(e) - 1 /\ \A i \in 1 .. Len(p) : p[i] = e[i]
    BY <1>2, <2>1, PathFacts
  <2> QED BY <2>2, PathFacts, PrefixFacts
<1> QED BY <1>1, <1>2 DEF Entries

LEMMA SameDirectory ==
    ASSUME NEW s \in Siblings, NEW p \in s, NEW q \in s
    PROVE  /\ p \in Paths /\ q \in Paths /\ Len(p) = Len(q)
           /\ \A i \in 1 .. Len(p) - 1 : p[i] = q[i]
           /\ IsPrefix(p, q) => p = q
<1>1. p \in Paths /\ q \in Paths /\ Front(p) = Front(q)
  BY DEF Siblings
<1>2. Len(p) = Len(q) /\ \A i \in 1 .. Len(p) - 1 : p[i] = q[i]
  <2>1. CASE Front(p) = Root
    <3>1. Len(p) = 1 /\ Len(q) = 1
      BY <1>1, <2>1, PathFacts
    <3> QED BY <3>1
  <2>2. CASE Front(p) # Root
    <3>1. /\ Len(Front(p)) = Len(p) - 1 /\ \A i \in 1 .. Len(p) - 1 : Front(p)[i] = p[i]
          /\ Len(Front(p)) = Len(q) - 1 /\ \A i \in 1 .. Len(q) - 1 : Front(p)[i] = q[i]
      BY <1>1, <2>2, PathFacts
    <3>2. Len(p) \in Nat /\ Len(q) \in Nat
      BY <1>1, PathFacts
    <3>3. Len(p) = Len(q)
      BY <3>1, <3>2
    <3> QED BY <3>1, <3>3
  <2> QED BY <2>1, <2>2
<1>3. IsPrefix(p, q) => p = q
  BY <1>1, <1>2, PrefixFacts, PathFacts
<1> QED BY <1>1, <1>2, <1>3

LEMMA SizeFacts ==
    ASSUME NEW s \in Siblings
    PROVE  /\ Size(s) \in Nat /\ Size(s) <= Cardinality(Paths)
           /\ \A p \in s : s \ {p} \in Siblings /\ Size(s \ {p}) < Size(s)
           /\ \A p \in s : \A t : Entries(t, p) \in Siblings /\ Size(Entries(t, p)) < Size(s)
<1>1. \A r : Below(r) \in SUBSET Paths
  BY DEF Below
<1>2. Size(s) \in Nat /\ Size(s) <= Cardinality(Paths)
  BY <1>1, SubsetFacts DEF Size
<1>3. ASSUME NEW r, NEW p \in Below(s), Below(r) \subseteq Below(s) \ {p} PROVE Size(r) < Size(s)
  <2>1. Cardinality(Below(r)) <= Cardinality(Below(s) \ {p})
    BY <1>1, <1>3, SubsetFacts
  <2>2. Cardinality(Below(s) \ {p}) = Cardinality(Below(s)) - 1
    BY <1>1, SubsetFacts
  <2>3. Cardinality(Below(r)) \in Nat /\ Cardinality(Below(s)) \in Nat
    BY <1>1, SubsetFacts
  <2> QED BY <2>1, <2>2, <2>3 DEF Size
<1>4. ASSUME NEW p \in s PROVE p \in Paths /\ p \in Below(s)
  BY PrefixFacts DEF Below, Siblings
<1>5. ASSUME NEW p \in s PROVE s \ {p} \in Siblings /\ Size(s \ {p}) < Size(s)
  <2>1. s \ {p} \in Siblings
    BY DEF Siblings
  <2>2. Below(s \ {p}) \subseteq Below(s)
    BY DEF Below
  <2>3. p \notin Below(s \ {p})
    BY SameDirectory DEF Below
  <2> QED BY <1>3, <1>4, <2>1, <2>2, <2>3
<1>6. ASSUME NEW p \in s, NEW t PROVE Entries(t, p) \in Siblings /\ Size(Entries(t, p)) < Size(s)
  <2>1. p \in Paths /\ Entries(t, p) \in Siblings
    BY <1>4, EntryFacts
  <2>2. ASSUME NEW q \in Below(Entries(t, p)) PROVE q \in Below(s) /\ q # p
    <3>1. PICK e \in Entries(t, p) : q \in Paths /\ IsPrefix(e, q)
      BY <2>2 DEF Below
    <3>2. e \in Paths /\ Len(e) = Len(p) + 1 /\ IsPrefix(p, e)
      BY <2>1, <3>1, EntryFacts
    <3>3. IsPrefix(p, q)
      BY <2>1, <3>1, <3>2, PrefixFacts
    <3>4. Len(e) <= Len(q) /\ Len(p) \in Nat
      BY <2>1, <3>1, <3>2, PrefixFacts, PathFacts
    <3> QED BY <3>1, <3>2, <3>3, <3>4 DEF Below
  <2> QED BY <1>3, <1>4, <2>1, <2>2
<1> QED BY <1>2, <1>5, <1>6

\* What the walk does with some entries, given what it does with fewer.
Step(t, c, f, left, b) ==
    LET p == FirstOf(left)
        with == Collect(b, p, c)
        below == IF ~Descends(t, p, c) THEN with
                 ELSE IF Full(with) THEN Stop(with)
                 ELSE f[Entries(t, p)][with]
    IN  IF left = {} THEN b
        ELSE IF Full(b) THEN Stop(b)
        ELSE f[left \ {p}][IF t[p] \in Indexed THEN below ELSE b]

LEMMA WalkIs ==
    ASSUME NEW t, NEW c
    PROVE  Walk(t, c) = CHOOSE walk : walk = [left \in Siblings |->
                            [b \in Batches |-> Step(t, c, walk, left, b)]]
BY DEF Walk, Step

LEMMA BatchFacts ==
    \A b \in Batches : \A p \in Paths : \A c :
        /\ Len(b.found) \in Nat /\ \A i \in 1 .. Len(b.found) : b.found[i] \in Paths
        /\ Stop(b) \in Batches /\ Stop(b).found = b.found /\ ~Stop(b).complete
        /\ Collect(b, p, c) \in Batches /\ Collect(b, p, c).complete = b.complete
        /\ Collect(b, p, c).found = IF IsNew(p, c) THEN Append(b.found, p) ELSE b.found
<1> SUFFICES ASSUME NEW b \in Batches, NEW p \in Paths, NEW c
             PROVE  /\ Len(b.found) \in Nat /\ \A i \in 1 .. Len(b.found) : b.found[i] \in Paths
                    /\ Stop(b) \in Batches /\ Stop(b).found = b.found /\ ~Stop(b).complete
                    /\ Collect(b, p, c) \in Batches /\ Collect(b, p, c).complete = b.complete
                    /\ Collect(b, p, c).found = IF IsNew(p, c) THEN Append(b.found, p) ELSE b.found
  OBVIOUS
<1>1. b.found \in Seq(Paths) /\ b.complete \in BOOLEAN
  BY DEF Batches
<1>2. Append(b.found, p) \in Seq(Paths)
  BY <1>1
<1>3. Stop(b) \in Batches /\ Stop(b).found = b.found /\ ~Stop(b).complete
  BY <1>1 DEF Stop, Batches
<1>4. /\ Collect(b, p, c) \in Batches /\ Collect(b, p, c).complete = b.complete
      /\ Collect(b, p, c).found = IF IsNew(p, c) THEN Append(b.found, p) ELSE b.found
  BY <1>1, <1>2 DEF Collect, Batches
<1> QED BY <1>1, <1>3, <1>4

Fewer(k) == {s \in Siblings : Size(s) < k}
Walks(t, c, k) ==
    {f \in [Fewer(k) -> [Batches -> Batches]] :
        \A s \in Fewer(k), b \in Batches : f[s][b] = Step(t, c, f, s, b)}

LEMMA WalksExist == ASSUME NEW t, NEW c PROVE \A k \in Nat : Walks(t, c, k) # {}
<1> DEFINE T == {k \in Nat : Walks(t, c, k) # {}}
<1>1. 0 \in T
  <2> DEFINE f == [s \in Fewer(0) |-> [b \in Batches |-> b]]
  <2>1. Fewer(0) = {}
    BY SizeFacts DEF Fewer
  <2>2. f \in Walks(t, c, 0)
    BY <2>1 DEF Walks
  <2> QED BY <2>2
<1>2. ASSUME NEW k \in T PROVE k + 1 \in T
  <2>1. PICK f \in Walks(t, c, k) : TRUE
    OBVIOUS
  <2>2. /\ f \in [Fewer(k) -> [Batches -> Batches]]
        /\ \A s \in Fewer(k), b \in Batches : f[s][b] = Step(t, c, f, s, b)
    BY <2>1 DEF Walks
  <2> DEFINE g == [s \in Fewer(k + 1) |-> [b \in Batches |-> Step(t, c, f, s, b)]]
  <2>3. ASSUME NEW s \in Fewer(k + 1), s # {}
        PROVE  /\ FirstOf(s) \in Paths
               /\ s \ {FirstOf(s)} \in Fewer(k) /\ Entries(t, FirstOf(s)) \in Fewer(k)
    <3>1. s \in Siblings /\ s \in SUBSET Paths /\ Size(s) < k + 1 /\ FirstOf(s) \in s
      BY <2>3, FirstFacts DEF Fewer, Siblings
    <3>2. /\ s \ {FirstOf(s)} \in Siblings /\ Size(s \ {FirstOf(s)}) < Size(s)
          /\ Entries(t, FirstOf(s)) \in Siblings /\ Size(Entries(t, FirstOf(s))) < Size(s)
          /\ Size(s) \in Nat
      BY <3>1, SizeFacts
    <3>3. Size(s \ {FirstOf(s)}) \in Nat /\ Size(Entries(t, FirstOf(s))) \in Nat
      BY <3>2, SizeFacts
    <3> QED BY <3>1, <3>2, <3>3 DEF Fewer
  <2>4. ASSUME NEW s \in Fewer(k + 1), NEW b \in Batches PROVE Step(t, c, f, s, b) \in Batches
    <3>1. CASE s = {}
      BY <3>1 DEF Step
    <3>2. CASE s # {}
      <4> DEFINE p == FirstOf(s)
                 with == Collect(b, p, c)
      <4>1. p \in Paths /\ s \ {p} \in Fewer(k) /\ Entries(t, p) \in Fewer(k)
        BY <2>3, <3>2
      <4>2. with \in Batches /\ Stop(with) \in Batches /\ Stop(b) \in Batches
        BY <4>1, BatchFacts
      <4>3. f[Entries(t, p)][with] \in Batches
        BY <2>2, <4>1, <4>2
      <4>4. \A m \in Batches : f[s \ {p}][m] \in Batches
        BY <2>2, <4>1
      <4> HIDE DEF p, with
      <4>5. PICK m \in Batches : m = IF t[p] \notin Indexed THEN b
                                     ELSE IF ~Descends(t, p, c) THEN with
                                     ELSE IF Full(with) THEN Stop(with)
                                     ELSE f[Entries(t, p)][with]
        BY <4>2, <4>3
      <4>6. Step(t, c, f, s, b) = IF Full(b) THEN Stop(b) ELSE f[s \ {p}][m]
        BY <3>2, <4>5 DEF Step, p, with
      <4> QED BY <4>2, <4>4, <4>6
    <3> QED BY <3>1, <3>2
  <2>5. g \in [Fewer(k + 1) -> [Batches -> Batches]]
    BY <2>4
  <2>6. ASSUME NEW s \in Fewer(k) PROVE s \in Fewer(k + 1) /\ g[s] = f[s]
    <3>1. s \in Fewer(k + 1)
      BY SizeFacts DEF Fewer
    <3>2. f[s] = [b \in Batches |-> Step(t, c, f, s, b)]
      BY <2>2
    <3> QED BY <3>1, <3>2
  <2>7. ASSUME NEW s \in Fewer(k + 1), NEW b \in Batches PROVE g[s][b] = Step(t, c, g, s, b)
    <3>1. g[s][b] = Step(t, c, f, s, b)
      OBVIOUS
    <3>2. s # {} => /\ g[s \ {FirstOf(s)}] = f[s \ {FirstOf(s)}]
                    /\ g[Entries(t, FirstOf(s))] = f[Entries(t, FirstOf(s))]
      BY <2>3, <2>6
    <3> HIDE DEF g
    <3> QED BY <3>1, <3>2 DEF Step
  <2> HIDE DEF g
  <2> QED BY <2>5, <2>7 DEF Walks
<1> HIDE DEF T
<1>3. T = Nat
  BY <1>1, <1>2, NatSet DEF T
<1> QED BY <1>3 DEF T

LEMMA WalkFacts ==
    ASSUME NEW t, NEW c
    PROVE  \A s \in Siblings, b \in Batches : Walk(t, c)[s][b] = Step(t, c, Walk(t, c), s, b)
<1>1. Cardinality(Paths) \in Nat
  BY SubsetFacts
<1>2. Fewer(Cardinality(Paths) + 1) = Siblings
  BY <1>1, SizeFacts DEF Fewer
<1>3. PICK f \in [Siblings -> [Batches -> Batches]] :
        \A s \in Siblings, b \in Batches : f[s][b] = Step(t, c, f, s, b)
  <2>1. Walks(t, c, Cardinality(Paths) + 1) # {}
    BY <1>1, WalksExist
  <2> QED BY <1>2, <2>1 DEF Walks
<1>4. f = [s \in Siblings |-> [b \in Batches |-> Step(t, c, f, s, b)]]
  <2>1. \A s \in Siblings : f[s] = [b \in Batches |-> Step(t, c, f, s, b)]
    BY <1>3
  <2> QED BY <1>3, <2>1
<1> DEFINE W == Walk(t, c)
<1>5. W = [s \in Siblings |-> [b \in Batches |-> Step(t, c, W, s, b)]]
  BY <1>4, WalkIs
<1> HIDE DEF W
<1>6. \A s \in Siblings, b \in Batches : W[s][b] = Step(t, c, W, s, b)
  BY <1>5
<1> QED BY <1>6 DEF W

-----------------------------------------------------------------------------
(* What a walk gathers.                                                    *)

Added(b, r) == {r.found[i] : i \in (Len(b.found) + 1) .. Len(r.found)}

\* From b to r, the first of N were collected, in the order of the walk.
Gathers(b, r, N) ==
    /\ Len(b.found) <= Len(r.found) /\ Len(r.found) <= Limit
    /\ \A i \in 1 .. Len(b.found) : r.found[i] = b.found[i]
    /\ \A i, j \in (Len(b.found) + 1) .. Len(r.found) :
        i < j => WalkBefore(r.found[i], r.found[j])
    /\ Added(b, r) \subseteq N
    /\ \A p \in Added(b, r), q \in N \ Added(b, r) : WalkBefore(p, q)
    /\ N \subseteq Added(b, r) \/ Len(r.found) = Limit
    /\ r.complete => b.complete /\ N \subseteq Added(b, r)
    /\ ~r.complete => ~b.complete \/ Len(r.found) = Limit

LEMMA GathersNothing ==
    ASSUME NEW b \in Batches, Len(b.found) <= Limit PROVE Gathers(b, b, {})
<1>1. Len(b.found) \in Nat /\ Added(b, b) = {}
  BY DEF Batches, Added
<1> QED BY <1>1 DEF Gathers

LEMMA GathersNoMore ==
    ASSUME NEW b \in Batches, Len(b.found) <= Limit, Full(b), NEW N PROVE Gathers(b, Stop(b), N)
<1>1. Len(b.found) = Limit
  BY LimitAssumption DEF Full, Batches
<1>2. Stop(b).found = b.found /\ ~Stop(b).complete
  BY DEF Stop, Batches
<1>3. Added(b, Stop(b)) = {}
  BY <1>1, <1>2, LimitAssumption DEF Added
<1> QED BY <1>1, <1>2, <1>3, LimitAssumption DEF Gathers

LEMMA GathersOne ==
    ASSUME NEW b \in Batches, ~Full(b), NEW p \in Paths, NEW c, NEW N,
           N = IF IsNew(p, c) THEN {p} ELSE {}
    PROVE  Gathers(b, Collect(b, p, c), N) /\ Len(Collect(b, p, c).found) <= Limit
<1> DEFINE r == Collect(b, p, c)
<1>1. b.found \in Seq(Paths) /\ Len(b.found) \in Nat /\ Len(b.found) < Limit
  BY LimitAssumption DEF Full, Batches
<1>2. r.complete = b.complete /\ r.found = IF IsNew(p, c) THEN Append(b.found, p) ELSE b.found
  BY BatchFacts
<1> HIDE DEF r
<1>3. CASE IsNew(p, c)
  <2>1. /\ Len(r.found) = Len(b.found) + 1 /\ r.found[Len(r.found)] = p
        /\ \A i \in 1 .. Len(b.found) : r.found[i] = b.found[i]
    BY <1>1, <1>2, <1>3
  <2>2. Added(b, r) = {p}
    BY <1>1, <2>1 DEF Added
  <2>3. Gathers(b, r, {p})
    BY <1>1, <1>2, <2>1, <2>2, LimitAssumption DEF Gathers
  <2> QED BY <1>1, <1>3, <2>1, <2>3, LimitAssumption DEF r
<1>4. CASE ~IsNew(p, c)
  <2>1. r.found = b.found /\ Added(b, r) = {}
    BY <1>1, <1>2, <1>4 DEF Added
  <2>2. Gathers(b, r, {})
    BY <1>1, <1>2, <2>1, LimitAssumption DEF Gathers
  <2> QED BY <1>1, <1>4, <2>1, <2>2, LimitAssumption DEF r
<1> QED BY <1>3, <1>4

LEMMA GathersBoth ==
    ASSUME NEW b \in Batches, NEW m \in Batches, NEW r \in Batches, NEW N, NEW M,
           Gathers(b, m, N), Gathers(m, r, M), \A p \in N, q \in M : WalkBefore(p, q)
    PROVE  Gathers(b, r, N \cup M)
<1>0. /\ Len(b.found) \in Nat /\ Len(m.found) \in Nat /\ Len(r.found) \in Nat
      /\ Len(b.found) <= Len(m.found) /\ Len(m.found) <= Len(r.found) /\ Len(r.found) <= Limit
      /\ Limit \in Nat
  BY LimitAssumption DEF Batches, Gathers
<1>1. \A i \in 1 .. Len(m.found) : r.found[i] = m.found[i]
  BY DEF Gathers
<1>2. Added(b, r) = Added(b, m) \cup Added(m, r)
  <2>1. ASSUME NEW i \in (Len(b.found) + 1) .. Len(r.found)
        PROVE  r.found[i] \in Added(b, m) \cup Added(m, r)
    BY <1>0, <1>1 DEF Added
  <2>2. ASSUME NEW i \in (Len(b.found) + 1) .. Len(m.found) PROVE m.found[i] \in Added(b, r)
    <3>1. i \in (Len(b.found) + 1) .. Len(r.found) /\ r.found[i] = m.found[i]
      BY <1>0, <1>1
    <3> QED BY <3>1 DEF Added
  <2>3. ASSUME NEW i \in (Len(m.found) + 1) .. Len(r.found) PROVE r.found[i] \in Added(b, r)
    <3>1. i \in (Len(b.found) + 1) .. Len(r.found)
      BY <1>0
    <3> QED BY <3>1 DEF Added
  <2>4. Added(b, r) \subseteq Added(b, m) \cup Added(m, r)
    BY <2>1 DEF Added
  <2>5. Added(b, m) \subseteq Added(b, r)
    BY <2>2 DEF Added
  <2>6. Added(m, r) \subseteq Added(b, r)
    BY <2>3 DEF Added
  <2> QED BY <2>4, <2>5, <2>6
<1>3. \A i \in 1 .. Len(b.found) : r.found[i] = b.found[i]
  BY <1>0, <1>1 DEF Gathers
<1>4. Added(b, m) \subseteq N /\ Added(m, r) \subseteq M
  BY DEF Gathers
<1>5. ASSUME NEW i \in (Len(b.found) + 1) .. Len(r.found),
             NEW j \in (Len(b.found) + 1) .. Len(r.found), i < j
      PROVE  WalkBefore(r.found[i], r.found[j])
  <2>1. CASE j <= Len(m.found)
    <3>1. /\ i \in (Len(b.found) + 1) .. Len(m.found) /\ j \in (Len(b.found) + 1) .. Len(m.found)
          /\ r.found[i] = m.found[i] /\ r.found[j] = m.found[j]
      BY <1>0, <1>1, <1>5, <2>1
    <3> QED BY <1>5, <3>1 DEF Gathers
  <2>2. CASE i > Len(m.found)
    <3>1. i \in (Len(m.found) + 1) .. Len(r.found) /\ j \in (Len(m.found) + 1) .. Len(r.found)
      BY <1>0, <1>5, <2>2
    <3> QED BY <1>5, <3>1 DEF Gathers
  <2>3. CASE i <= Len(m.found) /\ j > Len(m.found)
    <3>1. i \in (Len(b.found) + 1) .. Len(m.found) /\ j \in (Len(m.found) + 1) .. Len(r.found)
      BY <1>0, <1>5, <2>3
    <3>2. r.found[i] \in Added(b, m) /\ r.found[j] \in Added(m, r)
      BY <1>0, <1>1, <3>1 DEF Added
    <3> QED BY <1>4, <3>2
  <2> QED BY <1>0, <2>1, <2>2, <2>3
<1>6. N \subseteq Added(b, m) \/ Added(m, r) = {}
  <2>1. Len(m.found) = Limit => Added(m, r) = {}
    BY <1>0 DEF Added
  <2> QED BY <2>1 DEF Gathers
<1>7. ASSUME NEW p \in Added(b, r), NEW q \in (N \cup M) \ Added(b, r) PROVE WalkBefore(p, q)
  <2>1. CASE p \in Added(b, m) /\ q \in N
    BY <1>2, <1>7, <2>1 DEF Gathers
  <2>2. CASE p \in Added(b, m) /\ q \in M
    BY <1>4, <2>2
  <2>3. CASE p \in Added(m, r)
    <3>1. q \in M \ Added(m, r)
      BY <1>2, <1>6, <1>7, <2>3
    <3> QED BY <2>3, <3>1 DEF Gathers
  <2> QED BY <1>2, <1>7, <2>1, <2>2, <2>3
<1>8. (N \cup M) \subseteq Added(b, r) \/ Len(r.found) = Limit
  <2>1. CASE N \subseteq Added(b, m)
    BY <1>2, <2>1 DEF Gathers
  <2>2. CASE Len(m.found) = Limit
    BY <1>0, <2>2
  <2> QED BY <2>1, <2>2 DEF Gathers
<1>9. r.complete => b.complete /\ (N \cup M) \subseteq Added(b, r)
  BY <1>2 DEF Gathers
<1>10. ~r.complete => ~b.complete \/ Len(r.found) = Limit
  <2>1. Len(m.found) = Limit => Len(r.found) = Limit
    BY <1>0
  <2> QED BY <2>1 DEF Gathers
<1>11. Added(b, r) \subseteq N \cup M
  BY <1>2, <1>4
<1> HIDE DEF Added
<1> QED BY <1>0, <1>3, <1>5, <1>7, <1>8, <1>9, <1>10, <1>11 DEF Gathers


-----------------------------------------------------------------------------
(* What the walk is to gather.                                             *)

\* What exists stands in a directory.
Closed(t) == \A p, q \in Paths : t[q] # "none" /\ IsPrefix(p, q) /\ p # q => t[p] = "directory"

\* The entries from s on, and below them, that a batch may hold.
New(t, c, s) == {q \in Below(s) : t[q] \in Indexed /\ IsNew(q, c)}
Own(t, c, p) == IF IsNew(p, c) THEN {p} ELSE {}

LEMMA NewFacts ==
    ASSUME NEW t, Closed(t), NEW c, NEW s \in Siblings, NEW p \in s
    PROVE  /\ New(t, c, s) = New(t, c, {p}) \cup New(t, c, s \ {p})
           /\ t[p] \notin Indexed => New(t, c, {p}) = {}
           /\ t[p] = "file" => New(t, c, {p}) = Own(t, c, p)
           /\ t[p] = "directory" => New(t, c, {p}) = Own(t, c, p) \cup New(t, c, Entries(t, p))
<1>1. p \in Paths /\ IsPrefix(p, p)
  BY PrefixFacts DEF Siblings
<1>2. New(t, c, s) = New(t, c, {p}) \cup New(t, c, s \ {p})
  BY DEF New, Below
<1>3. ASSUME NEW q \in New(t, c, {p}), q # p PROVE t[p] = "directory" /\ q \in New(t, c, Entries(t, p))
  <2>1. q \in Paths /\ IsPrefix(p, q) /\ t[q] \in Indexed /\ IsNew(q, c) /\ t[q] # "none"
    BY DEF New, Below, Indexed
  <2>2. t[p] = "directory"
    BY <1>1, <1>3, <2>1 DEF Closed
  <2>3. PICK e \in Paths : Front(e) = p /\ IsPrefix(e, q)
    BY <1>1, <1>3, <2>1, EntryBetween
  <2>4. t[e] # "none"
    BY <2>1, <2>3 DEF Closed
  <2>5. e \in Entries(t, p)
    BY <2>3, <2>4 DEF Entries
  <2> QED BY <2>1, <2>2, <2>3, <2>5 DEF New, Below
<1>4. p \in New(t, c, {p}) <=> t[p] \in Indexed /\ IsNew(p, c)
  BY <1>1 DEF New, Below
<1>5. ASSUME NEW q \in New(t, c, Entries(t, p)) PROVE q \in New(t, c, {p})
  <2>1. PICK e \in Entries(t, p) : q \in Paths /\ IsPrefix(e, q)
    BY DEF New, Below
  <2>2. e \in Paths /\ IsPrefix(p, e)
    BY <1>1, <2>1, EntryFacts
  <2>3. IsPrefix(p, q)
    BY <1>1, <2>1, <2>2, PrefixFacts
  <2> QED BY <2>1, <2>3 DEF New, Below
<1>6. t[p] \notin Indexed => New(t, c, {p}) = {}
  BY <1>3, <1>4 DEF Indexed
<1>7. t[p] = "file" => New(t, c, {p}) = Own(t, c, p)
  BY <1>3, <1>4 DEF Indexed, Own
<1>8. t[p] = "directory" => New(t, c, {p}) = Own(t, c, p) \cup New(t, c, Entries(t, p))
  BY <1>3, <1>4, <1>5 DEF Indexed, Own
<1> QED BY <1>2, <1>6, <1>7, <1>8

\* A directory is reached before what is in it.
LEMMA DirectoryFirst ==
    ASSUME NEW t, NEW c, NEW p \in Paths, NEW q \in New(t, c, Entries(t, p))
    PROVE  WalkBefore(p, q)
<1>1. PICK e \in Entries(t, p) : q \in Paths /\ IsPrefix(e, q)
  BY DEF New, Below
<1>2. e \in Paths /\ Len(e) = Len(p) + 1 /\ IsPrefix(p, e)
  BY <1>1, EntryFacts
<1>3. IsPrefix(p, q) /\ Len(e) <= Len(q) /\ Len(p) \in Nat
  BY <1>1, <1>2, PrefixFacts, PathFacts
<1>4. p # q
  BY <1>2, <1>3
<1> QED BY <1>3, <1>4 DEF WalkBefore

\* What is below the first of some entries is reached before what is below
\* the others.
LEMMA FirstFirst ==
    ASSUME NEW t, NEW c, NEW s \in Siblings, s # {},
           NEW x \in New(t, c, {FirstOf(s)}), NEW q \in New(t, c, s \ {FirstOf(s)})
    PROVE  WalkBefore(x, q)
<1> DEFINE p == FirstOf(s)
<1>1. p \in s /\ s \in SUBSET Paths /\ \A r \in s : ~Less(Last(r), Last(p))
  BY FirstFacts DEF Siblings
<1>2. x \in Paths /\ IsPrefix(p, x)
  BY DEF New, Below
<1>3. PICK r \in s \ {p} : q \in Paths /\ IsPrefix(r, q)
  BY DEF New, Below
<1> HIDE DEF p
<1>4. /\ p \in Paths /\ r \in Paths /\ Len(p) = Len(r) /\ Len(p) \in Nat \ {0}
      /\ \A i \in 1 .. Len(p) - 1 : p[i] = r[i]
  BY <1>1, <1>3, SameDirectory, PathFacts
<1>5. p[Len(p)] # r[Len(p)]
  <2>1. ASSUME p[Len(p)] = r[Len(p)] PROVE FALSE
    <3>1. \A i \in 1 .. Len(p) : p[i] = r[i]
      BY <1>4, <2>1
    <3>2. p = r
      BY <1>4, <3>1, SamePath
    <3> QED BY <1>3, <3>2
  <2> QED BY <2>1
<1>6. Less(p[Len(p)], r[Len(p)])
  <2>1. /\ Last(p) = p[Len(p)] /\ Last(r) = r[Len(p)]
        /\ Last(p) \in Strings /\ Last(r) \in Strings
    BY <1>4, PathFacts, NameFacts
  <2>2. ~Less(Last(r), Last(p))
    BY <1>1, <1>3
  <2> QED BY <1>5, <2>1, <2>2, LessOrders
<1>7. /\ Len(p) <= Len(x) /\ Len(p) <= Len(q) /\ Len(x) \in Nat
      /\ \A i \in 1 .. Len(p) : x[i] = p[i] /\ q[i] = r[i]
  BY <1>2, <1>3, <1>4, PrefixFacts, PathFacts
<1>8. Len(p) \in 1 .. Len(x) /\ Len(p) \in 1 .. Len(p)
  BY <1>4, <1>7
<1>9. x # q /\ Less(x[Len(p)], q[Len(p)])
  BY <1>5, <1>6, <1>7, <1>8
<1>10. \A i \in 1 .. Len(p) - 1 : x[i] = q[i]
  BY <1>4, <1>7
<1> QED BY <1>7, <1>8, <1>9, <1>10 DEF WalkBefore

LEMMA TopEntry == ASSUME NEW q \in Paths PROVE \E e \in Paths : Front(e) = Root /\ IsPrefix(e, q)
<1> DEFINE Above == {e \in Paths : IsPrefix(e, q)}
           T == {n \in Nat : \E e \in Above : Len(e) = n}
<1>1. q \in Above
  BY PrefixFacts
<1>2. PICK n \in T : \A k \in T : n <= k
  <2>1. T # {} /\ T \in SUBSET Nat
    BY <1>1, PathFacts
  <2> HIDE DEF T
  <2> QED BY <2>1, Least
<1>3. PICK e \in Above : Len(e) = n
  OBVIOUS
<1>4. ASSUME Len(e) # 1 PROVE FALSE
  <2>1. Front(e) \in Paths /\ Len(Front(e)) = Len(e) - 1 /\ Len(e) \in Nat \ {0}
        /\ \A i \in 1 .. Len(e) - 1 : Front(e)[i] = e[i]
    BY <1>4, PathFacts
  <2>2. IsPrefix(Front(e), e)
    BY <2>1, PrefixFacts
  <2>3. Front(e) \in Above
    BY <2>1, <2>2, PrefixFacts
  <2>4. Len(e) - 1 \in T
    BY <2>1, <2>3
  <2> QED BY <1>2, <1>3, <2>1, <2>4
<1> QED BY <1>3, <1>4, PathFacts

-----------------------------------------------------------------------------
(* What the walk gathers.                                                  *)

LEMMA WalkGathers ==
    ASSUME NEW t, Closed(t), NEW c
    PROVE  \A s \in Siblings : \A b \in Batches : Len(b.found) <= Limit =>
                /\ Walk(t, c)[s][b] \in Batches
                /\ Gathers(b, Walk(t, c)[s][b], New(t, c, s))
<1> DEFINE W == Walk(t, c)
           Does(s, b) == W[s][b] \in Batches /\ Gathers(b, W[s][b], New(t, c, s))
           T == {k \in Nat : \A s \in Siblings : Size(s) < k =>
                    \A b \in Batches : Len(b.found) <= Limit => Does(s, b)}
<1>0. \A s \in Siblings, b \in Batches : W[s][b] = Step(t, c, W, s, b)
  BY WalkFacts
<1> HIDE DEF W
<1>1. 0 \in T
  BY SizeFacts
<1>2. ASSUME NEW k \in T PROVE k + 1 \in T
  <2> SUFFICES ASSUME NEW s \in Siblings, Size(s) < k + 1, NEW b \in Batches, Len(b.found) <= Limit
               PROVE  Does(s, b)
    OBVIOUS
  <2>1. CASE s = {}
    <3>1. W[s][b] = b
      BY <1>0, <2>1 DEF Step
    <3>2. New(t, c, s) = {}
      BY <2>1 DEF New, Below
    <3> QED BY <3>1, <3>2, GathersNothing
  <2>2. CASE s # {} /\ Full(b)
    <3>1. W[s][b] = Stop(b)
      BY <1>0, <2>2 DEF Step
    <3>2. Stop(b) \in Batches
      BY DEF Stop, Batches
    <3> QED BY <2>2, <3>1, <3>2, GathersNoMore
  <2>3. CASE s # {} /\ ~Full(b)
    <3> DEFINE p == FirstOf(s)
               e == Entries(t, p)
               with == Collect(b, p, c)
               m == IF t[p] \notin Indexed THEN b
                    ELSE IF ~Descends(t, p, c) THEN with
                    ELSE IF Full(with) THEN Stop(with)
                    ELSE W[e][with]
               r == W[s \ {p}][m]
    <3>1. p \in s /\ p \in Paths
      BY <2>3, FirstFacts DEF Siblings
    <3>2. \A x \in New(t, c, {p}), q \in New(t, c, s \ {p}) : WalkBefore(x, q)
      BY <2>3, FirstFirst
    <3>3. with \in Batches /\ Stop(with) \in Batches
      BY <3>1, BatchFacts
    <3>4. W[s][b] = r
      BY <1>0, <2>3 DEF Step
    <3>5. /\ s \ {p} \in Siblings /\ e \in Siblings
          /\ Size(s \ {p}) < k /\ Size(e) < k
      <4>1. /\ s \ {p} \in Siblings /\ Size(s \ {p}) < Size(s)
            /\ e \in Siblings /\ Size(e) < Size(s) /\ Size(s) \in Nat
        BY <3>1, SizeFacts
      <4>2. Size(s \ {p}) \in Nat /\ Size(e) \in Nat
        BY <4>1, SizeFacts
      <4> QED BY <4>1, <4>2
    <3>6. Gathers(b, with, Own(t, c, p)) /\ Len(with.found) <= Limit
      BY <2>3, <3>1, GathersOne DEF Own
    <3>7. /\ New(t, c, s) = New(t, c, {p}) \cup New(t, c, s \ {p})
          /\ t[p] \notin Indexed => New(t, c, {p}) = {}
          /\ t[p] = "file" => New(t, c, {p}) = Own(t, c, p)
          /\ t[p] = "directory" => New(t, c, {p}) = Own(t, c, p) \cup New(t, c, e)
      BY <3>1, NewFacts
    <3>8. \A x \in Own(t, c, p), q \in New(t, c, e) : WalkBefore(x, q)
      BY <3>1, DirectoryFirst DEF Own
    <3>9. \A d \in Batches : Len(d.found) <= Limit => Does(e, d) /\ Does(s \ {p}, d)
      BY <3>5
    <3> HIDE DEF p, e, with, Does
    <3>10. m \in Batches /\ Gathers(b, m, New(t, c, {p}))
      <4>1. CASE t[p] \notin Indexed
        BY <3>7, <4>1, GathersNothing
      <4>2. CASE t[p] = "file"
        <5>1. m = with
          BY <4>2 DEF Indexed, Descends
        <5> QED BY <3>3, <3>6, <3>7, <4>2, <5>1
      <4>3. CASE t[p] = "directory" /\ Full(with)
        <5>1. m = Stop(with)
          BY <4>3 DEF Indexed, Descends
        <5>2. Gathers(with, Stop(with), New(t, c, e))
          BY <3>3, <3>6, <4>3, GathersNoMore
        <5>3. Gathers(b, Stop(with), Own(t, c, p) \cup New(t, c, e))
          BY <3>3, <3>6, <3>8, <5>2, GathersBoth
        <5> QED BY <3>3, <3>7, <4>3, <5>1, <5>3
      <4>4. CASE t[p] = "directory" /\ ~Full(with)
        <5>1. m = W[e][with]
          BY <4>4 DEF Indexed, Descends
        <5>2. m \in Batches /\ Gathers(with, m, New(t, c, e))
          BY <3>3, <3>6, <3>9, <5>1 DEF Does
        <5> HIDE DEF m
        <5>3. Gathers(b, m, Own(t, c, p) \cup New(t, c, e))
          BY <3>3, <3>6, <3>8, <5>2, GathersBoth
        <5> QED BY <3>7, <4>4, <5>2, <5>3
      <4> QED BY <4>1, <4>2, <4>3, <4>4 DEF Indexed
    <3> HIDE DEF m
    <3>11. Len(m.found) <= Limit
      BY <3>10 DEF Gathers
    <3>12. r \in Batches /\ Gathers(m, r, New(t, c, s \ {p}))
      BY <3>9, <3>10, <3>11 DEF Does
    <3> HIDE DEF r
    <3>13. Gathers(b, r, New(t, c, {p}) \cup New(t, c, s \ {p}))
      BY <3>2, <3>10, <3>12, GathersBoth
    <3> QED BY <3>4, <3>7, <3>12, <3>13 DEF Does
  <2> QED BY <2>1, <2>2, <2>3
<1> HIDE DEF T
<1>3. T = Nat
  BY <1>1, <1>2, NatSet DEF T
<1>4. ASSUME NEW s \in Siblings, NEW b \in Batches, Len(b.found) <= Limit PROVE Does(s, b)
  <2>1. Size(s) \in Nat
    BY SizeFacts
  <2>2. Size(s) + 1 \in T /\ Size(s) < Size(s) + 1
    BY <1>3, <2>1
  <2> HIDE DEF Does
  <2> QED BY <1>4, <2>2 DEF T
<1> QED BY <1>4 DEF W

LEMMA BatchGathers ==
    ASSUME Closed(tree)
    PROVE  CollectBatch(tree, cursor) \in Batches /\ WalkCollectsFirst
<1> DEFINE new == {p \in Paths : tree[p] \in Indexed /\ Less(cursor, Text(p))}
           b == [found |-> <<>>, complete |-> TRUE]
           s == Entries(tree, Root)
           r == Walk(tree, cursor)[s][b]
           found == ToSet(r.found)
<1>1. b \in Batches /\ Len(b.found) = 0 /\ b.complete
  BY DEF Batches
<1>2. s \in Siblings
  BY DEF Siblings, Entries
<1>3. new = New(tree, cursor, s)
  <2>1. New(tree, cursor, s) \subseteq new
    BY DEF New, Below, IsNew
  <2>2. ASSUME NEW q \in new PROVE q \in New(tree, cursor, s)
    <3>1. q \in Paths /\ tree[q] \in Indexed /\ tree[q] # "none" /\ IsNew(q, cursor)
      BY DEF Indexed, IsNew
    <3>2. PICK e \in Paths : Front(e) = Root /\ IsPrefix(e, q)
      BY <3>1, TopEntry
    <3>3. tree[e] # "none"
      BY <3>1, <3>2 DEF Closed
    <3> QED BY <3>1, <3>2, <3>3 DEF New, Below, Entries
  <2> QED BY <2>1, <2>2
<1>4. CollectBatch(tree, cursor) = r
  BY DEF CollectBatch
<1> HIDE DEF b, s, new
<1>5. r \in Batches /\ Gathers(b, r, new)
  <2>1. Len(b.found) <= Limit
    BY <1>1, LimitAssumption
  <2>2. r \in Batches /\ Gathers(b, r, New(tree, cursor, s))
    BY <1>1, <1>2, <2>1, WalkGathers
  <2> QED BY <1>3, <2>2
<1> HIDE DEF r
<1>6. Len(r.found) \in Nat /\ DOMAIN r.found = 1 .. Len(r.found)
  BY <1>5 DEF Batches
<1>7. Added(b, r) = found
  BY <1>1, <1>6 DEF Added, ToSet
<1>8. found \subseteq new
  BY <1>5, <1>7 DEF Gathers
<1>9. \A i, j \in DOMAIN r.found : i < j => WalkBefore(r.found[i], r.found[j])
  BY <1>1, <1>5, <1>6 DEF Gathers
<1>10. \A p \in found, q \in new \ found : WalkBefore(p, q)
  BY <1>5, <1>7 DEF Gathers
<1>11. Len(r.found) <= Limit /\ (new \subseteq found \/ Len(r.found) = Limit)
  BY <1>5, <1>7 DEF Gathers
<1>12. (r.complete => new \subseteq found) /\ (~r.complete => Len(r.found) = Limit)
  BY <1>1, <1>5, <1>7 DEF Gathers
<1> HIDE DEF found
<1>13. /\ found = new \/ Len(r.found) = Limit
       /\ r.complete => found = new
       /\ ~r.complete => Len(r.found) = Limit
  BY <1>8, <1>11, <1>12
<1> QED BY <1>4, <1>5, <1>8, <1>9, <1>10, <1>11, <1>13 DEF WalkCollectsFirst, new, found

\* A batch that does not complete the scan goes on after its last entry.
LEMMA LastFacts ==
    ASSUME Closed(tree), ~CollectBatch(tree, cursor).complete
    PROVE  LET found == CollectBatch(tree, cursor).found
               last == Last(found)
           IN  /\ last \in ToSet(found) /\ last \in Paths /\ Less(cursor, Text(last))
               /\ \A p \in Paths \ ToSet(found) :
                    tree[p] \in Indexed /\ Less(cursor, Text(p)) => WalkBefore(last, p)
<1> DEFINE batch == CollectBatch(tree, cursor)
           last == Last(batch.found)
<1>1. /\ batch \in Batches
      /\ ToSet(batch.found) \subseteq {p \in Paths : tree[p] \in Indexed /\ Less(cursor, Text(p))}
      /\ \A p \in ToSet(batch.found) :
            \A q \in {x \in Paths : tree[x] \in Indexed /\ Less(cursor, Text(x))} \ ToSet(batch.found) :
                WalkBefore(p, q)
      /\ Len(batch.found) = Limit
  BY BatchGathers DEF WalkCollectsFirst
<1> HIDE DEF batch
<1>2. last = batch.found[Limit] /\ Limit \in DOMAIN batch.found
  BY <1>1, LimitAssumption DEF Last, Batches
<1>3. last \in ToSet(batch.found)
  BY <1>2 DEF ToSet
<1> HIDE DEF last
<1>4. last \in Paths /\ Less(cursor, Text(last))
  BY <1>1, <1>3
<1>5. \A p \in Paths \ ToSet(batch.found) :
        tree[p] \in Indexed /\ Less(cursor, Text(p)) => WalkBefore(last, p)
  BY <1>1, <1>3
<1> QED BY <1>3, <1>4, <1>5 DEF last, batch

-----------------------------------------------------------------------------
(* The invariant.                                                          *)

Missed(p) == \E q \in Paths : WalkBefore(q, p) /\ Less(Text(p), Text(q))

\* An entry that stands since the scan was enqueued is indexed, or still lies
\* ahead of the cursor, or is one that the order of strings hides.
Accounted(p) ==
    \/ catalog[p] = tree[p]
    \/ scanning /\ Less(cursor, Text(p))
    \/ Missed(p)

ScanInv ==
    /\ TypeOK
    /\ Closed(tree)
    /\ \A p \in stable : tree[p] \in Indexed /\ Accounted(p)

LEMMA InitInv == Init => ScanInv
<1> SUFFICES ASSUME Init PROVE ScanInv
  OBVIOUS
<1>1. TypeOK
  BY DEF Init, TypeOK, Indexed, Kinds
<1>2. Closed(tree) /\ stable = {}
  BY DEF Init, Closed
<1> QED BY <1>1, <1>2 DEF ScanInv

LEMMA EnqueueKeeps == ScanInv /\ EnqueueScan => ScanInv'
<1> SUFFICES ASSUME ScanInv, EnqueueScan PROVE ScanInv'
  OBVIOUS
<1>1. TypeOK'
  BY DEF ScanInv, TypeOK, EnqueueScan
<1>2. Closed(tree)'
  BY DEF ScanInv, EnqueueScan, Closed
<1>3. ASSUME NEW p \in stable' PROVE (tree[p] \in Indexed /\ Accounted(p))'
  <2>1. p \in Paths /\ tree[p] \in Indexed /\ tree' = tree /\ cursor' = <<>> /\ scanning'
    BY DEF EnqueueScan
  <2>2. Less(<<>>, Text(p))
    BY <2>1, TextFacts, LessOrders
  <2>3. Less(cursor, Text(p))'
    BY <2>1, <2>2 DEF Text
  <2> QED BY <2>1, <2>3 DEF Accounted
<1> QED BY <1>1, <1>2, <1>3 DEF ScanInv

LEMMA BatchKeeps ==
    ScanInv /\ ScanBatch => ScanInv' /\ (scanning' => Less(cursor, cursor'))
<1> SUFFICES ASSUME ScanInv, ScanBatch
             PROVE  ScanInv' /\ (scanning' => Less(cursor, cursor'))
  OBVIOUS
<1> DEFINE batch == CollectBatch(tree, cursor)
           found == ToSet(batch.found)
           last == Last(batch.found)
<1>1. TypeOK /\ Closed(tree) /\ \A p \in stable : tree[p] \in Indexed /\ Accounted(p)
  BY DEF ScanInv
<1>2. /\ catalog' = [p \in Paths |-> IF p \in found THEN tree[p] ELSE catalog[p]]
      /\ scanning' = ~batch.complete
      /\ cursor' = IF batch.complete THEN <<>> ELSE Text(last)
      /\ scanning /\ tree' = tree /\ stable' = stable /\ batches' = batches + 1
  BY DEF ScanBatch
<1>3. /\ batch.complete \in BOOLEAN
      /\ found \subseteq {p \in Paths : tree[p] \in Indexed /\ Less(cursor, Text(p))}
      /\ batch.complete => found = {p \in Paths : tree[p] \in Indexed /\ Less(cursor, Text(p))}
  BY <1>1, BatchGathers DEF WalkCollectsFirst, Batches
<1>4. ~batch.complete =>
        /\ last \in Paths /\ Less(cursor, Text(last))
        /\ \A p \in Paths \ found :
                tree[p] \in Indexed /\ Less(cursor, Text(p)) => WalkBefore(last, p)
  BY <1>1, LastFacts
<1> HIDE DEF batch, found, last
<1>5. TypeOK'
  <2>1. catalog' \in [Paths -> Indexed \cup {"none"}]
    BY <1>1, <1>2, <1>3 DEF TypeOK
  <2>2. cursor' \in {Text(p) : p \in Paths} \cup {<<>>}
    BY <1>2, <1>4
  <2>3. cursor' \in ({Text(p) : p \in Paths} \cup {<<>>})'
    BY <2>2 DEF Text
  <2> QED BY <1>1, <1>2, <1>3, <2>1, <2>3 DEF TypeOK
<1>6. Closed(tree)'
  BY <1>1, <1>2 DEF Closed
<1>7. ASSUME NEW p \in stable' PROVE (tree[p] \in Indexed /\ Accounted(p))'
  <2>1. p \in Paths /\ tree[p] \in Indexed /\ Accounted(p)
    BY <1>1, <1>2 DEF TypeOK
  <2>2. p \in found \/ catalog[p] = tree[p] => catalog'[p] = tree'[p]
    BY <1>2, <2>1
  <2>3. ASSUME p \notin found, Less(cursor, Text(p))
        PROVE  Missed(p) \/ (scanning' /\ Less(cursor', Text(p)))
    <3>1. ~batch.complete
      BY <1>3, <2>1, <2>3
    <3>2. last \in Paths /\ WalkBefore(last, p)
      BY <1>4, <2>1, <2>3, <3>1
    <3>3. Text(last) # Text(p)
      BY <2>1, <3>2, TextFacts DEF WalkBefore
    <3>4. Less(Text(last), Text(p)) \/ Less(Text(p), Text(last))
      BY <2>1, <3>2, <3>3, TextFacts, LessOrders
    <3> QED BY <1>2, <3>1, <3>2, <3>4 DEF Missed
  <2>4. \/ catalog'[p] = tree'[p]
        \/ scanning' /\ Less(cursor', Text(p))
        \/ Missed(p)
    BY <2>1, <2>2, <2>3 DEF Accounted
  <2>5. Accounted(p)'
    BY <2>4 DEF Accounted, Missed, WalkBefore, Text, Less
  <2> QED BY <1>2, <2>1, <2>5
<1>8. scanning' => Less(cursor, cursor')
  BY <1>2, <1>4
<1> QED BY <1>5, <1>6, <1>7, <1>8 DEF ScanInv

LEMMA AddKeeps ==
    ASSUME ScanInv, NEW p \in Paths, NEW kind \in Kinds, AddEntry(p, kind)
    PROVE  ScanInv'
<1>1. TypeOK /\ Closed(tree) /\ \A q \in stable : tree[q] \in Indexed /\ Accounted(q)
  BY DEF ScanInv
<1>2. /\ tree[p] = "none" /\ tree' = [tree EXCEPT ![p] = kind]
      /\ Front(p) \in {Root} \cup {q \in Paths : tree[q] = "directory"}
      /\ UNCHANGED <<catalog, cursor, scanning, stable, batches>>
  BY DEF AddEntry
<1>3. TypeOK'
  BY <1>1, <1>2 DEF TypeOK, Kinds, Indexed
<1>4. \A q \in Paths : tree'[q] = IF q = p THEN kind ELSE tree[q]
  BY <1>1, <1>2 DEF TypeOK
<1>5. ASSUME NEW a \in Paths, NEW q \in Paths, tree'[q] # "none", IsPrefix(a, q), a # q
      PROVE  tree'[a] = "directory"
  <2>1. CASE q # p
    <3>1. tree[a] = "directory"
      BY <1>1, <1>4, <1>5, <2>1 DEF Closed
    <3> QED BY <1>2, <1>4, <3>1
  <2>2. CASE q = p
    <3>1. Len(a) < Len(p) /\ IsPrefix(a, Front(p)) /\ Len(a) \in Nat \ {0} /\ Len(p) \in Nat
      BY <1>5, <2>2, PrefixFacts, PathFacts
    <3>2. Front(p) \in Paths /\ tree[Front(p)] = "directory"
      BY <1>2, <3>1, PathFacts
    <3>3. tree[a] = "directory"
      BY <1>1, <3>1, <3>2 DEF Closed
    <3> QED BY <1>4, <1>5, <2>2, <3>3
  <2> QED BY <2>1, <2>2
<1>6. Closed(tree)'
  BY <1>5 DEF Closed
<1>7. ASSUME NEW q \in stable' PROVE (tree[q] \in Indexed /\ Accounted(q))'
  <2>1. q \in Paths /\ tree[q] \in Indexed /\ Accounted(q)
    BY <1>1, <1>2 DEF TypeOK
  <2>2. tree'[q] = tree[q]
    BY <1>2, <1>4, <2>1 DEF Indexed
  <2> QED BY <1>2, <2>1, <2>2 DEF Accounted, Missed, WalkBefore, Text, Less
<1> QED BY <1>3, <1>6, <1>7 DEF ScanInv

LEMMA RemoveKeeps ==
    ASSUME ScanInv, NEW p \in Paths, RemoveEntry(p)
    PROVE  ScanInv'
<1>1. TypeOK /\ Closed(tree) /\ \A q \in stable : tree[q] \in Indexed /\ Accounted(q)
  BY DEF ScanInv
<1>2. /\ tree' = [q \in Paths |-> IF IsPrefix(p, q) THEN "none" ELSE tree[q]]
      /\ stable' = {q \in stable : ~IsPrefix(p, q)}
      /\ UNCHANGED <<catalog, cursor, scanning, batches>>
  BY DEF RemoveEntry
<1>3. TypeOK'
  BY <1>1, <1>2 DEF TypeOK
<1>4. ASSUME NEW a \in Paths, NEW q \in Paths, tree'[q] # "none", IsPrefix(a, q), a # q
      PROVE  tree'[a] = "directory"
  <2>1. ~IsPrefix(p, q) /\ tree[q] # "none"
    BY <1>2, <1>4
  <2>2. ~IsPrefix(p, a)
    BY <1>4, <2>1, PrefixFacts
  <2>3. tree[a] = "directory"
    BY <1>1, <1>4, <2>1 DEF Closed
  <2> QED BY <1>2, <2>2, <2>3
<1>5. Closed(tree)'
  BY <1>4 DEF Closed
<1>6. ASSUME NEW q \in stable' PROVE (tree[q] \in Indexed /\ Accounted(q))'
  <2>1. q \in Paths /\ tree[q] \in Indexed /\ Accounted(q) /\ tree'[q] = tree[q]
    BY <1>1, <1>2 DEF TypeOK
  <2> QED BY <1>2, <2>1 DEF Accounted, Missed, WalkBefore, Text, Less
<1> QED BY <1>3, <1>5, <1>6 DEF ScanInv

\* What is known of a scan at every moment: what exists stands in a directory,
\* and an entry that stands since the scan was enqueued is indexed with its
\* kind, or lies ahead of the cursor of a scan that goes on, or is hidden by
\* an entry that the walk reaches before it and whose path lies after it.
THEOREM ScanInductive == Spec => []ScanInv
<1>1. ScanInv /\ [Next]_vars => ScanInv'
  <2> SUFFICES ASSUME ScanInv, [Next]_vars PROVE ScanInv'
    OBVIOUS
  <2>1. CASE EnqueueScan
    BY <2>1, EnqueueKeeps
  <2>2. CASE ScanBatch
    BY <2>2, BatchKeeps
  <2>3. CASE \E p \in Paths : RemoveEntry(p) \/ \E kind \in Kinds : AddEntry(p, kind)
    BY <2>3, RemoveKeeps, AddKeeps
  <2>4. CASE UNCHANGED vars
    <3>1. TypeOK'
      BY <2>4 DEF vars, ScanInv, TypeOK
    <3>2. Closed(tree)'
      BY <2>4 DEF vars, ScanInv, Closed
    <3>3. ASSUME NEW p \in stable' PROVE (tree[p] \in Indexed /\ Accounted(p))'
      <4>1. p \in stable /\ tree[p] \in Indexed /\ Accounted(p)
        BY <2>4 DEF vars, ScanInv
      <4> QED BY <2>4, <4>1 DEF vars, Accounted, Missed, WalkBefore, Text, Less
    <3> QED BY <3>1, <3>2, <3>3 DEF ScanInv
  <2> QED BY <2>1, <2>2, <2>3, <2>4 DEF Next
<1> QED BY <1>1, InitInv, PTL DEF Spec

\* The tree, the catalogue, the checkpoint of the job and the history keep
\* their types; the cursor is the path of an entry or empty.
THEOREM TypeCorrect == Spec => []TypeOK
<1>1. ScanInv => TypeOK
  BY DEF ScanInv
<1> QED BY <1>1, ScanInductive, PTL

\* collectBatch: whatever the tree has become and wherever the cursor stands,
\* the recursive walk collects, in its order, the first Limit entries whose
\* path lies after the cursor, and says whether any is left out.
THEOREM WalkInOrder == Spec => []WalkCollectsFirst
<1>1. ScanInv => WalkCollectsFirst
  BY BatchGathers DEF ScanInv
<1> QED BY <1>1, ScanInductive, PTL

\* ScanBatch: a batch that leaves the scan unfinished leaves the cursor beyond
\* where it stood, however others changed the tree since the last one.
THEOREM CursorMovesOn == Spec => CursorAdvances
<1>1. ScanInv /\ [Next]_vars => [batches' > batches /\ scanning' => Less(cursor, cursor')]_vars
  <2> SUFFICES ASSUME ScanInv, [Next]_vars, batches' > batches, scanning'
               PROVE  Less(cursor, cursor')
    OBVIOUS
  <2>1. batches \in Nat
    BY DEF ScanInv, TypeOK
  <2>2. batches' # batches /\ ~(0 > batches)
    BY <2>1
  <2>3. ScanBatch
    BY <2>2 DEF Next, EnqueueScan, RemoveEntry, AddEntry, vars
  <2> QED BY <2>3, BatchKeeps
<1> QED BY <1>1, ScanInductive, PTL DEF Spec, CursorAdvances

\* A completed scan has indexed every entry that stood there throughout,
\* except where the order of strings and the order of the walk disagree.
THEOREM MissesAreExplained == Spec => []MissesExplained
<1>1. ScanInv => MissesExplained
  BY DEF ScanInv, Accounted, Missed, MissesExplained
<1> QED BY <1>1, ScanInductive, PTL
=============================================================================
