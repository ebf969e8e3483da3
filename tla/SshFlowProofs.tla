---------------------------- MODULE SshFlowProofs ----------------------------
(***************************************************************************)
(* What the two ends of an SSH connection agree on, whatever packets are   *)
(* between them: the channels they both have, every window in both         *)
(* directions, the numbers of channels, and how far they are in a key      *)
(* exchange.  The lemmas say which changes of a table of channels and of   *)
(* the packets in flight keep the agreement; SshProofs shows that the      *)
(* handlers of SshConnection and SshSession make only such changes.        *)
(***************************************************************************)
EXTENDS SshSession, SequenceTheorems, WellFoundedInduction, TLAPS

\* A set of naturals that is not empty has a least element.
LEMMA LeastNat ==
    ASSUME NEW B, B \subseteq Nat, B # {}
    PROVE  \E n \in B : \A m \in B : ~(m < n)
  <1>1. PICK n \in B : \A y \in B : ~(<<y, n>> \in OpToRel(<, Nat))
    BY NatLessThanWellFounded, WFMin, Zenon
  <1>2. \A y \in B : ~(y < n)
    BY <1>1 DEF OpToRel
  <1> QED BY <1>1, <1>2

------------------------------------------------------------------------------
\* Sequences of packets

\* A sequence, whatever its elements are.
IsSeq(s) == s \in Seq({s[i] : i \in DOMAIN s})

\* Any sequence is one.
LEMMA SeqIs ==
    ASSUME NEW S, NEW s \in Seq(S)
    PROVE  IsSeq(s)
  <1>1. s = [i \in 1..Len(s) |-> s[i]] /\ Len(s) \in Nat /\ DOMAIN s = 1..Len(s)
    OBVIOUS
  <1>2. \A i \in 1..Len(s) : s[i] \in {s[j] : j \in DOMAIN s}
    BY <1>1
  <1> QED BY <1>1, <1>2 DEF IsSeq

\* Two sequences have elements of one set.
LEMMA SeqsOf ==
    ASSUME NEW s, IsSeq(s), NEW t, IsSeq(t)
    PROVE  \E S : s \in Seq(S) /\ t \in Seq(S)
  <1> DEFINE S == {s[i] : i \in DOMAIN s} \cup {t[i] : i \in DOMAIN t}
  <1>1. s \in Seq({s[i] : i \in DOMAIN s}) /\ t \in Seq({t[i] : i \in DOMAIN t})
    BY DEF IsSeq
  <1>2. /\ s = [i \in 1..Len(s) |-> s[i]] /\ Len(s) \in Nat /\ DOMAIN s = 1..Len(s)
        /\ t = [i \in 1..Len(t) |-> t[i]] /\ Len(t) \in Nat /\ DOMAIN t = 1..Len(t)
    BY <1>1
  <1>3. (\A i \in 1..Len(s) : s[i] \in S) /\ (\A i \in 1..Len(t) : t[i] \in S)
    BY <1>2
  <1> HIDE DEF S
  <1>4. s \in Seq(S) /\ t \in Seq(S)
    BY <1>2, <1>3
  <1> QED BY <1>4

\* Three of them.
LEMMA SeqsOf3 ==
    ASSUME NEW s, IsSeq(s), NEW t, IsSeq(t), NEW u, IsSeq(u)
    PROVE  \E S : s \in Seq(S) /\ t \in Seq(S) /\ u \in Seq(S)
  <1>1. PICK S : s \in Seq(S) /\ t \in Seq(S)
    BY SeqsOf
  <1>2. PICK T : t \in Seq(T) /\ u \in Seq(T)
    BY SeqsOf
  <1> DEFINE U == S \cup T
  <1>3. /\ s = [i \in 1..Len(s) |-> s[i]] /\ Len(s) \in Nat /\ \A i \in 1..Len(s) : s[i] \in S
        /\ t = [i \in 1..Len(t) |-> t[i]] /\ Len(t) \in Nat /\ \A i \in 1..Len(t) : t[i] \in S
        /\ u = [i \in 1..Len(u) |-> u[i]] /\ Len(u) \in Nat /\ \A i \in 1..Len(u) : u[i] \in T
    BY <1>1, <1>2
  <1>4. /\ \A i \in 1..Len(s) : s[i] \in U
        /\ \A i \in 1..Len(t) : t[i] \in U
        /\ \A i \in 1..Len(u) : u[i] \in U
    BY <1>3
  <1> HIDE DEF U
  <1>5. s \in Seq(U) /\ t \in Seq(U) /\ u \in Seq(U)
    BY <1>3, <1>4
  <1> QED BY <1>5

\* A sequence is a function on 1..n.
LEMMA SeqFacts ==
    ASSUME NEW s, IsSeq(s)
    PROVE  Len(s) \in Nat /\ DOMAIN s = 1..Len(s) /\ s = [i \in 1..Len(s) |-> s[i]]
  BY DEF IsSeq

\* Such a function is a sequence.
LEMMA SeqMade ==
    ASSUME NEW n \in Nat, NEW s, DOMAIN s = 1..n, s = [i \in 1..n |-> s[i]]
    PROVE  IsSeq(s) /\ Len(s) = n
  <1>1. \A i \in 1..n : s[i] \in {s[j] : j \in DOMAIN s}
    OBVIOUS
  <1>2. s \in Seq({s[j] : j \in DOMAIN s})
    BY <1>1
  <1> QED BY <1>2 DEF IsSeq

\* Concatenation.
LEMMA CatFacts ==
    ASSUME NEW s, IsSeq(s), NEW t, IsSeq(t)
    PROVE  /\ IsSeq(s \o t) /\ Len(s \o t) = Len(s) + Len(t)
           /\ \A i \in 1..Len(s) : (s \o t)[i] = s[i]
           /\ \A i \in 1..Len(t) : (s \o t)[Len(s) + i] = t[i]
  <1>1. PICK S : s \in Seq(S) /\ t \in Seq(S)
    BY SeqsOf
  <1>2. s \o t \in Seq(S) /\ Len(s \o t) = Len(s) + Len(t) /\ Len(s) \in Nat /\ Len(t) \in Nat
    BY <1>1
  <1>3. \A i \in 1..Len(s) : (s \o t)[i] = s[i]
    BY <1>1, <1>2
  <1>4. ASSUME NEW i \in 1..Len(t) PROVE (s \o t)[Len(s) + i] = t[i]
    BY <1>1, <1>2
  <1> QED BY <1>2, <1>3, <1>4, SeqIs

\* It is associative.
LEMMA CatAssoc ==
    ASSUME NEW s, IsSeq(s), NEW t, IsSeq(t), NEW u, IsSeq(u)
    PROVE  (s \o t) \o u = s \o (t \o u)
  <1>1. PICK S : s \in Seq(S) /\ t \in Seq(S) /\ u \in Seq(S)
    BY SeqsOf3
  <1> QED BY <1>1, ConcatAssociative, SMTT(60)

\* Nothing changes nothing.
LEMMA CatNone ==
    ASSUME NEW s, IsSeq(s)
    PROVE  s \o <<>> = s /\ <<>> \o s = s
  <1>1. PICK S : s \in Seq(S)
    BY DEF IsSeq
  <1> QED BY <1>1, ConcatEmptySeq

\* One element.
LEMMA OneIs ==
    ASSUME NEW x
    PROVE  IsSeq(<<x>>) /\ Len(<<x>>) = 1 /\ <<x>>[1] = x /\ IsSeq(<<>>) /\ Len(<<>>) = 0
  <1>1. <<x>> \in Seq({x}) /\ <<>> \in Seq({x}) /\ Len(<<x>>) = 1 /\ Len(<<>>) = 0
    OBVIOUS
  <1> QED BY <1>1, SeqIs

\* Append is a concatenation.
LEMMA AppendIs ==
    ASSUME NEW s, IsSeq(s), NEW x
    PROVE  Append(s, x) = s \o <<x>>
  <1>1. IsSeq(<<x>>)
    BY OneIs
  <1>2. PICK S : s \in Seq(S) /\ <<x>> \in Seq(S)
    BY <1>1, SeqsOf
  <1>3. x \in S
    <2>1. <<x>>[1] \in S
      BY <1>2
    <2> QED BY <2>1
  <1> QED BY <1>2, <1>3, AppendIsConcat

\* The first element and the others.
LEMMA TailIs ==
    ASSUME NEW s, IsSeq(s), s # <<>>
    PROVE  /\ IsSeq(Tail(s)) /\ s = <<Head(s)>> \o Tail(s) /\ Head(s) = s[1]
           /\ Len(s) >= 1 /\ Len(Tail(s)) = Len(s) - 1
           /\ \A i \in 1..Len(s) - 1 : Tail(s)[i] = s[i + 1]
  <1>1. PICK S : s \in Seq(S)
    BY DEF IsSeq
  <1>2. Tail(s) \in Seq(S) /\ Head(s) \in S /\ Head(s) = s[1] /\ Len(Tail(s)) = Len(s) - 1 /\ Len(s) >= 1
    BY <1>1
  <1>3. \A i \in 1..Len(s) - 1 : Tail(s)[i] = s[i + 1]
    BY <1>1, <1>2
  <1>4. s = <<Head(s)>> \o Tail(s)
    BY <1>1, <1>2
  <1> QED BY <1>2, <1>3, <1>4, SeqIs

------------------------------------------------------------------------------
\* Sums

\* What Sum computes with.
Sums(s, f) ==
    f = [n \in 0..(Len(s)) |-> IF n = 0 THEN 0 ELSE f[n - 1] + s[n]]

\* Its recursion is well founded.
LEMMA SumsExist ==
    ASSUME NEW s, Len(s) \in Nat
    PROVE  \E f : Sums(s, f)
  <1> DEFINE First == 0
             Then(x, k) == x + s[k]
             Upto(f, n) == f = [k \in 0..n |-> IF k = 0 THEN First ELSE Then(f[k - 1], k)]
             Bad == {n \in Nat : ~\E f : Upto(f, n)}
  <1> HIDE DEF Then, First
  <1>1. Bad = {}
    <2> SUFFICES ASSUME Bad # {} PROVE FALSE
      OBVIOUS
    <2>1. Bad \subseteq Nat
      OBVIOUS
    <2> HIDE DEF Bad
    <2>2. PICK n \in Bad : \A m \in Bad : ~(m < n)
      BY <2>1, LeastNat
    <2>3. n \in Nat /\ ~\E f : Upto(f, n)
      BY <2>2 DEF Bad
    <2>4. CASE n = 0
      <3>1. Upto([k \in 0..0 |-> First], 0)
        OBVIOUS
      <3> QED BY <2>3, <2>4, <3>1
    <2>5. CASE n > 0
      <3>1. n - 1 \in Nat /\ n - 1 < n
        BY <2>3, <2>5
      <3>2. PICK g : Upto(g, n - 1)
        BY <2>2, <3>1 DEF Bad
      <3>3. PICK h : h = [k \in 0..n |-> IF k = n THEN Then(g[n - 1], n) ELSE g[k]]
        OBVIOUS
      <3>4. \A k \in 0..n - 1 : g[k] = IF k = 0 THEN First ELSE Then(g[k - 1], k)
        BY <3>2
      <3>5. ASSUME NEW k \in 0..n PROVE h[k] = IF k = 0 THEN First ELSE Then(h[k - 1], k)
        <4>1. CASE k = 0
          <5>1. k \in 0..n - 1 /\ k # n
            BY <2>3, <2>5, <4>1
          <5> QED BY <3>3, <3>4, <4>1, <5>1
        <4>2. CASE k # 0 /\ k # n
          <5>1. k \in 0..n - 1 /\ k - 1 \in 0..n /\ k - 1 # n
            BY <2>3, <4>2
          <5>2. h[k] = g[k] /\ h[k - 1] = g[k - 1]
            BY <3>3, <4>2, <5>1
          <5> QED BY <3>4, <4>2, <5>1, <5>2
        <4>3. CASE k = n
          <5>1. n - 1 \in 0..n /\ n - 1 # n /\ k # 0 /\ n \in 0..n
            BY <2>3, <2>5, <4>3
          <5>2. h[n] = Then(g[n - 1], n) /\ h[n - 1] = g[n - 1]
            BY <3>3, <5>1
          <5> QED BY <4>3, <5>1, <5>2
        <4> QED BY <4>1, <4>2, <4>3
      <3>6. h = [k \in 0..n |-> h[k]]
        BY <3>3
      <3>7. Upto(h, n)
        BY <3>5, <3>6
      <3> QED BY <2>3, <3>7
    <2>6. n = 0 \/ n > 0
      BY <2>3
    <2> QED BY <2>4, <2>5, <2>6
  <1>2. Len(s) \in Nat
    OBVIOUS
  <1>3. \E f : Upto(f, Len(s))
    BY <1>1, <1>2
  <1> QED BY <1>3 DEF Sums, First, Then

\* There is a function that adds the numbers one by one.
LEMMA SumBy ==
    ASSUME NEW s \in Seq(Nat)
    PROVE  \E f : /\ f[0] = 0 /\ \A k \in 1..Len(s) : f[k] = f[k - 1] + s[k]
                  /\ Sum(s) = f[Len(s)]
  <1>1. PICK f : f = CHOOSE g : Sums(s, g)
    OBVIOUS
  <1>2. Len(s) \in Nat
    OBVIOUS
  <1>3. Sums(s, f)
    BY <1>1, <1>2, SumsExist
  <1>4. Sum(s) = f[Len(s)]
    BY <1>1 DEF Sum, Sums
  <1>5. \A k \in 0..Len(s) : f[k] = IF k = 0 THEN 0 ELSE f[k - 1] + s[k]
    BY <1>3 DEF Sums
  <1>6. f[0] = 0
    BY <1>2, <1>5
  <1>7. ASSUME NEW k \in 1..Len(s) PROVE f[k] = f[k - 1] + s[k]
    BY <1>2, <1>5
  <1> QED BY <1>4, <1>6, <1>7

\* Any such function computes it.
LEMMA SumIs ==
    ASSUME NEW s \in Seq(Nat), NEW f, f[0] = 0, \A k \in 1..Len(s) : f[k] = f[k - 1] + s[k]
    PROVE  Sum(s) = f[Len(s)] /\ Sum(s) \in Nat
  <1>1. PICK g : /\ g[0] = 0 /\ \A k \in 1..Len(s) : g[k] = g[k - 1] + s[k]
                 /\ Sum(s) = g[Len(s)]
    BY SumBy
  <1> DEFINE Bad == {k \in 0..Len(s) : ~(f[k] = g[k] /\ f[k] \in Nat)}
  <1>2. Len(s) \in Nat /\ \A k \in 1..Len(s) : s[k] \in Nat
    OBVIOUS
  <1>3. Bad = {}
    <2> SUFFICES ASSUME Bad # {} PROVE FALSE
      OBVIOUS
    <2>1. Bad \subseteq Nat
      BY <1>2
    <2> HIDE DEF Bad
    <2>2. PICK n \in Bad : \A m \in Bad : ~(m < n)
      BY <2>1, LeastNat
    <2>3. n \in 0..Len(s) /\ ~(f[n] = g[n] /\ f[n] \in Nat)
      BY <2>2 DEF Bad
    <2>4. n # 0
      BY <1>1, <2>3
    <2>5. n \in 1..Len(s) /\ n - 1 \in 0..Len(s) /\ n - 1 < n
      BY <1>2, <2>3, <2>4
    <2>6. f[n - 1] = g[n - 1] /\ f[n - 1] \in Nat
      BY <2>2, <2>5 DEF Bad
    <2>7. f[n] = f[n - 1] + s[n] /\ g[n] = g[n - 1] + s[n] /\ s[n] \in Nat
      BY <1>1, <1>2, <2>5
    <2> QED BY <2>3, <2>6, <2>7
  <1>4. Len(s) \in 0..Len(s)
    BY <1>2
  <1> QED BY <1>1, <1>3, <1>4

\* A sum of naturals is a natural.
LEMMA SumType ==
    ASSUME NEW s \in Seq(Nat)
    PROVE  Sum(s) \in Nat
  BY SumBy, SumIs

\* The sum of a concatenation.
LEMMA SumConcat ==
    ASSUME NEW s \in Seq(Nat), NEW t \in Seq(Nat)
    PROVE  Sum(s \o t) = Sum(s) + Sum(t)
  <1>1. PICK f : /\ f[0] = 0 /\ \A k \in 1..Len(s) : f[k] = f[k - 1] + s[k]
                 /\ Sum(s) = f[Len(s)]
    BY SumBy
  <1>2. PICK g : /\ g[0] = 0 /\ \A k \in 1..Len(t) : g[k] = g[k - 1] + t[k]
                 /\ Sum(t) = g[Len(t)]
    BY SumBy
  <1>3. /\ Len(s) \in Nat /\ Len(t) \in Nat /\ s \o t \in Seq(Nat) /\ Len(s \o t) = Len(s) + Len(t)
        /\ \A i \in 1..Len(s) : (s \o t)[i] = s[i]
        /\ \A i \in 1..Len(t) : (s \o t)[Len(s) + i] = t[i]
        /\ \A i \in 1..Len(t) : t[i] \in Nat
    <2>1. Len(s) \in Nat /\ Len(t) \in Nat /\ s \o t \in Seq(Nat)
      OBVIOUS
    <2> QED BY <2>1, SeqIs, CatFacts
  <1>4. PICK h : h = [k \in 0..Len(s) + Len(t) |-> IF k <= Len(s) THEN f[k] ELSE Sum(s) + g[k - Len(s)]]
    OBVIOUS
  <1>5. h[0] = 0
    BY <1>1, <1>3, <1>4
  <1>6. ASSUME NEW k \in 1..Len(s \o t) PROVE h[k] = h[k - 1] + (s \o t)[k]
    <2>1. k \in 1..Len(s) + Len(t) /\ k - 1 \in 0..Len(s) + Len(t) /\ k \in 0..Len(s) + Len(t)
      BY <1>3
    <2>2. CASE k <= Len(s)
      <3>1. h[k] = f[k] /\ h[k - 1] = f[k - 1] /\ k \in 1..Len(s)
        BY <1>3, <1>4, <2>1, <2>2
      <3> QED BY <1>1, <1>3, <3>1
    <2>3. CASE k > Len(s)
      <3>1. PICK j \in 1..Len(t) : k = Len(s) + j
        <4>1. k - Len(s) \in 1..Len(t) /\ k = Len(s) + (k - Len(s))
          BY <1>3, <2>1, <2>3
        <4> QED BY <4>1
      <3>2. g[j] = g[j - 1] + t[j] /\ (s \o t)[k] = t[j]
        BY <1>2, <1>3, <3>1
      <3>3. h[k] = Sum(s) + g[j]
        <4>1. k - Len(s) = j /\ ~(k <= Len(s))
          BY <1>3, <2>1, <2>3, <3>1
        <4> QED BY <1>4, <2>1, <4>1
      <3>4. h[k - 1] = Sum(s) + g[j - 1]
        <4>1. CASE j = 1
          <5>1. k - 1 = Len(s) /\ j - 1 = 0 /\ k - 1 <= Len(s)
            BY <1>3, <3>1, <4>1
          <5>2. h[k - 1] = f[Len(s)]
            BY <1>4, <2>1, <5>1
          <5> QED BY <1>1, <1>2, <1>3, <5>1, <5>2, SumType
        <4>2. CASE j # 1
          <5>1. k - 1 - Len(s) = j - 1 /\ ~(k - 1 <= Len(s))
            BY <1>3, <3>1, <4>2
          <5> QED BY <1>4, <2>1, <5>1
        <4> QED BY <4>1, <4>2
      <3>5. \A a, b, c, d \in Nat : a = c + b => d + a = (d + c) + b
        OBVIOUS
      <3>6. \A i \in 0..Len(t) : g[i] \in Nat
        <4> DEFINE Bad == {i \in 0..Len(t) : g[i] \notin Nat}
        <4> SUFFICES ASSUME Bad # {} PROVE FALSE
          OBVIOUS
        <4>1. Bad \subseteq Nat
          BY <1>3
        <4> HIDE DEF Bad
        <4>2. PICK n \in Bad : \A m \in Bad : ~(m < n)
          BY <4>1, LeastNat
        <4>3. n \in 0..Len(t) /\ g[n] \notin Nat
          BY <4>2 DEF Bad
        <4>4. n # 0
          BY <1>2, <4>3
        <4>5. n \in 1..Len(t) /\ n - 1 \in 0..Len(t) /\ n - 1 < n
          BY <1>3, <4>3, <4>4
        <4>6. g[n - 1] \in Nat
          BY <4>2, <4>5 DEF Bad
        <4>7. g[n] = g[n - 1] + t[n] /\ t[n] \in Nat
          BY <1>2, <1>3, <4>5
        <4> QED BY <4>3, <4>6, <4>7
      <3>7. j - 1 \in 0..Len(t) /\ j \in 0..Len(t)
        BY <1>3, <3>1
      <3>8. Sum(s) \in Nat /\ g[j] \in Nat /\ g[j - 1] \in Nat /\ t[j] \in Nat
        BY <1>3, <3>1, <3>6, <3>7, SumType
      <3> QED BY <3>2, <3>3, <3>4, <3>5, <3>8
    <2> QED BY <1>3, <2>1, <2>2, <2>3
  <1>7. Sum(s \o t) = h[Len(s) + Len(t)]
    BY <1>3, <1>5, <1>6, SumIs
  <1>8. h[Len(s) + Len(t)] = Sum(s) + Sum(t)
    <2>1. Len(s) + Len(t) \in 0..Len(s) + Len(t)
      BY <1>3
    <2>2. CASE Len(t) = 0
      <3>1. Len(s) + Len(t) = Len(s) /\ Len(s) <= Len(s)
        BY <1>3, <2>2
      <3>2. h[Len(s)] = f[Len(s)]
        BY <1>4, <2>1, <3>1
      <3> QED BY <1>1, <1>2, <2>2, <3>1, <3>2, SumType
    <2>3. CASE Len(t) # 0
      <3>1. Len(s) + Len(t) - Len(s) = Len(t) /\ ~(Len(s) + Len(t) <= Len(s))
        BY <1>3, <2>3
      <3> QED BY <1>2, <1>4, <2>1, <3>1
    <2> QED BY <2>2, <2>3
  <1> QED BY <1>7, <1>8

\* No number, and one.
LEMMA SumOne ==
    ASSUME NEW n \in Nat
    PROVE  Sum(<<n>>) = n /\ Sum(<<>>) = 0
  <1>1. PICK f : f = [k \in 0..1 |-> IF k = 0 THEN 0 ELSE n]
    OBVIOUS
  <1>2. f[0] = 0 /\ f[1] = n
    BY <1>1
  <1>3. <<n>> \in Seq(Nat) /\ Len(<<n>>) = 1 /\ <<n>>[1] = n /\ <<>> \in Seq(Nat) /\ Len(<<>>) = 0
    OBVIOUS
  <1>4. \A k \in 1..Len(<<n>>) : f[k] = f[k - 1] + <<n>>[k]
    <2> SUFFICES ASSUME NEW k \in 1..1 PROVE f[k] = f[k - 1] + <<n>>[k]
      BY <1>3
    <2>1. k = 1 /\ k - 1 = 0
      OBVIOUS
    <2> QED BY <1>2, <1>3, <2>1
  <1>5. \A k \in 1..Len(<<>>) : f[k] = f[k - 1] + <<>>[k]
    BY <1>3
  <1>6. Sum(<<n>>) = f[1]
    BY <1>2, <1>3, <1>4, SumIs
  <1>7. Sum(<<>>) = f[0]
    BY <1>2, <1>3, <1>5, SumIs
  <1> QED BY <1>2, <1>6, <1>7

------------------------------------------------------------------------------
(* Packets in flight *)

\* All of it together.
LEMMA CatAll ==
    ASSUME NEW s, IsSeq(s), NEW t, IsSeq(t)
    PROVE  /\ Len(s) \in Nat /\ Len(t) \in Nat /\ DOMAIN s = 1..Len(s) /\ DOMAIN t = 1..Len(t)
           /\ Len(s \o t) = Len(s) + Len(t) /\ DOMAIN (s \o t) = 1..Len(s) + Len(t)
           /\ \A i \in 1..Len(s) : (s \o t)[i] = s[i]
           /\ \A i \in 1..Len(t) : (s \o t)[Len(s) + i] = t[i]
           /\ IsSeq(s \o t)
  <1>1. Len(s) \in Nat /\ Len(t) \in Nat /\ DOMAIN s = 1..Len(s) /\ DOMAIN t = 1..Len(t)
    BY SeqFacts
  <1>2. IsSeq(s \o t) /\ Len(s \o t) = Len(s) + Len(t)
    BY CatFacts
  <1>3. DOMAIN (s \o t) = 1..Len(s) + Len(t)
    BY <1>2, SeqFacts
  <1> QED BY <1>1, <1>2, <1>3, CatFacts

\* What the sums need to know of a packet.
IsData(p) == p.msg \in {"CHANNEL_DATA", "CHANNEL_EXTENDED_DATA"}

PacketOK(p) == /\ IsData(p) => Len(p.data) \in Nat
               /\ p.msg = "CHANNEL_WINDOW_ADJUST" => p.amount \in Nat

Flow(s) == IsSeq(s) /\ \A i \in DOMAIN s : PacketOK(s[i])

\* Packets that make the server use up a channel number.
Opening(p) == IF p.msg = "CHANNEL_OPEN" \/ (p.msg = "GLOBAL_REQUEST" /\ p.req = "tcpip-forward")
              THEN 1 ELSE 0
Openings(packets) == Sum([i \in DOMAIN packets |-> Opening(packets[i])])

\* Flows are concatenated.
LEMMA FlowCat ==
    ASSUME NEW s, Flow(s), NEW t, Flow(t)
    PROVE  Flow(s \o t)
  <1>1. IsSeq(s) /\ IsSeq(t)
    BY DEF Flow
  <1>2. /\ Len(s) \in Nat /\ Len(t) \in Nat /\ DOMAIN s = 1..Len(s) /\ DOMAIN t = 1..Len(t)
        /\ Len(s \o t) = Len(s) + Len(t) /\ DOMAIN (s \o t) = 1..Len(s) + Len(t)
        /\ \A i \in 1..Len(s) : (s \o t)[i] = s[i]
        /\ \A i \in 1..Len(t) : (s \o t)[Len(s) + i] = t[i]
        /\ IsSeq(s \o t)
    BY <1>1, CatAll
  <1>3. ASSUME NEW i \in DOMAIN (s \o t) PROVE PacketOK((s \o t)[i])
    <2>1. i \in 1..Len(s) + Len(t)
      BY <1>2
    <2>2. CASE i <= Len(s)
      BY <1>2, <2>1, <2>2 DEF Flow
    <2>3. CASE i > Len(s)
      <3>1. i - Len(s) \in 1..Len(t) /\ i = Len(s) + (i - Len(s))
        BY <1>2, <2>1, <2>3
      <3> QED BY <1>2, <3>1 DEF Flow
    <2> QED BY <1>2, <2>1, <2>2, <2>3
  <1> QED BY <1>2, <1>3 DEF Flow

\* One packet, and none.
LEMMA FlowOne ==
    ASSUME NEW p, PacketOK(p)
    PROVE  Flow(<<p>>) /\ Flow(<<>>)
  BY OneIs, SeqFacts DEF Flow

\* No packet.
LEMMA FlowNone == Flow(<<>>)
  <1>1. PacketOK([msg |-> "DISCONNECT"])
    BY DEF PacketOK, IsData
  <1> QED BY <1>1, FlowOne

\* Data in a concatenation.
LEMMA DataCat ==
    ASSUME NEW ch, NEW s, Flow(s), NEW t, Flow(t)
    PROVE  /\ DataFor(ch, s) \in Nat /\ DataFor(ch, t) \in Nat
           /\ DataFor(ch, s \o t) = DataFor(ch, s) + DataFor(ch, t)
  <1> DEFINE a == [i \in DOMAIN s |-> Size(s[i], ch)]
             b == [i \in DOMAIN t |-> Size(t[i], ch)]
             ab == [i \in DOMAIN (s \o t) |-> Size((s \o t)[i], ch)]
  <1>1. IsSeq(s) /\ IsSeq(t) /\ Flow(s \o t)
    BY FlowCat DEF Flow
  <1>2. /\ Len(s) \in Nat /\ Len(t) \in Nat /\ DOMAIN s = 1..Len(s) /\ DOMAIN t = 1..Len(t)
        /\ Len(s \o t) = Len(s) + Len(t) /\ DOMAIN (s \o t) = 1..Len(s) + Len(t)
        /\ \A i \in 1..Len(s) : (s \o t)[i] = s[i]
        /\ \A i \in 1..Len(t) : (s \o t)[Len(s) + i] = t[i]
    BY <1>1, CatAll
  <1>3. \A p : PacketOK(p) => Size(p, ch) \in Nat
    BY  DEF PacketOK, IsData, Size, Credit, Opening
  <1>4. a \in Seq(Nat) /\ b \in Seq(Nat) /\ Len(a) = Len(s) /\ Len(b) = Len(t)
    BY <1>2, <1>3 DEF Flow
  <1>5. DOMAIN ab = DOMAIN (a \o b)
    BY <1>2, <1>4
  <1>6. ASSUME NEW i \in DOMAIN ab PROVE ab[i] = (a \o b)[i]
    <2>1. i \in 1..Len(s) + Len(t)
      BY <1>2
    <2>2. CASE i <= Len(s)
      BY <1>2, <1>4, <2>1, <2>2
    <2>3. CASE i > Len(s)
      <3>1. i - Len(s) \in 1..Len(t) /\ i = Len(s) + (i - Len(s))
        BY <1>2, <2>1, <2>3
      <3>2. (s \o t)[i] = t[i - Len(s)]
        BY <1>2, <3>1
      <3>3. (a \o b)[i] = b[i - Len(s)]
        BY <1>2, <1>4, <2>1, <2>3, <3>1
      <3> QED BY <1>2, <3>1, <3>2, <3>3
    <2> QED BY <1>2, <2>1, <2>2, <2>3
  <1>7. a \o b \in Seq(Nat)
    BY <1>4
  <1>8. ab = a \o b
    <2>1. ab = [i \in DOMAIN ab |-> ab[i]] /\ a \o b = [i \in DOMAIN (a \o b) |-> (a \o b)[i]]
      BY <1>7
    <2> QED BY <1>5, <1>6, <2>1, Zenon
  <1> HIDE DEF a, b, ab
  <1>9. Sum(ab) = Sum(a) + Sum(b) /\ Sum(a) \in Nat /\ Sum(b) \in Nat
    BY <1>4, <1>8, SumConcat, SumType
  <1> QED BY <1>9 DEF a, b, ab, DataFor, CreditFor, Openings

\* Data in one packet.
LEMMA DataOne ==
    ASSUME NEW ch, NEW p, PacketOK(p)
    PROVE  DataFor(ch, <<p>>) = Size(p, ch) /\ Size(p, ch) \in Nat /\ DataFor(ch, <<>>) = 0
  <1>1. Size(p, ch) \in Nat
    BY DEF PacketOK, IsData, Size, Credit, Opening
  <1>2. [i \in DOMAIN <<p>> |-> Size(<<p>>[i], ch)] = <<Size(p, ch)>>
    OBVIOUS
  <1>3. [i \in DOMAIN <<>> |-> Size(<<>>[i], ch)] = <<>>
    OBVIOUS
  <1> QED BY <1>1, <1>2, <1>3, SumOne DEF DataFor, CreditFor, Openings

\* Credit in a concatenation.
LEMMA CreditCat ==
    ASSUME NEW ch, NEW s, Flow(s), NEW t, Flow(t)
    PROVE  /\ CreditFor(ch, s) \in Nat /\ CreditFor(ch, t) \in Nat
           /\ CreditFor(ch, s \o t) = CreditFor(ch, s) + CreditFor(ch, t)
  <1> DEFINE a == [i \in DOMAIN s |-> Credit(s[i], ch)]
             b == [i \in DOMAIN t |-> Credit(t[i], ch)]
             ab == [i \in DOMAIN (s \o t) |-> Credit((s \o t)[i], ch)]
  <1>1. IsSeq(s) /\ IsSeq(t) /\ Flow(s \o t)
    BY FlowCat DEF Flow
  <1>2. /\ Len(s) \in Nat /\ Len(t) \in Nat /\ DOMAIN s = 1..Len(s) /\ DOMAIN t = 1..Len(t)
        /\ Len(s \o t) = Len(s) + Len(t) /\ DOMAIN (s \o t) = 1..Len(s) + Len(t)
        /\ \A i \in 1..Len(s) : (s \o t)[i] = s[i]
        /\ \A i \in 1..Len(t) : (s \o t)[Len(s) + i] = t[i]
    BY <1>1, CatAll
  <1>3. \A p : PacketOK(p) => Credit(p, ch) \in Nat
    BY  DEF PacketOK, IsData, Size, Credit, Opening
  <1>4. a \in Seq(Nat) /\ b \in Seq(Nat) /\ Len(a) = Len(s) /\ Len(b) = Len(t)
    BY <1>2, <1>3 DEF Flow
  <1>5. DOMAIN ab = DOMAIN (a \o b)
    BY <1>2, <1>4
  <1>6. ASSUME NEW i \in DOMAIN ab PROVE ab[i] = (a \o b)[i]
    <2>1. i \in 1..Len(s) + Len(t)
      BY <1>2
    <2>2. CASE i <= Len(s)
      BY <1>2, <1>4, <2>1, <2>2
    <2>3. CASE i > Len(s)
      <3>1. i - Len(s) \in 1..Len(t) /\ i = Len(s) + (i - Len(s))
        BY <1>2, <2>1, <2>3
      <3>2. (s \o t)[i] = t[i - Len(s)]
        BY <1>2, <3>1
      <3>3. (a \o b)[i] = b[i - Len(s)]
        BY <1>2, <1>4, <2>1, <2>3, <3>1
      <3> QED BY <1>2, <3>1, <3>2, <3>3
    <2> QED BY <1>2, <2>1, <2>2, <2>3
  <1>7. a \o b \in Seq(Nat)
    BY <1>4
  <1>8. ab = a \o b
    <2>1. ab = [i \in DOMAIN ab |-> ab[i]] /\ a \o b = [i \in DOMAIN (a \o b) |-> (a \o b)[i]]
      BY <1>7
    <2> QED BY <1>5, <1>6, <2>1, Zenon
  <1> HIDE DEF a, b, ab
  <1>9. Sum(ab) = Sum(a) + Sum(b) /\ Sum(a) \in Nat /\ Sum(b) \in Nat
    BY <1>4, <1>8, SumConcat, SumType
  <1> QED BY <1>9 DEF a, b, ab, DataFor, CreditFor, Openings

\* Credit in one packet.
LEMMA CreditOne ==
    ASSUME NEW ch, NEW p, PacketOK(p)
    PROVE  CreditFor(ch, <<p>>) = Credit(p, ch) /\ Credit(p, ch) \in Nat /\ CreditFor(ch, <<>>) = 0
  <1>1. Credit(p, ch) \in Nat
    BY DEF PacketOK, IsData, Size, Credit, Opening
  <1>2. [i \in DOMAIN <<p>> |-> Credit(<<p>>[i], ch)] = <<Credit(p, ch)>>
    OBVIOUS
  <1>3. [i \in DOMAIN <<>> |-> Credit(<<>>[i], ch)] = <<>>
    OBVIOUS
  <1> QED BY <1>1, <1>2, <1>3, SumOne DEF DataFor, CreditFor, Openings

\* Openings in a concatenation.
LEMMA OpeningsCat ==
    ASSUME NEW s, Flow(s), NEW t, Flow(t)
    PROVE  /\ Openings(s) \in Nat /\ Openings(t) \in Nat
           /\ Openings(s \o t) = Openings(s) + Openings(t)
  <1> DEFINE a == [i \in DOMAIN s |-> Opening(s[i])]
             b == [i \in DOMAIN t |-> Opening(t[i])]
             ab == [i \in DOMAIN (s \o t) |-> Opening((s \o t)[i])]
  <1>1. IsSeq(s) /\ IsSeq(t) /\ Flow(s \o t)
    BY FlowCat DEF Flow
  <1>2. /\ Len(s) \in Nat /\ Len(t) \in Nat /\ DOMAIN s = 1..Len(s) /\ DOMAIN t = 1..Len(t)
        /\ Len(s \o t) = Len(s) + Len(t) /\ DOMAIN (s \o t) = 1..Len(s) + Len(t)
        /\ \A i \in 1..Len(s) : (s \o t)[i] = s[i]
        /\ \A i \in 1..Len(t) : (s \o t)[Len(s) + i] = t[i]
    BY <1>1, CatAll
  <1>3. \A p : PacketOK(p) => Opening(p) \in Nat
    BY DEF PacketOK, IsData, Size, Credit, Opening
  <1>4. a \in Seq(Nat) /\ b \in Seq(Nat) /\ Len(a) = Len(s) /\ Len(b) = Len(t)
    BY <1>2, <1>3 DEF Flow
  <1>5. DOMAIN ab = DOMAIN (a \o b)
    BY <1>2, <1>4
  <1>6. ASSUME NEW i \in DOMAIN ab PROVE ab[i] = (a \o b)[i]
    <2>1. i \in 1..Len(s) + Len(t)
      BY <1>2
    <2>2. CASE i <= Len(s)
      BY <1>2, <1>4, <2>1, <2>2
    <2>3. CASE i > Len(s)
      <3>1. i - Len(s) \in 1..Len(t) /\ i = Len(s) + (i - Len(s))
        BY <1>2, <2>1, <2>3
      <3>2. (s \o t)[i] = t[i - Len(s)]
        BY <1>2, <3>1
      <3>3. (a \o b)[i] = b[i - Len(s)]
        BY <1>2, <1>4, <2>1, <2>3, <3>1
      <3> QED BY <1>2, <3>1, <3>2, <3>3
    <2> QED BY <1>2, <2>1, <2>2, <2>3
  <1>7. a \o b \in Seq(Nat)
    BY <1>4
  <1>8. ab = a \o b
    <2>1. ab = [i \in DOMAIN ab |-> ab[i]] /\ a \o b = [i \in DOMAIN (a \o b) |-> (a \o b)[i]]
      BY <1>7
    <2> QED BY <1>5, <1>6, <2>1, Zenon
  <1> HIDE DEF a, b, ab
  <1>9. Sum(ab) = Sum(a) + Sum(b) /\ Sum(a) \in Nat /\ Sum(b) \in Nat
    BY <1>4, <1>8, SumConcat, SumType
  <1> QED BY <1>9 DEF a, b, ab, DataFor, CreditFor, Openings

\* Opening by one packet.
LEMMA OpeningsOne ==
    ASSUME NEW p, PacketOK(p)
    PROVE  Openings(<<p>>) = Opening(p) /\ Opening(p) \in Nat /\ Openings(<<>>) = 0
  <1>1. Opening(p) \in Nat
    BY DEF PacketOK, IsData, Size, Credit, Opening
  <1>2. [i \in DOMAIN <<p>> |-> Opening(<<p>>[i])] = <<Opening(p)>>
    OBVIOUS
  <1>3. [i \in DOMAIN <<>> |-> Opening(<<>>[i])] = <<>>
    OBVIOUS
  <1> QED BY <1>1, <1>2, <1>3, SumOne DEF DataFor, CreditFor, Openings

------------------------------------------------------------------------------
(* Two tables of channels and the packets between them *)

\* t is s with x behind it.
Grown(s, x, t) ==
    /\ Len(s) \in Nat /\ Len(x) \in Nat /\ Len(t) = Len(s) + Len(x)
    /\ DOMAIN s = 1..Len(s) /\ DOMAIN x = 1..Len(x) /\ DOMAIN t = 1..Len(s) + Len(x)
    /\ \A i \in 1..Len(s) : t[i] = s[i]
    /\ \A i \in 1..Len(x) : t[Len(s) + i] = x[i]
    /\ Flow(t)
    /\ \A ch : /\ DataFor(ch, s) \in Nat /\ CreditFor(ch, s) \in Nat
               /\ DataFor(ch, x) \in Nat /\ CreditFor(ch, x) \in Nat
               /\ DataFor(ch, t) = DataFor(ch, s) + DataFor(ch, x)
               /\ CreditFor(ch, t) = CreditFor(ch, s) + CreditFor(ch, x)
    /\ Openings(s) \in Nat /\ Openings(x) \in Nat /\ Openings(t) = Openings(s) + Openings(x)

\* t is s without its first packet p.
Taken(s, p, t) ==
    /\ Len(t) \in Nat /\ Len(s) = Len(t) + 1
    /\ DOMAIN t = 1..Len(t) /\ DOMAIN s = 1..Len(t) + 1
    /\ s[1] = p /\ PacketOK(p)
    /\ \A i \in 1..Len(t) : t[i] = s[i + 1]
    /\ Flow(t)
    /\ \A ch : /\ DataFor(ch, t) \in Nat /\ CreditFor(ch, t) \in Nat
               /\ Size(p, ch) \in Nat /\ Credit(p, ch) \in Nat
               /\ DataFor(ch, s) = Size(p, ch) + DataFor(ch, t)
               /\ CreditFor(ch, s) = Credit(p, ch) + CreditFor(ch, t)
    /\ Openings(t) \in Nat /\ Opening(p) \in Nat /\ Openings(s) = Opening(p) + Openings(t)

\* Concatenation grows.
LEMMA CatGrows ==
    ASSUME NEW s, Flow(s), NEW x, Flow(x)
    PROVE  Grown(s, x, s \o x)
  <1>1. IsSeq(s) /\ IsSeq(x)
    BY DEF Flow
  <1>2. /\ Len(s) \in Nat /\ Len(x) \in Nat /\ DOMAIN s = 1..Len(s) /\ DOMAIN x = 1..Len(x)
        /\ Len(s \o x) = Len(s) + Len(x) /\ DOMAIN (s \o x) = 1..Len(s) + Len(x)
        /\ \A i \in 1..Len(s) : (s \o x)[i] = s[i]
        /\ \A i \in 1..Len(x) : (s \o x)[Len(s) + i] = x[i]
        /\ IsSeq(s \o x)
    BY <1>1, CatAll, Zenon
  <1>3. Flow(s \o x)
    BY FlowCat
  <1> QED BY <1>2, <1>3, DataCat, CreditCat, OpeningsCat DEF Grown

\* The first packet is taken.
LEMMA CatTakes ==
    ASSUME NEW p, NEW t, Flow(<<p>> \o t), IsSeq(t)
    PROVE  Taken(<<p>> \o t, p, t)
  <1>1. IsSeq(<<p>>) /\ Len(<<p>>) = 1 /\ <<p>>[1] = p
    BY OneIs
  <1>2. /\ Len(t) \in Nat /\ DOMAIN t = 1..Len(t)
        /\ Len(<<p>> \o t) = 1 + Len(t) /\ DOMAIN (<<p>> \o t) = 1..1 + Len(t)
        /\ \A i \in 1..1 : (<<p>> \o t)[i] = <<p>>[i]
        /\ \A i \in 1..Len(t) : (<<p>> \o t)[1 + i] = t[i]
    <2>1. PICK q : q = <<p>>
      OBVIOUS
    <2>2. IsSeq(q)
      BY <1>1, <2>1
    <2>5. Len(q) = 1
      BY <1>1, <2>1
    <2>3. /\ Len(q) \in Nat /\ Len(t) \in Nat /\ DOMAIN q = 1..Len(q) /\ DOMAIN t = 1..Len(t)
          /\ Len(q \o t) = Len(q) + Len(t) /\ DOMAIN (q \o t) = 1..Len(q) + Len(t)
          /\ \A i \in 1..Len(q) : (q \o t)[i] = q[i]
          /\ \A i \in 1..Len(t) : (q \o t)[Len(q) + i] = t[i]
      BY <2>2, CatAll
    <2>4. /\ Len(q \o t) = 1 + Len(t) /\ DOMAIN (q \o t) = 1..1 + Len(t)
          /\ \A i \in 1..1 : (q \o t)[i] = q[i]
          /\ \A i \in 1..Len(t) : (q \o t)[1 + i] = t[i]
      BY <2>3, <2>5
    <2> QED BY <2>1, <2>3, <2>4
  <1>3. (<<p>> \o t)[1] = p /\ 1 \in DOMAIN (<<p>> \o t)
    BY <1>1, <1>2
  <1>4. PacketOK(p)
    BY <1>3 DEF Flow
  <1>5. ASSUME NEW i \in 1..Len(t) PROVE t[i] = (<<p>> \o t)[i + 1] /\ i + 1 \in DOMAIN (<<p>> \o t)
    BY <1>2
  <1>6. Flow(t)
    <2>1. \A i \in DOMAIN t : PacketOK(t[i])
      BY <1>2, <1>5 DEF Flow
    <2> QED BY <2>1 DEF Flow
  <1>7. Flow(<<p>>)
    BY <1>4, FlowOne
  <1>8. \A ch : /\ DataFor(ch, t) \in Nat /\ CreditFor(ch, t) \in Nat
                /\ Size(p, ch) \in Nat /\ Credit(p, ch) \in Nat
                /\ DataFor(ch, <<p>> \o t) = Size(p, ch) + DataFor(ch, t)
                /\ CreditFor(ch, <<p>> \o t) = Credit(p, ch) + CreditFor(ch, t)
    BY <1>4, <1>6, <1>7, DataCat, CreditCat, DataOne, CreditOne
  <1>9. Openings(t) \in Nat /\ Opening(p) \in Nat /\ Openings(<<p>> \o t) = Opening(p) + Openings(t)
    BY <1>4, <1>6, <1>7, OpeningsCat, OpeningsOne
  <1>10. Len(<<p>> \o t) = Len(t) + 1 /\ DOMAIN (<<p>> \o t) = 1..Len(t) + 1
    BY <1>2
  <1> QED BY <1>2, <1>3, <1>4, <1>5, <1>6, <1>8, <1>9, <1>10 DEF Taken

------------------------------------------------------------------------------
\* The agreement of the two tables of channels

Table(T, last) ==
    /\ last \in Nat /\ last >= 1
    /\ DOMAIN T \subseteq 2..last
    /\ \A k \in DOMAIN T :
          /\ T[k].recipient_channel \in Int /\ T[k].confirmed \in BOOLEAN
          /\ T[k].sender_window_size \in Nat /\ T[k].recipient_window_size \in Nat
          /\ ~T[k].confirmed => T[k].recipient_channel = 0

\* The other end of a confirmed channel.
Linked(CT, Cl, ST, Sl) ==
    /\ \A c \in DOMAIN CT : CT[c].confirmed =>
          /\ CT[c].recipient_channel \in 2..Sl
          /\ CT[c].recipient_channel \in DOMAIN ST =>
                /\ ST[CT[c].recipient_channel].confirmed
                /\ ST[CT[c].recipient_channel].recipient_channel = c
    /\ \A d \in DOMAIN ST : ST[d].confirmed =>
          /\ ST[d].recipient_channel \in 2..Cl
          /\ ST[d].recipient_channel \in DOMAIN CT /\ CT[ST[d].recipient_channel].confirmed =>
                CT[ST[d].recipient_channel].recipient_channel = d

\* The windows, from X to Y.
Account(X, Y, xy, yx) ==
    \A x \in DOMAIN X : X[x].confirmed /\ X[x].recipient_channel \in DOMAIN Y =>
        X[x].recipient_window_size + DataFor(X[x].recipient_channel, xy) + CreditFor(x, yx)
          = Y[X[x].recipient_channel].sender_window_size

IsConf(p, c) == p.msg = "CHANNEL_OPEN_CONFIRMATION" /\ p.ch = c

\* A channel that the server has accepted and the client does not know.
HalfOpen(CT, ST, cs, sc) ==
    \A c \in DOMAIN CT : \A d \in DOMAIN ST :
        ~CT[c].confirmed /\ ST[d].confirmed /\ ST[d].recipient_channel = c =>
            /\ ST[d].sender_window_size = WindowSize /\ CT[c].sender_window_size = WindowSize
            /\ DataFor(d, cs) = 0 /\ CreditFor(c, sc) = 0
            /\ \E j \in DOMAIN sc : IsConf(sc[j], c) /\ \A i \in 1..j - 1 : Size(sc[i], c) = 0

IsOpen(p) == p.msg = "CHANNEL_OPEN"

\* A request to open a channel on its way.
Asked(CT, Cl, ST, cs, sc) ==
    \A i \in DOMAIN cs : IsOpen(cs[i]) =>
        /\ cs[i].sender \in 2..Cl /\ cs[i].window = WindowSize /\ cs[i].maxpacket = MaxPacketSize
        /\ DataFor(cs[i].sender, sc) = 0 /\ CreditFor(cs[i].sender, sc) = 0
        /\ \A d \in DOMAIN ST : ST[d].confirmed => ST[d].recipient_channel # cs[i].sender
        /\ cs[i].sender \in DOMAIN CT => /\ ~CT[cs[i].sender].confirmed
                                         /\ CT[cs[i].sender].sender_window_size = WindowSize
        /\ \A j \in DOMAIN cs : IsOpen(cs[j]) /\ cs[j].sender = cs[i].sender => j = i
        /\ \A j \in DOMAIN sc : ~IsConf(sc[j], cs[i].sender)

\* The answer on its way.
Answered(CT, Cl, ST, Sl, sc) ==
    \A j \in DOMAIN sc : IsConf(sc[j], sc[j].ch) =>
        /\ sc[j].ch \in 2..Cl /\ sc[j].id_recv \in 2..Sl
        /\ sc[j].window = WindowSize /\ sc[j].maxpacket = MaxPacketSize
        /\ sc[j].ch \in DOMAIN CT => ~CT[sc[j].ch].confirmed
        /\ \A d \in DOMAIN ST :
              d = sc[j].id_recv <=> ST[d].confirmed /\ ST[d].recipient_channel = sc[j].ch
        /\ \A i \in DOMAIN sc : IsConf(sc[i], sc[j].ch) => i = j

\* Nothing is on its way for a channel that was never made.
Fresh(last, s) == \A k \in Int : k > last => DataFor(k, s) = 0 /\ CreditFor(k, s) = 0

Agreed(CT, Cl, ST, Sl, cs, sc) ==
    /\ Table(CT, Cl) /\ Table(ST, Sl) /\ Flow(cs) /\ Flow(sc)
    /\ Linked(CT, Cl, ST, Sl)
    /\ Account(CT, ST, cs, sc) /\ Account(ST, CT, sc, cs)
    /\ HalfOpen(CT, ST, cs, sc)
    /\ Asked(CT, Cl, ST, cs, sc) /\ Answered(CT, Cl, ST, Sl, sc)
    /\ Fresh(Sl, cs) /\ Fresh(Cl, sc)

\* At most one channel has a given other end.
LEMMA LinkC ==
    ASSUME NEW CT, NEW Cl, NEW ST, NEW Sl, Linked(CT, Cl, ST, Sl),
           NEW c \in DOMAIN CT, CT[c].confirmed, NEW b \in DOMAIN CT, CT[b].confirmed,
           CT[c].recipient_channel = CT[b].recipient_channel, CT[c].recipient_channel \in DOMAIN ST
    PROVE  b = c
  BY DEF Linked

\* At most one channel of the server either.
LEMMA LinkS ==
    ASSUME NEW CT, NEW Cl, NEW ST, NEW Sl, NEW cs, NEW sc, Agreed(CT, Cl, ST, Sl, cs, sc),
           NEW c \in DOMAIN ST, ST[c].confirmed, NEW b \in DOMAIN ST, ST[b].confirmed,
           ST[c].recipient_channel = ST[b].recipient_channel, ST[c].recipient_channel \in DOMAIN CT
    PROVE  b = c
  <1> DEFINE x == ST[c].recipient_channel
  <1>1. CASE CT[x].confirmed
    BY <1>1 DEF Linked, Agreed
  <1>2. CASE ~CT[x].confirmed
    <2>1. PICK j \in DOMAIN sc : IsConf(sc[j], x)
      BY <1>2 DEF HalfOpen, Agreed
    <2>2. \A d \in DOMAIN ST : d = sc[j].id_recv <=> ST[d].confirmed /\ ST[d].recipient_channel = sc[j].ch
      BY <2>1 DEF Answered, Agreed, IsConf
    <2> QED BY <2>1, <2>2 DEF IsConf
  <1> QED BY <1>1, <1>2

------------------------------------------------------------------------------
(* Packets that leave the windows alone *)

\* Packets that no window or opening depends on.
Idle(x) == /\ Flow(x) /\ \A ch : DataFor(ch, x) = 0 /\ CreditFor(ch, x) = 0
           /\ \A i \in DOMAIN x : ~IsOpen(x[i]) /\ x[i].msg # "CHANNEL_OPEN_CONFIRMATION"

\* The same channels, as far as the agreement goes.
SameButWindow(T, U) ==
    /\ DOMAIN U = DOMAIN T
    /\ \A k \in DOMAIN T : /\ U[k].recipient_channel = T[k].recipient_channel
                           /\ U[k].confirmed = T[k].confirmed
                           /\ U[k].sender_window_size = T[k].sender_window_size

Same(T, U) == /\ SameButWindow(T, U)
              /\ \A k \in DOMAIN T : U[k].recipient_window_size = T[k].recipient_window_size

\* Changes that leave the windows alone.
LEMMA AgreedSame ==
    ASSUME NEW CT, NEW Cl, NEW ST, NEW Sl, NEW cs, NEW sc, Agreed(CT, Cl, ST, Sl, cs, sc),
           NEW CU, Same(CT, CU), NEW SU, Same(ST, SU)
    PROVE  Agreed(CU, Cl, SU, Sl, cs, sc)
  <1> USE DEF Agreed, Same, SameButWindow
  <1>1. Table(CU, Cl) /\ Table(SU, Sl)
    BY DEF Table
  <1>2. Linked(CU, Cl, SU, Sl)
    BY DEF Linked
  <1>3. Account(CU, SU, cs, sc) /\ Account(SU, CU, sc, cs)
    BY DEF Account, Linked
  <1>4. HalfOpen(CU, SU, cs, sc)
    BY DEF HalfOpen
  <1>5. Asked(CU, Cl, SU, cs, sc)
    BY DEF Asked
  <1>6. Answered(CU, Cl, SU, Sl, sc)
    BY DEF Answered
  <1> QED BY <1>1, <1>2, <1>3, <1>4, <1>5, <1>6

\* The client sends packets that no window depends on.
LEMMA AgreedAddC ==
    ASSUME NEW CT, NEW Cl, NEW ST, NEW Sl, NEW cs, NEW sc, Agreed(CT, Cl, ST, Sl, cs, sc),
           NEW x, Idle(x)
    PROVE  Agreed(CT, Cl, ST, Sl, cs \o x, sc)
  <1>1. PICK t : t = cs \o x
    OBVIOUS
  <1>2. Grown(cs, x, t)
    BY <1>1, CatGrows DEF Agreed, Idle
  <1> USE DEF Agreed
  <1>3. \A ch : DataFor(ch, t) = DataFor(ch, cs) /\ CreditFor(ch, t) = CreditFor(ch, cs)
    BY <1>2 DEF Grown, Idle
  <1>4. \A i \in DOMAIN t : IsOpen(t[i]) => i \in DOMAIN cs /\ t[i] = cs[i]
    <2> SUFFICES ASSUME NEW i \in DOMAIN t, IsOpen(t[i]) PROVE i \in DOMAIN cs /\ t[i] = cs[i]
      OBVIOUS
    <2>1. CASE i > Len(cs)
      <3>1. i - Len(cs) \in 1..Len(x) /\ i = Len(cs) + (i - Len(cs))
        BY <1>2, <2>1 DEF Grown
      <3>2. t[i] = x[i - Len(cs)] /\ i - Len(cs) \in DOMAIN x
        BY <1>2, <3>1 DEF Grown
      <3> QED BY <3>2 DEF Idle
    <2>2. CASE i <= Len(cs)
      BY <1>2, <2>2 DEF Grown
    <2> QED BY <1>2, <2>1, <2>2 DEF Grown
  <1>5. Account(CT, ST, t, sc) /\ Account(ST, CT, sc, t)
    BY <1>3 DEF Account
  <1>6. HalfOpen(CT, ST, t, sc)
    BY <1>3 DEF HalfOpen
  <1>7. Asked(CT, Cl, ST, t, sc)
    BY <1>4 DEF Asked
  <1>8. Fresh(Sl, t)
    BY <1>3 DEF Fresh
  <1>9. Flow(t)
    BY <1>2 DEF Grown
  <1> QED BY <1>1, <1>5, <1>6, <1>7, <1>8, <1>9

\* So does the server.
LEMMA AgreedAddS ==
    ASSUME NEW CT, NEW Cl, NEW ST, NEW Sl, NEW cs, NEW sc, Agreed(CT, Cl, ST, Sl, cs, sc),
           NEW x, Flow(x), \A ch : DataFor(ch, x) = 0 /\ CreditFor(ch, x) = 0,
           \A i \in DOMAIN x : x[i].msg # "CHANNEL_OPEN_CONFIRMATION"
    PROVE  Agreed(CT, Cl, ST, Sl, cs, sc \o x)
  <1>1. PICK t : t = sc \o x
    OBVIOUS
  <1>2. Grown(sc, x, t)
    BY <1>1, CatGrows DEF Agreed
  <1> USE DEF Agreed
  <1>3. \A ch : DataFor(ch, t) = DataFor(ch, sc) /\ CreditFor(ch, t) = CreditFor(ch, sc)
    BY <1>2 DEF Grown
  <1>4. \A i \in DOMAIN t : t[i].msg = "CHANNEL_OPEN_CONFIRMATION" => i \in DOMAIN sc /\ t[i] = sc[i]
    <2> SUFFICES ASSUME NEW i \in DOMAIN t, t[i].msg = "CHANNEL_OPEN_CONFIRMATION"
                 PROVE  i \in DOMAIN sc /\ t[i] = sc[i]
      OBVIOUS
    <2>1. CASE i > Len(sc)
      <3>1. i - Len(sc) \in 1..Len(x) /\ i = Len(sc) + (i - Len(sc))
        BY <1>2, <2>1 DEF Grown
      <3>2. t[i] = x[i - Len(sc)] /\ i - Len(sc) \in DOMAIN x
        BY <1>2, <3>1 DEF Grown
      <3> QED BY <3>2
    <2>2. CASE i <= Len(sc)
      BY <1>2, <2>2 DEF Grown
    <2> QED BY <1>2, <2>1, <2>2 DEF Grown
  <1>5. Account(CT, ST, cs, t) /\ Account(ST, CT, t, cs)
    BY <1>3 DEF Account
  <1>6. HalfOpen(CT, ST, cs, t)
    <2>1. \A i \in DOMAIN sc : i \in DOMAIN t /\ t[i] = sc[i] /\ \A k \in 1..i - 1 : k \in DOMAIN sc /\ t[k] = sc[k]
      BY <1>2 DEF Grown
    <2> QED BY <1>3, <2>1 DEF HalfOpen
  <1>7. Asked(CT, Cl, ST, cs, t)
    BY <1>3, <1>4 DEF Asked, IsConf
  <1>8. Answered(CT, Cl, ST, Sl, t)
    BY <1>4 DEF Answered, IsConf
  <1>9. Fresh(Cl, t)
    BY <1>3 DEF Fresh
  <1>10. Flow(t)
    BY <1>2 DEF Grown
  <1> QED BY <1>1, <1>5, <1>6, <1>7, <1>8, <1>9, <1>10

------------------------------------------------------------------------------
(* Data is sent *)

\* Data for channel ch and no other, n bytes of it.
DataOnly(x, ch, n) ==
    /\ Flow(x) /\ DataFor(ch, x) = n
    /\ \A k : k # ch => DataFor(k, x) = 0
    /\ \A k : CreditFor(k, x) = 0
    /\ \A i \in DOMAIN x : ~IsOpen(x[i]) /\ x[i].msg # "CHANNEL_OPEN_CONFIRMATION"

\* U is T after n bytes were sent on channel k.
Spent(T, U, k, n) ==
    /\ SameButWindow(T, U)
    /\ \A l \in DOMAIN T \ {k} : U[l].recipient_window_size = T[l].recipient_window_size
    /\ k \in DOMAIN T /\ T[k].confirmed
    /\ n \in Nat /\ U[k].recipient_window_size \in Nat
    /\ U[k].recipient_window_size + n = T[k].recipient_window_size

\* The client sends data that the window admits.
LEMMA AgreedSendC ==
    ASSUME NEW CT, NEW Cl, NEW ST, NEW Sl, NEW cs, NEW sc, Agreed(CT, Cl, ST, Sl, cs, sc),
           NEW CU, NEW c, NEW n, Spent(CT, CU, c, n),
           NEW x, DataOnly(x, CT[c].recipient_channel, n)
    PROVE  Agreed(CU, Cl, ST, Sl, cs \o x, sc)
  <1>1. PICK t : t = cs \o x
    OBVIOUS
  <1>2. Grown(cs, x, t)
    BY <1>1, CatGrows DEF Agreed, DataOnly
  <1> USE DEF Agreed, Spent, SameButWindow
  <1>3. /\ \A ch : CreditFor(ch, t) = CreditFor(ch, cs)
        /\ \A ch : ch # CT[c].recipient_channel => DataFor(ch, t) = DataFor(ch, cs)
        /\ DataFor(CT[c].recipient_channel, t) = DataFor(CT[c].recipient_channel, cs) + n
        /\ \A ch : DataFor(ch, cs) \in Nat /\ CreditFor(ch, cs) \in Nat
    BY <1>2 DEF Grown, DataOnly
  <1>4. \A i \in DOMAIN t : IsOpen(t[i]) => i \in DOMAIN cs /\ t[i] = cs[i]
    <2> SUFFICES ASSUME NEW i \in DOMAIN t, IsOpen(t[i]) PROVE i \in DOMAIN cs /\ t[i] = cs[i]
      OBVIOUS
    <2>1. CASE i > Len(cs)
      <3>1. i - Len(cs) \in 1..Len(x) /\ i = Len(cs) + (i - Len(cs))
        BY <1>2, <2>1 DEF Grown
      <3>2. t[i] = x[i - Len(cs)] /\ i - Len(cs) \in DOMAIN x
        BY <1>2, <3>1 DEF Grown
      <3> QED BY <3>2 DEF DataOnly
    <2>2. CASE i <= Len(cs)
      BY <1>2, <2>2 DEF Grown
    <2> QED BY <1>2, <2>1, <2>2 DEF Grown
  <1>5. Table(CU, Cl)
    BY DEF Table
  <1>6. Linked(CU, Cl, ST, Sl)
    BY DEF Linked
  <1>7. Account(CU, ST, t, sc)
    <2> SUFFICES ASSUME NEW b \in DOMAIN CU, CU[b].confirmed, CU[b].recipient_channel \in DOMAIN ST
                 PROVE  CU[b].recipient_window_size + DataFor(CU[b].recipient_channel, t) + CreditFor(b, sc)
                          = ST[CU[b].recipient_channel].sender_window_size
      BY DEF Account
    <2>1. CT[b].recipient_window_size + DataFor(CT[b].recipient_channel, cs) + CreditFor(b, sc)
            = ST[CT[b].recipient_channel].sender_window_size
      BY DEF Account
    <2>2. CASE b # c
      <3>1. CT[b].recipient_channel # CT[c].recipient_channel
        BY <2>2, LinkC
      <3> QED BY <1>3, <2>1, <2>2, <3>1
    <2>3. CASE b = c
      <3>1. CreditFor(c, sc) \in Nat
        <4>1. Grown(sc, <<>>, sc \o <<>>)
          BY CatGrows, FlowNone
        <4> QED BY <4>1 DEF Grown
      <3>2. \A u, v, w, d, k \in Nat : u + n = w => u + (d + n) + k = w + d + k
        OBVIOUS
      <3>3. CT[c].recipient_window_size \in Nat
        BY DEF Table
      <3> QED BY <1>3, <2>1, <2>3, <3>1, <3>2, <3>3
    <2> QED BY <2>2, <2>3
  <1>8. Account(ST, CU, sc, t)
    BY <1>3 DEF Account
  <1>9. HalfOpen(CU, ST, t, sc)
    <2>1. \A d \in DOMAIN ST : ST[d].confirmed /\ ST[d].recipient_channel \in DOMAIN CT
              /\ ~CT[ST[d].recipient_channel].confirmed => d # CT[c].recipient_channel
      BY DEF Linked
    <2> QED BY <1>3, <2>1 DEF HalfOpen
  <1>10. Asked(CU, Cl, ST, t, sc)
    BY <1>4 DEF Asked
  <1>11. Answered(CU, Cl, ST, Sl, sc)
    BY DEF Answered
  <1>12. Fresh(Sl, t)
    <2>1. CT[c].recipient_channel \in 2..Sl
      BY DEF Linked
    <2>2. \A k \in Int : k > Sl => k # CT[c].recipient_channel
      BY <2>1 DEF Table
    <2> QED BY <1>3, <2>2 DEF Fresh
  <1>13. Flow(t)
    BY <1>2 DEF Grown
  <1> QED BY <1>1, <1>5, <1>6, <1>7, <1>8, <1>9, <1>10, <1>11, <1>12, <1>13

\* The server sends data that the window admits.
LEMMA AgreedSendS ==
    ASSUME NEW CT, NEW Cl, NEW ST, NEW Sl, NEW cs, NEW sc, Agreed(CT, Cl, ST, Sl, cs, sc),
           NEW SU, NEW d, NEW n, Spent(ST, SU, d, n),
           NEW x, DataOnly(x, ST[d].recipient_channel, n)
    PROVE  Agreed(CT, Cl, SU, Sl, cs, sc \o x)
  <1>1. PICK t : t = sc \o x
    OBVIOUS
  <1>2. Grown(sc, x, t)
    BY <1>1, CatGrows DEF Agreed, DataOnly
  <1> USE DEF Agreed, Spent, SameButWindow
  <1>3. /\ \A ch : CreditFor(ch, t) = CreditFor(ch, sc)
        /\ \A ch : ch # ST[d].recipient_channel => DataFor(ch, t) = DataFor(ch, sc)
        /\ DataFor(ST[d].recipient_channel, t) = DataFor(ST[d].recipient_channel, sc) + n
        /\ \A ch : DataFor(ch, sc) \in Nat /\ CreditFor(ch, sc) \in Nat
    BY <1>2 DEF Grown, DataOnly
  <1>4. \A i \in DOMAIN t : t[i].msg = "CHANNEL_OPEN_CONFIRMATION" => i \in DOMAIN sc /\ t[i] = sc[i]
    <2> SUFFICES ASSUME NEW i \in DOMAIN t, t[i].msg = "CHANNEL_OPEN_CONFIRMATION"
                 PROVE  i \in DOMAIN sc /\ t[i] = sc[i]
      OBVIOUS
    <2>1. CASE i > Len(sc)
      <3>1. i - Len(sc) \in 1..Len(x) /\ i = Len(sc) + (i - Len(sc))
        BY <1>2, <2>1 DEF Grown
      <3>2. t[i] = x[i - Len(sc)] /\ i - Len(sc) \in DOMAIN x
        BY <1>2, <3>1 DEF Grown
      <3> QED BY <3>2 DEF DataOnly
    <2>2. CASE i <= Len(sc)
      BY <1>2, <2>2 DEF Grown
    <2> QED BY <1>2, <2>1, <2>2 DEF Grown
  <1>5. Table(SU, Sl)
    BY DEF Table
  <1>6. Linked(CT, Cl, SU, Sl)
    BY DEF Linked
  <1>7. Account(SU, CT, t, cs)
    <2> SUFFICES ASSUME NEW b \in DOMAIN SU, SU[b].confirmed, SU[b].recipient_channel \in DOMAIN CT
                 PROVE  SU[b].recipient_window_size + DataFor(SU[b].recipient_channel, t) + CreditFor(b, cs)
                          = CT[SU[b].recipient_channel].sender_window_size
      BY DEF Account
    <2>1. ST[b].recipient_window_size + DataFor(ST[b].recipient_channel, sc) + CreditFor(b, cs)
            = CT[ST[b].recipient_channel].sender_window_size
      BY DEF Account
    <2>2. CASE b # d
      <3>1. ST[b].recipient_channel # ST[d].recipient_channel
        <4> HIDE DEF Agreed
        <4> QED BY <2>2, LinkS
      <3> QED BY <1>3, <2>1, <2>2, <3>1
    <2>3. CASE b = d
      <3>1. CreditFor(d, cs) \in Nat
        <4>1. Grown(cs, <<>>, cs \o <<>>)
          BY CatGrows, FlowNone
        <4> QED BY <4>1 DEF Grown
      <3>2. \A u, v, w, dd, k \in Nat : u + n = w => u + (dd + n) + k = w + dd + k
        OBVIOUS
      <3>3. ST[d].recipient_window_size \in Nat
        BY DEF Table
      <3> QED BY <1>3, <2>1, <2>3, <3>1, <3>2, <3>3
    <2> QED BY <2>2, <2>3
  <1>8. Account(CT, SU, cs, t)
    BY <1>3 DEF Account
  <1>9. HalfOpen(CT, SU, cs, t)
    <2>1. \A i \in DOMAIN sc : i \in DOMAIN t /\ t[i] = sc[i] /\ \A k \in 1..i - 1 : k \in DOMAIN sc /\ t[k] = sc[k]
      BY <1>2 DEF Grown
    <2> QED BY <1>3, <2>1 DEF HalfOpen
  <1>10. Asked(CT, Cl, SU, cs, t)
    BY <1>3, <1>4 DEF Asked, IsConf
  <1>11. Answered(CT, Cl, SU, Sl, t)
    BY <1>4 DEF Answered, IsConf
  <1>12. Fresh(Cl, t)
    <2>1. ST[d].recipient_channel \in 2..Cl
      BY DEF Linked
    <2>2. \A k \in Int : k > Cl => k # ST[d].recipient_channel
      BY <2>1 DEF Table
    <2> QED BY <1>3, <2>2 DEF Fresh
  <1>13. Flow(t)
    BY <1>2 DEF Grown
  <1> QED BY <1>1, <1>5, <1>6, <1>7, <1>8, <1>9, <1>10, <1>11, <1>12, <1>13

------------------------------------------------------------------------------
(* Data and credit at the client *)

\* U is T after n bytes were received on channel k, of which left is left.
Used(T, U, k, left) ==
    /\ DOMAIN U = DOMAIN T /\ k \in DOMAIN T
    /\ \A l \in DOMAIN T \ {k} : U[l].sender_window_size = T[l].sender_window_size
    /\ \A l \in DOMAIN T : /\ U[l].recipient_channel = T[l].recipient_channel
                           /\ U[l].confirmed = T[l].confirmed
                           /\ U[l].recipient_window_size = T[l].recipient_window_size
    /\ U[k].sender_window_size = left

Left(sw, n) == IF n <= sw THEN sw - n ELSE sw

Adjust(ch, amount) == [msg |-> "CHANNEL_WINDOW_ADJUST", ch |-> ch, amount |-> amount]

\* One packet of credit.
LEMMA AdjustIs ==
    ASSUME NEW ch, NEW amount \in Nat, NEW x, x = <<Adjust(ch, amount)>>
    PROVE  /\ Flow(x) /\ (\A k : DataFor(k, x) = 0) /\ Openings(x) = 0
           /\ CreditFor(ch, x) = amount /\ (\A k : k # ch => CreditFor(k, x) = 0)
           /\ Len(x) = 1 /\ x[1].msg = "CHANNEL_WINDOW_ADJUST"
  <1> DEFINE p == Adjust(ch, amount)
  <1>1. PacketOK(p) /\ (\A k : Size(p, k) = 0) /\ Credit(p, ch) = amount
    BY DEF PacketOK, IsData, Adjust, Size, Credit
  <1>2. (\A k : k # ch => Credit(p, k) = 0) /\ Opening(p) = 0 /\ p.msg = "CHANNEL_WINDOW_ADJUST"
    BY DEF Adjust, Credit, Opening
  <1> HIDE DEF p
  <1>3. Flow(<<p>>)
    BY <1>1, FlowOne
  <1> QED BY <1>1, <1>2, <1>3, DataOne, CreditOne, OpeningsOne DEF p

\* Data arrives at the client, which has the channel and sends no credit.
LEMMA AgreedReadC ==
    ASSUME NEW CT, NEW Cl, NEW ST, NEW Sl, NEW cs, NEW sc, Agreed(CT, Cl, ST, Sl, cs, sc),
           NEW p, NEW rest, Taken(sc, p, rest), IsData(p),
           NEW CU, Used(CT, CU, p.ch, Left(CT[p.ch].sender_window_size, Len(p.data)))
    PROVE  Agreed(CU, Cl, ST, Sl, cs, rest)
  <1> DEFINE c == p.ch
             n == Len(p.data)
  <1>1. /\ n \in Nat /\ Size(p, c) = n /\ \A k : k # c => Size(p, k) = 0
        /\ \A k : Credit(p, k) = 0
        /\ \A k : ~IsConf(p, k)
    BY DEF Taken, PacketOK, IsData, Size, Credit, IsConf
  <1>2. /\ \A ch : CreditFor(ch, rest) = CreditFor(ch, sc)
        /\ \A ch : ch # c => DataFor(ch, rest) = DataFor(ch, sc)
        /\ DataFor(c, sc) = DataFor(c, rest) + n
        /\ \A ch : DataFor(ch, rest) \in Nat /\ CreditFor(ch, rest) \in Nat
        /\ \A ch : DataFor(ch, rest) <= DataFor(ch, sc)
    <2>1. \A ch : /\ DataFor(ch, rest) \in Nat /\ CreditFor(ch, rest) \in Nat
                  /\ DataFor(ch, sc) = Size(p, ch) + DataFor(ch, rest)
                  /\ CreditFor(ch, sc) = Credit(p, ch) + CreditFor(ch, rest)
      BY DEF Taken
    <2> HIDE DEF c, n
    <2> QED BY <1>1, <2>1
  <1> USE DEF Agreed, Used
  <1>3. /\ \A i \in DOMAIN rest : i + 1 \in DOMAIN sc /\ rest[i] = sc[i + 1]
        /\ sc[1] = p /\ DOMAIN rest = 1..Len(rest) /\ DOMAIN sc = 1..Len(rest) + 1 /\ Len(rest) \in Nat
    BY DEF Taken
  <1>4. CT[c].sender_window_size \in Nat /\ Left(CT[c].sender_window_size, n) \in Nat
    BY <1>1 DEF Table, Left
  <1>5. \A ch : CreditFor(ch, cs) \in Nat
    <2>1. Grown(cs, <<>>, cs \o <<>>)
      BY CatGrows, FlowNone
    <2> QED BY <2>1 DEF Grown
  <1>6. ~CT[c].confirmed =>
           /\ \A d \in DOMAIN ST : ST[d].confirmed /\ ST[d].recipient_channel = c => n = 0
           /\ \A i \in DOMAIN cs : IsOpen(cs[i]) /\ cs[i].sender = c => n = 0
    <2>1. ASSUME ~CT[c].confirmed, NEW d \in DOMAIN ST, ST[d].confirmed, ST[d].recipient_channel = c
          PROVE  n = 0
      <3>1. PICK j \in DOMAIN sc : IsConf(sc[j], c) /\ \A i \in 1..j - 1 : Size(sc[i], c) = 0
        BY <2>1 DEF HalfOpen
      <3>2. j # 1
        BY <1>1, <1>3, <3>1
      <3>3. 1 \in 1..j - 1
        BY <1>3, <3>2
      <3> QED BY <1>1, <1>3, <3>1, <3>3
    <2>2. ASSUME NEW i \in DOMAIN cs, IsOpen(cs[i]), cs[i].sender = c PROVE n = 0
      BY <1>1, <1>2, <2>2 DEF Asked
    <2> QED BY <2>1, <2>2
  <1>7. Table(CU, Cl)
    BY <1>4 DEF Table
  <1>8. Linked(CU, Cl, ST, Sl)
    BY DEF Linked
  <1>9. Account(CU, ST, cs, rest)
    BY <1>2 DEF Account
  <1>10. Account(ST, CU, rest, cs)
    <2> SUFFICES ASSUME NEW d \in DOMAIN ST, ST[d].confirmed, ST[d].recipient_channel \in DOMAIN CU
                 PROVE  ST[d].recipient_window_size + DataFor(ST[d].recipient_channel, rest) + CreditFor(d, cs)
                          = CU[ST[d].recipient_channel].sender_window_size
      BY DEF Account
    <2>1. ST[d].recipient_window_size + DataFor(ST[d].recipient_channel, sc) + CreditFor(d, cs)
            = CT[ST[d].recipient_channel].sender_window_size
      BY DEF Account
    <2>2. ST[d].recipient_window_size \in Nat
      BY DEF Table
    <2>3. CASE ST[d].recipient_channel # c
      BY <1>2, <2>1, <2>3
    <2>4. CASE ST[d].recipient_channel = c
      <3>1. \A w, e, k, s, m \in Nat : w + (e + m) + k = s => m <= s /\ w + e + k = s - m
        OBVIOUS
      <3>2. n <= CT[c].sender_window_size
            /\ ST[d].recipient_window_size + DataFor(c, rest) + CreditFor(d, cs) = CT[c].sender_window_size - n
        BY <1>1, <1>2, <1>4, <1>5, <2>1, <2>2, <2>4, <3>1
      <3> QED BY <2>4, <3>2 DEF Left
    <2> QED BY <2>3, <2>4
  <1>11. HalfOpen(CU, ST, cs, rest)
    <2> SUFFICES ASSUME NEW b \in DOMAIN CU, NEW d \in DOMAIN ST,
                        ~CU[b].confirmed, ST[d].confirmed, ST[d].recipient_channel = b
                 PROVE  /\ ST[d].sender_window_size = WindowSize /\ CU[b].sender_window_size = WindowSize
                        /\ DataFor(d, cs) = 0 /\ CreditFor(b, rest) = 0
                        /\ \E j \in DOMAIN rest : IsConf(rest[j], b) /\ \A i \in 1..j - 1 : Size(rest[i], b) = 0
      BY DEF HalfOpen
    <2>1. /\ ST[d].sender_window_size = WindowSize /\ CT[b].sender_window_size = WindowSize
          /\ DataFor(d, cs) = 0 /\ CreditFor(b, sc) = 0
      BY DEF HalfOpen
    <2>2. PICK j \in DOMAIN sc : IsConf(sc[j], b) /\ \A i \in 1..j - 1 : Size(sc[i], b) = 0
      BY DEF HalfOpen
    <2>3. j - 1 \in DOMAIN rest /\ rest[j - 1] = sc[j]
      BY <1>1, <1>3, <2>2
    <2>4. ASSUME NEW i \in 1..(j - 1) - 1 PROVE i + 1 \in 1..j - 1 /\ rest[i] = sc[i + 1]
      <3>1. j \in 1..Len(rest) + 1
        BY <1>3
      <3>2. i + 1 \in 1..j - 1 /\ i \in 1..Len(rest)
        BY <1>3, <3>1
      <3> QED BY <1>3, <3>2
    <2>5. CU[b].sender_window_size = WindowSize
      BY <1>1, <1>4, <1>6, <2>1 DEF Left
    <2> QED BY <1>2, <2>1, <2>2, <2>3, <2>4, <2>5
  <1>12. Asked(CU, Cl, ST, cs, rest)
    <2>1. \A i \in DOMAIN cs : IsOpen(cs[i]) /\ cs[i].sender \in DOMAIN CT =>
              CU[cs[i].sender].sender_window_size = WindowSize
      <3> SUFFICES ASSUME NEW i \in DOMAIN cs, IsOpen(cs[i]), cs[i].sender \in DOMAIN CT
                   PROVE  CU[cs[i].sender].sender_window_size = WindowSize
        OBVIOUS
      <3>1. CT[cs[i].sender].sender_window_size = WindowSize /\ ~CT[cs[i].sender].confirmed
        BY DEF Asked
      <3> QED BY <1>1, <1>4, <1>6, <3>1 DEF Left
    <2>2. \A ch : DataFor(ch, sc) = 0 => DataFor(ch, rest) = 0
      BY <1>2
    <2> QED BY <1>2, <1>3, <2>1, <2>2 DEF Asked
  <1>13. Answered(CU, Cl, ST, Sl, rest)
    <2>1. \A i, j \in DOMAIN rest : i + 1 = j + 1 => i = j
      BY <1>3
    <2> QED BY <1>3, <2>1 DEF Answered
  <1>14. Fresh(Cl, rest)
    <2>1. \A ch : DataFor(ch, sc) = 0 => DataFor(ch, rest) = 0
      BY <1>2
    <2> QED BY <1>2, <2>1 DEF Fresh
  <1>15. Flow(rest)
    BY DEF Taken
  <1> QED BY <1>7, <1>8, <1>9, <1>10, <1>11, <1>12, <1>13, <1>14, <1>15

\* The client opens the window of a channel again.
LEMMA AgreedGrantC ==
    ASSUME NEW CT, NEW Cl, NEW ST, NEW Sl, NEW cs, NEW sc, Agreed(CT, Cl, ST, Sl, cs, sc),
           NEW c, NEW CU, Used(CT, CU, c, WindowSize), CT[c].sender_window_size < WindowSize,
           NEW x, x = <<Adjust(CT[c].recipient_channel, WindowSize - CT[c].sender_window_size)>>
    PROVE  Agreed(CU, Cl, ST, Sl, cs \o x, sc)
  <1> USE DEF Agreed, Used
  <1>w. WindowSize \in Nat
    BY SshConnectionAssumption
  <1> DEFINE left == CT[c].sender_window_size
             y == CT[c].recipient_channel
  <1>1. left \in Nat /\ WindowSize - left \in Nat /\ y \in Int
    BY <1>w DEF Table
  <1>2. /\ Flow(x) /\ (\A k : DataFor(k, x) = 0)
        /\ CreditFor(y, x) = WindowSize - left /\ (\A k : k # y => CreditFor(k, x) = 0)
        /\ Len(x) = 1 /\ x[1].msg = "CHANNEL_WINDOW_ADJUST"
    BY <1>1, AdjustIs
  <1>3. PICK t : t = cs \o x
    OBVIOUS
  <1>4. Grown(cs, x, t)
    BY <1>2, <1>3, CatGrows
  <1>5. /\ \A ch : DataFor(ch, t) = DataFor(ch, cs)
        /\ \A ch : ch # y => CreditFor(ch, t) = CreditFor(ch, cs)
        /\ CreditFor(y, t) = CreditFor(y, cs) + (WindowSize - left)
        /\ \A ch : DataFor(ch, cs) \in Nat /\ CreditFor(ch, cs) \in Nat
    <2>1. \A ch : /\ DataFor(ch, cs) \in Nat /\ CreditFor(ch, cs) \in Nat
                  /\ DataFor(ch, t) = DataFor(ch, cs) + DataFor(ch, x)
                  /\ CreditFor(ch, t) = CreditFor(ch, cs) + CreditFor(ch, x)
      BY <1>4 DEF Grown
    <2>2. CreditFor(y, t) = CreditFor(y, cs) + (WindowSize - left)
      BY <1>2, <2>1
    <2>3. /\ \A ch : DataFor(ch, t) = DataFor(ch, cs)
          /\ \A ch : ch # y => CreditFor(ch, t) = CreditFor(ch, cs)
      BY <1>2, <2>1
    <2> QED BY <2>1, <2>2, <2>3
  <1>6. \A i \in DOMAIN t : IsOpen(t[i]) => i \in DOMAIN cs /\ t[i] = cs[i]
    <2> SUFFICES ASSUME NEW i \in DOMAIN t, IsOpen(t[i]) PROVE i \in DOMAIN cs /\ t[i] = cs[i]
      OBVIOUS
    <2>1. CASE i > Len(cs)
      <3>1. i = Len(cs) + 1 /\ 1 \in 1..Len(x)
        BY <1>2, <1>4, <2>1 DEF Grown
      <3>2. t[i] = x[1]
        BY <1>4, <3>1 DEF Grown
      <3> QED BY <1>2, <3>2 DEF IsOpen
    <2>2. CASE i <= Len(cs)
      BY <1>4, <2>2 DEF Grown
    <2> QED BY <1>4, <2>1, <2>2 DEF Grown
  <1>7. Table(CU, Cl)
    BY <1>w DEF Table
  <1>8. Linked(CU, Cl, ST, Sl)
    BY DEF Linked
  <1>9. Account(CU, ST, t, sc)
    BY <1>5 DEF Account
  <1>10. ~CT[c].confirmed =>
           /\ \A d \in DOMAIN ST : ~(ST[d].confirmed /\ ST[d].recipient_channel = c)
           /\ \A i \in DOMAIN cs : ~(IsOpen(cs[i]) /\ cs[i].sender = c)
    <2>1. left # WindowSize
      BY <1>1, <1>w
    <2>2. ASSUME ~CT[c].confirmed, NEW d \in DOMAIN ST, ST[d].confirmed, ST[d].recipient_channel = c PROVE FALSE
      BY <2>1, <2>2 DEF HalfOpen
    <2>3. ASSUME NEW i \in DOMAIN cs, IsOpen(cs[i]), cs[i].sender = c PROVE FALSE
      BY <2>1, <2>3 DEF Asked
    <2> QED BY <2>2, <2>3
  <1>11. Account(ST, CU, sc, t)
    <2> SUFFICES ASSUME NEW d \in DOMAIN ST, ST[d].confirmed, ST[d].recipient_channel \in DOMAIN CU
                 PROVE  ST[d].recipient_window_size + DataFor(ST[d].recipient_channel, sc) + CreditFor(d, t)
                          = CU[ST[d].recipient_channel].sender_window_size
      BY DEF Account
    <2>1. ST[d].recipient_window_size + DataFor(ST[d].recipient_channel, sc) + CreditFor(d, cs)
            = CT[ST[d].recipient_channel].sender_window_size
      BY DEF Account
    <2>2. ST[d].recipient_window_size \in Nat /\ DataFor(ST[d].recipient_channel, sc) \in Nat
      <3>1. Grown(sc, <<>>, sc \o <<>>)
        BY CatGrows, FlowNone
      <3> QED BY <3>1 DEF Grown, Table
    <2>3. CASE ST[d].recipient_channel # c
      <3>1. d # y
        BY <2>3 DEF Linked, Table
      <3> QED BY <1>5, <2>1, <2>3, <3>1
    <2>4. CASE ST[d].recipient_channel = c
      <3>1. d = y
        BY <1>10, <2>4 DEF Linked
      <3>2. \A w, e, k, s \in Nat : w + e + k = s => w + e + (k + (WindowSize - s)) = WindowSize
        BY <1>w
      <3> QED BY <1>1, <1>5, <2>1, <2>2, <2>4, <3>1, <3>2
    <2> QED BY <2>3, <2>4
  <1>12. HalfOpen(CU, ST, t, sc)
    BY <1>5, <1>10 DEF HalfOpen
  <1>13. Asked(CU, Cl, ST, t, sc)
    BY <1>6, <1>10 DEF Asked
  <1>14. Answered(CU, Cl, ST, Sl, sc)
    BY DEF Answered
  <1>15. Fresh(Sl, t)
    <2>1. y \in 0..Sl
      BY DEF Linked, Table
    <2>2. \A k \in Int : k > Sl => k # y
      BY <2>1 DEF Table
    <2> QED BY <1>5, <2>2 DEF Fresh
  <1>16. Flow(t)
    BY <1>4 DEF Grown
  <1> QED BY <1>3, <1>7, <1>8, <1>9, <1>11, <1>12, <1>13, <1>14, <1>15, <1>16

------------------------------------------------------------------------------
(* Data and credit at the server *)

\* Sums over any flow are naturals.
LEMMA FlowSums ==
    ASSUME NEW s, Flow(s)
    PROVE  /\ \A ch : DataFor(ch, s) \in Nat /\ CreditFor(ch, s) \in Nat
           /\ Openings(s) \in Nat
  <1>1. Grown(s, <<>>, s \o <<>>)
    BY CatGrows, FlowNone
  <1> QED BY <1>1 DEF Grown

\* Data arrives at the server, which has the channel and sends no credit.
LEMMA AgreedReadS ==
    ASSUME NEW CT, NEW Cl, NEW ST, NEW Sl, NEW cs, NEW sc, Agreed(CT, Cl, ST, Sl, cs, sc),
           NEW p, NEW rest, Taken(cs, p, rest), IsData(p),
           NEW SU, Used(ST, SU, p.ch, Left(ST[p.ch].sender_window_size, Len(p.data)))
    PROVE  Agreed(CT, Cl, SU, Sl, rest, sc)
  <1> DEFINE d == p.ch
             n == Len(p.data)
  <1>1. /\ n \in Nat /\ Size(p, d) = n /\ (\A k : k # d => Size(p, k) = 0)
        /\ \A k : Credit(p, k) = 0
    BY DEF Taken, PacketOK, IsData, Size, Credit
  <1>2. /\ \A ch : CreditFor(ch, rest) = CreditFor(ch, cs)
        /\ \A ch : ch # d => DataFor(ch, rest) = DataFor(ch, cs)
        /\ DataFor(d, cs) = DataFor(d, rest) + n
        /\ \A ch : DataFor(ch, rest) \in Nat /\ CreditFor(ch, rest) \in Nat
        /\ \A ch : DataFor(ch, rest) <= DataFor(ch, cs)
    <2>1. \A ch : /\ DataFor(ch, rest) \in Nat /\ CreditFor(ch, rest) \in Nat
                  /\ DataFor(ch, cs) = Size(p, ch) + DataFor(ch, rest)
                  /\ CreditFor(ch, cs) = Credit(p, ch) + CreditFor(ch, rest)
      BY DEF Taken
    <2> HIDE DEF d, n
    <2> QED BY <1>1, <2>1
  <1> USE DEF Agreed, Used
  <1>3. /\ \A i \in DOMAIN rest : i + 1 \in DOMAIN cs /\ rest[i] = cs[i + 1]
        /\ \A i, j \in DOMAIN rest : i + 1 = j + 1 => i = j
    BY DEF Taken
  <1>4. ST[d].sender_window_size \in Nat /\ Left(ST[d].sender_window_size, n) \in Nat
    BY <1>1 DEF Table, Left
  <1>5. \A ch : DataFor(ch, cs) = 0 => DataFor(ch, rest) = 0
    BY <1>2
  <1>6. Table(SU, Sl)
    BY <1>4 DEF Table
  <1>7. Linked(CT, Cl, SU, Sl)
    BY DEF Linked
  <1>8. Account(SU, CT, sc, rest)
    BY <1>2 DEF Account
  <1>9. Account(CT, SU, rest, sc)
    <2> SUFFICES ASSUME NEW c \in DOMAIN CT, CT[c].confirmed, CT[c].recipient_channel \in DOMAIN SU
                 PROVE  CT[c].recipient_window_size + DataFor(CT[c].recipient_channel, rest) + CreditFor(c, sc)
                          = SU[CT[c].recipient_channel].sender_window_size
      BY DEF Account
    <2>1. CT[c].recipient_window_size + DataFor(CT[c].recipient_channel, cs) + CreditFor(c, sc)
            = ST[CT[c].recipient_channel].sender_window_size
      BY DEF Account
    <2>2. CT[c].recipient_window_size \in Nat /\ CreditFor(c, sc) \in Nat
      BY FlowSums DEF Table
    <2>3. CASE CT[c].recipient_channel # d
      BY <1>2, <2>1, <2>3
    <2>4. CASE CT[c].recipient_channel = d
      <3>1. \A w, e, k, s, m \in Nat : w + (e + m) + k = s => m <= s /\ w + e + k = s - m
        OBVIOUS
      <3>2. n <= ST[d].sender_window_size
            /\ CT[c].recipient_window_size + DataFor(d, rest) + CreditFor(c, sc) = ST[d].sender_window_size - n
        BY <1>1, <1>2, <1>4, <2>1, <2>2, <2>4, <3>1
      <3> QED BY <2>4, <3>2 DEF Left
    <2> QED BY <2>3, <2>4
  <1>10. HalfOpen(CT, SU, rest, sc)
    <2>1. \A c \in DOMAIN CT : ~CT[c].confirmed /\ ST[d].confirmed /\ ST[d].recipient_channel = c =>
              /\ n = 0 /\ ST[d].sender_window_size = WindowSize
      BY <1>1, <1>2 DEF HalfOpen
    <2>2. n = 0 => Left(ST[d].sender_window_size, n) = ST[d].sender_window_size
      BY <1>4 DEF Left
    <2> QED BY <1>5, <2>1, <2>2 DEF HalfOpen
  <1>11. Asked(CT, Cl, SU, rest, sc)
    BY <1>3 DEF Asked
  <1>12. Answered(CT, Cl, SU, Sl, sc)
    BY DEF Answered
  <1>13. Fresh(Sl, rest)
    BY <1>2, <1>5 DEF Fresh
  <1>14. Flow(rest)
    BY DEF Taken
  <1> QED BY <1>6, <1>7, <1>8, <1>9, <1>10, <1>11, <1>12, <1>13, <1>14

\* The server opens the window of a channel again.
LEMMA AgreedGrantS ==
    ASSUME NEW CT, NEW Cl, NEW ST, NEW Sl, NEW cs, NEW sc, Agreed(CT, Cl, ST, Sl, cs, sc),
           NEW d, NEW SU, Used(ST, SU, d, WindowSize), ST[d].sender_window_size < WindowSize,
           NEW x, x = <<Adjust(ST[d].recipient_channel, WindowSize - ST[d].sender_window_size)>>
    PROVE  Agreed(CT, Cl, SU, Sl, cs, sc \o x)
  <1> USE DEF Agreed, Used
  <1>w. WindowSize \in Nat
    BY SshConnectionAssumption
  <1> DEFINE left == ST[d].sender_window_size
             y == ST[d].recipient_channel
  <1>1. left \in Nat /\ WindowSize - left \in Nat /\ y \in Int
    BY <1>w DEF Table
  <1>2. /\ Flow(x) /\ (\A k : DataFor(k, x) = 0)
        /\ CreditFor(y, x) = WindowSize - left /\ (\A k : k # y => CreditFor(k, x) = 0)
        /\ Len(x) = 1 /\ x[1].msg = "CHANNEL_WINDOW_ADJUST"
    BY <1>1, AdjustIs
  <1>3. PICK t : t = sc \o x
    OBVIOUS
  <1>4. Grown(sc, x, t)
    BY <1>2, <1>3, CatGrows
  <1>5. /\ \A ch : DataFor(ch, t) = DataFor(ch, sc)
        /\ \A ch : ch # y => CreditFor(ch, t) = CreditFor(ch, sc)
        /\ CreditFor(y, t) = CreditFor(y, sc) + (WindowSize - left)
        /\ \A ch : DataFor(ch, sc) \in Nat /\ CreditFor(ch, sc) \in Nat
    <2>1. \A ch : /\ DataFor(ch, sc) \in Nat /\ CreditFor(ch, sc) \in Nat
                  /\ DataFor(ch, t) = DataFor(ch, sc) + DataFor(ch, x)
                  /\ CreditFor(ch, t) = CreditFor(ch, sc) + CreditFor(ch, x)
      BY <1>4 DEF Grown
    <2>2. CreditFor(y, t) = CreditFor(y, sc) + (WindowSize - left)
      BY <1>2, <2>1
    <2>3. /\ \A ch : DataFor(ch, t) = DataFor(ch, sc)
          /\ \A ch : ch # y => CreditFor(ch, t) = CreditFor(ch, sc)
      BY <1>2, <2>1
    <2> QED BY <2>1, <2>2, <2>3
  <1>6. \A i \in DOMAIN t : t[i].msg = "CHANNEL_OPEN_CONFIRMATION" => i \in DOMAIN sc /\ t[i] = sc[i]
    <2> SUFFICES ASSUME NEW i \in DOMAIN t, t[i].msg = "CHANNEL_OPEN_CONFIRMATION"
                 PROVE  i \in DOMAIN sc /\ t[i] = sc[i]
      OBVIOUS
    <2>1. CASE i > Len(sc)
      <3>1. i = Len(sc) + 1 /\ 1 \in 1..Len(x)
        BY <1>2, <1>4, <2>1 DEF Grown
      <3>2. t[i] = x[1]
        BY <1>4, <3>1 DEF Grown
      <3> QED BY <1>2, <3>2
    <2>2. CASE i <= Len(sc)
      BY <1>4, <2>2 DEF Grown
    <2> QED BY <1>4, <2>1, <2>2 DEF Grown
  <1>7. Table(SU, Sl)
    BY <1>w DEF Table
  <1>8. Linked(CT, Cl, SU, Sl)
    BY DEF Linked
  <1>9. Account(SU, CT, t, cs)
    BY <1>5 DEF Account
  <1>10. /\ y \in DOMAIN CT => CT[y].confirmed /\ ST[d].confirmed
         /\ \A i \in DOMAIN cs : IsOpen(cs[i]) => cs[i].sender # y
    <2>1. left # WindowSize
      BY <1>1, <1>w
    <2>2. ASSUME y \in DOMAIN CT PROVE ST[d].confirmed
      BY <2>2 DEF Table
    <2>3. ASSUME y \in DOMAIN CT, ~CT[y].confirmed PROVE FALSE
      BY <2>1, <2>2, <2>3 DEF HalfOpen
    <2>4. ASSUME NEW i \in DOMAIN cs, IsOpen(cs[i]), cs[i].sender = y PROVE FALSE
      <3>1. CASE ST[d].confirmed
        BY <2>4, <3>1 DEF Asked
      <3>2. CASE ~ST[d].confirmed
        <4>1. y = 0
          BY <3>2 DEF Table
        <4>2. cs[i].sender \in 2..Cl /\ Cl \in Nat
          BY <2>4 DEF Asked, Table
        <4> QED BY <2>4, <4>1, <4>2
      <3> QED BY <3>1, <3>2
    <2> QED BY <2>2, <2>3, <2>4
  <1>11. Account(CT, SU, cs, t)
    <2> SUFFICES ASSUME NEW c \in DOMAIN CT, CT[c].confirmed, CT[c].recipient_channel \in DOMAIN SU
                 PROVE  CT[c].recipient_window_size + DataFor(CT[c].recipient_channel, cs) + CreditFor(c, t)
                          = SU[CT[c].recipient_channel].sender_window_size
      BY DEF Account
    <2>1. CT[c].recipient_window_size + DataFor(CT[c].recipient_channel, cs) + CreditFor(c, sc)
            = ST[CT[c].recipient_channel].sender_window_size
      BY DEF Account
    <2>2. CT[c].recipient_window_size \in Nat /\ DataFor(CT[c].recipient_channel, cs) \in Nat
      BY FlowSums DEF Table
    <2>3. CASE CT[c].recipient_channel # d
      <3>1. c # y
        BY <1>10, <2>3 DEF Linked
      <3> QED BY <1>5, <2>1, <2>3, <3>1
    <2>4. CASE CT[c].recipient_channel = d
      <3>1. c = y
        BY <2>4 DEF Linked
      <3>2. \A w, e, k, s \in Nat : w + e + k = s => w + e + (k + (WindowSize - s)) = WindowSize
        BY <1>w
      <3> QED BY <1>1, <1>5, <2>1, <2>2, <2>4, <3>1, <3>2
    <2> QED BY <2>3, <2>4
  <1>12. HalfOpen(CT, SU, cs, t)
    <2>1. \A i \in DOMAIN sc : i \in DOMAIN t /\ t[i] = sc[i] /\ \A k \in 1..i - 1 : k \in DOMAIN sc /\ t[k] = sc[k]
      BY <1>4 DEF Grown
    <2> QED BY <1>5, <1>10, <2>1 DEF HalfOpen
  <1>13. Asked(CT, Cl, SU, cs, t)
    BY <1>5, <1>6, <1>10 DEF Asked, IsConf
  <1>14. Answered(CT, Cl, SU, Sl, t)
    BY <1>6 DEF Answered, IsConf
  <1>15. Fresh(Cl, t)
    <2>1. y \in 0..Cl
      BY DEF Linked, Table
    <2>2. \A k \in Int : k > Cl => k # y
      BY <2>1 DEF Table
    <2> QED BY <1>5, <2>2 DEF Fresh
  <1>16. Flow(t)
    BY <1>4 DEF Grown
  <1> QED BY <1>3, <1>7, <1>8, <1>9, <1>11, <1>12, <1>13, <1>14, <1>15, <1>16

------------------------------------------------------------------------------
(* A packet is left out of a stream *)

\* U is T after credit for n bytes on channel k.
Earned(T, U, k, n) ==
    /\ SameButWindow(T, U) /\ k \in DOMAIN T /\ n \in Nat
    /\ \A l \in DOMAIN T \ {k} : U[l].recipient_window_size = T[l].recipient_window_size
    /\ U[k].recipient_window_size = T[k].recipient_window_size + n

\* t is s without its packet p at m.
Dropped(s, m, p, t) ==
    /\ Len(t) \in Nat /\ Len(s) = Len(t) + 1
    /\ DOMAIN t = 1..Len(t) /\ DOMAIN s = 1..Len(t) + 1
    /\ m \in 1..Len(t) + 1 /\ s[m] = p
    /\ \A i \in 1..m - 1 : t[i] = s[i]
    /\ \A i \in m..Len(t) : t[i] = s[i + 1]
    /\ Flow(t)
    /\ \A ch : /\ DataFor(ch, t) \in Nat /\ CreditFor(ch, t) \in Nat
               /\ Size(p, ch) \in Nat /\ Credit(p, ch) \in Nat
               /\ DataFor(ch, s) = Size(p, ch) + DataFor(ch, t)
               /\ CreditFor(ch, s) = Credit(p, ch) + CreditFor(ch, t)
    /\ Openings(t) \in Nat /\ Opening(p) \in Nat /\ Openings(s) = Opening(p) + Openings(t)

\* The first packet.
LEMMA TakenDropped ==
    ASSUME NEW s, NEW p, NEW t, Taken(s, p, t)
    PROVE  Dropped(s, 1, p, t)
  BY DEF Taken, Dropped

\* A packet between others.
LEMMA CatDrops ==
    ASSUME NEW a, Flow(a), NEW p, NEW b, IsSeq(b), Flow(<<p>> \o b)
    PROVE  Dropped(a \o (<<p>> \o b), Len(a) + 1, p, a \o b) /\ Flow(a \o (<<p>> \o b))
  <1>1. PICK u : u = <<p>> \o b
    OBVIOUS
  <1>2. Taken(u, p, b)
    BY <1>1, CatTakes
  <1>3. Flow(b) /\ Flow(u)
    BY <1>1, <1>2 DEF Taken
  <1>4. PICK s : s = a \o u
    OBVIOUS
  <1>5. PICK t : t = a \o b
    OBVIOUS
  <1>6. Grown(a, u, s) /\ Grown(a, b, t)
    BY <1>3, <1>4, <1>5, CatGrows
  <1>7. /\ Len(t) \in Nat /\ Len(s) = Len(t) + 1
        /\ DOMAIN t = 1..Len(t) /\ DOMAIN s = 1..Len(t) + 1
        /\ Len(a) + 1 \in 1..Len(t) + 1 /\ Flow(t) /\ Flow(s)
    BY <1>2, <1>6 DEF Grown, Taken
  <1>8. s[Len(a) + 1] = p
    BY <1>2, <1>6 DEF Grown, Taken
  <1>9. \A i \in 1..(Len(a) + 1) - 1 : t[i] = s[i]
    BY <1>6 DEF Grown
  <1>10. ASSUME NEW i \in (Len(a) + 1)..Len(t) PROVE t[i] = s[i + 1]
    <2>1. Len(t) = Len(a) + Len(b) /\ Len(a) \in Nat /\ Len(b) \in Nat /\ Len(u) = Len(b) + 1
      BY <1>2, <1>6 DEF Grown, Taken
    <2>2. i - Len(a) \in 1..Len(b) /\ i = Len(a) + (i - Len(a))
      BY <2>1
    <2>3. t[i] = b[i - Len(a)]
      BY <1>6, <2>2 DEF Grown
    <2>4. (i - Len(a)) + 1 \in 1..Len(u) /\ i + 1 = Len(a) + ((i - Len(a)) + 1)
      BY <2>1, <2>2
    <2>4a. \A j \in 1..Len(u) : s[Len(a) + j] = u[j]
      BY <1>6 DEF Grown
    <2>5. s[i + 1] = u[(i - Len(a)) + 1]
      BY <2>4, <2>4a
    <2>6. b[i - Len(a)] = u[(i - Len(a)) + 1]
      BY <1>2, <2>2 DEF Taken
    <2> QED BY <2>3, <2>5, <2>6
  <1>11. \A ch : /\ DataFor(ch, t) \in Nat /\ CreditFor(ch, t) \in Nat
                 /\ Size(p, ch) \in Nat /\ Credit(p, ch) \in Nat
                 /\ DataFor(ch, s) = Size(p, ch) + DataFor(ch, t)
                 /\ CreditFor(ch, s) = Credit(p, ch) + CreditFor(ch, t)
    <2> TAKE ch
    <2>1. /\ DataFor(ch, s) = DataFor(ch, a) + DataFor(ch, u)
          /\ DataFor(ch, t) = DataFor(ch, a) + DataFor(ch, b)
          /\ DataFor(ch, u) = Size(p, ch) + DataFor(ch, b)
          /\ CreditFor(ch, s) = CreditFor(ch, a) + CreditFor(ch, u)
          /\ CreditFor(ch, t) = CreditFor(ch, a) + CreditFor(ch, b)
          /\ CreditFor(ch, u) = Credit(p, ch) + CreditFor(ch, b)
          /\ DataFor(ch, a) \in Nat /\ CreditFor(ch, a) \in Nat
          /\ DataFor(ch, b) \in Nat /\ CreditFor(ch, b) \in Nat
          /\ Size(p, ch) \in Nat /\ Credit(p, ch) \in Nat
      BY <1>2, <1>6 DEF Grown, Taken
    <2> QED BY <2>1
  <1>12. Openings(t) \in Nat /\ Opening(p) \in Nat /\ Openings(s) = Opening(p) + Openings(t)
    BY <1>2, <1>6 DEF Grown, Taken
  <1> QED BY <1>1, <1>4, <1>5, <1>7, <1>8, <1>9, <1>10, <1>11, <1>12 DEF Dropped

\* The client leaves out a packet that is not a confirmation.
LEMMA AgreedDropC ==
    ASSUME NEW CT, NEW Cl, NEW ST, NEW Sl, NEW cs, NEW sc, Agreed(CT, Cl, ST, Sl, cs, sc),
           NEW p, NEW m, NEW t, Dropped(sc, m, p, t),
           p.msg # "CHANNEL_OPEN_CONFIRMATION",
           \A c \in DOMAIN CT : Size(p, c) = 0 /\ Credit(p, c) = 0
    PROVE  Agreed(CT, Cl, ST, Sl, cs, t)
  <1> USE DEF Agreed
  <1>1. /\ \A c \in DOMAIN CT : DataFor(c, t) = DataFor(c, sc) /\ CreditFor(c, t) = CreditFor(c, sc)
        /\ \A ch : (DataFor(ch, sc) = 0 => DataFor(ch, t) = 0) /\ (CreditFor(ch, sc) = 0 => CreditFor(ch, t) = 0)
    BY DEF Dropped
  <1> DEFINE Old(i) == IF i < m THEN i ELSE i + 1
  <1>2. \A i \in DOMAIN t : Old(i) \in DOMAIN sc /\ t[i] = sc[Old(i)] /\ \A j \in DOMAIN t : Old(i) = Old(j) => i = j
    BY DEF Dropped
  <1>3. ASSUME NEW j \in DOMAIN sc, IsConf(sc[j], sc[j].ch)
        PROVE  \E k \in DOMAIN t : Old(k) = j /\ \A i \in 1..k - 1 : i \in DOMAIN t /\ Old(i) \in 1..j - 1
    <2>1. j # m /\ j \in 1..Len(t) + 1 /\ m \in 1..Len(t) + 1 /\ Len(t) \in Nat /\ DOMAIN t = 1..Len(t)
      BY <1>3 DEF Dropped, IsConf
    <2>2. CASE j < m
      <3>1. j \in DOMAIN t /\ Old(j) = j /\ \A i \in 1..j - 1 : i \in DOMAIN t /\ Old(i) \in 1..j - 1
        BY <2>1, <2>2
      <3> QED BY <3>1
    <2>3. CASE j > m
      <3>1. j - 1 \in DOMAIN t /\ Old(j - 1) = j /\ \A i \in 1..(j - 1) - 1 : i \in DOMAIN t /\ Old(i) \in 1..j - 1
        BY <2>1, <2>3
      <3> QED BY <3>1
    <2> QED BY <2>1, <2>2, <2>3
  <1> HIDE DEF Old
  <1>4. Account(CT, ST, cs, t) /\ Account(ST, CT, t, cs)
    BY <1>1 DEF Account
  <1>5. HalfOpen(CT, ST, cs, t)
    <2> SUFFICES ASSUME NEW b \in DOMAIN CT, NEW d \in DOMAIN ST,
                        ~CT[b].confirmed, ST[d].confirmed, ST[d].recipient_channel = b
                 PROVE  \E j \in DOMAIN t : IsConf(t[j], b) /\ \A i \in 1..j - 1 : Size(t[i], b) = 0
      BY <1>1 DEF HalfOpen
    <2>1. PICK j \in DOMAIN sc : IsConf(sc[j], b) /\ \A i \in 1..j - 1 : Size(sc[i], b) = 0
      BY DEF HalfOpen
    <2>2. PICK k \in DOMAIN t : Old(k) = j /\ \A i \in 1..k - 1 : i \in DOMAIN t /\ Old(i) \in 1..j - 1
      BY <1>3, <2>1 DEF IsConf
    <2> QED BY <1>2, <2>1, <2>2
  <1>6. Asked(CT, Cl, ST, cs, t)
    BY <1>1, <1>2 DEF Asked
  <1>7. Answered(CT, Cl, ST, Sl, t)
    BY <1>2 DEF Answered
  <1>8. Fresh(Cl, t)
    BY <1>1 DEF Fresh
  <1>9. Flow(t)
    BY DEF Dropped
  <1> QED BY <1>4, <1>5, <1>6, <1>7, <1>8, <1>9

\* The server leaves out a packet for no channel it has.
LEMMA AgreedDropS ==
    ASSUME NEW CT, NEW Cl, NEW ST, NEW Sl, NEW cs, NEW sc, Agreed(CT, Cl, ST, Sl, cs, sc),
           NEW p, NEW m, NEW t, Dropped(cs, m, p, t),
           \A d \in DOMAIN ST : Size(p, d) = 0 /\ Credit(p, d) = 0
    PROVE  Agreed(CT, Cl, ST, Sl, t, sc)
  <1> USE DEF Agreed
  <1>1. /\ \A d \in DOMAIN ST : DataFor(d, t) = DataFor(d, cs) /\ CreditFor(d, t) = CreditFor(d, cs)
        /\ \A ch : (DataFor(ch, cs) = 0 => DataFor(ch, t) = 0) /\ (CreditFor(ch, cs) = 0 => CreditFor(ch, t) = 0)
    BY DEF Dropped
  <1> DEFINE Old(i) == IF i < m THEN i ELSE i + 1
  <1>2. \A i \in DOMAIN t : Old(i) \in DOMAIN cs /\ t[i] = cs[Old(i)] /\ \A j \in DOMAIN t : Old(i) = Old(j) => i = j
    BY DEF Dropped
  <1> HIDE DEF Old
  <1>3. Account(CT, ST, t, sc) /\ Account(ST, CT, sc, t)
    BY <1>1 DEF Account
  <1>4. HalfOpen(CT, ST, t, sc)
    BY <1>1 DEF HalfOpen
  <1>5. Asked(CT, Cl, ST, t, sc)
    BY <1>2 DEF Asked
  <1>6. Fresh(Sl, t)
    BY <1>1 DEF Fresh
  <1>7. Flow(t)
    BY DEF Dropped
  <1> QED BY <1>3, <1>4, <1>5, <1>6, <1>7

\* Credit arrives at the client.
LEMMA AgreedEarnC ==
    ASSUME NEW CT, NEW Cl, NEW ST, NEW Sl, NEW cs, NEW sc, Agreed(CT, Cl, ST, Sl, cs, sc),
           NEW p, NEW rest, Taken(sc, p, rest), p.msg = "CHANNEL_WINDOW_ADJUST",
           NEW CU, Earned(CT, CU, p.ch, p.amount)
    PROVE  Agreed(CU, Cl, ST, Sl, cs, rest)
  <1>1. /\ p.amount \in Nat /\ Credit(p, p.ch) = p.amount /\ (\A k : k # p.ch => Credit(p, k) = 0)
        /\ (\A k : Size(p, k) = 0) /\ \A k : ~IsConf(p, k)
    BY DEF Taken, PacketOK, Size, Credit, IsConf
  <1>2. /\ \A ch : DataFor(ch, rest) = DataFor(ch, sc)
        /\ \A ch : ch # p.ch => CreditFor(ch, rest) = CreditFor(ch, sc)
        /\ CreditFor(p.ch, sc) = p.amount + CreditFor(p.ch, rest)
        /\ \A ch : DataFor(ch, rest) \in Nat /\ CreditFor(ch, rest) \in Nat
        /\ \A ch : CreditFor(ch, sc) = 0 => CreditFor(ch, rest) = 0
    <2>1. \A ch : /\ DataFor(ch, rest) \in Nat /\ CreditFor(ch, rest) \in Nat /\ Credit(p, ch) \in Nat
                  /\ DataFor(ch, sc) = Size(p, ch) + DataFor(ch, rest)
                  /\ CreditFor(ch, sc) = Credit(p, ch) + CreditFor(ch, rest)
      BY DEF Taken
    <2> QED BY <1>1, <2>1
  <1> USE DEF Agreed, Earned, SameButWindow
  <1>3. /\ \A i \in DOMAIN rest : i + 1 \in DOMAIN sc /\ rest[i] = sc[i + 1]
        /\ \A i, j \in DOMAIN rest : i + 1 = j + 1 => i = j
        /\ sc[1] = p /\ DOMAIN rest = 1..Len(rest) /\ DOMAIN sc = 1..Len(rest) + 1 /\ Len(rest) \in Nat
    BY DEF Taken
  <1>4. Table(CU, Cl)
    BY <1>1 DEF Table
  <1>5. Linked(CU, Cl, ST, Sl)
    BY DEF Linked
  <1>6. Account(CU, ST, cs, rest)
    <2> SUFFICES ASSUME NEW b \in DOMAIN CU, CU[b].confirmed, CU[b].recipient_channel \in DOMAIN ST
                 PROVE  CU[b].recipient_window_size + DataFor(CU[b].recipient_channel, cs) + CreditFor(b, rest)
                          = ST[CU[b].recipient_channel].sender_window_size
      BY DEF Account
    <2>1. CT[b].recipient_window_size + DataFor(CT[b].recipient_channel, cs) + CreditFor(b, sc)
            = ST[CT[b].recipient_channel].sender_window_size
      BY DEF Account
    <2>2. CT[b].recipient_window_size \in Nat /\ DataFor(CT[b].recipient_channel, cs) \in Nat
      BY FlowSums DEF Table
    <2>3. CASE b # p.ch
      BY <1>2, <2>1, <2>3
    <2>4. CASE b = p.ch
      <3>1. \A w, e, k, n \in Nat : (w + n) + e + k = w + e + (n + k)
        OBVIOUS
      <3> QED BY <1>1, <1>2, <2>1, <2>2, <2>4, <3>1
    <2> QED BY <2>3, <2>4
  <1>7. Account(ST, CU, rest, cs)
    BY <1>2 DEF Account
  <1>8. HalfOpen(CU, ST, cs, rest)
    <2> SUFFICES ASSUME NEW b \in DOMAIN CU, NEW d \in DOMAIN ST,
                        ~CU[b].confirmed, ST[d].confirmed, ST[d].recipient_channel = b
                 PROVE  /\ ST[d].sender_window_size = WindowSize /\ CU[b].sender_window_size = WindowSize
                        /\ DataFor(d, cs) = 0 /\ CreditFor(b, rest) = 0
                        /\ \E j \in DOMAIN rest : IsConf(rest[j], b) /\ \A i \in 1..j - 1 : Size(rest[i], b) = 0
      BY DEF HalfOpen
    <2>1. /\ ST[d].sender_window_size = WindowSize /\ CT[b].sender_window_size = WindowSize
          /\ DataFor(d, cs) = 0 /\ CreditFor(b, sc) = 0
      BY DEF HalfOpen
    <2>2. PICK j \in DOMAIN sc : IsConf(sc[j], b) /\ \A i \in 1..j - 1 : Size(sc[i], b) = 0
      BY DEF HalfOpen
    <2>3. j - 1 \in DOMAIN rest /\ rest[j - 1] = sc[j]
      BY <1>1, <1>3, <2>2
    <2>4. ASSUME NEW i \in 1..(j - 1) - 1 PROVE i + 1 \in 1..j - 1 /\ rest[i] = sc[i + 1]
      <3>1. j \in 1..Len(rest) + 1
        BY <1>3
      <3>2. i + 1 \in 1..j - 1 /\ i \in 1..Len(rest)
        BY <1>3, <3>1
      <3> QED BY <1>3, <3>2
    <2> QED BY <1>2, <2>1, <2>2, <2>3, <2>4
  <1>9. Asked(CU, Cl, ST, cs, rest)
    BY <1>2, <1>3 DEF Asked
  <1>10. Answered(CU, Cl, ST, Sl, rest)
    BY <1>3 DEF Answered
  <1>11. Fresh(Cl, rest)
    BY <1>2 DEF Fresh
  <1>12. Flow(rest)
    BY DEF Taken
  <1> QED BY <1>4, <1>5, <1>6, <1>7, <1>8, <1>9, <1>10, <1>11, <1>12

\* Credit arrives at the server.
LEMMA AgreedEarnS ==
    ASSUME NEW CT, NEW Cl, NEW ST, NEW Sl, NEW cs, NEW sc, Agreed(CT, Cl, ST, Sl, cs, sc),
           NEW p, NEW rest, Taken(cs, p, rest), p.msg = "CHANNEL_WINDOW_ADJUST",
           NEW SU, Earned(ST, SU, p.ch, p.amount)
    PROVE  Agreed(CT, Cl, SU, Sl, rest, sc)
  <1>1. /\ p.amount \in Nat /\ Credit(p, p.ch) = p.amount /\ (\A k : k # p.ch => Credit(p, k) = 0)
        /\ \A k : Size(p, k) = 0
    BY DEF Taken, PacketOK, Size, Credit
  <1>2. /\ \A ch : DataFor(ch, rest) = DataFor(ch, cs)
        /\ \A ch : ch # p.ch => CreditFor(ch, rest) = CreditFor(ch, cs)
        /\ CreditFor(p.ch, cs) = p.amount + CreditFor(p.ch, rest)
        /\ \A ch : DataFor(ch, rest) \in Nat /\ CreditFor(ch, rest) \in Nat
        /\ \A ch : CreditFor(ch, cs) = 0 => CreditFor(ch, rest) = 0
    <2>1. \A ch : /\ DataFor(ch, rest) \in Nat /\ CreditFor(ch, rest) \in Nat /\ Credit(p, ch) \in Nat
                  /\ DataFor(ch, cs) = Size(p, ch) + DataFor(ch, rest)
                  /\ CreditFor(ch, cs) = Credit(p, ch) + CreditFor(ch, rest)
      BY DEF Taken
    <2> QED BY <1>1, <2>1
  <1> USE DEF Agreed, Earned, SameButWindow
  <1>3. /\ \A i \in DOMAIN rest : i + 1 \in DOMAIN cs /\ rest[i] = cs[i + 1]
        /\ \A i, j \in DOMAIN rest : i + 1 = j + 1 => i = j
    BY DEF Taken
  <1>4. Table(SU, Sl)
    BY <1>1 DEF Table
  <1>5. Linked(CT, Cl, SU, Sl)
    BY DEF Linked
  <1>6. Account(SU, CT, sc, rest)
    <2> SUFFICES ASSUME NEW b \in DOMAIN SU, SU[b].confirmed, SU[b].recipient_channel \in DOMAIN CT
                 PROVE  SU[b].recipient_window_size + DataFor(SU[b].recipient_channel, sc) + CreditFor(b, rest)
                          = CT[SU[b].recipient_channel].sender_window_size
      BY DEF Account
    <2>1. ST[b].recipient_window_size + DataFor(ST[b].recipient_channel, sc) + CreditFor(b, cs)
            = CT[ST[b].recipient_channel].sender_window_size
      BY DEF Account
    <2>2. ST[b].recipient_window_size \in Nat /\ DataFor(ST[b].recipient_channel, sc) \in Nat
      BY FlowSums DEF Table
    <2>3. CASE b # p.ch
      BY <1>2, <2>1, <2>3
    <2>4. CASE b = p.ch
      <3>1. \A w, e, k, n \in Nat : (w + n) + e + k = w + e + (n + k)
        OBVIOUS
      <3> QED BY <1>1, <1>2, <2>1, <2>2, <2>4, <3>1
    <2> QED BY <2>3, <2>4
  <1>7. Account(CT, SU, rest, sc)
    BY <1>2 DEF Account
  <1>8. HalfOpen(CT, SU, rest, sc)
    BY <1>2 DEF HalfOpen
  <1>9. Asked(CT, Cl, SU, rest, sc)
    BY <1>3 DEF Asked
  <1>10. Answered(CT, Cl, SU, Sl, sc)
    BY DEF Answered
  <1>11. Fresh(Sl, rest)
    BY <1>2 DEF Fresh
  <1>12. Flow(rest)
    BY DEF Taken
  <1> QED BY <1>4, <1>5, <1>6, <1>7, <1>8, <1>9, <1>10, <1>11, <1>12

------------------------------------------------------------------------------
(* Channels come and go *)

\* No packet has data for a channel if there is none at all.
LEMMA NoData ==
    ASSUME NEW s, Flow(s), NEW ch, DataFor(ch, s) = 0, NEW k \in DOMAIN s
    PROVE  Size(s[k], ch) = 0
  <1> DEFINE a == SubSeq(s, 1, k - 1)
             b == SubSeq(s, k + 1, Len(s))
  <1>1. IsSeq(s) /\ Len(s) \in Nat /\ DOMAIN s = 1..Len(s)
    BY SeqFacts DEF Flow
  <1>2. k \in 1..Len(s) /\ k \in Nat
    BY <1>1
  <1>3. /\ a = [i \in 1..k - 1 |-> s[i]] /\ b = [i \in 1..Len(s) - k |-> s[k + i]]
    <2>1. PICK S : s \in Seq(S)
      BY <1>1 DEF IsSeq
    <2> QED BY <1>2, <2>1
  <1>4. k - 1 \in Nat /\ Len(s) - k \in Nat
    BY <1>1, <1>2
  <1>5. IsSeq(a) /\ Len(a) = k - 1 /\ IsSeq(b) /\ Len(b) = Len(s) - k
    <2> HIDE DEF a, b
    <2>1. /\ DOMAIN a = 1..k - 1 /\ a = [i \in 1..k - 1 |-> a[i]]
          /\ DOMAIN b = 1..Len(s) - k /\ b = [i \in 1..Len(s) - k |-> b[i]]
      BY <1>3
    <2> QED BY <1>4, <2>1, SeqMade
  <1> HIDE DEF a, b
  <1>6. Flow(a) /\ Flow(b)
    <2>1. \A i \in DOMAIN a : i \in DOMAIN s /\ a[i] = s[i]
      BY <1>1, <1>2, <1>3
    <2>2. \A i \in DOMAIN b : k + i \in DOMAIN s /\ b[i] = s[k + i]
      BY <1>1, <1>2, <1>3
    <2> QED BY <1>5, <2>1, <2>2 DEF Flow
  <1>7. PacketOK(s[k])
    BY DEF Flow
  <1> HIDE DEF a, b
  <1>8. PICK u : u = <<s[k]>> \o b
    OBVIOUS
  <1>9. Flow(u) /\ Taken(u, s[k], b)
    <2>1. Flow(<<s[k]>>)
      BY <1>7, FlowOne
    <2>2. Flow(u)
      BY <1>6, <1>8, <2>1, FlowCat
    <2> QED BY <1>5, <1>8, <2>2, CatTakes
  <1>10. PICK t : t = a \o u
    OBVIOUS
  <1>11. Grown(a, u, t)
    BY <1>6, <1>9, <1>10, CatGrows
  <1>14. Len(u) = Len(b) + 1 /\ u[1] = s[k] /\ \A j \in 1..Len(b) : u[j + 1] = b[j]
    BY <1>9 DEF Taken
  <1>15. /\ Len(t) = Len(a) + Len(u) /\ DOMAIN t = 1..Len(a) + Len(u)
         /\ (\A j \in 1..Len(a) : t[j] = a[j])
         /\ \A j \in 1..Len(u) : t[Len(a) + j] = u[j]
    BY <1>11 DEF Grown
  <1>12. t = s
    <2>1. Len(t) = Len(s) /\ DOMAIN t = 1..Len(s)
      <3>1. Len(a) + Len(u) = Len(s)
        BY <1>1, <1>2, <1>5, <1>14
      <3> QED BY <1>15, <3>1
    <2>2. ASSUME NEW i \in 1..Len(s) PROVE t[i] = s[i]
      <3>1. CASE i < k
        <4>1. i \in 1..Len(a) /\ i \in 1..k - 1
          BY <1>1, <1>2, <1>5, <3>1
        <4> QED BY <1>3, <1>15, <4>1
      <3>2. CASE i = k
        <4>1. 1 \in 1..Len(u) /\ i = Len(a) + 1
          BY <1>1, <1>2, <1>5, <1>14, <3>2
        <4>2. t[Len(a) + 1] = u[1]
          BY <1>15, <4>1
        <4> QED BY <1>14, <3>2, <4>1, <4>2
      <3>3. CASE i > k
        <4>0. /\ Len(a) = k - 1 /\ Len(b) = Len(s) - k /\ Len(u) = Len(b) + 1
              /\ Len(s) \in Nat /\ k \in Nat /\ i \in Nat /\ i <= Len(s)
          BY <1>1, <1>2, <1>5, <1>14
        <4>1a. i - k \in 1..Len(s) - k /\ k + (i - k) = i /\ i = (k - 1) + ((i - k) + 1)
          <5>1. k + (i - k) = i /\ i = (k - 1) + ((i - k) + 1)
            BY <4>0
          <5>2. i - k \in Int /\ 1 <= i - k /\ i - k <= Len(s) - k
            BY <3>3, <4>0
          <5> QED BY <5>1, <5>2
        <4>1b. (i - k) + 1 \in 1..(Len(s) - k) + 1
          BY <3>3, <4>0
        <4>1. i - k \in 1..Len(b) /\ (i - k) + 1 \in 1..Len(u) /\ i = Len(a) + ((i - k) + 1)
          BY <4>0, <4>1a, <4>1b
        <4>2. t[i] = u[(i - k) + 1]
          BY <1>15, <4>1
        <4>3. u[(i - k) + 1] = b[i - k]
          BY <1>14, <4>1
        <4>4. b[i - k] = s[i]
          BY <1>3, <4>1a
        <4> QED BY <4>2, <4>3, <4>4
      <3> QED BY <1>1, <1>2, <3>1, <3>2, <3>3
    <2>3. IsSeq(t)
      BY <1>11 DEF Grown, Flow
    <2>4. t = [i \in 1..Len(s) |-> t[i]] /\ s = [i \in 1..Len(s) |-> s[i]]
      BY <1>1, <2>1, <2>3, SeqFacts
    <2> QED BY <2>2, <2>4
  <1>13. DataFor(ch, s) = DataFor(ch, a) + (Size(s[k], ch) + DataFor(ch, b))
         /\ DataFor(ch, a) \in Nat /\ DataFor(ch, b) \in Nat /\ Size(s[k], ch) \in Nat
    BY <1>9, <1>11, <1>12 DEF Grown, Taken
  <1> QED BY <1>13

\* U is T without some channels.
Restricted(T, U) == DOMAIN U \subseteq DOMAIN T /\ \A k \in DOMAIN U : U[k] = T[k]

\* A channel is removed.
LEMMA AgreedRemove ==
    ASSUME NEW CT, NEW Cl, NEW ST, NEW Sl, NEW cs, NEW sc, Agreed(CT, Cl, ST, Sl, cs, sc),
           NEW CU, Restricted(CT, CU), NEW SU, Restricted(ST, SU)
    PROVE  Agreed(CU, Cl, SU, Sl, cs, sc)
  <1> USE DEF Agreed, Restricted
  <1>1. Table(CU, Cl) /\ Table(SU, Sl)
    BY DEF Table
  <1>2. Linked(CU, Cl, SU, Sl)
    BY DEF Linked
  <1>3. Account(CU, SU, cs, sc)
    BY DEF Account
  <1>4. Account(SU, CU, sc, cs)
    BY DEF Account
  <1>5. HalfOpen(CU, SU, cs, sc)
    BY DEF HalfOpen
  <1>6. Asked(CU, Cl, SU, cs, sc)
    BY DEF Asked
  <1>7. Answered(CU, Cl, SU, Sl, sc)
    BY DEF Answered
  <1> QED BY <1>1, <1>2, <1>3, <1>4, <1>5, <1>6, <1>7

\* U is T with a new channel k.
Extended(T, U, k) == DOMAIN U = DOMAIN T \cup {k} /\ \A l \in DOMAIN T \ {k} : U[l] = T[l]

\* One packet that carries neither data nor credit.
LEMMA PlainIs ==
    ASSUME NEW p, p.msg \notin {"CHANNEL_DATA", "CHANNEL_EXTENDED_DATA", "CHANNEL_WINDOW_ADJUST"},
           NEW x, x = <<p>>
    PROVE  /\ Flow(x) /\ (\A k : DataFor(k, x) = 0 /\ CreditFor(k, x) = 0) /\ Openings(x) = Opening(p)
           /\ Len(x) = 1 /\ DOMAIN x = {1} /\ x[1] = p
  <1>1. PacketOK(p) /\ \A k : Size(p, k) = 0 /\ Credit(p, k) = 0
    BY DEF PacketOK, IsData, Size, Credit
  <1>2. Flow(x) /\ Openings(x) = Opening(p)
    BY <1>1, FlowOne, OpeningsOne
  <1>3. \A k : DataFor(k, x) = 0 /\ CreditFor(k, x) = 0
    BY <1>1, DataOne, CreditOne
  <1> QED BY <1>2, <1>3

\* The client asks for a channel.
LEMMA AgreedOpen ==
    ASSUME NEW CT, NEW Cl, NEW ST, NEW Sl, NEW cs, NEW sc, Agreed(CT, Cl, ST, Sl, cs, sc),
           NEW CU, Extended(CT, CU, Cl + 1),
           CU[Cl + 1].recipient_channel = 0, CU[Cl + 1].confirmed = FALSE,
           CU[Cl + 1].sender_window_size = WindowSize, CU[Cl + 1].recipient_window_size = 0,
           NEW p, IsOpen(p), p.sender = Cl + 1, p.window = WindowSize, p.maxpacket = MaxPacketSize
    PROVE  Agreed(CU, Cl + 1, ST, Sl, cs \o <<p>>, sc)
  <1> USE DEF Agreed, Extended
  <1>w. WindowSize \in Nat /\ Cl \in Nat /\ Cl >= 1 /\ Cl + 1 \notin DOMAIN CT
        /\ DOMAIN CT \subseteq 2..Cl /\ 2..Cl \subseteq 2..Cl + 1 /\ Cl + 1 \in 2..Cl + 1
        /\ Cl + 1 \in Nat
    BY SshConnectionAssumption DEF Table
  <1>1. PICK x : x = <<p>>
    OBVIOUS
  <1>2. /\ Flow(x) /\ (\A k : DataFor(k, x) = 0 /\ CreditFor(k, x) = 0)
        /\ Len(x) = 1 /\ DOMAIN x = {1} /\ x[1] = p
    BY <1>1, PlainIs DEF IsOpen
  <1>3. PICK t : t = cs \o x
    OBVIOUS
  <1>4. Grown(cs, x, t)
    BY <1>2, <1>3, CatGrows
  <1>5. \A ch : DataFor(ch, t) = DataFor(ch, cs) /\ CreditFor(ch, t) = CreditFor(ch, cs)
    BY <1>2, <1>4 DEF Grown
  <1>6. \A i \in DOMAIN t : \/ i \in DOMAIN cs /\ t[i] = cs[i] /\ i # Len(cs) + 1
                            \/ i = Len(cs) + 1 /\ t[i] = p
    <2> SUFFICES ASSUME NEW i \in DOMAIN t PROVE \/ i \in DOMAIN cs /\ t[i] = cs[i] /\ i # Len(cs) + 1
                                                 \/ i = Len(cs) + 1 /\ t[i] = p
      OBVIOUS
    <2>1. CASE i > Len(cs)
      <3>1. i = Len(cs) + 1 /\ 1 \in 1..Len(x)
        BY <1>2, <1>4, <2>1 DEF Grown
      <3>2. t[i] = x[1]
        BY <1>4, <3>1 DEF Grown
      <3> QED BY <1>2, <3>1, <3>2
    <2>2. CASE i <= Len(cs)
      BY <1>4, <2>2 DEF Grown
    <2> QED BY <1>4, <2>1, <2>2 DEF Grown
  <1>7. Table(CU, Cl + 1)
    <2>1. DOMAIN CU \subseteq 2..Cl + 1
      BY <1>w
    <2>2. \A k \in DOMAIN CT : k \in DOMAIN CU /\ CU[k] = CT[k]
      BY <1>w
    <2>4. ASSUME NEW k \in DOMAIN CU
          PROVE  /\ CU[k].recipient_channel \in Int /\ CU[k].confirmed \in BOOLEAN
                 /\ CU[k].sender_window_size \in Nat /\ CU[k].recipient_window_size \in Nat
                 /\ ~CU[k].confirmed => CU[k].recipient_channel = 0
      <3>1. CASE k \in DOMAIN CT
        BY <2>2, <3>1 DEF Table
      <3>2. CASE k = Cl + 1
        <4>1. /\ CU[k].recipient_channel = 0 /\ CU[k].confirmed = FALSE
              /\ CU[k].sender_window_size = WindowSize /\ CU[k].recipient_window_size = 0
          BY <3>2
        <4>2. CU[k].confirmed \in BOOLEAN
          BY <4>1, Zenon
        <4>3. CU[k].recipient_channel \in Int /\ CU[k].sender_window_size \in Nat /\ CU[k].recipient_window_size \in Nat
          BY <1>w, <4>1
        <4> QED BY <4>1, <4>2, <4>3, Zenon
      <3> QED BY <3>1, <3>2
    <2> QED BY <1>w, <2>1, <2>4 DEF Table
  <1>8. \A d \in DOMAIN ST : ST[d].confirmed => ST[d].recipient_channel \in 2..Cl /\ ST[d].recipient_channel # Cl + 1
    BY <1>w DEF Linked
  <1>9. Linked(CU, Cl + 1, ST, Sl)
    BY <1>w, <1>8 DEF Linked
  <1>10. Account(CU, ST, t, sc)
    BY <1>w, <1>5 DEF Account
  <1>11. Account(ST, CU, sc, t)
    BY <1>w, <1>5, <1>8 DEF Account
  <1>12. HalfOpen(CU, ST, t, sc)
    BY <1>w, <1>5, <1>8 DEF HalfOpen
  <1>13. DataFor(Cl + 1, sc) = 0 /\ CreditFor(Cl + 1, sc) = 0
    BY <1>w DEF Fresh
  <1>14. \A j \in DOMAIN sc : ~IsConf(sc[j], Cl + 1)
    BY <1>w DEF Answered, IsConf
  <1>15. Asked(CU, Cl + 1, ST, t, sc)
    <2> SUFFICES ASSUME NEW i \in DOMAIN t, IsOpen(t[i])
                 PROVE  /\ t[i].sender \in 2..Cl + 1 /\ t[i].window = WindowSize /\ t[i].maxpacket = MaxPacketSize
                        /\ DataFor(t[i].sender, sc) = 0 /\ CreditFor(t[i].sender, sc) = 0
                        /\ \A d \in DOMAIN ST : ST[d].confirmed => ST[d].recipient_channel # t[i].sender
                        /\ t[i].sender \in DOMAIN CU => /\ ~CU[t[i].sender].confirmed
                                                        /\ CU[t[i].sender].sender_window_size = WindowSize
                        /\ \A j \in DOMAIN t : IsOpen(t[j]) /\ t[j].sender = t[i].sender => j = i
                        /\ \A j \in DOMAIN sc : ~IsConf(sc[j], t[i].sender)
      BY DEF Asked
    <2>0. \A j \in DOMAIN cs : IsOpen(cs[j]) => cs[j].sender \in 2..Cl /\ cs[j].sender # Cl + 1
      BY <1>w DEF Asked
    <2>1. CASE i \in DOMAIN cs /\ t[i] = cs[i] /\ i # Len(cs) + 1
      <3>1. /\ t[i].sender \in 2..Cl /\ t[i].window = WindowSize /\ t[i].maxpacket = MaxPacketSize
            /\ DataFor(t[i].sender, sc) = 0 /\ CreditFor(t[i].sender, sc) = 0
            /\ \A d \in DOMAIN ST : ST[d].confirmed => ST[d].recipient_channel # t[i].sender
            /\ \A j \in DOMAIN sc : ~IsConf(sc[j], t[i].sender)
        BY <2>1 DEF Asked
      <3>2. \A j \in DOMAIN t : IsOpen(t[j]) /\ t[j].sender = t[i].sender => j = i
        BY <1>6, <2>0, <2>1 DEF Asked
      <3>3. t[i].sender \in DOMAIN CU => /\ ~CU[t[i].sender].confirmed
                                         /\ CU[t[i].sender].sender_window_size = WindowSize
        BY <2>0, <2>1 DEF Asked
      <3> QED BY <1>w, <3>1, <3>2, <3>3
    <2>2. CASE i = Len(cs) + 1 /\ t[i] = p
      <3>1. \A j \in DOMAIN t : IsOpen(t[j]) /\ t[j].sender = Cl + 1 => j = i
        BY <1>6, <2>0, <2>2
      <3> QED BY <1>w, <1>8, <1>13, <1>14, <2>2, <3>1
    <2> QED BY <1>6, <2>1, <2>2
  <1>16. Answered(CU, Cl + 1, ST, Sl, sc)
    BY <1>w DEF Answered, IsConf
  <1>17. Fresh(Sl, t)
    BY <1>5 DEF Fresh
  <1>18. Fresh(Cl + 1, sc)
    BY <1>w DEF Fresh
  <1>19. Flow(t)
    BY <1>4 DEF Grown
  <1> QED BY <1>1, <1>3, <1>7, <1>9, <1>10, <1>11, <1>12, <1>15, <1>16, <1>17, <1>18, <1>19

\* The server uses a number for a channel of its own, or for nothing.
LEMMA AgreedForward ==
    ASSUME NEW CT, NEW Cl, NEW ST, NEW Sl, NEW cs, NEW sc, Agreed(CT, Cl, ST, Sl, cs, sc),
           NEW SU, \/ SU = ST
                   \/ /\ Extended(ST, SU, Sl + 1)
                      /\ SU[Sl + 1].recipient_channel = 0 /\ SU[Sl + 1].confirmed = FALSE
                      /\ SU[Sl + 1].sender_window_size \in Nat /\ SU[Sl + 1].recipient_window_size \in Nat
    PROVE  Agreed(CT, Cl, SU, Sl + 1, cs, sc)
  <1> USE DEF Agreed, Extended
  <1>w. Sl \in Nat /\ Sl >= 1 /\ Sl + 1 \notin DOMAIN ST
        /\ DOMAIN ST \subseteq 2..Sl /\ 2..Sl \subseteq 2..Sl + 1 /\ Sl + 1 \in 2..Sl + 1
        /\ Sl + 1 \in Nat
    BY DEF Table
  <1>1. /\ \A d \in DOMAIN SU : (d \in DOMAIN ST /\ SU[d] = ST[d]) \/ (SU[d].confirmed = FALSE /\ d = Sl + 1)
        /\ \A d \in DOMAIN ST : d \in DOMAIN SU /\ SU[d] = ST[d]
    <2>1. CASE SU = ST
      BY <2>1
    <2>2. CASE SU # ST
      BY <1>w, <2>2
    <2> QED BY <2>1, <2>2
  <1>2. Table(SU, Sl + 1)
    <2>1. CASE SU = ST
      BY <1>w, <2>1 DEF Table
    <2>2. CASE SU # ST
      <3>1. DOMAIN SU \subseteq 2..Sl + 1
        BY <1>w, <2>2
      <3>2. ASSUME NEW k \in DOMAIN SU
            PROVE  /\ SU[k].recipient_channel \in Int /\ SU[k].confirmed \in BOOLEAN
                   /\ SU[k].sender_window_size \in Nat /\ SU[k].recipient_window_size \in Nat
                   /\ ~SU[k].confirmed => SU[k].recipient_channel = 0
        <4>1. CASE k \in DOMAIN ST /\ SU[k] = ST[k]
          BY <4>1 DEF Table
        <4>2. CASE k = Sl + 1
          <5>1. /\ SU[k].recipient_channel = 0 /\ SU[k].confirmed = FALSE
                /\ SU[k].sender_window_size \in Nat /\ SU[k].recipient_window_size \in Nat
            BY <2>2, <4>2
          <5>2. SU[k].confirmed \in BOOLEAN
            BY <5>1, Zenon
          <5>3. SU[k].recipient_channel \in Int
            BY <5>1
          <5> QED BY <5>1, <5>2, <5>3, Zenon
        <4> QED BY <1>1, <4>1, <4>2
      <3> QED BY <1>w, <3>1, <3>2 DEF Table
    <2> QED BY <2>1, <2>2
  <1>3. \A c \in DOMAIN CT : CT[c].confirmed => CT[c].recipient_channel \in 2..Sl /\ CT[c].recipient_channel # Sl + 1
    BY <1>w DEF Linked
  <1>4. Linked(CT, Cl, SU, Sl + 1)
    BY <1>w, <1>1, <1>3 DEF Linked
  <1>5. Account(CT, SU, cs, sc)
    BY <1>1, <1>3 DEF Account
  <1>6. Account(SU, CT, sc, cs)
    BY <1>1 DEF Account
  <1>7. HalfOpen(CT, SU, cs, sc)
    BY <1>1 DEF HalfOpen
  <1>8. Asked(CT, Cl, SU, cs, sc)
    BY <1>1 DEF Asked
  <1>9. Answered(CT, Cl, SU, Sl + 1, sc)
    <2>1. \A j \in DOMAIN sc : IsConf(sc[j], sc[j].ch) => sc[j].id_recv \in 2..Sl /\ sc[j].id_recv # Sl + 1
      BY <1>w DEF Answered
    <2> QED BY <1>w, <1>1, <2>1 DEF Answered
  <1>10. Fresh(Sl + 1, cs)
    BY <1>w DEF Fresh
  <1> QED BY <1>2, <1>4, <1>5, <1>6, <1>7, <1>8, <1>9, <1>10

\* The server accepts a channel.
LEMMA AgreedAccept ==
    ASSUME NEW CT, NEW Cl, NEW ST, NEW Sl, NEW cs, NEW sc, Agreed(CT, Cl, ST, Sl, cs, sc),
           NEW q, NEW rest, Taken(cs, q, rest), IsOpen(q),
           NEW SU, Extended(ST, SU, Sl + 1),
           SU[Sl + 1].recipient_channel = q.sender, SU[Sl + 1].confirmed = TRUE,
           SU[Sl + 1].sender_window_size = WindowSize, SU[Sl + 1].recipient_window_size = q.window,
           NEW p, IsConf(p, q.sender), p.id_recv = Sl + 1, p.window = WindowSize, p.maxpacket = MaxPacketSize
    PROVE  Agreed(CT, Cl, SU, Sl + 1, rest, sc \o <<p>>)
  <1> USE DEF Agreed, Extended
  <1> DEFINE c == q.sender
  <1>w. WindowSize \in Nat /\ Sl \in Nat /\ Sl >= 1 /\ Sl + 1 \notin DOMAIN ST
        /\ DOMAIN ST \subseteq 2..Sl /\ 2..Sl \subseteq 2..Sl + 1 /\ Sl + 1 \in 2..Sl + 1
        /\ Sl + 1 \in Nat /\ 0 \notin 2..Cl
    BY SshConnectionAssumption DEF Table
  <1>1. PICK x : x = <<p>>
    OBVIOUS
  <1>2. /\ Flow(x) /\ (\A k : DataFor(k, x) = 0 /\ CreditFor(k, x) = 0)
        /\ Len(x) = 1 /\ DOMAIN x = {1} /\ x[1] = p
    BY <1>1, PlainIs DEF IsConf
  <1>3. PICK t : t = sc \o x
    OBVIOUS
  <1>4. Grown(sc, x, t)
    BY <1>2, <1>3, CatGrows
  <1>5. \A ch : DataFor(ch, t) = DataFor(ch, sc) /\ CreditFor(ch, t) = CreditFor(ch, sc)
    BY <1>2, <1>4 DEF Grown
  <1>6. \A i \in DOMAIN t : \/ i \in DOMAIN sc /\ t[i] = sc[i] /\ i # Len(sc) + 1
                            \/ i = Len(sc) + 1 /\ t[i] = p
    <2> SUFFICES ASSUME NEW i \in DOMAIN t PROVE \/ i \in DOMAIN sc /\ t[i] = sc[i] /\ i # Len(sc) + 1
                                                 \/ i = Len(sc) + 1 /\ t[i] = p
      OBVIOUS
    <2>1. CASE i > Len(sc)
      <3>1. i = Len(sc) + 1 /\ 1 \in 1..Len(x)
        BY <1>2, <1>4, <2>1 DEF Grown
      <3>2. t[i] = x[1]
        BY <1>4, <3>1 DEF Grown
      <3> QED BY <1>2, <3>1, <3>2
    <2>2. CASE i <= Len(sc)
      BY <1>4, <2>2 DEF Grown
    <2> QED BY <1>4, <2>1, <2>2 DEF Grown
  <1>7. \A i \in DOMAIN sc : i \in DOMAIN t /\ t[i] = sc[i] /\ \A k \in 1..i - 1 : k \in DOMAIN sc /\ t[k] = sc[k]
    BY <1>4 DEF Grown
  <1>8. Len(sc) + 1 \in DOMAIN t /\ t[Len(sc) + 1] = p /\ \A k \in 1..(Len(sc) + 1) - 1 : k \in DOMAIN sc /\ t[k] = sc[k]
    <2>1. Len(sc) + 1 \in DOMAIN t /\ t[Len(sc) + 1] = x[1]
      BY <1>2, <1>4 DEF Grown
    <2>2. \A k \in 1..(Len(sc) + 1) - 1 : k \in DOMAIN sc /\ t[k] = sc[k]
      BY <1>4 DEF Grown
    <2> QED BY <1>2, <2>1, <2>2
  <1>9. /\ \A ch : DataFor(ch, rest) = DataFor(ch, cs) /\ CreditFor(ch, rest) = CreditFor(ch, cs)
        /\ \A i \in DOMAIN rest : i + 1 \in DOMAIN cs /\ rest[i] = cs[i + 1] /\ i + 1 # 1
        /\ \A i, j \in DOMAIN rest : i + 1 = j + 1 => i = j
        /\ 1 \in DOMAIN cs /\ cs[1] = q
    <2>1. \A k : Size(q, k) = 0 /\ Credit(q, k) = 0
      BY DEF Size, Credit, IsOpen
    <2>2. \A ch : DataFor(ch, rest) = DataFor(ch, cs) /\ CreditFor(ch, rest) = CreditFor(ch, cs)
      BY <2>1 DEF Taken
    <2> QED BY <2>2 DEF Taken
  <1>10. /\ c \in 2..Cl /\ q.window = WindowSize
         /\ DataFor(c, sc) = 0 /\ CreditFor(c, sc) = 0
         /\ \A d \in DOMAIN ST : ST[d].confirmed => ST[d].recipient_channel # c
         /\ c \in DOMAIN CT => ~CT[c].confirmed /\ CT[c].sender_window_size = WindowSize
         /\ \A j \in DOMAIN cs : IsOpen(cs[j]) /\ cs[j].sender = c => j = 1
         /\ \A j \in DOMAIN sc : ~IsConf(sc[j], c)
    BY <1>9 DEF Asked
  <1>11. DataFor(Sl + 1, cs) = 0 /\ CreditFor(Sl + 1, cs) = 0
    BY <1>w DEF Fresh
  <1>12. Table(SU, Sl + 1)
    <2>1. DOMAIN SU \subseteq 2..Sl + 1
      BY <1>w
    <2>2. \A k \in DOMAIN ST : k \in DOMAIN SU /\ SU[k] = ST[k]
      BY <1>w
    <2>3. c \in Int
      BY <1>10
    <2>4. ASSUME NEW k \in DOMAIN SU
          PROVE  /\ SU[k].recipient_channel \in Int /\ SU[k].confirmed \in BOOLEAN
                 /\ SU[k].sender_window_size \in Nat /\ SU[k].recipient_window_size \in Nat
                 /\ ~SU[k].confirmed => SU[k].recipient_channel = 0
      <3>1. CASE k \in DOMAIN ST
        BY <2>2, <3>1 DEF Table
      <3>2. CASE k = Sl + 1
        BY <1>w, <1>10, <2>3, <3>2
      <3> QED BY <3>1, <3>2
    <2> QED BY <1>w, <2>1, <2>4 DEF Table
  <1>13. \A b \in DOMAIN CT : CT[b].confirmed => CT[b].recipient_channel \in 2..Sl /\ CT[b].recipient_channel # Sl + 1
    BY <1>w DEF Linked
  <1>14. Linked(CT, Cl, SU, Sl + 1)
    BY <1>w, <1>10, <1>13 DEF Linked
  <1>15. Account(CT, SU, rest, t)
    BY <1>w, <1>5, <1>9, <1>13 DEF Account
  <1>16. Account(SU, CT, t, rest)
    <2> SUFFICES ASSUME NEW d \in DOMAIN SU, SU[d].confirmed, SU[d].recipient_channel \in DOMAIN CT
                 PROVE  SU[d].recipient_window_size + DataFor(SU[d].recipient_channel, t) + CreditFor(d, rest)
                          = CT[SU[d].recipient_channel].sender_window_size
      BY DEF Account
    <2>1. CASE d # Sl + 1
      BY <1>5, <1>9, <2>1 DEF Account
    <2>2. CASE d = Sl + 1
      BY <1>w, <1>5, <1>9, <1>10, <1>11, <2>2
    <2> QED BY <2>1, <2>2
  <1>17. HalfOpen(CT, SU, rest, t)
    <2> SUFFICES ASSUME NEW b \in DOMAIN CT, NEW d \in DOMAIN SU,
                        ~CT[b].confirmed, SU[d].confirmed, SU[d].recipient_channel = b
                 PROVE  /\ SU[d].sender_window_size = WindowSize /\ CT[b].sender_window_size = WindowSize
                        /\ DataFor(d, rest) = 0 /\ CreditFor(b, t) = 0
                        /\ \E j \in DOMAIN t : IsConf(t[j], b) /\ \A i \in 1..j - 1 : Size(t[i], b) = 0
      BY DEF HalfOpen
    <2>1. CASE d # Sl + 1
      <3>1. /\ ST[d].sender_window_size = WindowSize /\ CT[b].sender_window_size = WindowSize
            /\ DataFor(d, cs) = 0 /\ CreditFor(b, sc) = 0
        BY <2>1 DEF HalfOpen
      <3>2. PICK j \in DOMAIN sc : IsConf(sc[j], b) /\ \A i \in 1..j - 1 : Size(sc[i], b) = 0
        BY <2>1 DEF HalfOpen
      <3> QED BY <1>5, <1>7, <1>9, <2>1, <3>1, <3>2
    <2>2. CASE d = Sl + 1
      <3>1. \A k \in DOMAIN sc : Size(sc[k], c) = 0
        BY <1>10, NoData
      <3>2. b = c
        BY <2>2
      <3> QED BY <1>5, <1>8, <1>9, <1>10, <1>11, <2>2, <3>1, <3>2
    <2> QED BY <2>1, <2>2
  <1>18. Asked(CT, Cl, SU, rest, t)
    <2> SUFFICES ASSUME NEW i \in DOMAIN rest, IsOpen(rest[i])
                 PROVE  /\ rest[i].sender \in 2..Cl /\ rest[i].window = WindowSize /\ rest[i].maxpacket = MaxPacketSize
                        /\ DataFor(rest[i].sender, t) = 0 /\ CreditFor(rest[i].sender, t) = 0
                        /\ \A d \in DOMAIN SU : SU[d].confirmed => SU[d].recipient_channel # rest[i].sender
                        /\ rest[i].sender \in DOMAIN CT => /\ ~CT[rest[i].sender].confirmed
                                                           /\ CT[rest[i].sender].sender_window_size = WindowSize
                        /\ \A j \in DOMAIN rest : IsOpen(rest[j]) /\ rest[j].sender = rest[i].sender => j = i
                        /\ \A j \in DOMAIN t : ~IsConf(t[j], rest[i].sender)
      BY DEF Asked
    <2>1. rest[i].sender # c
      BY <1>9, <1>10
    <2>2. /\ rest[i].sender \in 2..Cl /\ rest[i].window = WindowSize /\ rest[i].maxpacket = MaxPacketSize
          /\ DataFor(rest[i].sender, sc) = 0 /\ CreditFor(rest[i].sender, sc) = 0
          /\ \A d \in DOMAIN ST : ST[d].confirmed => ST[d].recipient_channel # rest[i].sender
          /\ rest[i].sender \in DOMAIN CT => /\ ~CT[rest[i].sender].confirmed
                                             /\ CT[rest[i].sender].sender_window_size = WindowSize
          /\ \A j \in DOMAIN sc : ~IsConf(sc[j], rest[i].sender)
      BY <1>9 DEF Asked
    <2>3. \A j \in DOMAIN rest : IsOpen(rest[j]) /\ rest[j].sender = rest[i].sender => j = i
      BY <1>9 DEF Asked
    <2>4. \A j \in DOMAIN t : ~IsConf(t[j], rest[i].sender)
      BY <1>6, <2>1, <2>2 DEF IsConf
    <2> QED BY <1>5, <2>1, <2>2, <2>3, <2>4
  <1>19. Answered(CT, Cl, SU, Sl + 1, t)
    <2> SUFFICES ASSUME NEW j \in DOMAIN t, IsConf(t[j], t[j].ch)
                 PROVE  /\ t[j].ch \in 2..Cl /\ t[j].id_recv \in 2..Sl + 1
                        /\ t[j].window = WindowSize /\ t[j].maxpacket = MaxPacketSize
                        /\ t[j].ch \in DOMAIN CT => ~CT[t[j].ch].confirmed
                        /\ \A d \in DOMAIN SU :
                              d = t[j].id_recv <=> SU[d].confirmed /\ SU[d].recipient_channel = t[j].ch
                        /\ \A i \in DOMAIN t : IsConf(t[i], t[j].ch) => i = j
      BY DEF Answered
    <2>1. CASE j \in DOMAIN sc /\ t[j] = sc[j] /\ j # Len(sc) + 1
      <3>1. /\ t[j].ch \in 2..Cl /\ t[j].id_recv \in 2..Sl
            /\ t[j].window = WindowSize /\ t[j].maxpacket = MaxPacketSize
            /\ t[j].ch \in DOMAIN CT => ~CT[t[j].ch].confirmed
            /\ \A d \in DOMAIN ST :
                  d = t[j].id_recv <=> ST[d].confirmed /\ ST[d].recipient_channel = t[j].ch
            /\ \A i \in DOMAIN sc : IsConf(sc[i], t[j].ch) => i = j
        BY <2>1 DEF Answered
      <3>2. t[j].ch # c /\ t[j].id_recv # Sl + 1
        BY <1>w, <1>10, <2>1, <3>1 DEF IsConf
      <3>3. \A i \in DOMAIN t : IsConf(t[i], t[j].ch) => i = j
        BY <1>6, <3>1, <3>2 DEF IsConf
      <3>4. \A d \in DOMAIN SU : d = t[j].id_recv <=> SU[d].confirmed /\ SU[d].recipient_channel = t[j].ch
        BY <3>1, <3>2
      <3> QED BY <1>w, <3>1, <3>3, <3>4
    <2>2. CASE j = Len(sc) + 1 /\ t[j] = p
      <3>1. \A i \in DOMAIN t : IsConf(t[i], c) => i = j
        BY <1>6, <1>10, <2>2
      <3>2. \A d \in DOMAIN SU : d = Sl + 1 <=> SU[d].confirmed /\ SU[d].recipient_channel = c
        BY <1>w, <1>10
      <3> QED BY <1>w, <1>10, <2>2, <3>1, <3>2 DEF IsConf
    <2> QED BY <1>6, <2>1, <2>2
  <1>20. Fresh(Sl + 1, rest)
    BY <1>w, <1>9 DEF Fresh
  <1>21. Fresh(Cl, t)
    BY <1>5 DEF Fresh
  <1>22. Flow(t) /\ Flow(rest)
    BY <1>4 DEF Grown, Taken
  <1> QED BY <1>1, <1>3, <1>12, <1>14, <1>15, <1>16, <1>17, <1>18, <1>19, <1>20, <1>21, <1>22

------------------------------------------------------------------------------
(* A confirmation *)

\* U is T with channel k confirmed.
Confirmed(T, U, k, recipient, window) ==
    /\ DOMAIN U = DOMAIN T /\ k \in DOMAIN T
    /\ \A l \in DOMAIN T \ {k} : U[l] = T[l]
    /\ U[k].recipient_channel = recipient /\ U[k].confirmed = TRUE
    /\ U[k].sender_window_size = T[k].sender_window_size
    /\ U[k].recipient_window_size = window

\* The client learns that a channel is open.
LEMMA AgreedConfirm ==
    ASSUME NEW CT, NEW Cl, NEW ST, NEW Sl, NEW cs, NEW sc, Agreed(CT, Cl, ST, Sl, cs, sc),
           NEW p, NEW rest, Taken(sc, p, rest), p.msg = "CHANNEL_OPEN_CONFIRMATION",
           NEW CU, Confirmed(CT, CU, p.ch, p.id_recv, p.window)
    PROVE  Agreed(CU, Cl, ST, Sl, cs, rest)
  <1> USE DEF Agreed, Confirmed
  <1> DEFINE c == p.ch
             d == p.id_recv
  <1>w. WindowSize \in Nat
    BY SshConnectionAssumption
  <1>1. \A k : Size(p, k) = 0 /\ Credit(p, k) = 0
    BY DEF Size, Credit
  <1>2. \A ch : DataFor(ch, rest) = DataFor(ch, sc) /\ CreditFor(ch, rest) = CreditFor(ch, sc)
    BY <1>1 DEF Taken
  <1>3. /\ \A i \in DOMAIN rest : i + 1 \in DOMAIN sc /\ rest[i] = sc[i + 1] /\ i + 1 # 1
        /\ \A i, j \in DOMAIN rest : i + 1 = j + 1 => i = j
        /\ sc[1] = p /\ DOMAIN rest = 1..Len(rest) /\ DOMAIN sc = 1..Len(rest) + 1 /\ Len(rest) \in Nat
        /\ 1 \in DOMAIN sc
    BY DEF Taken
  <1>4. /\ c \in 2..Cl /\ d \in 2..Sl /\ p.window = WindowSize
        /\ ~CT[c].confirmed
        /\ \A b \in DOMAIN ST : b = d <=> ST[b].confirmed /\ ST[b].recipient_channel = c
        /\ \A i \in DOMAIN sc : IsConf(sc[i], c) => i = 1
    BY <1>3 DEF Answered, IsConf
  <1>5. Table(CU, Cl)
    <2>1. \A k \in DOMAIN CT \ {c} : CU[k] = CT[k]
      OBVIOUS
    <2>2. CU[c].confirmed \in BOOLEAN
      BY Zenon
    <2>3. CU[c].recipient_channel \in Int /\ CU[c].sender_window_size \in Nat /\ CU[c].recipient_window_size \in Nat
      BY <1>w, <1>4 DEF Table
    <2> QED BY <2>1, <2>2, <2>3 DEF Table
  <1>6. Linked(CU, Cl, ST, Sl)
    BY <1>4 DEF Linked
  <1>7. Account(CU, ST, cs, rest)
    <2> SUFFICES ASSUME NEW b \in DOMAIN CU, CU[b].confirmed, CU[b].recipient_channel \in DOMAIN ST
                 PROVE  CU[b].recipient_window_size + DataFor(CU[b].recipient_channel, cs) + CreditFor(b, rest)
                          = ST[CU[b].recipient_channel].sender_window_size
      BY DEF Account
    <2>1. CASE b # c
      BY <1>2, <2>1 DEF Account
    <2>2. CASE b = c
      <3>1. /\ ST[d].sender_window_size = WindowSize
            /\ DataFor(d, cs) = 0 /\ CreditFor(c, sc) = 0
        BY <1>4, <2>2 DEF HalfOpen
      <3> QED BY <1>w, <1>2, <1>4, <2>2, <3>1
    <2> QED BY <2>1, <2>2
  <1>8. Account(ST, CU, rest, cs)
    BY <1>2 DEF Account
  <1>9. HalfOpen(CU, ST, cs, rest)
    <2> SUFFICES ASSUME NEW b \in DOMAIN CU, NEW e \in DOMAIN ST,
                        ~CU[b].confirmed, ST[e].confirmed, ST[e].recipient_channel = b
                 PROVE  /\ ST[e].sender_window_size = WindowSize /\ CU[b].sender_window_size = WindowSize
                        /\ DataFor(e, cs) = 0 /\ CreditFor(b, rest) = 0
                        /\ \E j \in DOMAIN rest : IsConf(rest[j], b) /\ \A i \in 1..j - 1 : Size(rest[i], b) = 0
      BY DEF HalfOpen
    <2>0. b # c
      OBVIOUS
    <2>1. /\ ST[e].sender_window_size = WindowSize /\ CT[b].sender_window_size = WindowSize
          /\ DataFor(e, cs) = 0 /\ CreditFor(b, sc) = 0
      BY <2>0 DEF HalfOpen
    <2>2. PICK j \in DOMAIN sc : IsConf(sc[j], b) /\ \A i \in 1..j - 1 : Size(sc[i], b) = 0
      BY <2>0 DEF HalfOpen
    <2>3. j - 1 \in DOMAIN rest /\ rest[j - 1] = sc[j]
      <3>1. j # 1
        BY <1>3, <2>0, <2>2 DEF IsConf
      <3>2. j - 1 \in DOMAIN rest /\ (j - 1) + 1 = j
        BY <1>3, <3>1
      <3> QED BY <1>3, <3>2
    <2>4. ASSUME NEW i \in 1..(j - 1) - 1 PROVE i + 1 \in 1..j - 1 /\ rest[i] = sc[i + 1]
      <3>1. j \in 1..Len(rest) + 1
        BY <1>3
      <3>2. i + 1 \in 1..j - 1 /\ i \in 1..Len(rest)
        BY <1>3, <3>1
      <3> QED BY <1>3, <3>2
    <2> QED BY <1>2, <2>0, <2>1, <2>2, <2>3, <2>4
  <1>10. Asked(CU, Cl, ST, cs, rest)
    <2>1. \A i \in DOMAIN cs : IsOpen(cs[i]) => cs[i].sender # c
      BY <1>3 DEF Asked, IsConf
    <2> QED BY <1>2, <1>3, <2>1 DEF Asked
  <1>11. Answered(CU, Cl, ST, Sl, rest)
    <2>1. \A i \in DOMAIN rest : IsConf(rest[i], rest[i].ch) => rest[i].ch # c
      BY <1>3, <1>4 DEF IsConf
    <2> QED BY <1>3, <2>1 DEF Answered
  <1>12. Fresh(Cl, rest)
    BY <1>2 DEF Fresh
  <1>13. Flow(rest)
    BY DEF Taken
  <1> QED BY <1>5, <1>6, <1>7, <1>8, <1>9, <1>10, <1>11, <1>12, <1>13

------------------------------------------------------------------------------
(* The messages of a key exchange *)

\* Packets of the key exchange in a sequence: none, one, two.
KexMsgs == {"KEXINIT", "KEX_ECDH_INIT", "KEX_ECDH_REPLY", "NEWKEYS"}

NoKex(s) == \A i \in DOMAIN s : s[i].msg \notin KexMsgs
OneKex(s, a) == \E i \in DOMAIN s : s[i].msg = a /\ \A k \in DOMAIN s \ {i} : s[k].msg \notin KexMsgs
TwoKex(s, a, b) == \E i, j \in DOMAIN s : /\ i < j /\ s[i].msg = a /\ s[j].msg = b
                                          /\ \A k \in DOMAIN s \ {i, j} : s[k].msg \notin KexMsgs

\* Where the two ends are in a key exchange, and what is on its way.
Exchanging(cp, sp, cs, sc) ==
    \/ cp = "None" /\ sp = "None" /\ NoKex(cs) /\ NoKex(sc)
    \/ cp = "Init" /\ sp = "None" /\ OneKex(cs, "KEXINIT") /\ NoKex(sc)
    \/ cp = "None" /\ sp = "Init" /\ NoKex(cs) /\ OneKex(sc, "KEXINIT")
    \/ cp = "Init" /\ sp = "Init" /\ OneKex(cs, "KEXINIT") /\ OneKex(sc, "KEXINIT")
    \/ cp = "Init" /\ sp = "Dh" /\ NoKex(cs) /\ OneKex(sc, "KEXINIT")
    \/ cp = "DhDone" /\ sp = "Init" /\ TwoKex(cs, "KEXINIT", "KEX_ECDH_INIT") /\ NoKex(sc)
    \/ cp = "DhDone" /\ sp = "Dh" /\ OneKex(cs, "KEX_ECDH_INIT") /\ NoKex(sc)
    \/ cp = "DhDone" /\ sp = "Keys" /\ NoKex(cs) /\ TwoKex(sc, "KEX_ECDH_REPLY", "NEWKEYS")
    \/ cp = "Keys" /\ sp = "Keys" /\ OneKex(cs, "NEWKEYS") /\ OneKex(sc, "NEWKEYS")
    \/ cp = "Keys" /\ sp = "None" /\ NoKex(cs) /\ OneKex(sc, "NEWKEYS")
    \/ cp = "Keys" /\ sp = "Init" /\ NoKex(cs) /\ TwoKex(sc, "NEWKEYS", "KEXINIT")
    \/ cp = "None" /\ sp = "Keys" /\ OneKex(cs, "NEWKEYS") /\ NoKex(sc)
    \/ cp = "Init" /\ sp = "Keys" /\ TwoKex(cs, "NEWKEYS", "KEXINIT") /\ NoKex(sc)

\* Packets of another kind change nothing.
LEMMA KexGrown ==
    ASSUME NEW s, NEW x, NEW t, Grown(s, x, t), NoKex(x)
    PROVE  /\ NoKex(s) => NoKex(t)
           /\ \A a : OneKex(s, a) => OneKex(t, a)
           /\ \A a, b : TwoKex(s, a, b) => TwoKex(t, a, b)
  <1>1. \A i \in DOMAIN s : i \in DOMAIN t /\ t[i] = s[i]
    BY DEF Grown
  <1>2. ASSUME NEW i \in DOMAIN t, i \notin DOMAIN s PROVE t[i].msg \notin KexMsgs
    <2>1. i - Len(s) \in 1..Len(x) /\ i = Len(s) + (i - Len(s))
      BY <1>2 DEF Grown
    <2>2. t[i] = x[i - Len(s)] /\ i - Len(s) \in DOMAIN x
      BY <2>1 DEF Grown
    <2> QED BY <2>2 DEF NoKex
  <1>3. NoKex(s) => NoKex(t)
    BY <1>1, <1>2 DEF NoKex
  <1>4. ASSUME NEW a, OneKex(s, a) PROVE OneKex(t, a)
    BY <1>1, <1>2, <1>4 DEF OneKex
  <1>5. ASSUME NEW a, NEW b, TwoKex(s, a, b) PROVE TwoKex(t, a, b)
    <2>1. PICK i, j \in DOMAIN s : /\ i < j /\ s[i].msg = a /\ s[j].msg = b
                                   /\ \A k \in DOMAIN s \ {i, j} : s[k].msg \notin KexMsgs
      BY <1>5 DEF TwoKex
    <2>2. i \in DOMAIN t /\ j \in DOMAIN t /\ t[i].msg = a /\ t[j].msg = b
      BY <1>1, <2>1
    <2>3. \A k \in DOMAIN t \ {i, j} : t[k].msg \notin KexMsgs
      BY <1>1, <1>2, <2>1
    <2> QED BY <2>1, <2>2, <2>3 DEF TwoKex
  <1> QED BY <1>3, <1>4, <1>5

\* Packets of the exchange come last.
LEMMA KexAdded ==
    ASSUME NEW s, NEW x, NEW t, Grown(s, x, t)
    PROVE  /\ \A a : NoKex(s) /\ OneKex(x, a) => OneKex(t, a)
           /\ \A a, b : NoKex(s) /\ TwoKex(x, a, b) => TwoKex(t, a, b)
           /\ \A a, b : OneKex(s, a) /\ OneKex(x, b) => TwoKex(t, a, b)
  <1>1. \A i \in DOMAIN s : i \in DOMAIN t /\ t[i] = s[i]
    BY DEF Grown
  <1>2. \A i \in DOMAIN x : Len(s) + i \in DOMAIN t /\ t[Len(s) + i] = x[i]
    BY DEF Grown
  <1>3. \A i \in DOMAIN t : i \in DOMAIN s \/ (i - Len(s) \in DOMAIN x /\ t[i] = x[i - Len(s)] /\ i = Len(s) + (i - Len(s)))
    <2> SUFFICES ASSUME NEW i \in DOMAIN t, i \notin DOMAIN s
                 PROVE  i - Len(s) \in DOMAIN x /\ t[i] = x[i - Len(s)] /\ i = Len(s) + (i - Len(s))
      OBVIOUS
    <2>1. i - Len(s) \in DOMAIN x /\ i = Len(s) + (i - Len(s))
      BY DEF Grown
    <2> QED BY <1>2, <2>1
  <1>4. \A i \in DOMAIN s, j \in DOMAIN x : i < Len(s) + j /\ Len(s) + j \notin DOMAIN s
    BY DEF Grown
  <1>4a. \A i, j \in DOMAIN x : (i < j => Len(s) + i < Len(s) + j) /\ (Len(s) + i = Len(s) + j => i = j)
    BY DEF Grown
  <1>5. ASSUME NEW a, NoKex(s), OneKex(x, a) PROVE OneKex(t, a)
    <2>1. PICK i \in DOMAIN x : x[i].msg = a /\ \A k \in DOMAIN x \ {i} : x[k].msg \notin KexMsgs
      BY <1>5 DEF OneKex
    <2>2. \A k \in DOMAIN t \ {Len(s) + i} : t[k].msg \notin KexMsgs
      BY <1>1, <1>3, <1>5, <2>1 DEF NoKex
    <2> QED BY <1>2, <2>1, <2>2 DEF OneKex
  <1>6. ASSUME NEW a, NEW b, NoKex(s), TwoKex(x, a, b) PROVE TwoKex(t, a, b)
    <2>1. PICK i, j \in DOMAIN x : /\ i < j /\ x[i].msg = a /\ x[j].msg = b
                                   /\ \A k \in DOMAIN x \ {i, j} : x[k].msg \notin KexMsgs
      BY <1>6 DEF TwoKex
    <2>2. \A k \in DOMAIN t \ {Len(s) + i, Len(s) + j} : t[k].msg \notin KexMsgs
      BY <1>1, <1>3, <1>6, <2>1 DEF NoKex
    <2>3. Len(s) + i < Len(s) + j /\ Len(s) + i \in DOMAIN t /\ Len(s) + j \in DOMAIN t
      BY <1>2, <1>4a, <2>1
    <2>4. t[Len(s) + i].msg = a /\ t[Len(s) + j].msg = b
      BY <1>2, <2>1
    <2> QED BY <2>2, <2>3, <2>4 DEF TwoKex
  <1>7. ASSUME NEW a, NEW b, OneKex(s, a), OneKex(x, b) PROVE TwoKex(t, a, b)
    <2>1. PICK i \in DOMAIN s : s[i].msg = a /\ \A k \in DOMAIN s \ {i} : s[k].msg \notin KexMsgs
      BY <1>7 DEF OneKex
    <2>2. PICK j \in DOMAIN x : x[j].msg = b /\ \A k \in DOMAIN x \ {j} : x[k].msg \notin KexMsgs
      BY <1>7 DEF OneKex
    <2>3. \A k \in DOMAIN t \ {i, Len(s) + j} : t[k].msg \notin KexMsgs
      BY <1>1, <1>3, <2>1, <2>2
    <2>4. i < Len(s) + j /\ i \in DOMAIN t /\ Len(s) + j \in DOMAIN t
      BY <1>1, <1>2, <1>4, <2>1, <2>2
    <2>5. t[i].msg = a /\ t[Len(s) + j].msg = b
      BY <1>1, <1>2, <2>1, <2>2
    <2> QED BY <2>3, <2>4, <2>5 DEF TwoKex
  <1> QED BY <1>5, <1>6, <1>7

\* A packet is left out: the first of the exchange, or none of it.
LEMMA KexDropped ==
    ASSUME NEW s, NEW m, NEW p, NEW t, Dropped(s, m, p, t), \A i \in 1..m - 1 : s[i].msg \notin KexMsgs
    PROVE  /\ NoKex(s) => p.msg \notin KexMsgs /\ NoKex(t)
           /\ \A a \in KexMsgs : OneKex(s, a) =>
                 /\ p.msg \notin KexMsgs => OneKex(t, a)
                 /\ p.msg \in KexMsgs => p.msg = a /\ NoKex(t)
           /\ \A a \in KexMsgs, b \in KexMsgs : TwoKex(s, a, b) =>
                 /\ p.msg \notin KexMsgs => TwoKex(t, a, b)
                 /\ p.msg \in KexMsgs => p.msg = a /\ OneKex(t, b)
  <1> DEFINE Old(i) == IF i < m THEN i ELSE i + 1
             New(i) == IF i < m THEN i ELSE i - 1
  <1>1. \A i \in DOMAIN t : Old(i) \in DOMAIN s /\ t[i] = s[Old(i)] /\ Old(i) # m /\ New(Old(i)) = i
    BY DEF Dropped
  <1>2. \A i \in DOMAIN s : i # m => New(i) \in DOMAIN t /\ Old(New(i)) = i
    BY DEF Dropped
  <1>2a. \A i \in Int, j \in Int : m \in Int /\ i # m /\ j # m /\ i < j => New(i) < New(j)
    OBVIOUS
  <1>2b. m \in Int /\ DOMAIN s \subseteq Int
    BY DEF Dropped
  <1>3. m \in DOMAIN s /\ s[m] = p
    BY DEF Dropped
  <1>3a. \A i \in DOMAIN s : i < m => s[i].msg \notin KexMsgs
    BY DEF Dropped
  <1>3b. \A i \in Int, j \in Int : (i < j \/ j < i \/ i = j) /\ ~(i < j /\ j < i) /\ ~(i < i)
    OBVIOUS
  <1> HIDE DEF Old, New
  <1>4. \A i \in DOMAIN s : i # m => t[New(i)] = s[i]
    BY <1>1, <1>2
  <1>4a. \A i \in DOMAIN s, j \in DOMAIN s : i # m /\ j # m /\ i < j => New(i) < New(j)
    BY <1>2a, <1>2b
  <1>5. NoKex(s) => p.msg \notin KexMsgs /\ NoKex(t)
    BY <1>1, <1>3 DEF NoKex
  <1>6. ASSUME NEW a \in KexMsgs, OneKex(s, a)
        PROVE  /\ p.msg \notin KexMsgs => OneKex(t, a)
               /\ p.msg \in KexMsgs => p.msg = a /\ NoKex(t)
    <2>1. PICK i \in DOMAIN s : s[i].msg = a /\ \A k \in DOMAIN s \ {i} : s[k].msg \notin KexMsgs
      BY <1>6 DEF OneKex
    <2>2. CASE i # m
      <3>1. New(i) \in DOMAIN t /\ t[New(i)].msg = a
        BY <1>2, <1>4, <2>1, <2>2
      <3>2. \A k \in DOMAIN t \ {New(i)} : t[k].msg \notin KexMsgs
        BY <1>1, <2>1
      <3>3. p.msg \notin KexMsgs
        BY <1>3, <2>1, <2>2
      <3> QED BY <3>1, <3>2, <3>3 DEF OneKex
    <2>3. CASE i = m
      <3>1. NoKex(t)
        BY <1>1, <2>1, <2>3 DEF NoKex
      <3>2. p.msg = a
        BY <1>3, <2>1, <2>3
      <3> QED BY <1>6, <3>1, <3>2
    <2> QED BY <2>2, <2>3
  <1>7. ASSUME NEW a \in KexMsgs, NEW b \in KexMsgs, TwoKex(s, a, b)
        PROVE  /\ p.msg \notin KexMsgs => TwoKex(t, a, b)
               /\ p.msg \in KexMsgs => p.msg = a /\ OneKex(t, b)
    <2>1. PICK i \in DOMAIN s, j \in DOMAIN s :
                /\ i < j /\ s[i].msg = a /\ s[j].msg = b
                /\ \A k \in DOMAIN s \ {i, j} : s[k].msg \notin KexMsgs
      BY <1>7 DEF TwoKex
    <2>2. CASE i # m /\ j # m
      <3>1. New(i) \in DOMAIN t /\ t[New(i)].msg = a /\ New(j) \in DOMAIN t /\ t[New(j)].msg = b
        BY <1>2, <1>4, <2>1, <2>2
      <3>2. \A k \in DOMAIN t \ {New(i), New(j)} : t[k].msg \notin KexMsgs
        BY <1>1, <2>1
      <3>3. p.msg \notin KexMsgs
        BY <1>3, <2>1, <2>2
      <3>4. New(i) < New(j)
        BY <1>4a, <2>1, <2>2
      <3> QED BY <3>1, <3>2, <3>3, <3>4 DEF TwoKex
    <2>3. CASE i = m
      <3>0. j # m
        BY <1>2b, <1>3b, <2>1, <2>3
      <3>1. New(j) \in DOMAIN t /\ t[New(j)].msg = b
        BY <1>2, <1>4, <2>1, <3>0
      <3>2. \A k \in DOMAIN t \ {New(j)} : t[k].msg \notin KexMsgs
        BY <1>1, <2>1, <2>3
      <3>3. p.msg = a
        BY <1>3, <2>1, <2>3
      <3> QED BY <3>1, <3>2, <3>3, <1>7 DEF OneKex
    <2>4. CASE j = m
      <3>1. s[i].msg \notin KexMsgs
        BY <1>3a, <2>1, <2>4
      <3> QED BY <2>1, <3>1
    <2> QED BY <2>2, <2>3, <2>4
  <1> QED BY <1>5, <1>6, <1>7

------------------------------------------------------------------------------
(* The phases of a key exchange *)

\* The client sends packets of another kind.
LEMMA ExchangeAddC ==
    ASSUME NEW cp, NEW sp, NEW cs, NEW sc, Exchanging(cp, sp, cs, sc),
           NEW x, NEW t, Grown(cs, x, t), NoKex(x)
    PROVE  Exchanging(cp, sp, t, sc)
  <1>1. /\ NoKex(cs) => NoKex(t)
        /\ \A a : OneKex(cs, a) => OneKex(t, a)
        /\ \A a, b : TwoKex(cs, a, b) => TwoKex(t, a, b)
    BY KexGrown
  <1> QED BY <1>1 DEF Exchanging

\* A packet of another kind from the client is taken.
LEMMA ExchangeDropC ==
    ASSUME NEW cp, NEW sp, NEW cs, NEW sc, Exchanging(cp, sp, cs, sc),
           NEW m, NEW p, NEW t, Dropped(cs, m, p, t), p.msg \notin KexMsgs,
           \A i \in 1..m - 1 : cs[i].msg \notin KexMsgs
    PROVE  Exchanging(cp, sp, t, sc)
  <1>1. /\ NoKex(cs) => NoKex(t)
        /\ \A a \in KexMsgs : OneKex(cs, a) => OneKex(t, a)
        /\ \A a \in KexMsgs, b \in KexMsgs : TwoKex(cs, a, b) => TwoKex(t, a, b)
    BY KexDropped
  <1>2. {"KEXINIT", "KEX_ECDH_INIT", "KEX_ECDH_REPLY", "NEWKEYS"} \subseteq KexMsgs
    BY DEF KexMsgs
  <1> QED BY <1>1, <1>2 DEF Exchanging

\* The server sends packets of another kind.
LEMMA ExchangeAddS ==
    ASSUME NEW cp, NEW sp, NEW cs, NEW sc, Exchanging(cp, sp, cs, sc),
           NEW x, NEW t, Grown(sc, x, t), NoKex(x)
    PROVE  Exchanging(cp, sp, cs, t)
  <1>1. /\ NoKex(sc) => NoKex(t)
        /\ \A a : OneKex(sc, a) => OneKex(t, a)
        /\ \A a, b : TwoKex(sc, a, b) => TwoKex(t, a, b)
    BY KexGrown
  <1> QED BY <1>1 DEF Exchanging

\* A packet of another kind from the server is taken.
LEMMA ExchangeDropS ==
    ASSUME NEW cp, NEW sp, NEW cs, NEW sc, Exchanging(cp, sp, cs, sc),
           NEW m, NEW p, NEW t, Dropped(sc, m, p, t), p.msg \notin KexMsgs,
           \A i \in 1..m - 1 : sc[i].msg \notin KexMsgs
    PROVE  Exchanging(cp, sp, cs, t)
  <1>1. /\ NoKex(sc) => NoKex(t)
        /\ \A a \in KexMsgs : OneKex(sc, a) => OneKex(t, a)
        /\ \A a \in KexMsgs, b \in KexMsgs : TwoKex(sc, a, b) => TwoKex(t, a, b)
    BY KexDropped
  <1>2. {"KEXINIT", "KEX_ECDH_INIT", "KEX_ECDH_REPLY", "NEWKEYS"} \subseteq KexMsgs
    BY DEF KexMsgs
  <1> QED BY <1>1, <1>2 DEF Exchanging

\* The client is in Init and reads a packet of the exchange.
LEMMA ExchangeCInit ==
    ASSUME NEW cp, NEW sp, NEW cs, NEW sc, Exchanging(cp, sp, cs, sc), cp = "Init",
           NEW m, NEW p, NEW t, Dropped(sc, m, p, t), p.msg \in KexMsgs,
           \A i \in 1..m - 1 : sc[i].msg \notin KexMsgs
    PROVE  /\ p.msg = "KEXINIT"
           /\ \A x, u : Grown(cs, x, u) /\ OneKex(x, "KEX_ECDH_INIT") => Exchanging("DhDone", sp, u, t)
  <1>1. /\ ~NoKex(sc)
        /\ \A a \in KexMsgs : OneKex(sc, a) => p.msg = a /\ NoKex(t)
        /\ \A a \in KexMsgs, b \in KexMsgs : TwoKex(sc, a, b) => p.msg = a /\ OneKex(t, b)
    BY KexDropped
  <1>2. {"KEXINIT", "KEX_ECDH_INIT", "KEX_ECDH_REPLY", "NEWKEYS"} \subseteq KexMsgs
    BY DEF KexMsgs
  <1>3. \/ sp = "Init" /\ OneKex(cs, "KEXINIT") /\ OneKex(sc, "KEXINIT")
        \/ sp = "Dh" /\ NoKex(cs) /\ OneKex(sc, "KEXINIT")
    BY <1>1 DEF Exchanging
  <1>4. p.msg = "KEXINIT"
    BY <1>1, <1>2, <1>3
  <1>5. \/ sp = "Init" /\ OneKex(cs, "KEXINIT") /\ NoKex(t)
        \/ sp = "Dh" /\ NoKex(cs) /\ NoKex(t)
    BY <1>1, <1>2, <1>3
  <1>6. ASSUME NEW x, NEW u, Grown(cs, x, u), OneKex(x, "KEX_ECDH_INIT")
        PROVE  Exchanging("DhDone", sp, u, t)
    <2>1. /\ NoKex(cs) => OneKex(u, "KEX_ECDH_INIT")
          /\ OneKex(cs, "KEXINIT") => TwoKex(u, "KEXINIT", "KEX_ECDH_INIT")
      BY <1>6, KexAdded
    <2> QED BY <1>5, <2>1 DEF Exchanging
  <1> QED BY <1>4, <1>6

\* The client is in None and reads a packet of the exchange.
LEMMA ExchangeCNone ==
    ASSUME NEW cp, NEW sp, NEW cs, NEW sc, Exchanging(cp, sp, cs, sc), cp = "None",
           NEW m, NEW p, NEW t, Dropped(sc, m, p, t), p.msg \in KexMsgs,
           \A i \in 1..m - 1 : sc[i].msg \notin KexMsgs
    PROVE  /\ p.msg = "KEXINIT"
           /\ \A x, u : Grown(cs, x, u) /\ TwoKex(x, "KEXINIT", "KEX_ECDH_INIT") => Exchanging("DhDone", sp, u, t)
  <1>1. /\ ~NoKex(sc)
        /\ \A a \in KexMsgs : OneKex(sc, a) => p.msg = a /\ NoKex(t)
        /\ \A a \in KexMsgs, b \in KexMsgs : TwoKex(sc, a, b) => p.msg = a /\ OneKex(t, b)
    BY KexDropped
  <1>2. {"KEXINIT", "KEX_ECDH_INIT", "KEX_ECDH_REPLY", "NEWKEYS"} \subseteq KexMsgs
    BY DEF KexMsgs
  <1>3. \/ sp = "Init" /\ NoKex(cs) /\ OneKex(sc, "KEXINIT")
    BY <1>1 DEF Exchanging
  <1>4. p.msg = "KEXINIT"
    BY <1>1, <1>2, <1>3
  <1>5. \/ sp = "Init" /\ NoKex(cs) /\ NoKex(t)
    BY <1>1, <1>2, <1>3
  <1>6. ASSUME NEW x, NEW u, Grown(cs, x, u), TwoKex(x, "KEXINIT", "KEX_ECDH_INIT")
        PROVE  Exchanging("DhDone", sp, u, t)
    <2>1. /\ NoKex(cs) => TwoKex(u, "KEXINIT", "KEX_ECDH_INIT")
      BY <1>6, KexAdded
    <2> QED BY <1>5, <2>1 DEF Exchanging
  <1> QED BY <1>4, <1>6

\* The client is in DhDone and reads a packet of the exchange.
LEMMA ExchangeCDhDone ==
    ASSUME NEW cp, NEW sp, NEW cs, NEW sc, Exchanging(cp, sp, cs, sc), cp = "DhDone",
           NEW m, NEW p, NEW t, Dropped(sc, m, p, t), p.msg \in KexMsgs,
           \A i \in 1..m - 1 : sc[i].msg \notin KexMsgs
    PROVE  /\ p.msg = "KEX_ECDH_REPLY"
           /\ \A x, u : Grown(cs, x, u) /\ OneKex(x, "NEWKEYS") => Exchanging("Keys", sp, u, t)
  <1>1. /\ ~NoKex(sc)
        /\ \A a \in KexMsgs : OneKex(sc, a) => p.msg = a /\ NoKex(t)
        /\ \A a \in KexMsgs, b \in KexMsgs : TwoKex(sc, a, b) => p.msg = a /\ OneKex(t, b)
    BY KexDropped
  <1>2. {"KEXINIT", "KEX_ECDH_INIT", "KEX_ECDH_REPLY", "NEWKEYS"} \subseteq KexMsgs
    BY DEF KexMsgs
  <1>3. \/ sp = "Keys" /\ NoKex(cs) /\ TwoKex(sc, "KEX_ECDH_REPLY", "NEWKEYS")
    BY <1>1 DEF Exchanging
  <1>4. p.msg = "KEX_ECDH_REPLY"
    BY <1>1, <1>2, <1>3
  <1>5. \/ sp = "Keys" /\ NoKex(cs) /\ OneKex(t, "NEWKEYS")
    BY <1>1, <1>2, <1>3
  <1>6. ASSUME NEW x, NEW u, Grown(cs, x, u), OneKex(x, "NEWKEYS")
        PROVE  Exchanging("Keys", sp, u, t)
    <2>1. /\ NoKex(cs) => OneKex(u, "NEWKEYS")
      BY <1>6, KexAdded
    <2> QED BY <1>5, <2>1 DEF Exchanging
  <1> QED BY <1>4, <1>6

\* The client is in Keys and reads a packet of the exchange.
LEMMA ExchangeCKeys ==
    ASSUME NEW cp, NEW sp, NEW cs, NEW sc, Exchanging(cp, sp, cs, sc), cp = "Keys",
           NEW m, NEW p, NEW t, Dropped(sc, m, p, t), p.msg \in KexMsgs,
           \A i \in 1..m - 1 : sc[i].msg \notin KexMsgs
    PROVE  /\ p.msg = "NEWKEYS"
           /\ Exchanging("None", sp, cs, t)
  <1>1. /\ ~NoKex(sc)
        /\ \A a \in KexMsgs : OneKex(sc, a) => p.msg = a /\ NoKex(t)
        /\ \A a \in KexMsgs, b \in KexMsgs : TwoKex(sc, a, b) => p.msg = a /\ OneKex(t, b)
    BY KexDropped
  <1>2. {"KEXINIT", "KEX_ECDH_INIT", "KEX_ECDH_REPLY", "NEWKEYS"} \subseteq KexMsgs
    BY DEF KexMsgs
  <1>3. \/ sp = "Keys" /\ OneKex(cs, "NEWKEYS") /\ OneKex(sc, "NEWKEYS")
        \/ sp = "None" /\ NoKex(cs) /\ OneKex(sc, "NEWKEYS")
        \/ sp = "Init" /\ NoKex(cs) /\ TwoKex(sc, "NEWKEYS", "KEXINIT")
    BY <1>1 DEF Exchanging
  <1>4. p.msg = "NEWKEYS"
    BY <1>1, <1>2, <1>3
  <1>5. \/ sp = "Keys" /\ OneKex(cs, "NEWKEYS") /\ NoKex(t)
        \/ sp = "None" /\ NoKex(cs) /\ NoKex(t)
        \/ sp = "Init" /\ NoKex(cs) /\ OneKex(t, "KEXINIT")
    BY <1>1, <1>2, <1>3
  <1>6. Exchanging("None", sp, cs, t)
    BY <1>5 DEF Exchanging
  <1> QED BY <1>4, <1>6

\* The server is in Init and reads a packet of the exchange.
LEMMA ExchangeSInit ==
    ASSUME NEW cp, NEW sp, NEW cs, NEW sc, Exchanging(cp, sp, cs, sc), sp = "Init",
           NEW m, NEW p, NEW t, Dropped(cs, m, p, t), p.msg \in KexMsgs,
           \A i \in 1..m - 1 : cs[i].msg \notin KexMsgs
    PROVE  /\ p.msg = "KEXINIT"
           /\ Exchanging(cp, "Dh", t, sc)
  <1>1. /\ ~NoKex(cs)
        /\ \A a \in KexMsgs : OneKex(cs, a) => p.msg = a /\ NoKex(t)
        /\ \A a \in KexMsgs, b \in KexMsgs : TwoKex(cs, a, b) => p.msg = a /\ OneKex(t, b)
    BY KexDropped
  <1>2. {"KEXINIT", "KEX_ECDH_INIT", "KEX_ECDH_REPLY", "NEWKEYS"} \subseteq KexMsgs
    BY DEF KexMsgs
  <1>3. \/ cp = "Init" /\ OneKex(cs, "KEXINIT") /\ OneKex(sc, "KEXINIT")
        \/ cp = "DhDone" /\ TwoKex(cs, "KEXINIT", "KEX_ECDH_INIT") /\ NoKex(sc)
    BY <1>1 DEF Exchanging
  <1>4. p.msg = "KEXINIT"
    BY <1>1, <1>2, <1>3
  <1>5. \/ cp = "Init" /\ OneKex(sc, "KEXINIT") /\ NoKex(t)
        \/ cp = "DhDone" /\ NoKex(sc) /\ OneKex(t, "KEX_ECDH_INIT")
    BY <1>1, <1>2, <1>3
  <1>6. Exchanging(cp, "Dh", t, sc)
    BY <1>5 DEF Exchanging
  <1> QED BY <1>4, <1>6

\* The server is in None and reads a packet of the exchange.
LEMMA ExchangeSNone ==
    ASSUME NEW cp, NEW sp, NEW cs, NEW sc, Exchanging(cp, sp, cs, sc), sp = "None",
           NEW m, NEW p, NEW t, Dropped(cs, m, p, t), p.msg \in KexMsgs,
           \A i \in 1..m - 1 : cs[i].msg \notin KexMsgs
    PROVE  /\ p.msg = "KEXINIT"
           /\ \A x, u : Grown(sc, x, u) /\ OneKex(x, "KEXINIT") => Exchanging(cp, "Dh", t, u)
  <1>1. /\ ~NoKex(cs)
        /\ \A a \in KexMsgs : OneKex(cs, a) => p.msg = a /\ NoKex(t)
        /\ \A a \in KexMsgs, b \in KexMsgs : TwoKex(cs, a, b) => p.msg = a /\ OneKex(t, b)
    BY KexDropped
  <1>2. {"KEXINIT", "KEX_ECDH_INIT", "KEX_ECDH_REPLY", "NEWKEYS"} \subseteq KexMsgs
    BY DEF KexMsgs
  <1>3. \/ cp = "Init" /\ OneKex(cs, "KEXINIT") /\ NoKex(sc)
    BY <1>1 DEF Exchanging
  <1>4. p.msg = "KEXINIT"
    BY <1>1, <1>2, <1>3
  <1>5. \/ cp = "Init" /\ NoKex(sc) /\ NoKex(t)
    BY <1>1, <1>2, <1>3
  <1>6. ASSUME NEW x, NEW u, Grown(sc, x, u), OneKex(x, "KEXINIT")
        PROVE  Exchanging(cp, "Dh", t, u)
    <2>1. /\ NoKex(sc) => OneKex(u, "KEXINIT")
      BY <1>6, KexAdded
    <2> QED BY <1>5, <2>1 DEF Exchanging
  <1> QED BY <1>4, <1>6

\* The server is in Dh and reads a packet of the exchange.
LEMMA ExchangeSDh ==
    ASSUME NEW cp, NEW sp, NEW cs, NEW sc, Exchanging(cp, sp, cs, sc), sp = "Dh",
           NEW m, NEW p, NEW t, Dropped(cs, m, p, t), p.msg \in KexMsgs,
           \A i \in 1..m - 1 : cs[i].msg \notin KexMsgs
    PROVE  /\ p.msg = "KEX_ECDH_INIT"
           /\ \A x, u : Grown(sc, x, u) /\ TwoKex(x, "KEX_ECDH_REPLY", "NEWKEYS") => Exchanging(cp, "Keys", t, u)
  <1>1. /\ ~NoKex(cs)
        /\ \A a \in KexMsgs : OneKex(cs, a) => p.msg = a /\ NoKex(t)
        /\ \A a \in KexMsgs, b \in KexMsgs : TwoKex(cs, a, b) => p.msg = a /\ OneKex(t, b)
    BY KexDropped
  <1>2. {"KEXINIT", "KEX_ECDH_INIT", "KEX_ECDH_REPLY", "NEWKEYS"} \subseteq KexMsgs
    BY DEF KexMsgs
  <1>3. \/ cp = "DhDone" /\ OneKex(cs, "KEX_ECDH_INIT") /\ NoKex(sc)
    BY <1>1 DEF Exchanging
  <1>4. p.msg = "KEX_ECDH_INIT"
    BY <1>1, <1>2, <1>3
  <1>5. \/ cp = "DhDone" /\ NoKex(sc) /\ NoKex(t)
    BY <1>1, <1>2, <1>3
  <1>6. ASSUME NEW x, NEW u, Grown(sc, x, u), TwoKex(x, "KEX_ECDH_REPLY", "NEWKEYS")
        PROVE  Exchanging(cp, "Keys", t, u)
    <2>1. /\ NoKex(sc) => TwoKex(u, "KEX_ECDH_REPLY", "NEWKEYS")
      BY <1>6, KexAdded
    <2> QED BY <1>5, <2>1 DEF Exchanging
  <1> QED BY <1>4, <1>6

\* The server is in Keys and reads a packet of the exchange.
LEMMA ExchangeSKeys ==
    ASSUME NEW cp, NEW sp, NEW cs, NEW sc, Exchanging(cp, sp, cs, sc), sp = "Keys",
           NEW m, NEW p, NEW t, Dropped(cs, m, p, t), p.msg \in KexMsgs,
           \A i \in 1..m - 1 : cs[i].msg \notin KexMsgs
    PROVE  /\ p.msg = "NEWKEYS"
           /\ Exchanging(cp, "None", t, sc)
  <1>1. /\ ~NoKex(cs)
        /\ \A a \in KexMsgs : OneKex(cs, a) => p.msg = a /\ NoKex(t)
        /\ \A a \in KexMsgs, b \in KexMsgs : TwoKex(cs, a, b) => p.msg = a /\ OneKex(t, b)
    BY KexDropped
  <1>2. {"KEXINIT", "KEX_ECDH_INIT", "KEX_ECDH_REPLY", "NEWKEYS"} \subseteq KexMsgs
    BY DEF KexMsgs
  <1>3. \/ cp = "Keys" /\ OneKex(cs, "NEWKEYS") /\ OneKex(sc, "NEWKEYS")
        \/ cp = "None" /\ OneKex(cs, "NEWKEYS") /\ NoKex(sc)
        \/ cp = "Init" /\ TwoKex(cs, "NEWKEYS", "KEXINIT") /\ NoKex(sc)
    BY <1>1 DEF Exchanging
  <1>4. p.msg = "NEWKEYS"
    BY <1>1, <1>2, <1>3
  <1>5. \/ cp = "Keys" /\ OneKex(sc, "NEWKEYS") /\ NoKex(t)
        \/ cp = "None" /\ NoKex(sc) /\ NoKex(t)
        \/ cp = "Init" /\ NoKex(sc) /\ OneKex(t, "KEXINIT")
    BY <1>1, <1>2, <1>3
  <1>6. Exchanging(cp, "None", t, sc)
    BY <1>5 DEF Exchanging
  <1> QED BY <1>4, <1>6

\* The client starts a key exchange.
LEMMA ExchangeStartC ==
    ASSUME NEW cp, NEW sp, NEW cs, NEW sc, Exchanging(cp, sp, cs, sc), cp = "None",
           NEW x, NEW t, Grown(cs, x, t), OneKex(x, "KEXINIT")
    PROVE  Exchanging("Init", sp, t, sc)
  <1>1. /\ NoKex(cs) => OneKex(t, "KEXINIT")
        /\ OneKex(cs, "NEWKEYS") => TwoKex(t, "NEWKEYS", "KEXINIT")
    BY KexAdded
  <1> QED BY <1>1 DEF Exchanging

\* The server starts a key exchange.
LEMMA ExchangeStartS ==
    ASSUME NEW cp, NEW sp, NEW cs, NEW sc, Exchanging(cp, sp, cs, sc), sp = "None",
           NEW x, NEW t, Grown(sc, x, t), OneKex(x, "KEXINIT")
    PROVE  Exchanging(cp, "Init", cs, t)
  <1>1. /\ NoKex(sc) => OneKex(t, "KEXINIT")
        /\ OneKex(sc, "NEWKEYS") => TwoKex(t, "NEWKEYS", "KEXINIT")
    BY KexAdded
  <1> QED BY <1>1 DEF Exchanging

------------------------------------------------------------------------------
(* The agreement as one end sees it *)

\* Where an end is in the key exchange.
Phase(e) == IF e.kex # "None" THEN e.kex ELSE e.rekey

\* The two ends agree on their channels, on the key exchange, and there are
\* numbers for all channels up to B.
World(CT, Cl, cp, ST, Sl, sp, cs, sc, B) ==
    /\ Agreed(CT, Cl, ST, Sl, cs, sc)
    /\ Exchanging(cp, sp, cs, sc)
    /\ B \in Nat /\ B < IdSpace /\ Cl <= B /\ Sl + Openings(cs) <= B

\* The same as one end sees it: it has role r, the channels T, the last
\* number l and phase ph, and the other end is o; s is on its way from it,
\* c to it.
Pact(r, T, l, ph, o, s, c, B) ==
    IF r = "client"
    THEN World(T, l, ph, o.channels, o.last_channel_id, Phase(o), s, c, B)
    ELSE World(o.channels, o.last_channel_id, Phase(o), T, l, ph, c, s, B)

\* Its numbers.
LEMMA PactNumbers ==
    ASSUME NEW r, NEW T, NEW l, NEW ph, NEW o, NEW s, NEW c, NEW B, Pact(r, T, l, ph, o, s, c, B)
    PROVE  /\ Flow(s) /\ Flow(c) /\ Openings(s) \in Nat /\ Openings(c) \in Nat
           /\ l \in Nat /\ o.last_channel_id \in Nat /\ B \in Nat /\ B < IdSpace
           /\ Table(T, l) /\ l <= B
  <1>1. Flow(s) /\ Flow(c) /\ Table(T, l) /\ Table(o.channels, o.last_channel_id)
    BY DEF Pact, World, Agreed
  <1>2. Openings(s) \in Nat /\ Openings(c) \in Nat
    BY <1>1, FlowSums
  <1>3. l \in Nat /\ o.last_channel_id \in Nat
    BY <1>1 DEF Table
  <1>4. B \in Nat /\ B < IdSpace /\ (l <= B \/ l + Openings(c) <= B)
    BY DEF Pact, World
  <1> QED BY <1>1, <1>2, <1>3, <1>4

\* Packets are sent that change nothing.
LEMMA PactAdd ==
    ASSUME NEW r, NEW T, NEW l, NEW ph, NEW o, NEW s, NEW c, NEW B, Pact(r, T, l, ph, o, s, c, B),
           NEW x, Idle(x), NoKex(x), r = "client" => Openings(x) = 0
    PROVE  Pact(r, T, l, ph, o, (s \o x), c, B)
  <1>g. Grown(s, x, s \o x)
    BY PactNumbers, CatGrows DEF Idle
  <1>h. Openings(s \o x) = Openings(s) + Openings(x) /\ Openings(x) \in Nat
    BY <1>g DEF Grown
  <1>a. /\ Openings(s) \in Nat /\ Openings(c) \in Nat /\ l \in Nat /\ o.last_channel_id \in Nat
        /\ B \in Nat /\ B < IdSpace
    BY PactNumbers
  <1>c. CASE r = "client"
    <2>1. /\ Agreed(T, l, o.channels, o.last_channel_id, s, c) /\ Exchanging(ph, Phase(o), s, c)
          /\ l <= B /\ o.last_channel_id + Openings(s) <= B
      BY <1>c DEF Pact, World
    <2>2. Agreed(T, l, o.channels, o.last_channel_id, (s \o x), c)
      BY <1>c, <2>1, AgreedAddC
    <2>3. Exchanging(ph, Phase(o), (s \o x), c)
      BY <1>c, <2>1, <1>g, ExchangeAddC
    <2>4. l <= B /\ o.last_channel_id + Openings((s \o x)) <= B /\ B \in Nat /\ B < IdSpace
      BY <1>a, <1>c, <2>1, <1>h
    <2> QED BY <1>c, <2>2, <2>3, <2>4 DEF Pact, World
  <1>s. CASE r # "client"
    <2>1. /\ Agreed(o.channels, o.last_channel_id, T, l, c, s) /\ Exchanging(Phase(o), ph, c, s)
          /\ o.last_channel_id <= B /\ l + Openings(c) <= B
      BY <1>s DEF Pact, World
    <2>2. Agreed(o.channels, o.last_channel_id, T, l, c, (s \o x))
      BY <1>s, <2>1, AgreedAddS DEF Idle
    <2>3. Exchanging(Phase(o), ph, c, (s \o x))
      BY <1>s, <2>1, <1>g, ExchangeAddS
    <2>4. o.last_channel_id <= B /\ l + Openings(c) <= B /\ B \in Nat /\ B < IdSpace
      BY <1>a, <1>s, <2>1
    <2> QED BY <1>s, <2>2, <2>3, <2>4 DEF Pact, World
  <1> QED BY <1>c, <1>s

\* A packet that makes the other end use up a number.
LEMMA PactAsk ==
    ASSUME NEW r, NEW T, NEW l, NEW ph, NEW o, NEW s, NEW c, NEW B, Pact(r, T, l, ph, o, s, c, B),
           NEW x, Idle(x), NoKex(x), r = "client", Openings(x) = 1, B + 1 < IdSpace
    PROVE  Pact(r, T, l, ph, o, (s \o x), c, (B + 1))
  <1>g. Grown(s, x, s \o x)
    BY PactNumbers, CatGrows DEF Idle
  <1>h. Openings(s \o x) = Openings(s) + Openings(x) /\ Openings(x) \in Nat
    BY <1>g DEF Grown
  <1>a. /\ Openings(s) \in Nat /\ Openings(c) \in Nat /\ l \in Nat /\ o.last_channel_id \in Nat
        /\ B \in Nat /\ B < IdSpace
    BY PactNumbers
  <1>c. CASE r = "client"
    <2>1. /\ Agreed(T, l, o.channels, o.last_channel_id, s, c) /\ Exchanging(ph, Phase(o), s, c)
          /\ l <= B /\ o.last_channel_id + Openings(s) <= B
      BY <1>c DEF Pact, World
    <2>2. Agreed(T, l, o.channels, o.last_channel_id, (s \o x), c)
      BY <1>c, <2>1, AgreedAddC
    <2>3. Exchanging(ph, Phase(o), (s \o x), c)
      BY <1>c, <2>1, <1>g, ExchangeAddC
    <2>4. l <= (B + 1) /\ o.last_channel_id + Openings((s \o x)) <= (B + 1) /\ (B + 1) \in Nat /\ (B + 1) < IdSpace
      BY <1>a, <1>c, <2>1, <1>h
    <2> QED BY <1>c, <2>2, <2>3, <2>4 DEF Pact, World
  <1> QED BY <1>c

\* The windows are left alone.
LEMMA PactSame ==
    ASSUME NEW r, NEW T, NEW l, NEW ph, NEW o, NEW s, NEW c, NEW B, Pact(r, T, l, ph, o, s, c, B),
           NEW U, Same(T, U)
    PROVE  Pact(r, U, l, ph, o, s, c, B)
  <1>b. Same(o.channels, o.channels)
    BY DEF Same, SameButWindow
  <1>a. /\ Openings(s) \in Nat /\ Openings(c) \in Nat /\ l \in Nat /\ o.last_channel_id \in Nat
        /\ B \in Nat /\ B < IdSpace
    BY PactNumbers
  <1>c. CASE r = "client"
    <2>1. /\ Agreed(T, l, o.channels, o.last_channel_id, s, c) /\ Exchanging(ph, Phase(o), s, c)
          /\ l <= B /\ o.last_channel_id + Openings(s) <= B
      BY <1>c DEF Pact, World
    <2>2. Agreed(U, l, o.channels, o.last_channel_id, s, c)
      BY <1>c, <2>1, <1>b, AgreedSame
    <2>3. Exchanging(ph, Phase(o), s, c)
      BY <1>c, <2>1, <1>a
    <2>4. l <= B /\ o.last_channel_id + Openings(s) <= B /\ B \in Nat /\ B < IdSpace
      BY <1>a, <1>c, <2>1
    <2> QED BY <1>c, <2>2, <2>3, <2>4 DEF Pact, World
  <1>s. CASE r # "client"
    <2>1. /\ Agreed(o.channels, o.last_channel_id, T, l, c, s) /\ Exchanging(Phase(o), ph, c, s)
          /\ o.last_channel_id <= B /\ l + Openings(c) <= B
      BY <1>s DEF Pact, World
    <2>2. Agreed(o.channels, o.last_channel_id, U, l, c, s)
      BY <1>s, <2>1, <1>b, AgreedSame
    <2>3. Exchanging(Phase(o), ph, c, s)
      BY <1>s, <2>1, <1>a
    <2>4. o.last_channel_id <= B /\ l + Openings(c) <= B /\ B \in Nat /\ B < IdSpace
      BY <1>a, <1>s, <2>1
    <2> QED BY <1>s, <2>2, <2>3, <2>4 DEF Pact, World
  <1> QED BY <1>c, <1>s

\* A channel is removed.
LEMMA PactRemove ==
    ASSUME NEW r, NEW T, NEW l, NEW ph, NEW o, NEW s, NEW c, NEW B, Pact(r, T, l, ph, o, s, c, B),
           NEW U, Restricted(T, U)
    PROVE  Pact(r, U, l, ph, o, s, c, B)
  <1>b. Restricted(o.channels, o.channels)
    BY DEF Restricted
  <1>a. /\ Openings(s) \in Nat /\ Openings(c) \in Nat /\ l \in Nat /\ o.last_channel_id \in Nat
        /\ B \in Nat /\ B < IdSpace
    BY PactNumbers
  <1>c. CASE r = "client"
    <2>1. /\ Agreed(T, l, o.channels, o.last_channel_id, s, c) /\ Exchanging(ph, Phase(o), s, c)
          /\ l <= B /\ o.last_channel_id + Openings(s) <= B
      BY <1>c DEF Pact, World
    <2>2. Agreed(U, l, o.channels, o.last_channel_id, s, c)
      BY <1>c, <2>1, <1>b, AgreedRemove
    <2>3. Exchanging(ph, Phase(o), s, c)
      BY <1>c, <2>1, <1>a
    <2>4. l <= B /\ o.last_channel_id + Openings(s) <= B /\ B \in Nat /\ B < IdSpace
      BY <1>a, <1>c, <2>1
    <2> QED BY <1>c, <2>2, <2>3, <2>4 DEF Pact, World
  <1>s. CASE r # "client"
    <2>1. /\ Agreed(o.channels, o.last_channel_id, T, l, c, s) /\ Exchanging(Phase(o), ph, c, s)
          /\ o.last_channel_id <= B /\ l + Openings(c) <= B
      BY <1>s DEF Pact, World
    <2>2. Agreed(o.channels, o.last_channel_id, U, l, c, s)
      BY <1>s, <2>1, <1>b, AgreedRemove
    <2>3. Exchanging(Phase(o), ph, c, s)
      BY <1>s, <2>1, <1>a
    <2>4. o.last_channel_id <= B /\ l + Openings(c) <= B /\ B \in Nat /\ B < IdSpace
      BY <1>a, <1>s, <2>1
    <2> QED BY <1>s, <2>2, <2>3, <2>4 DEF Pact, World
  <1> QED BY <1>c, <1>s

\* Data is sent.
LEMMA PactSend ==
    ASSUME NEW r, NEW T, NEW l, NEW ph, NEW o, NEW s, NEW c, NEW B, Pact(r, T, l, ph, o, s, c, B),
           NEW U, NEW k, NEW n, Spent(T, U, k, n), NEW x, DataOnly(x, T[k].recipient_channel, n),
           NoKex(x), Openings(x) = 0
    PROVE  Pact(r, U, l, ph, o, (s \o x), c, B)
  <1>g. Grown(s, x, s \o x)
    BY PactNumbers, CatGrows DEF DataOnly
  <1>h. Openings(s \o x) = Openings(s) + Openings(x) /\ Openings(x) \in Nat
    BY <1>g DEF Grown
  <1>a. /\ Openings(s) \in Nat /\ Openings(c) \in Nat /\ l \in Nat /\ o.last_channel_id \in Nat
        /\ B \in Nat /\ B < IdSpace
    BY PactNumbers
  <1>c. CASE r = "client"
    <2>1. /\ Agreed(T, l, o.channels, o.last_channel_id, s, c) /\ Exchanging(ph, Phase(o), s, c)
          /\ l <= B /\ o.last_channel_id + Openings(s) <= B
      BY <1>c DEF Pact, World
    <2>2. Agreed(U, l, o.channels, o.last_channel_id, (s \o x), c)
      BY <1>c, <2>1, AgreedSendC
    <2>3. Exchanging(ph, Phase(o), (s \o x), c)
      BY <1>c, <2>1, <1>g, ExchangeAddC
    <2>4. l <= B /\ o.last_channel_id + Openings((s \o x)) <= B /\ B \in Nat /\ B < IdSpace
      BY <1>a, <1>c, <2>1, <1>h
    <2> QED BY <1>c, <2>2, <2>3, <2>4 DEF Pact, World
  <1>s. CASE r # "client"
    <2>1. /\ Agreed(o.channels, o.last_channel_id, T, l, c, s) /\ Exchanging(Phase(o), ph, c, s)
          /\ o.last_channel_id <= B /\ l + Openings(c) <= B
      BY <1>s DEF Pact, World
    <2>2. Agreed(o.channels, o.last_channel_id, U, l, c, (s \o x))
      BY <1>s, <2>1, AgreedSendS
    <2>3. Exchanging(Phase(o), ph, c, (s \o x))
      BY <1>s, <2>1, <1>g, ExchangeAddS
    <2>4. o.last_channel_id <= B /\ l + Openings(c) <= B /\ B \in Nat /\ B < IdSpace
      BY <1>a, <1>s, <2>1
    <2> QED BY <1>s, <2>2, <2>3, <2>4 DEF Pact, World
  <1> QED BY <1>c, <1>s

\* Credit is sent.
LEMMA PactGrant ==
    ASSUME NEW r, NEW T, NEW l, NEW ph, NEW o, NEW s, NEW c, NEW B, Pact(r, T, l, ph, o, s, c, B),
           NEW k, NEW U, Used(T, U, k, WindowSize), T[k].sender_window_size < WindowSize,
           NEW x, x = <<Adjust(T[k].recipient_channel, WindowSize - T[k].sender_window_size)>>
    PROVE  Pact(r, U, l, ph, o, (s \o x), c, B)
  <1>e. WindowSize - T[k].sender_window_size \in Nat
    <2>1. T[k].sender_window_size \in Nat
      BY PactNumbers DEF Table, Used
    <2> QED BY <2>1, SshConnectionAssumption
  <1>f. Flow(x) /\ Openings(x) = 0 /\ Len(x) = 1 /\ x[1].msg = "CHANNEL_WINDOW_ADJUST"
    BY <1>e, AdjustIs
  <1>n. NoKex(x)
    BY <1>f DEF NoKex, KexMsgs, Flow, IsSeq
  <1>g. Grown(s, x, s \o x)
    BY PactNumbers, CatGrows, <1>f
  <1>h. Openings(s \o x) = Openings(s) + Openings(x) /\ Openings(x) \in Nat
    BY <1>g DEF Grown
  <1>a. /\ Openings(s) \in Nat /\ Openings(c) \in Nat /\ l \in Nat /\ o.last_channel_id \in Nat
        /\ B \in Nat /\ B < IdSpace
    BY PactNumbers
  <1>c. CASE r = "client"
    <2>1. /\ Agreed(T, l, o.channels, o.last_channel_id, s, c) /\ Exchanging(ph, Phase(o), s, c)
          /\ l <= B /\ o.last_channel_id + Openings(s) <= B
      BY <1>c DEF Pact, World
    <2>2. Agreed(U, l, o.channels, o.last_channel_id, (s \o x), c)
      BY <1>c, <2>1, AgreedGrantC
    <2>3. Exchanging(ph, Phase(o), (s \o x), c)
      BY <1>c, <2>1, <1>g, <1>n, ExchangeAddC
    <2>4. l <= B /\ o.last_channel_id + Openings((s \o x)) <= B /\ B \in Nat /\ B < IdSpace
      BY <1>a, <1>c, <2>1, <1>f, <1>h
    <2> QED BY <1>c, <2>2, <2>3, <2>4 DEF Pact, World
  <1>s. CASE r # "client"
    <2>1. /\ Agreed(o.channels, o.last_channel_id, T, l, c, s) /\ Exchanging(Phase(o), ph, c, s)
          /\ o.last_channel_id <= B /\ l + Openings(c) <= B
      BY <1>s DEF Pact, World
    <2>2. Agreed(o.channels, o.last_channel_id, U, l, c, (s \o x))
      BY <1>s, <2>1, AgreedGrantS
    <2>3. Exchanging(Phase(o), ph, c, (s \o x))
      BY <1>s, <2>1, <1>g, <1>n, ExchangeAddS
    <2>4. o.last_channel_id <= B /\ l + Openings(c) <= B /\ B \in Nat /\ B < IdSpace
      BY <1>a, <1>s, <2>1
    <2> QED BY <1>s, <2>2, <2>3, <2>4 DEF Pact, World
  <1> QED BY <1>c, <1>s

\* Data arrives.
LEMMA PactRead ==
    ASSUME NEW r, NEW T, NEW l, NEW ph, NEW o, NEW s, NEW c, NEW B, Pact(r, T, l, ph, o, s, c, B),
           NEW p, NEW t, Taken(c, p, t), IsData(p),
           NEW U, Used(T, U, p.ch, Left(T[p.ch].sender_window_size, Len(p.data)))
    PROVE  Pact(r, U, l, ph, o, s, t, B)
  <1>d. Dropped(c, 1, p, t) /\ Openings(c) = Opening(p) + Openings(t) /\ Opening(p) \in Nat /\ Openings(t) \in Nat
    BY TakenDropped DEF Taken
  <1>e. \A i \in 1..1 - 1 : c[i].msg \notin KexMsgs
    OBVIOUS
  <1>k. p.msg \notin KexMsgs
    BY DEF KexMsgs, IsData
  <1>a. /\ Openings(s) \in Nat /\ Openings(c) \in Nat /\ l \in Nat /\ o.last_channel_id \in Nat
        /\ B \in Nat /\ B < IdSpace
    BY PactNumbers
  <1>c. CASE r = "client"
    <2>1. /\ Agreed(T, l, o.channels, o.last_channel_id, s, c) /\ Exchanging(ph, Phase(o), s, c)
          /\ l <= B /\ o.last_channel_id + Openings(s) <= B
      BY <1>c DEF Pact, World
    <2>2. Agreed(U, l, o.channels, o.last_channel_id, s, t)
      BY <1>c, <2>1, AgreedReadC
    <2>3. Exchanging(ph, Phase(o), s, t)
      BY <1>c, <2>1, <1>d, <1>e, <1>k, ExchangeDropS
    <2>4. l <= B /\ o.last_channel_id + Openings(s) <= B /\ B \in Nat /\ B < IdSpace
      BY <1>a, <1>c, <2>1
    <2> QED BY <1>c, <2>2, <2>3, <2>4 DEF Pact, World
  <1>s. CASE r # "client"
    <2>1. /\ Agreed(o.channels, o.last_channel_id, T, l, c, s) /\ Exchanging(Phase(o), ph, c, s)
          /\ o.last_channel_id <= B /\ l + Openings(c) <= B
      BY <1>s DEF Pact, World
    <2>2. Agreed(o.channels, o.last_channel_id, U, l, t, s)
      BY <1>s, <2>1, AgreedReadS
    <2>3. Exchanging(Phase(o), ph, t, s)
      BY <1>s, <2>1, <1>d, <1>e, <1>k, ExchangeDropC
    <2>4. o.last_channel_id <= B /\ l + Openings(t) <= B /\ B \in Nat /\ B < IdSpace
      BY <1>a, <1>s, <2>1, <1>d
    <2> QED BY <1>s, <2>2, <2>3, <2>4 DEF Pact, World
  <1> QED BY <1>c, <1>s

\* Credit arrives.
LEMMA PactEarn ==
    ASSUME NEW r, NEW T, NEW l, NEW ph, NEW o, NEW s, NEW c, NEW B, Pact(r, T, l, ph, o, s, c, B),
           NEW p, NEW t, Taken(c, p, t), p.msg = "CHANNEL_WINDOW_ADJUST",
           NEW U, Earned(T, U, p.ch, p.amount)
    PROVE  Pact(r, U, l, ph, o, s, t, B)
  <1>d. Dropped(c, 1, p, t) /\ Openings(c) = Opening(p) + Openings(t) /\ Opening(p) \in Nat /\ Openings(t) \in Nat
    BY TakenDropped DEF Taken
  <1>e. \A i \in 1..1 - 1 : c[i].msg \notin KexMsgs
    OBVIOUS
  <1>k. p.msg \notin KexMsgs
    BY DEF KexMsgs, IsData
  <1>a. /\ Openings(s) \in Nat /\ Openings(c) \in Nat /\ l \in Nat /\ o.last_channel_id \in Nat
        /\ B \in Nat /\ B < IdSpace
    BY PactNumbers
  <1>c. CASE r = "client"
    <2>1. /\ Agreed(T, l, o.channels, o.last_channel_id, s, c) /\ Exchanging(ph, Phase(o), s, c)
          /\ l <= B /\ o.last_channel_id + Openings(s) <= B
      BY <1>c DEF Pact, World
    <2>2. Agreed(U, l, o.channels, o.last_channel_id, s, t)
      BY <1>c, <2>1, AgreedEarnC
    <2>3. Exchanging(ph, Phase(o), s, t)
      BY <1>c, <2>1, <1>d, <1>e, <1>k, ExchangeDropS
    <2>4. l <= B /\ o.last_channel_id + Openings(s) <= B /\ B \in Nat /\ B < IdSpace
      BY <1>a, <1>c, <2>1
    <2> QED BY <1>c, <2>2, <2>3, <2>4 DEF Pact, World
  <1>s. CASE r # "client"
    <2>1. /\ Agreed(o.channels, o.last_channel_id, T, l, c, s) /\ Exchanging(Phase(o), ph, c, s)
          /\ o.last_channel_id <= B /\ l + Openings(c) <= B
      BY <1>s DEF Pact, World
    <2>2. Agreed(o.channels, o.last_channel_id, U, l, t, s)
      BY <1>s, <2>1, AgreedEarnS
    <2>3. Exchanging(Phase(o), ph, t, s)
      BY <1>s, <2>1, <1>d, <1>e, <1>k, ExchangeDropC
    <2>4. o.last_channel_id <= B /\ l + Openings(t) <= B /\ B \in Nat /\ B < IdSpace
      BY <1>a, <1>s, <2>1, <1>d
    <2> QED BY <1>s, <2>2, <2>3, <2>4 DEF Pact, World
  <1> QED BY <1>c, <1>s

\* A packet arrives that changes nothing.
LEMMA PactDrop ==
    ASSUME NEW r, NEW T, NEW l, NEW ph, NEW o, NEW s, NEW c, NEW B, Pact(r, T, l, ph, o, s, c, B),
           NEW p, NEW t, Taken(c, p, t), p.msg \notin KexMsgs,
           r = "client" => p.msg # "CHANNEL_OPEN_CONFIRMATION",
           \A k \in DOMAIN T : Size(p, k) = 0 /\ Credit(p, k) = 0
    PROVE  Pact(r, T, l, ph, o, s, t, B)
  <1>d. Dropped(c, 1, p, t) /\ Openings(c) = Opening(p) + Openings(t) /\ Opening(p) \in Nat /\ Openings(t) \in Nat
    BY TakenDropped DEF Taken
  <1>e. \A i \in 1..1 - 1 : c[i].msg \notin KexMsgs
    OBVIOUS
  <1>a. /\ Openings(s) \in Nat /\ Openings(c) \in Nat /\ l \in Nat /\ o.last_channel_id \in Nat
        /\ B \in Nat /\ B < IdSpace
    BY PactNumbers
  <1>c. CASE r = "client"
    <2>1. /\ Agreed(T, l, o.channels, o.last_channel_id, s, c) /\ Exchanging(ph, Phase(o), s, c)
          /\ l <= B /\ o.last_channel_id + Openings(s) <= B
      BY <1>c DEF Pact, World
    <2>2. Agreed(T, l, o.channels, o.last_channel_id, s, t)
      BY <1>c, <2>1, <1>d, AgreedDropC
    <2>3. Exchanging(ph, Phase(o), s, t)
      BY <1>c, <2>1, <1>d, <1>e, ExchangeDropS
    <2>4. l <= B /\ o.last_channel_id + Openings(s) <= B /\ B \in Nat /\ B < IdSpace
      BY <1>a, <1>c, <2>1
    <2> QED BY <1>c, <2>2, <2>3, <2>4 DEF Pact, World
  <1>s. CASE r # "client"
    <2>1. /\ Agreed(o.channels, o.last_channel_id, T, l, c, s) /\ Exchanging(Phase(o), ph, c, s)
          /\ o.last_channel_id <= B /\ l + Openings(c) <= B
      BY <1>s DEF Pact, World
    <2>2. Agreed(o.channels, o.last_channel_id, T, l, t, s)
      BY <1>s, <2>1, <1>d, AgreedDropS
    <2>3. Exchanging(Phase(o), ph, t, s)
      BY <1>s, <2>1, <1>d, <1>e, ExchangeDropC
    <2>4. o.last_channel_id <= B /\ l + Openings(t) <= B /\ B \in Nat /\ B < IdSpace
      BY <1>a, <1>s, <2>1, <1>d
    <2> QED BY <1>s, <2>2, <2>3, <2>4 DEF Pact, World
  <1> QED BY <1>c, <1>s

\* The client asks for a channel.
LEMMA PactOpen ==
    ASSUME NEW r, NEW T, NEW l, NEW ph, NEW o, NEW s, NEW c, NEW B, Pact(r, T, l, ph, o, s, c, B),
           r = "client", B + 1 < IdSpace, NEW U, Extended(T, U, l + 1),
           U[l + 1].recipient_channel = 0, U[l + 1].confirmed = FALSE,
           U[l + 1].sender_window_size = WindowSize, U[l + 1].recipient_window_size = 0,
           NEW p, IsOpen(p), p.sender = l + 1, p.window = WindowSize, p.maxpacket = MaxPacketSize
    PROVE  Pact(r, U, (l + 1), ph, o, (s \o <<p>>), c, (B + 1))
  <1>p. PICK x : x = <<p>>
    OBVIOUS
  <1>f. Flow(x) /\ Openings(x) = Opening(p) /\ Opening(p) = 1 /\ DOMAIN x = {1} /\ x[1] = p
    BY <1>p, PlainIs DEF IsOpen, Opening
  <1>n. NoKex(x)
    BY <1>f DEF NoKex, KexMsgs, IsOpen
  <1>g. Grown(s, x, s \o <<p>>)
    BY <1>p, <1>f, PactNumbers, CatGrows
  <1>h. Openings(s \o <<p>>) = Openings(s) + Openings(x) /\ Openings(x) \in Nat
    BY <1>g DEF Grown
  <1>a. /\ Openings(s) \in Nat /\ Openings(c) \in Nat /\ l \in Nat /\ o.last_channel_id \in Nat
        /\ B \in Nat /\ B < IdSpace
    BY PactNumbers
  <1>c. CASE r = "client"
    <2>1. /\ Agreed(T, l, o.channels, o.last_channel_id, s, c) /\ Exchanging(ph, Phase(o), s, c)
          /\ l <= B /\ o.last_channel_id + Openings(s) <= B
      BY <1>c DEF Pact, World
    <2>2. Agreed(U, (l + 1), o.channels, o.last_channel_id, (s \o <<p>>), c)
      BY <1>c, <2>1, AgreedOpen
    <2>3. Exchanging(ph, Phase(o), (s \o <<p>>), c)
      BY <1>c, <2>1, <1>g, <1>n, ExchangeAddC
    <2>4. (l + 1) <= (B + 1) /\ o.last_channel_id + Openings((s \o <<p>>)) <= (B + 1) /\ (B + 1) \in Nat /\ (B + 1) < IdSpace
      BY <1>a, <1>c, <2>1, <1>f, <1>h
    <2> QED BY <1>c, <2>2, <2>3, <2>4 DEF Pact, World
  <1> QED BY <1>c

\* The server uses up a number.
LEMMA PactForward ==
    ASSUME NEW r, NEW T, NEW l, NEW ph, NEW o, NEW s, NEW c, NEW B, Pact(r, T, l, ph, o, s, c, B),
           r # "client", NEW p, NEW t, Taken(c, p, t), Opening(p) = 1, NEW U,
           \/ U = T
           \/ /\ Extended(T, U, l + 1)
              /\ U[l + 1].recipient_channel = 0 /\ U[l + 1].confirmed = FALSE
              /\ U[l + 1].sender_window_size \in Nat /\ U[l + 1].recipient_window_size \in Nat
    PROVE  Pact(r, U, (l + 1), ph, o, s, t, B)
  <1>d. Dropped(c, 1, p, t) /\ Openings(c) = Opening(p) + Openings(t) /\ Opening(p) \in Nat /\ Openings(t) \in Nat
    BY TakenDropped DEF Taken
  <1>e. \A i \in 1..1 - 1 : c[i].msg \notin KexMsgs
    OBVIOUS
  <1>k. p.msg \notin KexMsgs
    BY DEF KexMsgs, Opening
  <1>l. \A k \in DOMAIN T : Size(p, k) = 0 /\ Credit(p, k) = 0
    BY DEF Opening, Size, Credit
  <1>a. /\ Openings(s) \in Nat /\ Openings(c) \in Nat /\ l \in Nat /\ o.last_channel_id \in Nat
        /\ B \in Nat /\ B < IdSpace
    BY PactNumbers
  <1>s. CASE r # "client"
    <2>1. /\ Agreed(o.channels, o.last_channel_id, T, l, c, s) /\ Exchanging(Phase(o), ph, c, s)
          /\ o.last_channel_id <= B /\ l + Openings(c) <= B
      BY <1>s DEF Pact, World
    <2>2. Agreed(o.channels, o.last_channel_id, U, (l + 1), t, s)
      BY <1>s, <2>1, <1>d, <1>l, AgreedDropS, AgreedForward
    <2>3. Exchanging(Phase(o), ph, t, s)
      BY <1>s, <2>1, <1>d, <1>e, <1>k, ExchangeDropC
    <2>4. o.last_channel_id <= B /\ (l + 1) + Openings(t) <= B /\ B \in Nat /\ B < IdSpace
      BY <1>a, <1>s, <2>1, <1>d
    <2> QED BY <1>s, <2>2, <2>3, <2>4 DEF Pact, World
  <1> QED BY <1>s

\* The server accepts a channel.
LEMMA PactAccept ==
    ASSUME NEW r, NEW T, NEW l, NEW ph, NEW o, NEW s, NEW c, NEW B, Pact(r, T, l, ph, o, s, c, B),
           r # "client", NEW q, NEW t, Taken(c, q, t), IsOpen(q), NEW U, Extended(T, U, l + 1),
           U[l + 1].recipient_channel = q.sender, U[l + 1].confirmed = TRUE,
           U[l + 1].sender_window_size = WindowSize, U[l + 1].recipient_window_size = q.window,
           NEW p, IsConf(p, q.sender), p.id_recv = l + 1, p.window = WindowSize, p.maxpacket = MaxPacketSize
    PROVE  Pact(r, U, (l + 1), ph, o, (s \o <<p>>), t, B)
  <1>d. Dropped(c, 1, q, t) /\ Openings(c) = Opening(q) + Openings(t) /\ Opening(q) \in Nat /\ Openings(t) \in Nat
    BY TakenDropped DEF Taken
  <1>e. \A i \in 1..1 - 1 : c[i].msg \notin KexMsgs
    OBVIOUS
  <1>k. q.msg \notin KexMsgs
    BY DEF KexMsgs, IsOpen
  <1>m. Opening(q) = 1
    BY DEF Opening, IsOpen
  <1>p. PICK x : x = <<p>>
    OBVIOUS
  <1>h. Flow(x) /\ DOMAIN x = {1} /\ x[1] = p
    BY <1>p, PlainIs DEF IsConf
  <1>f. NoKex(x)
    BY <1>h DEF NoKex, KexMsgs, IsConf
  <1>g. Grown(s, x, s \o <<p>>)
    BY <1>p, <1>h, PactNumbers, CatGrows
  <1>a. /\ Openings(s) \in Nat /\ Openings(c) \in Nat /\ l \in Nat /\ o.last_channel_id \in Nat
        /\ B \in Nat /\ B < IdSpace
    BY PactNumbers
  <1>s. CASE r # "client"
    <2>1. /\ Agreed(o.channels, o.last_channel_id, T, l, c, s) /\ Exchanging(Phase(o), ph, c, s)
          /\ o.last_channel_id <= B /\ l + Openings(c) <= B
      BY <1>s DEF Pact, World
    <2>2. Agreed(o.channels, o.last_channel_id, U, (l + 1), t, (s \o <<p>>))
      BY <1>s, <2>1, AgreedAccept
    <2>3. Exchanging(Phase(o), ph, t, (s \o <<p>>))
      BY <1>s, <2>1, <1>f, <1>g, <1>d, <1>e, <1>k, ExchangeDropC, ExchangeAddS
    <2>4. o.last_channel_id <= B /\ (l + 1) + Openings(t) <= B /\ B \in Nat /\ B < IdSpace
      BY <1>a, <1>s, <2>1, <1>d, <1>m
    <2> QED BY <1>s, <2>2, <2>3, <2>4 DEF Pact, World
  <1> QED BY <1>s

\* The client learns that a channel is open.
LEMMA PactConfirm ==
    ASSUME NEW r, NEW T, NEW l, NEW ph, NEW o, NEW s, NEW c, NEW B, Pact(r, T, l, ph, o, s, c, B),
           r = "client", NEW p, NEW t, Taken(c, p, t), p.msg = "CHANNEL_OPEN_CONFIRMATION",
           NEW U, Confirmed(T, U, p.ch, p.id_recv, p.window)
    PROVE  Pact(r, U, l, ph, o, s, t, B)
  <1>d. Dropped(c, 1, p, t) /\ Openings(c) = Opening(p) + Openings(t) /\ Opening(p) \in Nat /\ Openings(t) \in Nat
    BY TakenDropped DEF Taken
  <1>e. \A i \in 1..1 - 1 : c[i].msg \notin KexMsgs
    OBVIOUS
  <1>k. p.msg \notin KexMsgs
    BY DEF KexMsgs, IsData
  <1>a. /\ Openings(s) \in Nat /\ Openings(c) \in Nat /\ l \in Nat /\ o.last_channel_id \in Nat
        /\ B \in Nat /\ B < IdSpace
    BY PactNumbers
  <1>c. CASE r = "client"
    <2>1. /\ Agreed(T, l, o.channels, o.last_channel_id, s, c) /\ Exchanging(ph, Phase(o), s, c)
          /\ l <= B /\ o.last_channel_id + Openings(s) <= B
      BY <1>c DEF Pact, World
    <2>2. Agreed(U, l, o.channels, o.last_channel_id, s, t)
      BY <1>c, <2>1, AgreedConfirm
    <2>3. Exchanging(ph, Phase(o), s, t)
      BY <1>c, <2>1, <1>d, <1>e, <1>k, ExchangeDropS
    <2>4. l <= B /\ o.last_channel_id + Openings(s) <= B /\ B \in Nat /\ B < IdSpace
      BY <1>a, <1>c, <2>1
    <2> QED BY <1>c, <2>2, <2>3, <2>4 DEF Pact, World
  <1> QED BY <1>c

------------------------------------------------------------------------------
(* The key exchange as one end sees it *)

\* One packet of the exchange.
LEMMA KexOne ==
    ASSUME NEW a \in KexMsgs, NEW x, x = <<[msg |-> a]>>
    PROVE  Idle(x) /\ Openings(x) = 0 /\ OneKex(x, a)
  <1>1. PICK p : p = [msg |-> a]
    OBVIOUS
  <1>2. p.msg = a /\ x = <<p>>
    BY <1>1
  <1>3. p.msg \notin {"CHANNEL_DATA", "CHANNEL_EXTENDED_DATA", "CHANNEL_WINDOW_ADJUST", "CHANNEL_OPEN",
                      "CHANNEL_OPEN_CONFIRMATION", "GLOBAL_REQUEST"}
    BY <1>2 DEF KexMsgs
  <1>4. /\ Flow(x) /\ (\A k : DataFor(k, x) = 0 /\ CreditFor(k, x) = 0) /\ Openings(x) = Opening(p)
        /\ DOMAIN x = {1} /\ x[1] = p
    BY <1>2, <1>3, PlainIs
  <1>5. Opening(p) = 0
    BY <1>3 DEF Opening
  <1>6. Idle(x)
    BY <1>3, <1>4 DEF Idle, IsOpen
  <1>7. OneKex(x, a)
    BY <1>2, <1>4 DEF OneKex
  <1> QED BY <1>4, <1>5, <1>6, <1>7

\* Two of them.
LEMMA KexPair ==
    ASSUME NEW x, NEW y, NEW a, NEW b, Idle(x), Openings(x) = 0, OneKex(x, a),
           Idle(y), Openings(y) = 0, OneKex(y, b)
    PROVE  Idle(x \o y) /\ Openings(x \o y) = 0 /\ TwoKex(x \o y, a, b)
  <1>1. Grown(x, y, x \o y)
    BY CatGrows DEF Idle
  <1>2. TwoKex(x \o y, a, b)
    BY <1>1, KexAdded
  <1>3. Flow(x \o y) /\ (\A ch : DataFor(ch, x \o y) = 0 /\ CreditFor(ch, x \o y) = 0) /\ Openings(x \o y) = 0
    BY <1>1 DEF Grown, Idle
  <1>4. ASSUME NEW i \in DOMAIN (x \o y) PROVE (\E j \in DOMAIN x : (x \o y)[i] = x[j]) \/ (\E j \in DOMAIN y : (x \o y)[i] = y[j])
    <2>1. CASE i \in DOMAIN x
      BY <1>1, <2>1 DEF Grown
    <2>2. CASE i \notin DOMAIN x
      <3>1. i - Len(x) \in 1..Len(y) /\ i = Len(x) + (i - Len(x))
        BY <1>1, <2>2 DEF Grown
      <3>2. (x \o y)[i] = y[i - Len(x)] /\ i - Len(x) \in DOMAIN y
        BY <1>1, <3>1 DEF Grown
      <3> QED BY <3>2
    <2> QED BY <2>1, <2>2
  <1> QED BY <1>2, <1>3, <1>4 DEF Idle

\* The client in phase Init reads a packet of the exchange.
LEMMA PactCInit ==
    ASSUME NEW r, NEW T, NEW l, NEW ph, NEW o, NEW s, NEW c, NEW B, Pact(r, T, l, ph, o, s, c, B), r = "client", ph = "Init",
           NEW m, NEW p, NEW t, Dropped(c, m, p, t), p.msg \in KexMsgs,
           \A i \in 1..m - 1 : c[i].msg \notin KexMsgs
    PROVE  /\ p.msg = "KEXINIT"
           /\ \A x : Idle(x) /\ Openings(x) = 0 /\ OneKex(x, "KEX_ECDH_INIT") => Pact(r, T, l, "DhDone", o, (s \o x), t, B)
  <1>1. /\ Agreed(T, l, o.channels, o.last_channel_id, s, c) /\ Exchanging(ph, Phase(o), s, c)
        /\ B \in Nat /\ B < IdSpace /\ l <= B /\ o.last_channel_id + Openings(s) <= B
    BY DEF Pact, World
  <1>2. /\ p.msg # "CHANNEL_OPEN_CONFIRMATION"
        /\ \A k : Size(p, k) = 0 /\ Credit(p, k) = 0
    BY DEF KexMsgs, Size, Credit
  <1>3. Agreed(T, l, o.channels, o.last_channel_id, s, t)
    BY <1>1, <1>2, AgreedDropC
  <1>4. p.msg = "KEXINIT"
    BY <1>1, ExchangeCInit
  <1>5. Openings(s) \in Nat /\ Openings(c) \in Nat /\ l \in Nat /\ o.last_channel_id \in Nat /\ Flow(s)
    BY PactNumbers
  <1>6. Openings(t) \in Nat /\ Openings(t) <= Openings(c)
    BY <1>5 DEF Dropped
  <1>7. ASSUME NEW x, Idle(x), Openings(x) = 0, OneKex(x, "KEX_ECDH_INIT")
        PROVE  Pact(r, T, l, "DhDone", o, (s \o x), t, B)
    <2>1. Grown(s, x, s \o x)
      BY <1>5, <1>7, CatGrows DEF Idle
    <2>2. Exchanging("DhDone", Phase(o), s \o x, t)
      BY <1>1, <1>7, <2>1, ExchangeCInit
    <2>3. Agreed(T, l, o.channels, o.last_channel_id, s \o x, t)
      BY <1>3, <1>7, AgreedAddC DEF Idle
    <2>4. Openings(s \o x) = Openings(s)
      BY <1>5, <1>7, <2>1 DEF Grown
    <2>5. l <= B /\ o.last_channel_id + Openings(s \o x) <= B
      BY <1>1, <1>5, <1>6, <2>4
    <2> QED BY <1>1, <2>2, <2>3, <2>5 DEF Pact, World
  <1> QED BY <1>4, <1>7

\* The client in phase None reads a packet of the exchange.
LEMMA PactCNone ==
    ASSUME NEW r, NEW T, NEW l, NEW ph, NEW o, NEW s, NEW c, NEW B, Pact(r, T, l, ph, o, s, c, B), r = "client", ph = "None",
           NEW m, NEW p, NEW t, Dropped(c, m, p, t), p.msg \in KexMsgs,
           \A i \in 1..m - 1 : c[i].msg \notin KexMsgs
    PROVE  /\ p.msg = "KEXINIT"
           /\ \A x : Idle(x) /\ Openings(x) = 0 /\ TwoKex(x, "KEXINIT", "KEX_ECDH_INIT") => Pact(r, T, l, "DhDone", o, (s \o x), t, B)
  <1>1. /\ Agreed(T, l, o.channels, o.last_channel_id, s, c) /\ Exchanging(ph, Phase(o), s, c)
        /\ B \in Nat /\ B < IdSpace /\ l <= B /\ o.last_channel_id + Openings(s) <= B
    BY DEF Pact, World
  <1>2. /\ p.msg # "CHANNEL_OPEN_CONFIRMATION"
        /\ \A k : Size(p, k) = 0 /\ Credit(p, k) = 0
    BY DEF KexMsgs, Size, Credit
  <1>3. Agreed(T, l, o.channels, o.last_channel_id, s, t)
    BY <1>1, <1>2, AgreedDropC
  <1>4. p.msg = "KEXINIT"
    BY <1>1, ExchangeCNone
  <1>5. Openings(s) \in Nat /\ Openings(c) \in Nat /\ l \in Nat /\ o.last_channel_id \in Nat /\ Flow(s)
    BY PactNumbers
  <1>6. Openings(t) \in Nat /\ Openings(t) <= Openings(c)
    BY <1>5 DEF Dropped
  <1>7. ASSUME NEW x, Idle(x), Openings(x) = 0, TwoKex(x, "KEXINIT", "KEX_ECDH_INIT")
        PROVE  Pact(r, T, l, "DhDone", o, (s \o x), t, B)
    <2>1. Grown(s, x, s \o x)
      BY <1>5, <1>7, CatGrows DEF Idle
    <2>2. Exchanging("DhDone", Phase(o), s \o x, t)
      BY <1>1, <1>7, <2>1, ExchangeCNone
    <2>3. Agreed(T, l, o.channels, o.last_channel_id, s \o x, t)
      BY <1>3, <1>7, AgreedAddC DEF Idle
    <2>4. Openings(s \o x) = Openings(s)
      BY <1>5, <1>7, <2>1 DEF Grown
    <2>5. l <= B /\ o.last_channel_id + Openings(s \o x) <= B
      BY <1>1, <1>5, <1>6, <2>4
    <2> QED BY <1>1, <2>2, <2>3, <2>5 DEF Pact, World
  <1> QED BY <1>4, <1>7

\* The client in phase DhDone reads a packet of the exchange.
LEMMA PactCDhDone ==
    ASSUME NEW r, NEW T, NEW l, NEW ph, NEW o, NEW s, NEW c, NEW B, Pact(r, T, l, ph, o, s, c, B), r = "client", ph = "DhDone",
           NEW m, NEW p, NEW t, Dropped(c, m, p, t), p.msg \in KexMsgs,
           \A i \in 1..m - 1 : c[i].msg \notin KexMsgs
    PROVE  /\ p.msg = "KEX_ECDH_REPLY"
           /\ \A x : Idle(x) /\ Openings(x) = 0 /\ OneKex(x, "NEWKEYS") => Pact(r, T, l, "Keys", o, (s \o x), t, B)
  <1>1. /\ Agreed(T, l, o.channels, o.last_channel_id, s, c) /\ Exchanging(ph, Phase(o), s, c)
        /\ B \in Nat /\ B < IdSpace /\ l <= B /\ o.last_channel_id + Openings(s) <= B
    BY DEF Pact, World
  <1>2. /\ p.msg # "CHANNEL_OPEN_CONFIRMATION"
        /\ \A k : Size(p, k) = 0 /\ Credit(p, k) = 0
    BY DEF KexMsgs, Size, Credit
  <1>3. Agreed(T, l, o.channels, o.last_channel_id, s, t)
    BY <1>1, <1>2, AgreedDropC
  <1>4. p.msg = "KEX_ECDH_REPLY"
    BY <1>1, ExchangeCDhDone
  <1>5. Openings(s) \in Nat /\ Openings(c) \in Nat /\ l \in Nat /\ o.last_channel_id \in Nat /\ Flow(s)
    BY PactNumbers
  <1>6. Openings(t) \in Nat /\ Openings(t) <= Openings(c)
    BY <1>5 DEF Dropped
  <1>7. ASSUME NEW x, Idle(x), Openings(x) = 0, OneKex(x, "NEWKEYS")
        PROVE  Pact(r, T, l, "Keys", o, (s \o x), t, B)
    <2>1. Grown(s, x, s \o x)
      BY <1>5, <1>7, CatGrows DEF Idle
    <2>2. Exchanging("Keys", Phase(o), s \o x, t)
      BY <1>1, <1>7, <2>1, ExchangeCDhDone
    <2>3. Agreed(T, l, o.channels, o.last_channel_id, s \o x, t)
      BY <1>3, <1>7, AgreedAddC DEF Idle
    <2>4. Openings(s \o x) = Openings(s)
      BY <1>5, <1>7, <2>1 DEF Grown
    <2>5. l <= B /\ o.last_channel_id + Openings(s \o x) <= B
      BY <1>1, <1>5, <1>6, <2>4
    <2> QED BY <1>1, <2>2, <2>3, <2>5 DEF Pact, World
  <1> QED BY <1>4, <1>7

\* The client in phase Keys reads a packet of the exchange.
LEMMA PactCKeys ==
    ASSUME NEW r, NEW T, NEW l, NEW ph, NEW o, NEW s, NEW c, NEW B, Pact(r, T, l, ph, o, s, c, B), r = "client", ph = "Keys",
           NEW m, NEW p, NEW t, Dropped(c, m, p, t), p.msg \in KexMsgs,
           \A i \in 1..m - 1 : c[i].msg \notin KexMsgs
    PROVE  /\ p.msg = "NEWKEYS"
           /\ Pact(r, T, l, "None", o, s, t, B)
  <1>1. /\ Agreed(T, l, o.channels, o.last_channel_id, s, c) /\ Exchanging(ph, Phase(o), s, c)
        /\ B \in Nat /\ B < IdSpace /\ l <= B /\ o.last_channel_id + Openings(s) <= B
    BY DEF Pact, World
  <1>2. /\ p.msg # "CHANNEL_OPEN_CONFIRMATION"
        /\ \A k : Size(p, k) = 0 /\ Credit(p, k) = 0
    BY DEF KexMsgs, Size, Credit
  <1>3. Agreed(T, l, o.channels, o.last_channel_id, s, t)
    BY <1>1, <1>2, AgreedDropC
  <1>4. p.msg = "NEWKEYS"
    BY <1>1, ExchangeCKeys
  <1>5. Openings(s) \in Nat /\ Openings(c) \in Nat /\ l \in Nat /\ o.last_channel_id \in Nat /\ Flow(s)
    BY PactNumbers
  <1>6. Openings(t) \in Nat /\ Openings(t) <= Openings(c)
    BY <1>5 DEF Dropped
  <1>7. Exchanging("None", Phase(o), s, t)
    BY <1>1, ExchangeCKeys
  <1>8. l <= B /\ o.last_channel_id + Openings(s) <= B
    BY <1>1, <1>5, <1>6
  <1> QED BY <1>1, <1>3, <1>4, <1>7, <1>8 DEF Pact, World

\* The server in phase Init reads a packet of the exchange.
LEMMA PactSInit ==
    ASSUME NEW r, NEW T, NEW l, NEW ph, NEW o, NEW s, NEW c, NEW B, Pact(r, T, l, ph, o, s, c, B), r # "client", ph = "Init",
           NEW m, NEW p, NEW t, Dropped(c, m, p, t), p.msg \in KexMsgs,
           \A i \in 1..m - 1 : c[i].msg \notin KexMsgs
    PROVE  /\ p.msg = "KEXINIT"
           /\ Pact(r, T, l, "Dh", o, s, t, B)
  <1>1. /\ Agreed(o.channels, o.last_channel_id, T, l, c, s) /\ Exchanging(Phase(o), ph, c, s)
        /\ B \in Nat /\ B < IdSpace /\ o.last_channel_id <= B /\ l + Openings(c) <= B
    BY DEF Pact, World
  <1>2. /\ p.msg # "CHANNEL_OPEN_CONFIRMATION"
        /\ \A k : Size(p, k) = 0 /\ Credit(p, k) = 0
    BY DEF KexMsgs, Size, Credit
  <1>3. Agreed(o.channels, o.last_channel_id, T, l, t, s)
    BY <1>1, <1>2, AgreedDropS
  <1>4. p.msg = "KEXINIT"
    BY <1>1, ExchangeSInit
  <1>5. Openings(s) \in Nat /\ Openings(c) \in Nat /\ l \in Nat /\ o.last_channel_id \in Nat /\ Flow(s)
    BY PactNumbers
  <1>6. Openings(t) \in Nat /\ Openings(t) <= Openings(c)
    BY <1>5 DEF Dropped
  <1>7. Exchanging(Phase(o), "Dh", t, s)
    BY <1>1, ExchangeSInit
  <1>8. o.last_channel_id <= B /\ l + Openings(t) <= B
    BY <1>1, <1>5, <1>6
  <1> QED BY <1>1, <1>3, <1>4, <1>7, <1>8 DEF Pact, World

\* The server in phase None reads a packet of the exchange.
LEMMA PactSNone ==
    ASSUME NEW r, NEW T, NEW l, NEW ph, NEW o, NEW s, NEW c, NEW B, Pact(r, T, l, ph, o, s, c, B), r # "client", ph = "None",
           NEW m, NEW p, NEW t, Dropped(c, m, p, t), p.msg \in KexMsgs,
           \A i \in 1..m - 1 : c[i].msg \notin KexMsgs
    PROVE  /\ p.msg = "KEXINIT"
           /\ \A x : Idle(x) /\ Openings(x) = 0 /\ OneKex(x, "KEXINIT") => Pact(r, T, l, "Dh", o, (s \o x), t, B)
  <1>1. /\ Agreed(o.channels, o.last_channel_id, T, l, c, s) /\ Exchanging(Phase(o), ph, c, s)
        /\ B \in Nat /\ B < IdSpace /\ o.last_channel_id <= B /\ l + Openings(c) <= B
    BY DEF Pact, World
  <1>2. /\ p.msg # "CHANNEL_OPEN_CONFIRMATION"
        /\ \A k : Size(p, k) = 0 /\ Credit(p, k) = 0
    BY DEF KexMsgs, Size, Credit
  <1>3. Agreed(o.channels, o.last_channel_id, T, l, t, s)
    BY <1>1, <1>2, AgreedDropS
  <1>4. p.msg = "KEXINIT"
    BY <1>1, ExchangeSNone
  <1>5. Openings(s) \in Nat /\ Openings(c) \in Nat /\ l \in Nat /\ o.last_channel_id \in Nat /\ Flow(s)
    BY PactNumbers
  <1>6. Openings(t) \in Nat /\ Openings(t) <= Openings(c)
    BY <1>5 DEF Dropped
  <1>7. ASSUME NEW x, Idle(x), Openings(x) = 0, OneKex(x, "KEXINIT")
        PROVE  Pact(r, T, l, "Dh", o, (s \o x), t, B)
    <2>1. Grown(s, x, s \o x)
      BY <1>5, <1>7, CatGrows DEF Idle
    <2>2. Exchanging(Phase(o), "Dh", t, s \o x)
      BY <1>1, <1>7, <2>1, ExchangeSNone
    <2>3. Agreed(o.channels, o.last_channel_id, T, l, t, s \o x)
      BY <1>3, <1>7, AgreedAddS DEF Idle
    <2>4. Openings(s \o x) = Openings(s)
      BY <1>5, <1>7, <2>1 DEF Grown
    <2>5. o.last_channel_id <= B /\ l + Openings(t) <= B
      BY <1>1, <1>5, <1>6, <2>4
    <2> QED BY <1>1, <2>2, <2>3, <2>5 DEF Pact, World
  <1> QED BY <1>4, <1>7

\* The server in phase Dh reads a packet of the exchange.
LEMMA PactSDh ==
    ASSUME NEW r, NEW T, NEW l, NEW ph, NEW o, NEW s, NEW c, NEW B, Pact(r, T, l, ph, o, s, c, B), r # "client", ph = "Dh",
           NEW m, NEW p, NEW t, Dropped(c, m, p, t), p.msg \in KexMsgs,
           \A i \in 1..m - 1 : c[i].msg \notin KexMsgs
    PROVE  /\ p.msg = "KEX_ECDH_INIT"
           /\ \A x : Idle(x) /\ Openings(x) = 0 /\ TwoKex(x, "KEX_ECDH_REPLY", "NEWKEYS") => Pact(r, T, l, "Keys", o, (s \o x), t, B)
  <1>1. /\ Agreed(o.channels, o.last_channel_id, T, l, c, s) /\ Exchanging(Phase(o), ph, c, s)
        /\ B \in Nat /\ B < IdSpace /\ o.last_channel_id <= B /\ l + Openings(c) <= B
    BY DEF Pact, World
  <1>2. /\ p.msg # "CHANNEL_OPEN_CONFIRMATION"
        /\ \A k : Size(p, k) = 0 /\ Credit(p, k) = 0
    BY DEF KexMsgs, Size, Credit
  <1>3. Agreed(o.channels, o.last_channel_id, T, l, t, s)
    BY <1>1, <1>2, AgreedDropS
  <1>4. p.msg = "KEX_ECDH_INIT"
    BY <1>1, ExchangeSDh
  <1>5. Openings(s) \in Nat /\ Openings(c) \in Nat /\ l \in Nat /\ o.last_channel_id \in Nat /\ Flow(s)
    BY PactNumbers
  <1>6. Openings(t) \in Nat /\ Openings(t) <= Openings(c)
    BY <1>5 DEF Dropped
  <1>7. ASSUME NEW x, Idle(x), Openings(x) = 0, TwoKex(x, "KEX_ECDH_REPLY", "NEWKEYS")
        PROVE  Pact(r, T, l, "Keys", o, (s \o x), t, B)
    <2>1. Grown(s, x, s \o x)
      BY <1>5, <1>7, CatGrows DEF Idle
    <2>2. Exchanging(Phase(o), "Keys", t, s \o x)
      BY <1>1, <1>7, <2>1, ExchangeSDh
    <2>3. Agreed(o.channels, o.last_channel_id, T, l, t, s \o x)
      BY <1>3, <1>7, AgreedAddS DEF Idle
    <2>4. Openings(s \o x) = Openings(s)
      BY <1>5, <1>7, <2>1 DEF Grown
    <2>5. o.last_channel_id <= B /\ l + Openings(t) <= B
      BY <1>1, <1>5, <1>6, <2>4
    <2> QED BY <1>1, <2>2, <2>3, <2>5 DEF Pact, World
  <1> QED BY <1>4, <1>7

\* The server in phase Keys reads a packet of the exchange.
LEMMA PactSKeys ==
    ASSUME NEW r, NEW T, NEW l, NEW ph, NEW o, NEW s, NEW c, NEW B, Pact(r, T, l, ph, o, s, c, B), r # "client", ph = "Keys",
           NEW m, NEW p, NEW t, Dropped(c, m, p, t), p.msg \in KexMsgs,
           \A i \in 1..m - 1 : c[i].msg \notin KexMsgs
    PROVE  /\ p.msg = "NEWKEYS"
           /\ Pact(r, T, l, "None", o, s, t, B)
  <1>1. /\ Agreed(o.channels, o.last_channel_id, T, l, c, s) /\ Exchanging(Phase(o), ph, c, s)
        /\ B \in Nat /\ B < IdSpace /\ o.last_channel_id <= B /\ l + Openings(c) <= B
    BY DEF Pact, World
  <1>2. /\ p.msg # "CHANNEL_OPEN_CONFIRMATION"
        /\ \A k : Size(p, k) = 0 /\ Credit(p, k) = 0
    BY DEF KexMsgs, Size, Credit
  <1>3. Agreed(o.channels, o.last_channel_id, T, l, t, s)
    BY <1>1, <1>2, AgreedDropS
  <1>4. p.msg = "NEWKEYS"
    BY <1>1, ExchangeSKeys
  <1>5. Openings(s) \in Nat /\ Openings(c) \in Nat /\ l \in Nat /\ o.last_channel_id \in Nat /\ Flow(s)
    BY PactNumbers
  <1>6. Openings(t) \in Nat /\ Openings(t) <= Openings(c)
    BY <1>5 DEF Dropped
  <1>7. Exchanging(Phase(o), "None", t, s)
    BY <1>1, ExchangeSKeys
  <1>8. o.last_channel_id <= B /\ l + Openings(t) <= B
    BY <1>1, <1>5, <1>6
  <1> QED BY <1>1, <1>3, <1>4, <1>7, <1>8 DEF Pact, World

\* Either end starts a key exchange.
LEMMA PactStart ==
    ASSUME NEW r, NEW T, NEW l, NEW ph, NEW o, NEW s, NEW c, NEW B, Pact(r, T, l, ph, o, s, c, B), ph = "None",
           NEW x, Idle(x), Openings(x) = 0, OneKex(x, "KEXINIT")
    PROVE  Pact(r, T, l, "Init", o, s \o x, c, B)
  <1>1. Openings(s) \in Nat /\ Openings(c) \in Nat /\ l \in Nat /\ o.last_channel_id \in Nat /\ Flow(s) /\ B \in Nat /\ B < IdSpace
    BY PactNumbers
  <1>2. Grown(s, x, s \o x)
    BY <1>1, CatGrows DEF Idle
  <1>3. Openings(s \o x) = Openings(s)
    BY <1>1, <1>2 DEF Grown
  <1>4. CASE r = "client"
    <2>1. /\ Agreed(T, l, o.channels, o.last_channel_id, s, c) /\ Exchanging(ph, Phase(o), s, c)
          /\ l <= B /\ o.last_channel_id + Openings(s) <= B
      BY <1>4 DEF Pact, World
    <2>2. Agreed(T, l, o.channels, o.last_channel_id, s \o x, c)
      BY <2>1, AgreedAddC
    <2>3. Exchanging("Init", Phase(o), s \o x, c)
      BY <1>2, <2>1, ExchangeStartC
    <2> QED BY <1>1, <1>3, <1>4, <2>1, <2>2, <2>3 DEF Pact, World
  <1>5. CASE r # "client"
    <2>1. /\ Agreed(o.channels, o.last_channel_id, T, l, c, s) /\ Exchanging(Phase(o), ph, c, s)
          /\ o.last_channel_id <= B /\ l + Openings(c) <= B
      BY <1>5 DEF Pact, World
    <2>2. Agreed(o.channels, o.last_channel_id, T, l, c, s \o x)
      BY <2>1, AgreedAddS DEF Idle
    <2>3. Exchanging(Phase(o), "Init", c, s \o x)
      BY <1>2, <2>1, ExchangeStartS
    <2> QED BY <1>1, <1>5, <2>1, <2>2, <2>3 DEF Pact, World
  <1> QED BY <1>4, <1>5
==============================================================================
