----------------------------- MODULE DataProofs -----------------------------
(***************************************************************************)
(* Theorems about the data of an execution: the verdict of the policy on   *)
(* every list of claims, the answers to queries on any knowledge, and      *)
(* handshake messages in fragments.                                        *)
(***************************************************************************)
EXTENDS ClaimLog, Knowledge, HandshakeFlow, FiniteSetTheorems, SequenceTheorems,
        WellFoundedInduction, TLAPS

(* A set of naturals that is not empty has a least element.                *)
LEMMA LeastOf ==
    ASSUME NEW B, B \subseteq Nat, B # {}
    PROVE  \E n \in B : \A m \in B : ~(m < n)
  <1>1. PICK n \in B : \A y \in B : ~(<<y, n>> \in OpToRel(<, Nat))
    BY NatLessThanWellFounded, WFMin, Zenon
  <1>2. \A y \in B : ~(y < n)
    BY <1>1 DEF OpToRel
  <1> QED BY <1>1, <1>2

-----------------------------------------------------------------------------
(* The filter of inbound Finished claims                                   *)

(* What the filter has let through after n claims, for every n.            *)
Filters(s, f) ==
    f = [n \in 0..Len(s) |-> IF n = 0 THEN <<>>
                             ELSE IF IsInboundFinished(s[n]) THEN Append(f[n - 1], s[n])
                             ELSE f[n - 1]]

(* Its recursion is well founded.                                          *)
LEMMA FiltersExist ==
    ASSUME NEW s, Len(s) \in Nat
    PROVE  \E f : Filters(s, f)
  <1> DEFINE Next1(x, n) == IF IsInboundFinished(s[n]) THEN Append(x, s[n]) ELSE x
             Upto(f, n) == f = [k \in 0..n |-> IF k = 0 THEN <<>> ELSE Next1(f[k - 1], k)]
             Bad == {n \in Nat : ~\E f : Upto(f, n)}
  <1>1. Bad = {}
    <2> SUFFICES ASSUME Bad # {} PROVE FALSE
      OBVIOUS
    <2>1. Bad \subseteq Nat
      OBVIOUS
    <2> HIDE DEF Bad, Next1
    <2>2. PICK n \in Bad : \A m \in Bad : ~(m < n)
      BY <2>1, LeastOf
    <2>3. n \in Nat /\ ~\E f : Upto(f, n)
      BY <2>2 DEF Bad
    <2>4. CASE n = 0
      <3>1. Upto([k \in 0..0 |-> <<>>], 0)
        OBVIOUS
      <3> QED BY <2>3, <2>4, <3>1
    <2>5. CASE n > 0
      <3>1. n - 1 \in Nat /\ n - 1 < n
        BY <2>3, <2>5
      <3>2. PICK g : Upto(g, n - 1)
        BY <2>2, <3>1 DEF Bad
      <3>3. PICK h : h = [k \in 0..n |-> IF k = n THEN Next1(g[n - 1], n) ELSE g[k]]
        OBVIOUS
      <3>4. \A k \in 0..n - 1 : g[k] = IF k = 0 THEN <<>> ELSE Next1(g[k - 1], k)
        BY <3>2
      <3>5. ASSUME NEW k \in 0..n PROVE h[k] = IF k = 0 THEN <<>> ELSE Next1(h[k - 1], k)
        <4>1. CASE k = 0
          <5>1. k \in 0..n - 1 /\ k # n
            BY <2>3, <2>5, <4>1
          <5> QED BY <3>3, <3>4, <4>1, <5>1
        <4>2. CASE k # 0 /\ k # n
          <5>1. k \in 0..n - 1 /\ k - 1 \in 0..n /\ k - 1 # n
            BY <2>3, <4>2
          <5>2. h[k] = g[k] /\ h[k - 1] = g[k - 1]
            BY <3>3, <4>2, <5>1
          <5> QED BY <3>4, <4>2, <5>1, <5>2
        <4>3. CASE k = n
          <5>1. n - 1 \in 0..n /\ n - 1 # n /\ k # 0 /\ n \in 0..n
            BY <2>3, <2>5, <4>3
          <5>2. h[n] = Next1(g[n - 1], n) /\ h[n - 1] = g[n - 1]
            BY <3>3, <5>1
          <5> QED BY <4>3, <5>1, <5>2
        <4> QED BY <4>1, <4>2, <4>3
      <3>6. h = [k \in 0..n |-> h[k]]
        BY <3>3
      <3>7. Upto(h, n)
        BY <3>5, <3>6
      <3> QED BY <2>3, <3>7
    <2>6. n = 0 \/ n > 0
      BY <2>3
    <2> QED BY <2>4, <2>5, <2>6
  <1>2. \E f : Upto(f, Len(s))
    BY <1>1
  <1> QED BY <1>2 DEF Filters

(* fin is the list of the claims of s at the indices in I, each once.      *)
Lists(fin, s, I) ==
    /\ fin \in Seq(Claims)
    /\ \E idx \in [1..Len(fin) -> I] :
          /\ \A k, l \in 1..Len(fin) : idx[k] = idx[l] => k = l
          /\ \A i \in I : \E k \in 1..Len(fin) : idx[k] = i
          /\ \A k \in 1..Len(fin) : fin[k] = s[idx[k]]

(* Appending one more claim.                                               *)
LEMMA ListsOneMore ==
    ASSUME NEW s, NEW I, NEW fin, Lists(fin, s, I), NEW i, i \notin I, s[i] \in Claims
    PROVE  Lists(Append(fin, s[i]), s, I \cup {i})
  <1>1. PICK idx \in [1..Len(fin) -> I] :
          /\ \A k, l \in 1..Len(fin) : idx[k] = idx[l] => k = l
          /\ \A j \in I : \E k \in 1..Len(fin) : idx[k] = j
          /\ \A k \in 1..Len(fin) : fin[k] = s[idx[k]]
    BY DEF Lists
  <1>2. PICK n \in Nat : n = Len(fin)
    BY DEF Lists
  <1>3. PICK new : new = Append(fin, s[i])
    OBVIOUS
  <1>4. new \in Seq(Claims) /\ Len(new) = n + 1 /\ new[n + 1] = s[i]
        /\ \A k \in 1..n : new[k] = fin[k]
    BY <1>2, <1>3 DEF Lists
  <1>5. \A k \in 1..n + 1 : k = n + 1 \/ k \in 1..n
    BY <1>2
  <1>6. \A k \in 1..n : k \in 1..n + 1 /\ k # n + 1
    BY <1>2
  <1>7. n + 1 \in 1..n + 1
    BY <1>2
  <1>8. PICK jdx : jdx = [k \in 1..n + 1 |-> IF k = n + 1 THEN i ELSE idx[k]]
    OBVIOUS
  <1>9. jdx[n + 1] = i /\ \A k \in 1..n : jdx[k] = idx[k] /\ idx[k] \in I
    BY <1>1, <1>2, <1>6, <1>7, <1>8
  <1>10. jdx \in [1..n + 1 -> I \cup {i}]
    BY <1>5, <1>8, <1>9
  <1>11. \A k, l \in 1..n + 1 : jdx[k] = jdx[l] => k = l
    BY <1>1, <1>2, <1>5, <1>9
  <1>12. \A j \in I \cup {i} : \E k \in 1..n + 1 : jdx[k] = j
    BY <1>1, <1>2, <1>6, <1>7, <1>9
  <1>13. \A k \in 1..n + 1 : new[k] = s[jdx[k]]
    BY <1>1, <1>2, <1>4, <1>5, <1>9
  <1>14. PICK m : m = n + 1
    OBVIOUS
  <1>15. /\ jdx \in [1..m -> I \cup {i}]
         /\ \A k, l \in 1..m : jdx[k] = jdx[l] => k = l
         /\ \A j \in I \cup {i} : \E k \in 1..m : jdx[k] = j
         /\ \A k \in 1..m : new[k] = s[jdx[k]]
    BY <1>10, <1>11, <1>12, <1>13, <1>14, Zenon
  <1>16. Len(new) = m /\ new \in Seq(Claims)
    BY <1>4, <1>14
  <1>17. Lists(new, s, I \cup {i})
    BY <1>15, <1>16, ZenonT(30) DEF Lists
  <1> QED BY <1>3, <1>17

(* The filter lists exactly the inbound Finished claims.                   *)
LEMMA FilterIs ==
    ASSUME NEW s \in Seq(Claims)
    PROVE  Lists(InboundFinished(s), s, {i \in DOMAIN s : IsInboundFinished(s[i])})
  <1>1. PICK N \in Nat : N = Len(s) /\ DOMAIN s = 1..N /\ \A k \in 1..N : s[k] \in Claims
    OBVIOUS
  <1>2. PICK f : f = CHOOSE g : Filters(s, g)
    OBVIOUS
  <1>3. Filters(s, f)
    BY <1>1, <1>2, FiltersExist
  <1>4. InboundFinished(s) = f[N]
    BY <1>1, <1>2 DEF InboundFinished, Filters
  <1>5. /\ f[0] = <<>>
        /\ \A n \in 1..N : f[n] = IF IsInboundFinished(s[n]) THEN Append(f[n - 1], s[n])
                                  ELSE f[n - 1]
    <2>1. 0 \in 0..N /\ \A k \in 1..N : k \in 0..N /\ k # 0
      BY <1>1
    <2> QED BY <1>1, <1>3, <2>1 DEF Filters
  <1> DEFINE I(n) == {i \in 1..n : IsInboundFinished(s[i])}
             Bad == {n \in 0..N : ~Lists(f[n], s, I(n))}
  <1>6. Bad = {}
    <2> SUFFICES ASSUME Bad # {} PROVE FALSE
      OBVIOUS
    <2>1. Bad \subseteq Nat
      BY <1>1
    <2> HIDE DEF Bad
    <2>2. PICK n \in Bad : \A m \in Bad : ~(m < n)
      BY <2>1, LeastOf
    <2>3. n \in 0..N /\ ~Lists(f[n], s, I(n))
      BY <2>2 DEF Bad
    <2>4. CASE n = 0
      <3>1. I(0) = {}
        OBVIOUS
      <3>2. <<>> \in Seq(Claims) /\ Len(<<>>) = 0 /\ 1..0 = {}
        OBVIOUS
      <3>3. [k \in {} |-> 0] \in [{} -> {}]
        OBVIOUS
      <3>4. Lists(<<>>, s, {})
        BY <3>2, <3>3 DEF Lists
      <3> QED BY <1>5, <2>3, <2>4, <3>1, <3>4
    <2>5. CASE n # 0
      <3>1. n \in 1..N /\ n - 1 \in 0..N /\ n - 1 < n
        BY <1>1, <2>3, <2>5
      <3>2. Lists(f[n - 1], s, I(n - 1))
        BY <2>2, <3>1 DEF Bad
      <3>3. \A i \in 1..n : i = n \/ i \in 1..n - 1
        BY <3>1
      <3>4. n \notin 1..n - 1 /\ n \in 1..n /\ \A i \in 1..n - 1 : i \in 1..n
        BY <3>1
      <3>5. CASE IsInboundFinished(s[n])
        <4>1. I(n) = I(n - 1) \cup {n} /\ n \notin I(n - 1)
          BY <3>3, <3>4, <3>5
        <4>2. f[n] = Append(f[n - 1], s[n])
          BY <1>5, <3>1, <3>5
        <4>3. s[n] \in Claims
          BY <1>1, <3>1
        <4> HIDE DEF I
        <4>4. Lists(Append(f[n - 1], s[n]), s, I(n - 1) \cup {n})
          BY <3>2, <4>1, <4>3, ListsOneMore
        <4> QED BY <2>3, <4>1, <4>2, <4>4
      <3>6. CASE ~IsInboundFinished(s[n])
        <4>1. I(n) = I(n - 1)
          BY <3>3, <3>4, <3>6
        <4>2. f[n] = f[n - 1]
          BY <1>5, <3>1, <3>6
        <4> HIDE DEF I
        <4> QED BY <2>3, <3>2, <4>1, <4>2
      <3> QED BY <3>5, <3>6
    <2> QED BY <2>4, <2>5
  <1>7. N \in 0..N
    BY <1>1
  <1>8. Lists(f[N], s, I(N))
    BY <1>6, <1>7
  <1> QED BY <1>1, <1>4, <1>8

-----------------------------------------------------------------------------
(* The verdict                                                             *)

(* The certificate check of the policy is the reference's, for parties     *)
(* that are a client or a server.                                          *)
LEMMA DeceivedIs ==
    ASSUME NEW c \in Claims
    PROVE  Bypassed(c) <=> Deceived(c)
  BY ClaimLogAssumption DEF Bypassed, Deceived, BOB_CERT, ALICE_CERT

(* The cipher check is the reference's: no better cipher was common.       *)
LEMMA CipherIs ==
    ASSUME NEW c \in Claims, NEW s \in Claims, c.cipher = s.cipher
    PROVE  (\E b \in BestCipher(c, s) : b # s.cipher \/ b # c.cipher)
           <=> ~\A i \in DOMAIN s.available, j \in DOMAIN c.available :
                   s.available[i] = c.available[j] =>
                       \E k \in 1..i : s.available[k] = s.cipher
                           /\ \E l \in DOMAIN c.available : c.available[l] = s.cipher
  <1> DEFINE common == {i \in DOMAIN s.available :
                           \E j \in DOMAIN c.available : c.available[j] = s.available[i]}
             First1 == {k \in common : \A l \in common : k <= l}
             Best == \A i \in DOMAIN s.available, j \in DOMAIN c.available :
                         s.available[i] = c.available[j] =>
                             \E k \in 1..i : s.available[k] = s.cipher
                                 /\ \E l \in DOMAIN c.available : c.available[l] = s.cipher
  <1>1. PICK n \in Nat : DOMAIN s.available = 1..n
    BY ClaimLogAssumption
  <1>2. BestCipher(c, s) = {s.available[i] : i \in First1}
    BY DEF BestCipher
  <1>3. common \subseteq Nat /\ \A i \in common : i \in 1..n
    BY <1>1
  <1>4. CASE common = {}
    <2>1. Best
      BY <1>4
    <2> QED BY <1>2, <1>4, <2>1
  <1>5. CASE common # {}
    <2>0. PICK m \in common : \A l \in common : ~(l < m)
      <3> HIDE DEF common
      <3> QED BY <1>3, <1>5, LeastOf
    <2>1. m \in Nat /\ m \in 1..n /\ \A l \in common : m <= l
      BY <1>3, <2>0
    <2>2. First1 = {m}
      BY <1>3, <2>0, <2>1
    <2>3. BestCipher(c, s) = {s.available[m]}
      BY <1>2, <2>2
    <2>4. CASE s.available[m] = s.cipher
      <3>1. PICK l \in DOMAIN c.available : c.available[l] = s.cipher
        BY <2>0, <2>4
      <3>2. ASSUME NEW i \in DOMAIN s.available, NEW j \in DOMAIN c.available,
                   s.available[i] = c.available[j]
            PROVE  \E k \in 1..i : s.available[k] = s.cipher
                       /\ \E l2 \in DOMAIN c.available : c.available[l2] = s.cipher
        <4>1. i \in common
          BY <3>2
        <4>2. m \in 1..i
          BY <1>3, <2>1, <4>1
        <4> QED BY <2>4, <3>1, <4>2
      <3> QED BY <2>3, <2>4, <3>2
    <2>5. CASE s.available[m] # s.cipher
      <3>1. ASSUME Best PROVE FALSE
        <4>1. PICK j \in DOMAIN c.available : c.available[j] = s.available[m]
          BY <2>0
        <4>2. PICK k \in 1..m : s.available[k] = s.cipher
                  /\ \E l \in DOMAIN c.available : c.available[l] = s.cipher
          BY <2>0, <3>1, <4>1
        <4>3. k \in 1..n
          BY <2>1, <4>2
        <4>4. k \in common
          BY <1>1, <4>2, <4>3
        <4>5. k = m
          BY <2>1, <4>2, <4>4
        <4> QED BY <2>5, <4>2, <4>5
      <3> QED BY <2>3, <2>5, <3>1
    <2> QED BY <2>4, <2>5
  <1> QED BY <1>4, <1>5

(* The first of the checks that applies names a violation.                 *)
LEMMA PairViolationIs ==
    ASSUME NEW c \in Claims, NEW s \in Claims
    PROVE  PairViolation(c, s) = None <=> Agree(c, s)
  <1> DEFINE checks == PairChecks(c, s)
             hits == {i \in DOMAIN checks : checks[i][1]}
  <1>1. DOMAIN checks = 1..10
    BY DEF PairChecks
  <1>2. /\ checks[1][1] <=> c.version # s.version
        /\ checks[2][1] <=> c.secret # s.secret
        /\ checks[3][1] <=> c.server_random # s.server_random
        /\ checks[4][1] <=> c.client_random # s.client_random
        /\ checks[5][1] <=> c.cipher # s.cipher
    BY DEF PairChecks
  <1>3. /\ checks[6][1] <=> (c.sig # s.peer_sig \/ s.sig # c.peer_sig)
        /\ checks[7][1] <=> Bypassed(s)
        /\ checks[8][1] <=> Bypassed(c)
    BY DEF PairChecks
  <1>4. checks[9][1] <=> (IF c.version = "V1_2"
                          THEN s.session_id # NoId /\ c.session_id # s.session_id
                          ELSE c.session_id # s.session_id)
    BY DEF PairChecks
  <1>5. checks[10][1] <=> (c.version = "V1_3" /\ \E b \in BestCipher(c, s) :
                              b # s.cipher \/ b # c.cipher)
    BY DEF PairChecks
  <1>6. \A k \in 1..10 : checks[k][2] # None
    <2>1. /\ checks[1][2] # None /\ checks[2][2] # None /\ checks[3][2] # None
          /\ checks[4][2] # None /\ checks[5][2] # None
      BY DEF PairChecks, None
    <2>2. /\ checks[6][2] # None /\ checks[7][2] # None /\ checks[8][2] # None
          /\ checks[9][2] # None /\ checks[10][2] # None
      BY DEF PairChecks, None
    <2>3. \A i \in 1..10 : i = 1 \/ i = 2 \/ i = 3 \/ i = 4 \/ i = 5 \/ i = 6 \/ i = 7
                           \/ i = 8 \/ i = 9 \/ i = 10
      OBVIOUS
    <2> HIDE DEF checks
    <2> QED BY <2>1, <2>2, <2>3, Zenon
  <1> HIDE DEF checks
  <1>7. PairViolation(c, s) = None <=> hits = {}
    <2>1. CASE hits = {}
      BY <2>1 DEF PairViolation, checks
    <2>2. CASE hits # {}
      <3>1. hits \subseteq 1..10 /\ hits \subseteq Nat
        BY <1>1
      <3> HIDE DEF hits
      <3>2. PICK m \in hits : \A j \in hits : ~(j < m)
        BY <2>2, <3>1, LeastOf
      <3>3. \A j \in hits : m <= j
        BY <3>1, <3>2
      <3>4. (CHOOSE i \in hits : \A j \in hits : i <= j) \in hits
        BY <3>2, <3>3
      <3>5. PairViolation(c, s) = checks[CHOOSE i \in hits : \A j \in hits : i <= j][2]
        BY <2>2 DEF PairViolation, checks, hits
      <3> QED BY <1>6, <2>2, <3>1, <3>4, <3>5
    <2> QED BY <2>1, <2>2
  <1>8. hits = {} <=> /\ ~checks[1][1] /\ ~checks[2][1] /\ ~checks[3][1] /\ ~checks[4][1]
                      /\ ~checks[5][1] /\ ~checks[6][1] /\ ~checks[7][1] /\ ~checks[8][1]
                      /\ ~checks[9][1] /\ ~checks[10][1]
    <2>1. \A i \in 1..10 : i = 1 \/ i = 2 \/ i = 3 \/ i = 4 \/ i = 5 \/ i = 6 \/ i = 7
                           \/ i = 8 \/ i = 9 \/ i = 10
      OBVIOUS
    <2>2. 1 \in 1..10 /\ 2 \in 1..10 /\ 3 \in 1..10 /\ 4 \in 1..10 /\ 5 \in 1..10
          /\ 6 \in 1..10 /\ 7 \in 1..10 /\ 8 \in 1..10 /\ 9 \in 1..10 /\ 10 \in 1..10
      OBVIOUS
    <2> QED BY <1>1, <2>1, <2>2, Zenon
  <1>9. Bypassed(s) <=> Deceived(s)
    BY DeceivedIs
  <1>10. Bypassed(c) <=> Deceived(c)
    BY DeceivedIs
  <1>11. CASE c.cipher # s.cipher
    BY <1>2, <1>7, <1>8, <1>11 DEF Agree
  <1>12. CASE c.cipher = s.cipher
    <2>1. PICK Worse \in BOOLEAN :
            Worse <=> \E b \in BestCipher(c, s) : b # s.cipher \/ b # c.cipher
      OBVIOUS
    <2>2. Agree(c, s) <=>
            /\ c.version = s.version /\ c.secret = s.secret
            /\ c.server_random = s.server_random /\ c.client_random = s.client_random
            /\ c.sig = s.peer_sig /\ s.sig = c.peer_sig
            /\ ~Bypassed(s) /\ ~Bypassed(c)
            /\ c.session_id = s.session_id \/ (c.version = "V1_2" /\ s.session_id = <<>>)
            /\ c.version = "V1_3" => ~Worse
      BY <1>9, <1>10, <1>12, <2>1, CipherIs, Zenon DEF Agree
    <2>3. checks[9][1] <=> ~(c.session_id = s.session_id
                                \/ (c.version = "V1_2" /\ s.session_id = <<>>))
      BY <1>4 DEF NoId
    <2>4. checks[10][1] <=> (c.version = "V1_3" /\ Worse)
      BY <1>5, <2>1, Zenon
    <2> QED BY <1>2, <1>3, <1>7, <1>8, <1>12, <2>2, <2>3, <2>4, Zenon
  <1> QED BY <1>11, <1>12

(* A list of a and b, in whatever order.                                   *)
TwoOf(fin, a, b) == (fin[1] = a /\ fin[2] = b) \/ (fin[1] = b /\ fin[2] = a)

(* A filtered list of two or of one.                                       *)
LEMMA ListsTwo ==
    ASSUME NEW s, NEW fin, NEW i, NEW j, i # j, Lists(fin, s, {i, j})
    PROVE  Len(fin) = 2 /\ TwoOf(fin, s[i], s[j])
  <1>1. PICK n \in Nat : n = Len(fin)
    BY DEF Lists
  <1>2. PICK idx \in [1..n -> {i, j}] :
          /\ \A k, l \in 1..n : idx[k] = idx[l] => k = l
          /\ \A h \in {i, j} : \E k \in 1..n : idx[k] = h
          /\ \A k \in 1..n : fin[k] = s[idx[k]]
    BY <1>1 DEF Lists
  <1>3. PICK a, b \in 1..n : idx[a] = i /\ idx[b] = j /\ a # b
    BY <1>2
  <1>4. \A k \in 1..n : k = a \/ k = b
    BY <1>2, <1>3
  <1>5. n = 2
    <2>1. n >= 2
      BY <1>3
    <2>2. 1 \in 1..n /\ 2 \in 1..n /\ (n > 2 => 3 \in 1..n)
      BY <2>1
    <2>3. ~(n > 2)
      BY <1>4, <2>2
    <2> QED BY <2>1, <2>3
  <1>6. 1 \in 1..n /\ 2 \in 1..n
    BY <1>5
  <1>7. idx[1] # idx[2] /\ idx[1] \in {i, j} /\ idx[2] \in {i, j}
    BY <1>2, <1>6
  <1> QED BY <1>1, <1>2, <1>5, <1>6, <1>7 DEF TwoOf

\* A list of one index holds the one item.
LEMMA ListsOne ==
    ASSUME NEW s, NEW fin, NEW i, Lists(fin, s, {i})
    PROVE  Len(fin) = 1 /\ fin[1] = s[i]
  <1>1. PICK n \in Nat : n = Len(fin)
    BY DEF Lists
  <1>2. PICK idx \in [1..n -> {i}] :
          /\ \A k, l \in 1..n : idx[k] = idx[l] => k = l
          /\ \E k \in 1..n : idx[k] = i
          /\ \A k \in 1..n : fin[k] = s[idx[k]]
    BY <1>1 DEF Lists
  <1>3. \A k, l \in 1..n : k = l
    BY <1>2
  <1>4. n = 1
    <2>1. n >= 1
      BY <1>2
    <2>2. 1 \in 1..n /\ (n > 1 => 2 \in 1..n)
      BY <2>1
    <2> QED BY <1>3, <2>1, <2>2
  <1> QED BY <1>1, <1>2, <1>4

(* The verdict on a pair.                                                  *)
LEMMA VerdictOnPair ==
    ASSUME NEW s, NEW c \in Claims, NEW d \in Claims, NEW fin, fin = InboundFinished(s),
           Len(fin) = 2, TwoOf(fin, c, d),
           c.origin = "Client", d.origin = "Server", c.agent # d.agent
    PROVE  check_violation(s) = PairViolation(c, d)
  <1>1. find_two_finished_messages(s) = fin
    BY DEF find_two_finished_messages, TwoOf
  <1>2. fin # <<>>
    OBVIOUS
  <1>3. get_client_server(fin[1], fin[2]) = <<c, d>>
    BY DEF get_client_server, TwoOf
  <1>4. <<c, d>> # <<>> /\ <<c, d>>[1] = c /\ <<c, d>>[2] = d
    OBVIOUS
  <1> QED BY <1>1, <1>2, <1>3, <1>4 DEF check_violation

(* The verdict is right on every list of claims.                           *)
LEMMA VerdictOf == claims \in Seq(Claims) => VerdictIsRight
  <1> SUFFICES ASSUME claims \in Seq(Claims) PROVE VerdictIsRight
    OBVIOUS
  <1>1. PICK fin : fin = InboundFinished(claims)
    OBVIOUS
  <1>2. Lists(fin, claims, Finishes)
    BY <1>1, FilterIs DEF Finishes, IsInboundFinished
  <1>3. \A i \in Finishes : claims[i] \in Claims
    BY DEF Finishes
  <1>4. \A k \in 1..Len(fin) : \E i \in Finishes : fin[k] = claims[i]
    BY <1>2 DEF Lists
  <1>5. fin \in Seq(Claims)
    BY <1>2 DEF Lists
  <1>6. PairVerdict
    <2> SUFFICES ASSUME NEW i \in Finishes, NEW j \in Finishes, Finishes = {i, j},
                        claims[i].origin = "Client", claims[j].origin = "Server",
                        claims[i].agent # claims[j].agent
                 PROVE  check_violation(claims) = None <=> Agree(claims[i], claims[j])
      BY DEF PairVerdict
    <2>1. i # j
      OBVIOUS
    <2>2. Len(fin) = 2 /\ TwoOf(fin, claims[i], claims[j])
      <3>1. Lists(fin, claims, {i, j})
        BY <1>2, Zenon
      <3> QED BY <2>1, <3>1, ListsTwo
    <2>3. claims[i] \in Claims /\ claims[j] \in Claims
      BY <1>3
    <2>4. check_violation(claims) = PairViolation(claims[i], claims[j])
      BY <1>1, <2>2, <2>3, VerdictOnPair
    <2> QED BY <2>3, <2>4, PairViolationIs
  <1>7. NoFalseAlarm
    <2> SUFFICES ASSUME \A i \in Finishes : ~Deceived(claims[i]),
                        \A i, j \in Finishes :
                            claims[i].origin = "Client" /\ claims[j].origin = "Server"
                                => Agree(claims[i], claims[j])
                 PROVE  check_violation(claims) = None
      BY DEF NoFalseAlarm
    <2> DEFINE two == find_two_finished_messages(claims)
    <2>1. CASE two = <<>>
      <3>1. ASSUME fin # <<>> PROVE ~Bypassed(fin[1])
        <4>1. 1 \in 1..Len(fin)
          BY <1>5, <3>1
        <4>2. PICK i \in Finishes : fin[1] = claims[i]
          BY <1>4, <4>1
        <4> QED BY <1>3, <4>2, DeceivedIs
      <3>2. SingleViolation(claims) = None
        BY <1>1, <3>1 DEF SingleViolation
      <3> QED BY <2>1, <3>2 DEF check_violation
    <2>2. CASE two # <<>>
      <3>1. two = fin /\ Len(fin) = 2 /\ fin[1].agent # fin[2].agent
        BY <1>1, <2>2 DEF find_two_finished_messages
      <3>2. 1 \in 1..Len(fin) /\ 2 \in 1..Len(fin)
        BY <3>1
      <3>3. PICK i \in Finishes : fin[1] = claims[i]
        BY <1>4, <3>2
      <3>4. PICK j \in Finishes : fin[2] = claims[j]
        BY <1>4, <3>2
      <3>5. claims[i] \in Claims /\ claims[j] \in Claims
        BY <1>3
      <3>6. CASE claims[i].origin = "Client" /\ claims[j].origin = "Server"
        <4>1. check_violation(claims) = PairViolation(claims[i], claims[j])
          BY <1>1, <3>1, <3>3, <3>4, <3>5, <3>6, VerdictOnPair DEF TwoOf
        <4>2. Agree(claims[i], claims[j])
          BY <3>6
        <4> QED BY <3>5, <4>1, <4>2, PairViolationIs
      <3>7. CASE claims[j].origin = "Client" /\ claims[i].origin = "Server"
        <4>1. check_violation(claims) = PairViolation(claims[j], claims[i])
          BY <1>1, <3>1, <3>3, <3>4, <3>5, <3>7, VerdictOnPair DEF TwoOf
        <4>2. Agree(claims[j], claims[i])
          BY <3>7
        <4> QED BY <3>5, <4>1, <4>2, PairViolationIs
      <3>8. CASE claims[i].origin = claims[j].origin
        <4>1. get_client_server(two[1], two[2]) = <<>>
          BY <3>1, <3>3, <3>4, <3>8 DEF get_client_server
        <4> QED BY <2>2, <4>1 DEF check_violation
      <3> QED BY <3>5, <3>6, <3>7, <3>8, ClaimLogAssumption
    <2> QED BY <2>1, <2>2
  <1>8. LoneBypassFound
    <2> SUFFICES ASSUME NEW i \in Finishes, Finishes = {i}, Deceived(claims[i])
                 PROVE  check_violation(claims) # None
      BY DEF LoneBypassFound
    <2>1. Len(fin) = 1 /\ fin[1] = claims[i]
      BY <1>2, ListsOne
    <2>2. find_two_finished_messages(claims) = <<>>
      BY <1>1, <2>1 DEF find_two_finished_messages
    <2>3. Bypassed(fin[1]) /\ fin # <<>>
      <3>1. fin # <<>>
        BY <2>1, SMTT(30)
      <3> QED BY <1>3, <2>1, <3>1, DeceivedIs, Zenon
    <2>4. SingleViolation(claims) = "Authentication bypass"
      BY <1>1, <2>3 DEF SingleViolation
    <2> QED BY <2>2, <2>4 DEF check_violation, None
  <1> QED BY <1>6, <1>7, <1>8 DEF VerdictIsRight

(* Whatever claims the programs under test make, in whatever order: a pair *)
(* of a client and a server is objected to exactly if they disagree, no    *)
(* alarm is without a cause, and a lone party that accepted a wrong        *)
(* certificate is found out.                                               *)
THEOREM VerdictRight == ClaimSpec => []VerdictIsRight
  <1>1. ClaimInit => claims \in Seq(Claims)
    BY DEF ClaimInit
  <1>2. claims \in Seq(Claims) /\ [ClaimNext]_claims => (claims \in Seq(Claims))'
    <2>1. ASSUME claims \in Seq(Claims), NEW c \in Claims PROVE Append(claims, c) \in Seq(Claims)
      BY <2>1
    <2> QED BY <2>1 DEF ClaimNext, claim_sized
  <1> QED BY <1>1, <1>2, VerdictOf, PTL DEF ClaimSpec

-----------------------------------------------------------------------------
(* Positions in a sorted list                                              *)

(* R puts S in strict total order.                                         *)
StrictOrder(S, R) ==
    /\ \A i \in S : <<i, i>> \notin R
    /\ \A i, j \in S : i # j => <<i, j>> \in R \/ <<j, i>> \in R
    /\ \A i, j, k \in S : <<i, j>> \in R /\ <<j, k>> \in R => <<i, k>> \in R

(* The elements of S with n others before them.                            *)
AtPosition(S, R, n) == {i \in S : Cardinality({j \in S : <<j, i>> \in R}) = n}

(* In a finite set in strict total order, exactly one element has n others *)
(* before it, for every n less than the size of the set.                   *)
LEMMA PositionIsUnique ==
    ASSUME NEW S, IsFiniteSet(S), NEW R, NEW n \in Nat, StrictOrder(S, R)
    PROVE  Cardinality(AtPosition(S, R, n)) = IF Cardinality(S) > n THEN 1 ELSE 0
  <1> DEFINE Before(i) == {j \in S : <<j, i>> \in R}
             At1(m) == {i \in S : Cardinality(Before(i)) = m}
  <1>0. /\ \A i \in S : <<i, i>> \notin R
        /\ \A i, j \in S : i # j => <<i, j>> \in R \/ <<j, i>> \in R
        /\ \A i, j, k \in S : <<i, j>> \in R /\ <<j, k>> \in R => <<i, k>> \in R
    BY DEF StrictOrder
  <1>1. PICK N \in Nat : N = Cardinality(S)
    BY FS_CardinalityType
  <1>2. \A i \in S : IsFiniteSet(Before(i)) /\ Cardinality(Before(i)) \in Nat
    <2> SUFFICES ASSUME NEW i \in S
                 PROVE  IsFiniteSet(Before(i)) /\ Cardinality(Before(i)) \in Nat
      OBVIOUS
    <2>1. Before(i) \in SUBSET S
      OBVIOUS
    <2> HIDE DEF Before
    <2>2. IsFiniteSet(Before(i))
      BY <2>1, FS_Subset
    <2> QED BY <2>2, FS_CardinalityType
  <1>3. ASSUME NEW i \in S PROVE Cardinality(Before(i)) < N
    <2>1. Before(i) \in SUBSET (S \ {i})
      BY <1>0
    <2>2. IsFiniteSet(S \ {i}) /\ Cardinality(S \ {i}) = N - 1
      BY <1>1, FS_RemoveElement
    <2>3. Cardinality(Before(i)) <= N - 1
      <3> HIDE DEF Before
      <3> QED BY <2>1, <2>2, FS_Subset
    <2>4. PICK m \in Nat : m = Cardinality(Before(i))
      BY <1>2
    <2> QED BY <1>1, <2>3, <2>4
  <1>4. ASSUME NEW i \in S, NEW j \in S, <<i, j>> \in R
        PROVE  Cardinality(Before(i)) < Cardinality(Before(j))
    <2>1. Before(i) \cup {i} \in SUBSET Before(j) /\ i \notin Before(i)
      BY <1>0, <1>4
    <2>2. PICK a, b \in Nat : a = Cardinality(Before(i)) /\ b = Cardinality(Before(j))
      BY <1>2
    <2>3. IsFiniteSet(Before(i)) /\ IsFiniteSet(Before(j))
      BY <1>2
    <2> HIDE DEF Before
    <2>4. Cardinality(Before(i) \cup {i}) = a + 1
      BY <2>1, <2>2, <2>3, FS_AddElement
    <2>5. Cardinality(Before(i) \cup {i}) <= b
      BY <2>1, <2>2, <2>3, FS_Subset
    <2>6. a < b
      BY <2>2, <2>4, <2>5
    <2> QED BY <2>2, <2>6
  <1>5. ASSUME NEW i \in S, NEW j \in S, Cardinality(Before(i)) = Cardinality(Before(j))
        PROVE  i = j
    <2>1. PICK a \in Nat : a = Cardinality(Before(i))
      BY <1>2
    <2>2. ~(a < a)
      OBVIOUS
    <2> HIDE DEF Before
    <2> QED BY <1>0, <1>4, <1>5, <2>1, <2>2
  <1>6. CASE N > n
    <2>1. \E i \in S : Cardinality(Before(i)) = n
      <3> SUFFICES ASSUME ~\E i \in S : Cardinality(Before(i)) = n PROVE FALSE
        OBVIOUS
      <3>1. PICK T : T = (0..N - 1) \ {n}
        OBVIOUS
      <3>2. PICK f : f = [i \in S |-> Cardinality(Before(i))]
        OBVIOUS
      <3>3. ASSUME NEW i \in S PROVE Cardinality(Before(i)) \in T
        <4>1. PICK m \in Nat : m = Cardinality(Before(i))
          BY <1>2
        <4>2. m < N /\ m # n
          BY <1>3, <4>1
        <4>3. m \in 0..N - 1
          BY <1>1, <4>2
        <4> QED BY <3>1, <4>1, <4>2, <4>3
      <3>4. f \in [S -> T]
        BY <3>2, <3>3
      <3>5. IsFiniteSet(0..N - 1) /\ Cardinality(0..N - 1) = N
        <4>1. 0 \in Int /\ N - 1 \in Int /\ ~(0 > N - 1) /\ (N - 1) - 0 + 1 = N
          BY <1>1, <1>6
        <4> QED BY <4>1, FS_Interval
      <3>6. n \in 0..N - 1
        BY <1>1, <1>6
      <3>7. IsFiniteSet(T) /\ Cardinality(T) = N - 1
        BY <3>1, <3>5, <3>6, FS_RemoveElement, ZenonT(30)
      <3>8. Cardinality(T) < Cardinality(S)
        BY <1>1, <3>7
      <3>9. PICK x, y \in S : x # y /\ f[x] = f[y]
        BY <3>4, <3>7, <3>8, FS_PigeonHole
      <3> QED BY <1>5, <3>2, <3>9
    <2>2. PICK i \in S : Cardinality(Before(i)) = n
      BY <2>1
    <2>3. At1(n) = {i}
      <3> HIDE DEF Before
      <3> QED BY <1>5, <2>2
    <2> HIDE DEF At1
    <2>4. Cardinality(At1(n)) = 1
      BY <2>3, FS_Singleton
    <2> QED BY <1>1, <1>6, <2>4 DEF At1, AtPosition
  <1>7. CASE ~(N > n)
    <2>1. At1(n) = {}
      <3> SUFFICES ASSUME NEW i \in S, Cardinality(Before(i)) = n PROVE FALSE
        OBVIOUS
      <3>1. n < N
        BY <1>3
      <3> QED BY <1>1, <1>7, <3>1
    <2> HIDE DEF At1
    <2>2. Cardinality(At1(n)) = 0
      BY <2>1, FS_EmptySet
    <2> QED BY <1>1, <1>7, <2>2 DEF At1, AtPosition
  <1> QED BY <1>6, <1>7

-----------------------------------------------------------------------------
(* Queries                                                                 *)

(* An Option that holds something, as a sequence.                          *)
LEMMA SomeOption ==
    ASSUME NEW M, NEW s \in Seq(M), Len(s) <= 1, s # <<>>
    PROVE  Len(s) = 1 /\ 1 \in DOMAIN s /\ s[1] \in M
  <1>1. PICK n \in Nat : n = Len(s)
    OBVIOUS
  <1>2. n # 0 /\ n <= 1
    BY <1>1
  <1>3. n = 1
    BY <1>1, <1>2
  <1>4. Len(s) = 1
    BY <1>1, <1>3
  <1> QED BY <1>4

(* The matcher of an item or a query that has one.                         *)
LEMMA SomeMatcher ==
    ASSUME NEW x, HasMatcher(x), x.matcher # <<>>
    PROVE  /\ Len(x.matcher) = 1 /\ 1 \in DOMAIN x.matcher
           /\ x.matcher[1] \in [ct : QueryContent, hs : Seq(STRING)]
           /\ x.matcher[1].ct # "Handshake" => x.matcher[1].hs = <<>>
  <1>1. PICK M : M = [ct : QueryContent, hs : Seq(STRING)]
    OBVIOUS
  <1>2. PICK s : s = x.matcher
    OBVIOUS
  <1>3. s \in Seq(M) /\ Len(s) <= 1 /\ s # <<>>
    BY <1>1, <1>2, Zenon DEF HasMatcher
  <1>4. Len(s) = 1 /\ 1 \in DOMAIN s /\ s[1] \in M
    BY <1>3, SomeOption
  <1>5. s[1].ct # "Handshake" => s[1].hs = <<>>
    BY <1>2, <1>4, Zenon DEF HasMatcher
  <1> QED BY <1>1, <1>2, <1>4, <1>5, Zenon

(* The specificity of an item is a number.                                 *)
LEMMA SpecificityType ==
    ASSUME NEW x \in Items
    PROVE  specificity(x) \in Nat
  <1>1. HasMatcher(x)
    BY KnowledgeAssumption
  <1>2. CASE x.matcher = <<>>
    BY <1>2 DEF specificity
  <1>3. CASE x.matcher # <<>>
    <2>1. PICK m \in [ct : QueryContent, hs : Seq(STRING)] : m = x.matcher[1]
      BY <1>1, <1>3, SomeMatcher, Zenon
    <2>2. PICK h \in Nat : h = Len(x.matcher[1].hs)
      BY <2>1
    <2>3. specificity(x) = 1 + (IF x.matcher[1].ct = "Handshake" THEN 1 + h ELSE 0)
      BY <1>3, <2>2 DEF specificity
    <2>4. 1 + (1 + h) \in Nat /\ 1 + 0 \in Nat
      OBVIOUS
    <2> QED BY <2>3, <2>4
  <1> QED BY <1>2, <1>3

(* A query has at most one answer, and one if enough items match.          *)
LEMMA UniqueAnswer ==
    ASSUME knowledge \in Seq(Items), NEW q \in Queries
    PROVE  Cardinality(find_variable(knowledge, q)) =
              (IF Cardinality(Possibilities(knowledge, q)) > q.counter THEN 1 ELSE 0)
  <1> DEFINE poss == Possibilities(knowledge, q)
             R == {p \in poss \X poss : SortedBefore(knowledge, p[1], p[2])}
  <1>1. PICK N \in Nat : N = Len(knowledge) /\ DOMAIN knowledge = 1..N
    OBVIOUS
  <1>2. poss \subseteq 1..N
    BY <1>1 DEF Possibilities
  <1>3. q.counter \in Nat
    BY KnowledgeAssumption
  <1>4. IsFiniteSet(poss)
    <2>1. IsFiniteSet(1..N)
      BY <1>1, FS_Interval
    <2> HIDE DEF poss
    <2> QED BY <1>2, <2>1, FS_Subset
  <1>5. \A i \in poss : i \in Nat /\ specificity(knowledge[i]) \in Nat
    <2> SUFFICES ASSUME NEW i \in poss PROVE i \in Nat /\ specificity(knowledge[i]) \in Nat
      OBVIOUS
    <2>1. i \in 1..N
      BY <1>2
    <2>2. knowledge[i] \in Items
      BY <1>1, <2>1
    <2> QED BY <1>1, <2>1, <2>2, SpecificityType
  <1> HIDE DEF poss
  <1>6. \A i, j \in poss : <<i, j>> \in R <=>
            \/ specificity(knowledge[i]) < specificity(knowledge[j])
            \/ specificity(knowledge[i]) = specificity(knowledge[j]) /\ i < j
    BY DEF SortedBefore
  <1> HIDE DEF R
  <1>7. \A i \in poss : <<i, i>> \notin R
    BY <1>5, <1>6
  <1>8. \A i, j \in poss : i # j => <<i, j>> \in R \/ <<j, i>> \in R
    BY <1>5, <1>6
  <1>9. \A i, j, k \in poss : <<i, j>> \in R /\ <<j, k>> \in R => <<i, k>> \in R
    BY <1>5, <1>6
  <1>10. Cardinality(AtPosition(poss, R, q.counter))
            = IF Cardinality(poss) > q.counter THEN 1 ELSE 0
    <2>1. StrictOrder(poss, R)
      BY <1>7, <1>8, <1>9, Zenon DEF StrictOrder
    <2> QED BY <1>3, <1>4, <2>1, PositionIsUnique
  <1>11. ASSUME NEW i \in poss
         PROVE  {j \in poss : SortedBefore(knowledge, j, i)} = {j \in poss : <<j, i>> \in R}
    BY <1>6 DEF SortedBefore
  <1>12. find_variable(knowledge, q) = AtPosition(poss, R, q.counter)
    BY <1>11 DEF find_variable, AtPosition, poss
  <1> QED BY <1>10, <1>12 DEF poss

(* For a sharp query only items with its own matcher match.                *)
LEMMA SharpMatches ==
    ASSUME NEW q \in Queries, NEW x \in Items, Sharp(q)
    PROVE  matches(x, q) <=> x.matcher = q.matcher
  <1>1. HasMatcher(x) /\ HasMatcher(q)
    BY KnowledgeAssumption
  <1> DEFINE M == [ct : QueryContent, hs : Seq(STRING)]
  <1>2. q.matcher # <<>> /\ (q.matcher[1].ct # "Handshake" \/ q.matcher[1].hs # <<>>)
    BY DEF Sharp
  <1>3. q.matcher \in Seq(M) /\ Len(q.matcher) = 1 /\ 1 \in DOMAIN q.matcher
    BY <1>1, <1>2, SomeMatcher, Zenon DEF HasMatcher
  <1>4. q.matcher[1] \in M
    BY <1>1, <1>2, SomeMatcher, Zenon
  <1>5. CASE x.matcher = <<>>
    BY <1>2, <1>5 DEF matches
  <1>6. CASE x.matcher # <<>>
    <2>1. x.matcher \in Seq(M) /\ Len(x.matcher) = 1 /\ 1 \in DOMAIN x.matcher
      BY <1>1, <1>6, SomeMatcher, Zenon DEF HasMatcher
    <2>2. x.matcher[1] \in M
      BY <1>1, <1>6, SomeMatcher, Zenon
    <2>3. x.matcher = q.matcher <=> x.matcher[1] = q.matcher[1]
      <3> HIDE DEF M
      <3> QED BY <1>3, <2>1
    <2>4. x.matcher[1] = q.matcher[1]
            <=> x.matcher[1].ct = q.matcher[1].ct /\ x.matcher[1].hs = q.matcher[1].hs
      BY <1>4, <2>2
    <2>5. /\ x.matcher[1].ct # "Handshake" => x.matcher[1].hs = <<>>
          /\ q.matcher[1].ct # "Handshake" => q.matcher[1].hs = <<>>
      BY <1>1, <1>2, <1>6, SomeMatcher, Zenon
    <2>6. matches(x, q) <=> TlsMatches(x.matcher[1], q.matcher[1])
      BY <1>2, <1>6 DEF matches
    <2>7. TlsMatches(x.matcher[1], q.matcher[1]) <=>
            /\ x.matcher[1].ct = q.matcher[1].ct
            /\ q.matcher[1].ct = "Handshake" =>
                  q.matcher[1].hs = <<>> \/ x.matcher[1].hs = q.matcher[1].hs
      BY DEF TlsMatches, HandshakeTypeMatches
    <2> QED BY <1>2, <2>3, <2>4, <2>5, <2>6, <2>7, Zenon
  <1> QED BY <1>5, <1>6

(* A sharp query is answered by position of the messages it asks for.      *)
LEMMA SharpAnswer ==
    ASSUME knowledge \in Seq(Items), NEW q \in Queries, Sharp(q)
    PROVE  find_variable(knowledge, q) = CounterTh(q)
  <1> DEFINE poss == Possibilities(knowledge, q)
             same == {i \in DOMAIN knowledge :
                        /\ knowledge[i].agent = q.agent /\ knowledge[i].typ = q.typ
                        /\ knowledge[i].matcher = q.matcher}
  <1>1. \A i \in DOMAIN knowledge : knowledge[i] \in Items /\ i \in Nat
    OBVIOUS
  <1>2. poss = same
    BY <1>1, SharpMatches DEF Possibilities
  <1>3. ASSUME NEW i \in same, NEW j \in same
        PROVE  SortedBefore(knowledge, j, i) <=> j < i
    <2>1. knowledge[i].matcher = knowledge[j].matcher
      BY <1>3
    <2>2. specificity(knowledge[i]) = specificity(knowledge[j])
      BY <2>1 DEF specificity
    <2>3. specificity(knowledge[i]) \in Nat
      BY <1>1, <1>3, SpecificityType
    <2>4. ~(specificity(knowledge[j]) < specificity(knowledge[i]))
      BY <2>2, <2>3
    <2> QED BY <2>2, <2>4 DEF SortedBefore
  <1>4. ASSUME NEW i \in same
        PROVE  {j \in same : SortedBefore(knowledge, j, i)} = {j \in same : j < i}
    BY <1>3
  <1>5. find_variable(knowledge, q) =
          {i \in same : Cardinality({j \in same : SortedBefore(knowledge, j, i)}) = q.counter}
    BY <1>2 DEF find_variable
  <1>6. CounterTh(q) = {i \in same : Cardinality({j \in same : j < i}) = q.counter}
    BY DEF CounterTh
  <1> HIDE DEF same
  <1> QED BY <1>4, <1>5, <1>6

(* Whatever was learnt and in whatever order: every query has one answer   *)
(* if enough items match it and none otherwise, and a query that names its *)
(* message returns the data of exactly the message that its counter counts.*)
THEOREM QueriesAnswered == KnowledgeSpec => []QueriesAreAnswered
  <1>1. KnowledgeInit => knowledge \in Seq(Items)
    BY DEF KnowledgeInit
  <1>2. knowledge \in Seq(Items) /\ [KnowledgeNext]_knowledge => (knowledge \in Seq(Items))'
    <2>1. ASSUME knowledge \in Seq(Items), NEW x \in Items
          PROVE  Append(knowledge, x) \in Seq(Items)
      BY <2>1
    <2> QED BY <2>1 DEF KnowledgeNext, add_knowledge
  <1>3. knowledge \in Seq(Items) => QueriesAreAnswered
    BY UniqueAnswer, SharpAnswer DEF QueriesAreAnswered, CounterSelectsMessage, AnswerIsUnique
  <1> QED BY <1>1, <1>2, <1>3, PTL DEF KnowledgeSpec

-----------------------------------------------------------------------------
(* Concatenation of a sequence of sequences                                *)

(* The function that FlattenSeq computes with.                             *)
Flattens(seqs, f) ==
    f = [i \in 1..Len(seqs) |-> IF i = 1 THEN seqs[i] ELSE f[i - 1] \o seqs[i]]

(* Its recursion is well founded.                                          *)
LEMMA FlattensExist ==
    ASSUME NEW seqs, Len(seqs) \in Nat
    PROVE  \E f : Flattens(seqs, f)
  <1> DEFINE Upto(f, n) == f = [i \in 1..n |-> IF i = 1 THEN seqs[i] ELSE f[i - 1] \o seqs[i]]
             Bad == {n \in Nat : ~\E f : Upto(f, n)}
  <1>1. Bad = {}
    <2> SUFFICES ASSUME Bad # {} PROVE FALSE
      OBVIOUS
    <2>1. Bad \subseteq Nat
      OBVIOUS
    <2> HIDE DEF Bad
    <2>2. PICK n \in Bad : \A m \in Bad : ~(m < n)
      BY <2>1, LeastOf
    <2>3. n \in Nat /\ ~\E f : Upto(f, n)
      BY <2>2 DEF Bad
    <2>4. CASE n = 0
      <3>1. Upto([i \in 1..0 |-> <<>>], 0)
        OBVIOUS
      <3> QED BY <2>3, <2>4, <3>1
    <2>5. CASE n > 0
      <3>1. n - 1 \in Nat /\ n - 1 < n
        BY <2>3, <2>5
      <3>2. PICK g : Upto(g, n - 1)
        BY <2>2, <3>1 DEF Bad
      <3>3. PICK h : h = [i \in 1..n |-> IF i # n THEN g[i] ELSE IF n = 1 THEN seqs[n]
                                         ELSE g[n - 1] \o seqs[n]]
        OBVIOUS
      <3>4. \A i \in 1..n - 1 : g[i] = IF i = 1 THEN seqs[i] ELSE g[i - 1] \o seqs[i]
        BY <3>2
      <3>5. ASSUME NEW i \in 1..n PROVE h[i] = IF i = 1 THEN seqs[i] ELSE h[i - 1] \o seqs[i]
        <4>1. CASE i # n /\ i # 1
          <5>1. i \in 1..n - 1 /\ i - 1 \in 1..n /\ i - 1 # n
            BY <2>3, <4>1
          <5>2. h[i] = g[i] /\ h[i - 1] = g[i - 1]
            BY <3>3, <4>1, <5>1
          <5> QED BY <3>4, <4>1, <5>1, <5>2
        <4>2. CASE i # n /\ i = 1
          <5>1. i \in 1..n - 1
            BY <2>3, <4>2
          <5> QED BY <3>3, <3>4, <4>2, <5>1
        <4>3. CASE i = n /\ n # 1
          <5>1. n - 1 \in 1..n /\ n - 1 # n /\ n \in 1..n
            BY <2>3, <2>5, <4>3
          <5>2. h[n] = g[n - 1] \o seqs[n] /\ h[n - 1] = g[n - 1]
            BY <3>3, <4>3, <5>1
          <5> QED BY <4>3, <5>2
        <4>4. CASE i = n /\ n = 1
          BY <3>3, <4>4
        <4> QED BY <4>1, <4>2, <4>3, <4>4
      <3>6. h = [i \in 1..n |-> h[i]]
        BY <3>3
      <3>7. Upto(h, n)
        BY <3>5, <3>6
      <3> QED BY <2>3, <3>7
    <2>6. n = 0 \/ n > 0
      BY <2>3
    <2> QED BY <2>4, <2>5, <2>6
  <1>2. \E f : Upto(f, Len(seqs))
    BY <1>1
  <1> QED BY <1>2 DEF Flattens

(* A function that adds the sequences one by one is a function to          *)
(* sequences.                                                              *)
LEMMA AddsUpType ==
    ASSUME NEW S, NEW seqs \in Seq(Seq(S)), NEW f, f[0] = <<>>,
           \A k \in 1..Len(seqs) : f[k] = f[k - 1] \o seqs[k]
    PROVE  \A k \in 0..Len(seqs) : f[k] \in Seq(S)
  <1> DEFINE Bad == {k \in 0..Len(seqs) : f[k] \notin Seq(S)}
  <1> SUFFICES ASSUME Bad # {} PROVE FALSE
    OBVIOUS
  <1>1. Bad \subseteq Nat /\ Len(seqs) \in Nat
    OBVIOUS
  <1> HIDE DEF Bad
  <1>2. PICK n \in Bad : \A m \in Bad : ~(m < n)
    BY <1>1, LeastOf
  <1>3. n \in 0..Len(seqs) /\ f[n] \notin Seq(S)
    BY <1>2 DEF Bad
  <1>4. n # 0
    <2>1. <<>> \in Seq(S)
      OBVIOUS
    <2> QED BY <1>3, <2>1
  <1>5. n \in 1..Len(seqs) /\ n - 1 \in 0..Len(seqs) /\ n - 1 < n
    BY <1>1, <1>3, <1>4
  <1>6. f[n - 1] \in Seq(S)
    BY <1>2, <1>5 DEF Bad
  <1>7. f[n] = f[n - 1] \o seqs[n]
    BY <1>5
  <1>8. seqs[n] \in Seq(S)
    BY <1>5, ElementOfSeq
  <1> QED BY <1>3, <1>6, <1>7, <1>8, ConcatProperties

(* Such a function computes FlattenSeq.                                    *)
LEMMA FlattenIs ==
    ASSUME NEW S, NEW seqs \in Seq(Seq(S)), NEW f, f[0] = <<>>,
           \A k \in 1..Len(seqs) : f[k] = f[k - 1] \o seqs[k]
    PROVE  FlattenSeq(seqs) = f[Len(seqs)] /\ FlattenSeq(seqs) \in Seq(S)
  <1>1. Len(seqs) \in Nat /\ \A k \in 1..Len(seqs) : seqs[k] \in Seq(S)
    OBVIOUS
  <1>2. \A k \in 0..Len(seqs) : f[k] \in Seq(S)
    BY AddsUpType
  <1>3. CASE Len(seqs) = 0
    <2>1. seqs = <<>> /\ <<>> \in Seq(S)
      BY <1>3
    <2> QED BY <1>3, <2>1 DEF FlattenSeq
  <1>4. CASE Len(seqs) > 0
    <2>1. PICK g : g = CHOOSE h : Flattens(seqs, h)
      OBVIOUS
    <2>2. Flattens(seqs, g)
      BY <1>1, <2>1, FlattensExist
    <2>3. FlattenSeq(seqs) = g[Len(seqs)]
      BY <1>4, <2>1 DEF FlattenSeq, Flattens
    <2>4. \A i \in 1..Len(seqs) : g[i] = IF i = 1 THEN seqs[i] ELSE g[i - 1] \o seqs[i]
      BY <2>2 DEF Flattens
    <2> DEFINE Bad == {k \in 1..Len(seqs) : f[k] # g[k]}
    <2>5. Bad = {}
      <3> SUFFICES ASSUME Bad # {} PROVE FALSE
        OBVIOUS
      <3>1. Bad \subseteq Nat
        BY <1>1
      <3> HIDE DEF Bad
      <3>2. PICK n \in Bad : \A m \in Bad : ~(m < n)
        BY <3>1, LeastOf
      <3>3. n \in 1..Len(seqs) /\ f[n] # g[n]
        BY <3>2 DEF Bad
      <3>4. f[n] = f[n - 1] \o seqs[n]
        BY <3>3
      <3>5. CASE n = 1
        <4>1. n - 1 = 0
          BY <3>5
        <4>2. f[n] = <<>> \o seqs[n]
          BY <3>4, <4>1
        <4>3. seqs[n] \in Seq(S) /\ g[n] = seqs[n]
          BY <1>1, <2>4, <3>3, <3>5
        <4> QED BY <3>3, <4>2, <4>3, ConcatEmptySeq
      <3>6. CASE n # 1
        <4>1. n - 1 \in 1..Len(seqs) /\ n - 1 < n
          BY <1>1, <3>3, <3>6
        <4>2. f[n - 1] = g[n - 1]
          BY <3>2, <4>1 DEF Bad
        <4> QED BY <2>4, <3>3, <3>4, <3>6, <4>2
      <3> QED BY <3>5, <3>6
    <2>6. Len(seqs) \in 1..Len(seqs) /\ Len(seqs) \in 0..Len(seqs)
      BY <1>1, <1>4
    <2>7. f[Len(seqs)] = g[Len(seqs)]
      BY <2>5, <2>6
    <2> QED BY <1>2, <2>3, <2>6, <2>7
  <1> QED BY <1>1, <1>3, <1>4

(* There is such a function.                                               *)
LEMMA FlattenBy ==
    ASSUME NEW S, NEW seqs \in Seq(Seq(S))
    PROVE  \E f : /\ f[0] = <<>>
                  /\ \A k \in 1..Len(seqs) : f[k] = f[k - 1] \o seqs[k]
                  /\ \A k \in 0..Len(seqs) : f[k] \in Seq(S)
                  /\ FlattenSeq(seqs) = f[Len(seqs)]
  <1>1. Len(seqs) \in Nat /\ \A k \in 1..Len(seqs) : seqs[k] \in Seq(S)
    OBVIOUS
  <1>2. PICK g : Flattens(seqs, g)
    BY <1>1, FlattensExist
  <1>3. PICK f : f = [k \in 0..Len(seqs) |-> IF k = 0 THEN <<>> ELSE g[k]]
    OBVIOUS
  <1>4. f[0] = <<>>
    <2>1. 0 \in 0..Len(seqs)
      BY <1>1
    <2> QED BY <1>3, <2>1
  <1>5. ASSUME NEW k \in 1..Len(seqs) PROVE f[k] = f[k - 1] \o seqs[k]
    <2>1. k \in 0..Len(seqs) /\ k - 1 \in 0..Len(seqs) /\ k # 0
      BY <1>1
    <2>2. g[k] = IF k = 1 THEN seqs[k] ELSE g[k - 1] \o seqs[k]
      BY <1>2 DEF Flattens
    <2>3. f[k] = g[k] /\ f[k - 1] = IF k = 1 THEN <<>> ELSE g[k - 1]
      <3>1. k - 1 = 0 <=> k = 1
        OBVIOUS
      <3> QED BY <1>3, <2>1, <3>1
    <2>4. <<>> \o seqs[k] = seqs[k]
      BY <1>1, ConcatEmptySeq
    <2> QED BY <2>2, <2>3, <2>4
  <1>6. \A k \in 0..Len(seqs) : f[k] \in Seq(S)
    BY <1>4, <1>5, AddsUpType
  <1>7. FlattenSeq(seqs) = f[Len(seqs)]
    BY <1>4, <1>5, FlattenIs
  <1> QED BY <1>4, <1>5, <1>6, <1>7

(* Nothing at all.                                                         *)
LEMMA FlattenNone == FlattenSeq(<<>>) = <<>>
  BY DEF FlattenSeq

(* One sequence.                                                           *)
LEMMA FlattenOne ==
    ASSUME NEW S, NEW x \in Seq(S)
    PROVE  FlattenSeq(<<x>>) = x
  <1>1. PICK f : f = [k \in 0..1 |-> IF k = 0 THEN <<>> ELSE x]
    OBVIOUS
  <1>2. <<x>> \in Seq(Seq(S)) /\ Len(<<x>>) = 1 /\ <<x>>[1] = x
    OBVIOUS
  <1>3. f[0] = <<>> /\ f[1] = x /\ <<>> \o x = x
    BY <1>1, ConcatEmptySeq
  <1>4. \A k \in 1..Len(<<x>>) : f[k] = f[k - 1] \o <<x>>[k]
    <2> SUFFICES ASSUME NEW k \in 1..Len(<<x>>) PROVE f[k] = f[k - 1] \o <<x>>[k]
      OBVIOUS
    <2>1. k = 1 /\ k - 1 = 0
      BY <1>2
    <2>2. f[k] = x /\ f[k - 1] = <<>> /\ <<x>>[k] = x
      BY <1>2, <1>3, <2>1
    <2> QED BY <1>3, <2>2
  <1> QED BY <1>2, <1>3, <1>4, FlattenIs

(* What comes out has the elements of what went in.                        *)
LEMMA FlattenType ==
    ASSUME NEW S, NEW ss \in Seq(Seq(S))
    PROVE  FlattenSeq(ss) \in Seq(S)
  <1>1. Len(ss) \in 0..Len(ss)
    OBVIOUS
  <1> QED BY <1>1, FlattenBy

(* Two lists of sequences, one after the other.                            *)
LEMMA FlattenConcat ==
    ASSUME NEW S, NEW ss \in Seq(Seq(S)), NEW tt \in Seq(Seq(S))
    PROVE  FlattenSeq(ss \o tt) = FlattenSeq(ss) \o FlattenSeq(tt)
  <1>1. PICK m \in Nat, n \in Nat : m = Len(ss) /\ n = Len(tt)
    OBVIOUS
  <1>2. PICK f : /\ f[0] = <<>>
                 /\ \A k \in 1..m : f[k] = f[k - 1] \o ss[k]
                 /\ \A k \in 0..m : f[k] \in Seq(S)
                 /\ FlattenSeq(ss) = f[m]
    BY <1>1, FlattenBy
  <1>3. PICK g : /\ g[0] = <<>>
                 /\ \A k \in 1..n : g[k] = g[k - 1] \o tt[k]
                 /\ \A k \in 0..n : g[k] \in Seq(S)
                 /\ FlattenSeq(tt) = g[n]
    BY <1>1, FlattenBy
  <1>4. PICK h : h = [k \in 0..m + n |-> IF k <= m THEN f[k] ELSE f[m] \o g[k - m]]
    OBVIOUS
  <1>5. PICK uu : uu = ss \o tt
    OBVIOUS
  <1>6. /\ uu \in Seq(Seq(S)) /\ Len(uu) = m + n
        /\ \A k \in 1..m : uu[k] = ss[k]
        /\ \A k \in m + 1..m + n : uu[k] = tt[k - m]
    BY <1>1, <1>5
  <1>7. \A k \in 1..n : tt[k] \in Seq(S)
    BY <1>1, ElementOfSeq
  <1>8. h[0] = <<>>
    <2>1. 0 \in 0..m + n /\ 0 <= m
      BY <1>1
    <2> QED BY <1>2, <1>4, <2>1
  <1>9. ASSUME NEW k \in 1..m + n PROVE h[k] = h[k - 1] \o uu[k]
    <2>1. k \in 0..m + n /\ k - 1 \in 0..m + n
      BY <1>1
    <2>2. CASE k <= m
      <3>1. k \in 1..m /\ k - 1 <= m
        BY <1>1, <2>2
      <3>2. h[k] = f[k] /\ h[k - 1] = f[k - 1]
        BY <1>4, <2>1, <2>2, <3>1
      <3> QED BY <1>2, <1>6, <3>1, <3>2
    <2>3. CASE k = m + 1
      <3>1. ~(k <= m) /\ k - 1 = m /\ k - m = 1 /\ m <= m /\ m \in 0..m
        BY <1>1, <2>3
      <3>2. h[k] = f[m] \o g[1] /\ h[k - 1] = f[m]
        BY <1>4, <2>1, <3>1
      <3>3. 1 \in 1..n /\ k \in m + 1..m + n
        BY <1>1, <2>3
      <3>4. tt[1] \in Seq(S) /\ g[1] = g[0] \o tt[1]
        <4>1. g[1] = g[1 - 1] \o tt[1]
          BY <1>3, <3>3, Zenon
        <4>2. 1 - 1 = 0
          OBVIOUS
        <4> QED BY <1>7, <3>3, <4>1, <4>2
      <3>5. g[1] = <<>> \o tt[1] /\ <<>> \o tt[1] = tt[1]
        BY <1>3, <3>4, ConcatEmptySeq
      <3>6. uu[k] = tt[1]
        BY <1>6, <3>1, <3>3
      <3> QED BY <3>2, <3>5, <3>6
    <2>4. CASE k > m + 1
      <3>1. ~(k <= m) /\ ~(k - 1 <= m) /\ (k - 1) - m = (k - m) - 1
        BY <1>1, <2>4
      <3>2. h[k] = f[m] \o g[k - m] /\ h[k - 1] = f[m] \o g[(k - m) - 1]
        BY <1>4, <2>1, <3>1
      <3>3. k - m \in 1..n /\ (k - m) - 1 \in 0..n /\ k \in m + 1..m + n /\ m \in 0..m
        BY <1>1, <2>4
      <3>4. g[k - m] = g[(k - m) - 1] \o tt[k - m]
        BY <1>3, <3>3
      <3>5. PICK x \in Seq(S), y \in Seq(S), z \in Seq(S) :
               x = f[m] /\ y = g[(k - m) - 1] /\ z = tt[k - m]
        BY <1>2, <1>3, <1>7, <3>3
      <3>6. uu[k] = tt[k - m]
        BY <1>6, <3>3
      <3>7. (x \o y) \o z = x \o (y \o z)
        BY ConcatAssociative, SMTT(60)
      <3> QED BY <3>2, <3>4, <3>5, <3>6, <3>7
    <2>5. k <= m \/ k = m + 1 \/ k > m + 1
      BY <1>1
    <2> QED BY <2>2, <2>3, <2>4, <2>5
  <1>10. FlattenSeq(uu) = h[m + n]
    BY <1>6, <1>8, <1>9, FlattenIs
  <1>11. h[m + n] = f[m] \o g[n]
    <2>1. m + n \in 0..m + n /\ m \in 0..m /\ (m + n) - m = n
      BY <1>1
    <2>2. CASE n = 0
      <3>1. h[m + n] = f[m] /\ g[n] = <<>>
        BY <1>1, <1>3, <1>4, <2>1, <2>2
      <3>2. f[m] \in Seq(S)
        BY <1>2, <2>1
      <3> QED BY <3>1, <3>2, ConcatEmptySeq
    <2>3. CASE n # 0
      <3>1. ~(m + n <= m)
        BY <1>1, <2>3
      <3> QED BY <1>4, <2>1, <3>1
    <2> QED BY <2>2, <2>3
  <1> QED BY <1>2, <1>3, <1>5, <1>10, <1>11

(* The first of several.                                                   *)
LEMMA FlattenFirst ==
    ASSUME NEW S, NEW ss \in Seq(Seq(S)), ss # <<>>
    PROVE  FlattenSeq(ss) = Head(ss) \o FlattenSeq(Tail(ss))
  <1>1. Head(ss) \in Seq(S) /\ Tail(ss) \in Seq(Seq(S)) /\ <<Head(ss)>> \in Seq(Seq(S))
    BY HeadTailProperties
  <1>2. ss = <<Head(ss)>> \o Tail(ss)
    OBVIOUS
  <1>3. FlattenSeq(<<Head(ss)>> \o Tail(ss)) = FlattenSeq(<<Head(ss)>>) \o FlattenSeq(Tail(ss))
    BY <1>1, FlattenConcat
  <1> QED BY <1>1, <1>2, <1>3, FlattenOne

(* Two sequences that become one.                                          *)
LEMMA FlattenMerge ==
    ASSUME NEW S, NEW ss \in Seq(Seq(S)), Len(ss) > 1
    PROVE  FlattenSeq(<<ss[1] \o ss[2]>> \o SubSeq(ss, 3, Len(ss))) = FlattenSeq(ss)
  <1>1. PICK a \in Seq(S), b \in Seq(S) : a = ss[1] /\ b = ss[2]
    <2>1. 1 \in 1..Len(ss) /\ 2 \in 1..Len(ss)
      OBVIOUS
    <2> QED BY <2>1, ElementOfSeq
  <1>2. PICK tt \in Seq(Seq(S)) : tt = SubSeq(ss, 3, Len(ss))
    <2>1. Len(ss) \in Int /\ 3 \in Int /\ \A i \in 3..Len(ss) : i \in 1..Len(ss)
      OBVIOUS
    <2>2. \A i \in 3..Len(ss) : ss[i] \in Seq(S)
      BY <2>1, ElementOfSeq
    <2> QED BY <2>1, <2>2, SubSeqProperties
  <1>3. ss = <<a, b>> \o tt
    BY <1>1, <1>2
  <1>4. /\ <<a \o b>> \in Seq(Seq(S)) /\ <<a>> \in Seq(Seq(S)) /\ <<b>> \in Seq(Seq(S))
        /\ <<a, b>> \in Seq(Seq(S)) /\ a \o b \in Seq(S)
    <2>1. a \o b \in Seq(S)
      BY ConcatProperties
    <2>2. \A x \in Seq(S) : <<x>> \in Seq(Seq(S))
      OBVIOUS
    <2>3. <<a, b>> \in Seq(Seq(S))
      OBVIOUS
    <2> QED BY <2>1, <2>2, <2>3
  <1>5. FlattenSeq(<<a \o b>>) = a \o b
    BY <1>4, FlattenOne
  <1>6. <<a, b>> # <<>> /\ Head(<<a, b>>) = a /\ Tail(<<a, b>>) = <<b>>
    OBVIOUS
  <1>7. FlattenSeq(<<a, b>>) = a \o b
    BY <1>4, <1>6, FlattenFirst, FlattenOne
  <1>8. FlattenSeq(<<a \o b>> \o tt) = FlattenSeq(<<a \o b>>) \o FlattenSeq(tt)
    BY <1>4, FlattenConcat
  <1>9. FlattenSeq(<<a, b>> \o tt) = FlattenSeq(<<a, b>>) \o FlattenSeq(tt)
    BY <1>4, FlattenConcat
  <1> QED BY <1>1, <1>2, <1>3, <1>5, <1>7, <1>8, <1>9

(* Cutting a payload loses nothing.                                        *)
LEMMA ChunksAreWhole ==
    ASSUME NEW S, NEW p \in Seq(S), NEW n \in Nat, n > 0
    PROVE  Chunks(p, n) \in Seq(Seq(S)) /\ FlattenSeq(Chunks(p, n)) = p
  <1>1. PICK L \in Nat, c \in Int : L = Len(p) /\ c = (L + n - 1) \div n
    OBVIOUS
  <1>2. c * n <= L + n - 1 /\ L + n - 1 < c * n + n
    BY <1>1
  <1>3. c >= 0 /\ L <= c * n
    <2>1. c < 0 => c * n <= 0 - n
      BY <1>1
    <2> QED BY <1>1, <1>2, <2>1
  <1> DEFINE End(k) == IF k * n < L THEN k * n ELSE L
  <1>4. ASSUME NEW k \in 1..c
        PROVE  /\ (k - 1) * n = k * n - n /\ (k - 1) * n < L /\ (k - 1) * n >= 0
               /\ End(k - 1) = (k - 1) * n /\ End(k) \in Nat /\ End(k) <= L
               /\ (k - 1) * n <= End(k)
    <2>1. k * n <= c * n
      BY <1>1
    <2>2. (k - 1) * n = k * n - n /\ (k - 1) * n >= 0
      BY <1>1
    <2>3. k * n \in Int
      BY <1>1
    <2> QED BY <1>1, <1>2, <2>1, <2>2, <2>3
  <1>5. PICK cs : cs = Chunks(p, n)
    OBVIOUS
  <1>6. cs = [k \in 1..c |-> SubSeq(p, (k - 1) * n + 1, End(k))]
    BY <1>1, <1>5 DEF Chunks
  <1>7. ASSUME NEW k \in 1..c PROVE SubSeq(p, (k - 1) * n + 1, End(k)) \in Seq(S)
    <2>1. PICK lo \in Nat, hi \in Nat : lo = (k - 1) * n /\ hi = End(k) /\ hi <= L
      BY <1>4
    <2>2. \A i \in lo + 1..hi : p[i] \in S
      BY <1>1, <2>1
    <2>3. SubSeq(p, lo + 1, hi) \in Seq(S)
      BY <2>1, <2>2, SubSeqProperties
    <2> QED BY <2>1, <2>3
  <1>8. cs \in Seq(Seq(S)) /\ Len(cs) = c
    <2>1. cs \in [1..c -> Seq(S)]
      BY <1>6, <1>7
    <2> QED BY <1>1, <1>3, <2>1
  <1>9. PICK f : f = [k \in 0..c |-> SubSeq(p, 1, End(k))]
    OBVIOUS
  <1>10. f[0] = <<>>
    <2>1. 0 \in 0..c /\ End(0) = 0
      BY <1>1, <1>3
    <2>2. SubSeq(p, 1, 0) = <<>>
      BY SubSeqEmpty
    <2> QED BY <1>9, <2>1, <2>2
  <1>11. ASSUME NEW k \in 1..c PROVE f[k] = f[k - 1] \o cs[k]
    <2>1. PICK lo \in Nat, hi \in Nat :
             lo = (k - 1) * n /\ hi = End(k) /\ hi <= L /\ lo <= hi /\ lo = End(k - 1)
      BY <1>4
    <2>2. k \in 0..c /\ k - 1 \in 0..c
      BY <1>1
    <2>3. f[k] = SubSeq(p, 1, hi) /\ f[k - 1] = SubSeq(p, 1, lo) /\ cs[k] = SubSeq(p, lo + 1, hi)
      BY <1>6, <1>9, <2>1, <2>2
    <2>4. 1 \in 1..Len(p) + 1 /\ lo \in 1 - 1..Len(p) /\ hi \in lo..Len(p)
      BY <1>1, <2>1
    <2>5. SubSeq(p, 1, lo) \o SubSeq(p, lo + 1, hi) = SubSeq(p, 1, hi)
      BY <2>4, ConcatAdjacentSubSeq
    <2> QED BY <2>3, <2>5
  <1>12. FlattenSeq(cs) = f[c]
    BY <1>8, <1>10, <1>11, FlattenIs
  <1>13. f[c] = p
    <2>1. c \in 0..c /\ End(c) = L
      BY <1>1, <1>3
    <2> QED BY <1>1, <1>9, <2>1, SubSeqFull
  <1> QED BY <1>5, <1>8, <1>12, <1>13

-----------------------------------------------------------------------------
(* The bytes of messages                                                   *)

Octet == 0..255

(* The messages of a flow.                                                 *)
FlowMessage == {FlowMessages[i] : i \in DOMAIN FlowMessages}

(* What the codec is known to do with them.                                *)
LEMMA EncodingIs ==
    ASSUME NEW m \in FlowMessage
    PROVE  /\ EncodingOf(m) \in Seq(Octet)
           /\ Len(EncodingOf(m)) >= HEADER_SIZE
           /\ LengthIn(EncodingOf(m)) = Len(EncodingOf(m)) - HEADER_SIZE
           /\ ReadingOf(EncodingOf(m)).ok => ReadingOf(EncodingOf(m)).value = m
  BY FlowAssumption, Zenon DEF FlowMessage, Octet

Encodings(messages) == [i \in DOMAIN messages |-> EncodingOf(messages[i])]

(* The bytes of messages, one by one and together.                         *)
LEMMA EncodingsType ==
    ASSUME NEW ms \in Seq(FlowMessage)
    PROVE  /\ Encodings(ms) \in Seq(Seq(Octet)) /\ Len(Encodings(ms)) = Len(ms)
           /\ AllBytes(ms) = FlattenSeq(Encodings(ms)) /\ AllBytes(ms) \in Seq(Octet)
  <1>1. DOMAIN ms = 1..Len(ms) /\ Len(ms) \in Nat /\ \A i \in 1..Len(ms) : ms[i] \in FlowMessage
    OBVIOUS
  <1>2. \A i \in 1..Len(ms) : EncodingOf(ms[i]) \in Seq(Octet)
    BY <1>1, EncodingIs
  <1>3. Encodings(ms) \in [1..Len(ms) -> Seq(Octet)]
    BY <1>1, <1>2 DEF Encodings
  <1>4. Encodings(ms) \in Seq(Seq(Octet)) /\ Len(Encodings(ms)) = Len(ms)
    BY <1>1, <1>3
  <1>5. AllBytes(ms) = FlattenSeq(Encodings(ms))
    BY DEF AllBytes, Encodings
  <1> QED BY <1>4, <1>5, FlattenType

(* No message has no bytes.                                                *)
LEMMA AllBytesNone == AllBytes(<<>>) = <<>>
  <1>1. [i \in DOMAIN <<>> |-> EncodingOf(<<>>[i])] = <<>>
    OBVIOUS
  <1> QED BY <1>1, FlattenNone DEF AllBytes

(* One message has the bytes of its encoding.                              *)
LEMMA AllBytesOne ==
    ASSUME NEW m \in FlowMessage
    PROVE  AllBytes(<<m>>) = EncodingOf(m)
  <1>1. <<m>> \in Seq(FlowMessage) /\ Len(<<m>>) = 1 /\ <<m>>[1] = m /\ DOMAIN <<m>> = 1..1
    OBVIOUS
  <1>2. Encodings(<<m>>) \in Seq(Seq(Octet)) /\ Len(Encodings(<<m>>)) = 1
    BY <1>1, EncodingsType
  <1>3. Encodings(<<m>>)[1] = EncodingOf(m)
    BY <1>1 DEF Encodings
  <1>4. EncodingOf(m) \in Seq(Octet)
    BY EncodingIs
  <1>5. Encodings(<<m>>) = <<EncodingOf(m)>>
    BY <1>2, <1>3, <1>4
  <1> QED BY <1>1, <1>4, <1>5, EncodingsType, FlattenOne

(* The bytes of two lists of messages follow one another.                  *)
LEMMA AllBytesConcat ==
    ASSUME NEW ms \in Seq(FlowMessage), NEW ns \in Seq(FlowMessage)
    PROVE  AllBytes(ms \o ns) = AllBytes(ms) \o AllBytes(ns)
  <1>1. ms \o ns \in Seq(FlowMessage)
    BY ConcatProperties
  <1>2. PICK e \in Seq(Seq(Octet)), d \in Seq(Seq(Octet)), u \in Seq(Seq(Octet)) :
          /\ e = Encodings(ms) /\ d = Encodings(ns) /\ u = Encodings(ms \o ns)
          /\ Len(e) = Len(ms) /\ Len(d) = Len(ns) /\ Len(u) = Len(ms \o ns)
    BY <1>1, EncodingsType
  <1>3. e \o d \in Seq(Seq(Octet)) /\ Len(e \o d) = Len(ms) + Len(ns) /\ Len(ms \o ns) = Len(ms) + Len(ns)
    BY <1>2, ConcatProperties
  <1>4. ASSUME NEW i \in 1..Len(u) PROVE u[i] = (e \o d)[i]
    <2>1. i \in 1..Len(ms) + Len(ns) /\ Len(ms) \in Nat /\ Len(ns) \in Nat
      BY <1>2, <1>3
    <2>2. u[i] = EncodingOf((ms \o ns)[i])
      BY <1>1, <1>2, <1>3, <2>1 DEF Encodings
    <2>3. CASE i <= Len(ms)
      <3>1. i \in 1..Len(ms) /\ i \in DOMAIN ms
        BY <2>1, <2>3
      <3>2. (ms \o ns)[i] = ms[i] /\ (e \o d)[i] = e[i]
        BY <1>2, <2>1, <2>3, ConcatProperties
      <3> QED BY <1>2, <2>2, <3>1, <3>2 DEF Encodings
    <2>4. CASE ~(i <= Len(ms))
      <3>1. i - Len(ms) \in 1..Len(ns) /\ i - Len(ms) \in DOMAIN ns
        BY <2>1, <2>4
      <3>2. (ms \o ns)[i] = ns[i - Len(ms)] /\ (e \o d)[i] = d[i - Len(ms)]
        <4>1. (ms \o ns)[i] = IF i <= Len(ms) THEN ms[i] ELSE ns[i - Len(ms)]
          BY <2>1, ConcatProperties
        <4>2. \A k \in 1..Len(e) + Len(d) : (e \o d)[k] = IF k <= Len(e) THEN e[k] ELSE d[k - Len(e)]
          BY ConcatProperties
        <4>3. (e \o d)[i] = IF i <= Len(ms) THEN e[i] ELSE d[i - Len(ms)]
          BY <1>2, <2>1, <4>2
        <4> QED BY <2>4, <4>1, <4>3
      <3> QED BY <1>2, <2>2, <3>1, <3>2 DEF Encodings
    <2> QED BY <2>3, <2>4
  <1>5. u = e \o d
    <2>1. PICK w \in Seq(Seq(Octet)) : w = e \o d
      BY <1>3
    <2>2. Len(u) = Len(w) /\ \A i \in 1..Len(u) : u[i] = w[i]
      BY <1>2, <1>3, <1>4, <2>1
    <2>3. u = w
      BY <2>2, SeqEqual, Zenon
    <2> QED BY <2>1, <2>3
  <1>6. FlattenSeq(e \o d) = FlattenSeq(e) \o FlattenSeq(d)
    BY FlattenConcat
  <1>7. AllBytes(ms \o ns) = FlattenSeq(u) /\ AllBytes(ms) = FlattenSeq(e) /\ AllBytes(ns) = FlattenSeq(d)
    BY <1>1, <1>2, EncodingsType
  <1> QED BY <1>5, <1>6, <1>7

(* The bytes of the first message come first.                              *)
LEMMA AllBytesFirst ==
    ASSUME NEW ms \in Seq(FlowMessage), ms # <<>>
    PROVE  /\ Head(ms) \in FlowMessage /\ Tail(ms) \in Seq(FlowMessage)
           /\ ms = <<Head(ms)>> \o Tail(ms)
           /\ AllBytes(ms) = EncodingOf(Head(ms)) \o AllBytes(Tail(ms))
  <1>1. Head(ms) \in FlowMessage /\ Tail(ms) \in Seq(FlowMessage)
    BY HeadTailProperties
  <1>2. ms = <<Head(ms)>> \o Tail(ms)
    OBVIOUS
  <1>3. <<Head(ms)>> \in Seq(FlowMessage)
    BY <1>1
  <1>4. AllBytes(<<Head(ms)>> \o Tail(ms)) = AllBytes(<<Head(ms)>>) \o AllBytes(Tail(ms))
    BY <1>1, <1>3, AllBytesConcat
  <1>5. AllBytes(<<Head(ms)>>) = EncodingOf(Head(ms))
    BY <1>1, AllBytesOne
  <1> QED BY <1>1, <1>2, <1>4, <1>5

-----------------------------------------------------------------------------
(* The joiner                                                              *)

(* A buffer with a header in it begins with the message that comes next:   *)
(* the length in the header is its length, and once all of it is there, it *)
(* is cut off and nothing else.                                            *)
LEMMA FrontIs ==
    ASSUME NEW b \in Seq(Octet), NEW tail \in Seq(Octet), NEW rest \in Seq(FlowMessage),
           b \o tail = AllBytes(rest), Len(b) >= HEADER_SIZE
    PROVE  /\ rest # <<>>
           /\ LengthIn(b) = Len(EncodingOf(Head(rest))) - HEADER_SIZE
           /\ LengthIn(b) \in Nat
           /\ Len(b) >= HEADER_SIZE + LengthIn(b) =>
                /\ MessageIn(b) = EncodingOf(Head(rest))
                /\ Behind(b) \in Seq(Octet)
                /\ Len(Behind(b)) = Len(b) - HEADER_SIZE - LengthIn(b)
                /\ Behind(b) \o tail = AllBytes(Tail(rest))
  <1>0. HEADER_SIZE = 4
    BY DEF HEADER_SIZE
  <1>1. rest # <<>>
    <2> SUFFICES ASSUME rest = <<>> PROVE FALSE
      OBVIOUS
    <2>1. b \o tail = <<>>
      BY AllBytesNone
    <2>2. Len(b) + Len(tail) = 0
      BY <2>1
    <2> QED BY <1>0, <2>2
  <1>2. PICK e \in Seq(Octet), more \in Seq(Octet) :
          /\ e = EncodingOf(Head(rest)) /\ more = AllBytes(Tail(rest))
          /\ AllBytes(rest) = e \o more
    BY <1>1, AllBytesFirst, EncodingIs, EncodingsType
  <1>3. Len(e) >= 4 /\ LengthIn(e) = Len(e) - 4
    BY <1>0, <1>1, <1>2, AllBytesFirst, EncodingIs
  <1>4. PICK w \in Seq(Octet) : w = b \o tail /\ w = e \o more
    BY <1>2, ConcatProperties
  <1>5. PICK lb \in Nat, le \in Nat, lt \in Nat, lm \in Nat :
          /\ lb = Len(b) /\ le = Len(e) /\ lt = Len(tail) /\ lm = Len(more)
          /\ lb >= 4 /\ le >= 4
    BY <1>0, <1>3
  <1>6. Len(w) = lb + lt /\ Len(w) = le + lm
    BY <1>4, <1>5, ConcatProperties
  <1>7. \A i \in 1..lb : w[i] = b[i]
    BY <1>4, <1>5, ConcatProperties
  <1>8. \A i \in 1..le : w[i] = e[i]
    BY <1>4, <1>5, ConcatProperties
  <1>9. b[2] = e[2] /\ b[3] = e[3] /\ b[4] = e[4]
    <2>1. 2 \in 1..lb /\ 3 \in 1..lb /\ 4 \in 1..lb /\ 2 \in 1..le /\ 3 \in 1..le /\ 4 \in 1..le
      BY <1>5
    <2> QED BY <1>7, <1>8, <2>1
  <1>10. LengthIn(b) = le - 4
    BY <1>3, <1>5, <1>9 DEF LengthIn
  <1>11. ASSUME Len(b) >= HEADER_SIZE + LengthIn(b)
         PROVE  /\ MessageIn(b) = EncodingOf(Head(rest))
                /\ Behind(b) \in Seq(Octet)
                /\ Len(Behind(b)) = Len(b) - HEADER_SIZE - LengthIn(b)
                /\ Behind(b) \o tail = AllBytes(Tail(rest))
    <2>1. lb >= le /\ HEADER_SIZE + LengthIn(b) = le
      BY <1>0, <1>5, <1>10, <1>11
    <2>2. PICK d : d = Behind(b)
      OBVIOUS
    <2>3. d = SubSeq(b, le + 1, lb)
      BY <1>5, <2>1, <2>2 DEF Behind
    <2>4. \A i \in le + 1..lb : b[i] \in Octet
      BY <1>5, <2>1
    <2>5. /\ d \in Seq(Octet) /\ Len(d) = lb - le
          /\ \A i \in 1..lb - le : d[i] = b[le + i]
      <3>1. /\ d \in Seq(Octet)
            /\ Len(d) = IF le + 1 <= lb THEN lb - (le + 1) + 1 ELSE 0
            /\ \A i \in 1..lb - (le + 1) + 1 : d[i] = b[le + 1 + i - 1]
        BY <2>3, <2>4, SubSeqProperties
      <3>2. lb - (le + 1) + 1 = lb - le
        BY <1>5
      <3>3. ASSUME NEW i \in 1..lb - le PROVE d[i] = b[le + i]
        <4>1. le + 1 + i - 1 = le + i /\ i \in 1..lb - (le + 1) + 1
          BY <1>5
        <4>2. d[i] = b[le + 1 + i - 1]
          BY <3>1, <4>1
        <4> QED BY <4>1, <4>2
      <3>4. Len(d) = lb - le
        BY <1>5, <2>1, <3>1
      <3> QED BY <3>1, <3>3, <3>4
    <2>6. MessageIn(b) = e
      <3>1. PICK x : x = MessageIn(b)
        OBVIOUS
      <3>2. x = SubSeq(b, 1, le)
        BY <2>1, <3>1 DEF MessageIn
      <3>3. \A i \in 1..le : b[i] \in Octet /\ b[i] = e[i]
        <4>1. \A i \in 1..le : i \in 1..lb
          BY <1>5, <2>1
        <4> QED BY <1>5, <1>7, <1>8, <4>1
      <3>4. /\ x \in Seq(Octet) /\ Len(x) = IF 1 <= le THEN le - 1 + 1 ELSE 0
            /\ \A i \in 1..le - 1 + 1 : x[i] = b[1 + i - 1]
        BY <1>5, <3>2, <3>3, SubSeqProperties
      <3>5. Len(x) = Len(e) /\ \A i \in 1..Len(x) : x[i] = e[i]
        <4>1. le - 1 + 1 = le /\ 1 <= le /\ \A i \in 1..le : 1 + i - 1 = i
          BY <1>5
        <4> QED BY <1>5, <3>3, <3>4, <4>1
      <3> QED BY <3>1, <3>4, <3>5, SeqEqual, Zenon
    <2>7. d \o tail = more
      <3>1. PICK y \in Seq(Octet) : y = d \o tail
        BY <2>5, ConcatProperties
      <3>2. Len(y) = lm
        BY <1>5, <1>6, <2>5, <3>1, ConcatProperties
      <3>3. ASSUME NEW i \in 1..lm PROVE y[i] = more[i]
        <4>1. w[le + i] = more[i]
          BY <1>4, <1>5, <1>6, ConcatProperties
        <4>2. CASE i <= lb - le
          <5>1. i \in 1..lb - le /\ le + i \in 1..lb
            BY <1>5, <4>2
          <5>2. y[i] = d[i]
            BY <1>5, <2>5, <3>1, <5>1, ConcatProperties
          <5> QED BY <1>7, <2>5, <4>1, <5>1, <5>2
        <4>3. CASE ~(i <= lb - le)
          <5>1. i - (lb - le) \in 1..lt /\ le + i - lb = i - (lb - le)
            BY <1>5, <1>6, <2>1, <4>3
          <5>2. y[i] = tail[i - (lb - le)]
            <6>1. \A j \in 1..Len(d) + Len(tail) : y[j] = IF j <= Len(d) THEN d[j] ELSE tail[j - Len(d)]
              BY <2>5, <3>1, ConcatProperties
            <6>2. i \in 1..Len(d) + Len(tail) /\ ~(i <= Len(d)) /\ Len(d) = lb - le
              BY <1>5, <1>6, <2>5, <4>3
            <6> QED BY <6>1, <6>2
          <5>3. w[le + i] = tail[le + i - lb]
            <6>1. \A j \in 1..Len(b) + Len(tail) : w[j] = IF j <= Len(b) THEN b[j] ELSE tail[j - Len(b)]
              <7>1. \A j \in 1..Len(b) + Len(tail) :
                       (b \o tail)[j] = IF j <= Len(b) THEN b[j] ELSE tail[j - Len(b)]
                BY ConcatProperties
              <7> QED BY <1>4, <7>1
            <6>2. le + i \in 1..Len(b) + Len(tail) /\ ~(le + i <= Len(b))
              BY <1>5, <1>6, <4>3
            <6> QED BY <1>5, <6>1, <6>2
          <5> QED BY <4>1, <5>1, <5>2, <5>3
        <4> QED BY <4>2, <4>3
      <3> QED BY <1>5, <3>1, <3>2, <3>3, SeqEqual, Zenon
    <2> QED BY <1>0, <1>2, <1>5, <1>10, <2>2, <2>5, <2>6, <2>7
  <1> QED BY <1>0, <1>1, <1>2, <1>5, <1>10, <1>11

(* rest is what of the flow fl is still to come out of the joiner: its     *)
(* bytes are those in the buffer and those that follow them.               *)
Remains(rest, joiner, tail, fl) ==
    /\ rest \in Seq(FlowMessage)
    /\ joiner.buf \in Seq(Octet) /\ joiner.frames \in Seq(FlowMessage)
    /\ fl = joiner.frames \o rest
    /\ joiner.buf \o tail = AllBytes(rest)

(* A buffer that is not waiting for data holds a header.                   *)
LEMMA StateIs ==
    ASSUME NEW b \in Seq(Octet)
    PROVE  /\ BufferState(b) # "NeedsMoreData" => Len(b) >= HEADER_SIZE
           /\ BufferState(b) = "OneMessage" => Len(b) >= HEADER_SIZE + LengthIn(b)
           /\ BufferState(b) \notin {"NeedsMoreData", "OneMessage"} =>
                LengthIn(b) > MAX_HANDSHAKE_SIZE
           /\ Len(b) >= HEADER_SIZE /\ LengthIn(b) <= MAX_HANDSHAKE_SIZE
                /\ Len(b) >= HEADER_SIZE + LengthIn(b) /\ LengthIn(b) \in Nat
                => BufferState(b) = "OneMessage"
  BY FlowAssumption DEF BufferState, HEADER_SIZE

(* A turn of the loop takes the next message out, or changes nothing.      *)
LEMMA TurnKeeps ==
    ASSUME NEW rest, NEW joiner, NEW tail \in Seq(Octet), NEW fl, Remains(rest, joiner, tail, fl)
    PROVE  /\ \E r : Remains(r, Turn(joiner), tail, fl)
           /\ Deframable(joiner.buf) => Len(Turn(joiner).buf) <= Len(joiner.buf) - HEADER_SIZE
  <1>1. CASE ~Deframable(joiner.buf)
    BY <1>1 DEF Turn
  <1>2. CASE Deframable(joiner.buf)
    <2>1. PICK b \in Seq(Octet), out \in Seq(FlowMessage) : b = joiner.buf /\ out = joiner.frames
      BY DEF Remains
    <2>2. rest \in Seq(FlowMessage) /\ fl = out \o rest /\ b \o tail = AllBytes(rest)
      BY <2>1 DEF Remains
    <2>3. Len(b) >= HEADER_SIZE /\ Len(b) >= HEADER_SIZE + LengthIn(b)
      BY <1>2, <2>1, StateIs DEF Deframable
    <2>4. /\ rest # <<>> /\ LengthIn(b) \in Nat
          /\ MessageIn(b) = EncodingOf(Head(rest))
          /\ Behind(b) \in Seq(Octet)
          /\ Len(Behind(b)) = Len(b) - HEADER_SIZE - LengthIn(b)
          /\ Behind(b) \o tail = AllBytes(Tail(rest))
      BY <2>2, <2>3, FrontIs
    <2>5. PICK m \in FlowMessage, r \in Seq(FlowMessage) :
             m = Head(rest) /\ r = Tail(rest) /\ rest = <<m>> \o r
      BY <2>2, <2>4, AllBytesFirst
    <2>6. ReadingOf(MessageIn(b)).value = m
      BY <1>2, <2>1, <2>4, <2>5, EncodingIs DEF Deframable
    <2>7. PICK next : next = Turn(joiner)
      OBVIOUS
    <2>8. next.buf = Behind(b) /\ next.frames = Append(out, m)
      BY <1>2, <2>1, <2>6, <2>7 DEF Turn, deframe_one
    <2>9. Append(out, m) \in Seq(FlowMessage) /\ Append(out, m) = out \o <<m>> /\ <<m>> \in Seq(FlowMessage)
      BY AppendProperties, AppendIsConcat
    <2>10. (out \o <<m>>) \o r = out \o (<<m>> \o r)
      BY <2>9, ConcatAssociative, SMTT(60)
    <2>11. Remains(r, next, tail, fl)
      BY <2>2, <2>4, <2>5, <2>8, <2>9, <2>10 DEF Remains
    <2>12. Len(next.buf) <= Len(b) - HEADER_SIZE
      <3>1. Len(b) \in Nat /\ HEADER_SIZE \in Nat
        BY DEF HEADER_SIZE
      <3> QED BY <2>4, <2>8, <3>1
    <2> QED BY <2>1, <2>7, <2>11, <2>12
  <1> QED BY <1>1, <1>2

(* What the loop of Deframe computes with.                                 *)
Afters(b, out, f) ==
    f = [n \in 0..(Len(b) \div HEADER_SIZE) |->
           IF n = 0 THEN [buf |-> b, frames |-> out] ELSE Turn(f[n - 1])]

(* Its recursion is well founded.                                          *)
LEMMA AftersExist ==
    ASSUME NEW b, Len(b) \in Nat, NEW out
    PROVE  \E f : Afters(b, out, f)
  <1> DEFINE First == [buf |-> b, frames |-> out]
             Upto(f, n) == f = [k \in 0..n |-> IF k = 0 THEN First ELSE Turn(f[k - 1])]
             Bad == {n \in Nat : ~\E f : Upto(f, n)}
  <1>1. Bad = {}
    <2> SUFFICES ASSUME Bad # {} PROVE FALSE
      OBVIOUS
    <2>1. Bad \subseteq Nat
      OBVIOUS
    <2> HIDE DEF Bad, First
    <2>2. PICK n \in Bad : \A m \in Bad : ~(m < n)
      BY <2>1, LeastOf
    <2>3. n \in Nat /\ ~\E f : Upto(f, n)
      BY <2>2 DEF Bad
    <2>4. CASE n = 0
      <3>1. Upto([k \in 0..0 |-> First], 0)
        OBVIOUS
      <3> QED BY <2>3, <2>4, <3>1
    <2>5. CASE n > 0
      <3>1. n - 1 \in Nat /\ n - 1 < n
        BY <2>3, <2>5
      <3>2. PICK g : Upto(g, n - 1)
        BY <2>2, <3>1 DEF Bad
      <3>3. PICK h : h = [k \in 0..n |-> IF k = n THEN Turn(g[n - 1]) ELSE g[k]]
        OBVIOUS
      <3>4. \A k \in 0..n - 1 : g[k] = IF k = 0 THEN First ELSE Turn(g[k - 1])
        BY <3>2
      <3>5. ASSUME NEW k \in 0..n PROVE h[k] = IF k = 0 THEN First ELSE Turn(h[k - 1])
        <4>1. CASE k = 0
          <5>1. k \in 0..n - 1 /\ k # n
            BY <2>3, <2>5, <4>1
          <5> QED BY <3>3, <3>4, <4>1, <5>1
        <4>2. CASE k # 0 /\ k # n
          <5>1. k \in 0..n - 1 /\ k - 1 \in 0..n /\ k - 1 # n
            BY <2>3, <4>2
          <5>2. h[k] = g[k] /\ h[k - 1] = g[k - 1]
            BY <3>3, <4>2, <5>1
          <5> QED BY <3>4, <4>2, <5>1, <5>2
        <4>3. CASE k = n
          <5>1. n - 1 \in 0..n /\ n - 1 # n /\ k # 0 /\ n \in 0..n
            BY <2>3, <2>5, <4>3
          <5>2. h[n] = Turn(g[n - 1]) /\ h[n - 1] = g[n - 1]
            BY <3>3, <5>1
          <5> QED BY <4>3, <5>1, <5>2
        <4> QED BY <4>1, <4>2, <4>3
      <3>6. h = [k \in 0..n |-> h[k]]
        BY <3>3
      <3>7. Upto(h, n)
        BY <3>5, <3>6
      <3> QED BY <2>3, <3>7
    <2>6. n = 0 \/ n > 0
      BY <2>3
    <2> QED BY <2>4, <2>5, <2>6
  <1>2. Len(b) \div HEADER_SIZE \in Nat
    BY DEF HEADER_SIZE
  <1>3. \E f : Upto(f, Len(b) \div HEADER_SIZE)
    BY <1>1, <1>2
  <1> QED BY <1>3 DEF Afters

(* Each turn takes a header from the buffer.                               *)
LEMMA OneHeaderLess ==
    ASSUME NEW x \in Nat, NEW y \in Nat, NEW z \in Nat, NEW n \in Nat, n > 0,
           y <= z - HEADER_SIZE * (n - 1), x <= y - HEADER_SIZE
    PROVE  x <= z - HEADER_SIZE * n
  BY DEF HEADER_SIZE

(* After the last turn less than a header is left.                         *)
LEMMA NoHeaderLeft ==
    ASSUME NEW x \in Nat, NEW z \in Nat, NEW t \in Nat,
           z < HEADER_SIZE * t + HEADER_SIZE, x <= z - HEADER_SIZE * t
    PROVE  ~(x >= HEADER_SIZE)
  BY DEF HEADER_SIZE

(* The loop takes out messages of the flow in their order, and ends only   *)
(* where the buffer holds none that can be taken out.                      *)
LEMMA DeframeKeeps ==
    ASSUME NEW b, NEW out, NEW rest, NEW tail \in Seq(Octet), NEW fl,
           Remains(rest, [buf |-> b, frames |-> out], tail, fl)
    PROVE  /\ \E r : Remains(r, Deframe(b, out), tail, fl)
           /\ ~Deframable(Deframe(b, out).buf)
  <1>1. b \in Seq(Octet) /\ Len(b) \in Nat
    BY DEF Remains
  <1>2. PICK t \in Nat : t = Len(b) \div HEADER_SIZE /\ Len(b) < HEADER_SIZE * t + HEADER_SIZE
    BY <1>1 DEF HEADER_SIZE
  <1>3. PICK f : f = CHOOSE g : Afters(b, out, g)
    OBVIOUS
  <1>4. Afters(b, out, f)
    BY <1>1, <1>3, AftersExist
  <1>5. Deframe(b, out) = f[t]
    BY <1>2, <1>3 DEF Deframe, Afters
  <1>6. f[0] = [buf |-> b, frames |-> out] /\ \A n \in 1..t : f[n] = Turn(f[n - 1])
    <2>1. 0 \in 0..t /\ \A n \in 1..t : n \in 0..t /\ n # 0
      BY <1>2
    <2> QED BY <1>2, <1>4, <2>1 DEF Afters
  <1> DEFINE Good(n) == /\ \E r : Remains(r, f[n], tail, fl)
                        /\ \/ Len(f[n].buf) <= Len(b) - HEADER_SIZE * n
                           \/ ~Deframable(f[n].buf)
             Bad == {n \in 0..t : ~Good(n)}
  <1>7. Bad = {}
    <2> SUFFICES ASSUME Bad # {} PROVE FALSE
      OBVIOUS
    <2>1. Bad \subseteq Nat
      BY <1>2
    <2> HIDE DEF Bad
    <2>2. PICK n \in Bad : \A m \in Bad : ~(m < n)
      BY <2>1, LeastOf
    <2>3. n \in 0..t /\ ~Good(n)
      BY <2>2 DEF Bad
    <2>4. CASE n = 0
      <3>1. f[n].buf = b /\ Remains(rest, f[n], tail, fl)
        BY <1>6, <2>4
      <3>2. Len(b) <= Len(b) - HEADER_SIZE * n
        BY <1>1, <2>4 DEF HEADER_SIZE
      <3> QED BY <2>3, <3>1, <3>2
    <2>5. CASE n # 0
      <3>1. n \in 1..t /\ n - 1 \in 0..t /\ n - 1 < n
        BY <1>2, <2>3, <2>5
      <3>2. Good(n - 1)
        BY <2>2, <3>1 DEF Bad
      <3>3. PICK j, r : j = f[n - 1] /\ Remains(r, j, tail, fl)
        BY <3>2
      <3>4. f[n] = Turn(j)
        BY <1>6, <3>1, <3>3
      <3>5. \E q : Remains(q, f[n], tail, fl)
        BY <3>3, <3>4, TurnKeeps
      <3>6. CASE Deframable(j.buf)
        <4>1. Len(j.buf) <= Len(b) - HEADER_SIZE * (n - 1)
          BY <3>2, <3>3, <3>6
        <4>2. Len(f[n].buf) <= Len(j.buf) - HEADER_SIZE
          BY <3>3, <3>4, <3>6, TurnKeeps
        <4>3. Len(j.buf) \in Nat /\ Len(f[n].buf) \in Nat
          <5>1. j.buf \in Seq(Octet)
            BY <3>3 DEF Remains
          <5>2. f[n].buf \in Seq(Octet)
            BY <3>5 DEF Remains
          <5> QED BY <5>1, <5>2, LenProperties
        <4>4. Len(f[n].buf) <= Len(b) - HEADER_SIZE * n
          <5>1. n \in Nat /\ n > 0
            BY <1>2, <3>1
          <5> QED BY <1>1, <4>1, <4>2, <4>3, <5>1, OneHeaderLess
        <4> QED BY <2>3, <3>5, <4>4
      <3>7. CASE ~Deframable(j.buf)
        <4>1. f[n] = j
          BY <3>4, <3>7 DEF Turn
        <4> QED BY <2>3, <3>5, <3>7, <4>1
      <3> QED BY <3>6, <3>7
    <2> QED BY <2>4, <2>5
  <1>8. Good(t)
    <2>1. t \in 0..t
      BY <1>2
    <2> QED BY <1>7, <2>1
  <1>9. ~Deframable(f[t].buf)
    <2>1. f[t].buf \in Seq(Octet) /\ Len(f[t].buf) \in Nat
      BY <1>8 DEF Remains
    <2>2. Deframable(f[t].buf) => Len(f[t].buf) >= HEADER_SIZE
      BY <2>1, StateIs DEF Deframable
    <2>3. ~(Len(f[t].buf) >= HEADER_SIZE /\ Len(f[t].buf) <= Len(b) - HEADER_SIZE * t)
      BY <1>1, <1>2, <2>1, NoHeaderLeft
    <2> QED BY <1>8, <2>2, <2>3
  <1> QED BY <1>5, <1>8, <1>9

-----------------------------------------------------------------------------
(* The flow                                                                *)

FlowTyped ==
    /\ max_frag \in Nat /\ max_frag > 0
    /\ flow \in Seq(FlowMessage)
    /\ records \in Seq(Seq(Octet))
    /\ desynced \in BOOLEAN

(* What has not come out yet is in the buffer and in the records, and the  *)
(* buffer holds no message that could be taken out.                        *)
FlowInv ==
    /\ FlowTyped
    /\ \E rest : Remains(rest, [buf |-> buf, frames |-> frames], FlattenSeq(records), flow)
    /\ desynced <=> BufferState(buf) # "NeedsMoreData"
    /\ ~Deframable(buf)

(* Nothing has been sent at the start.                                     *)
LEMMA FlowInitInv == FlowInit => FlowInv
  <1> SUFFICES ASSUME FlowInit PROVE FlowInv
    OBVIOUS
  <1>1. FlowTyped
    <2>1. <<>> \in Seq(FlowMessage) /\ <<>> \in Seq(Seq(Octet))
      OBVIOUS
    <2>2. max_frag \in Nat /\ max_frag > 0
      BY DEF FlowInit, MAX_FRAGMENT_LEN
    <2> QED BY <2>1, <2>2 DEF FlowInit, FlowTyped
  <1>2. BufferState(<<>>) = "NeedsMoreData"
    BY DEF BufferState, HEADER_SIZE
  <1>3. ~Deframable(<<>>)
    BY <1>2 DEF Deframable
  <1>4. Remains(<<>>, [buf |-> <<>>, frames |-> <<>>], <<>>, <<>>)
    <2>1. <<>> \o <<>> = <<>> /\ <<>> \in Seq(FlowMessage) /\ <<>> \in Seq(Octet)
      OBVIOUS
    <2> QED BY <2>1, AllBytesNone DEF Remains
  <1> QED BY <1>1, <1>2, <1>3, <1>4, FlattenNone DEF FlowInit, FlowInv

(* A message that is sent comes last of what remains, in fragments or whole.*)
LEMMA SendFlowInv ==
    ASSUME FlowInv, NEW i \in DOMAIN FlowMessages, SendFlow(i)
    PROVE  FlowInv'
  <1>1. PICK m \in FlowMessage : m = FlowMessages[i]
    BY DEF FlowMessage
  <1>2. PICK e \in Seq(Octet) : e = EncodingOf(m)
    BY EncodingIs
  <1>3. PICK rest : Remains(rest, [buf |-> buf, frames |-> frames], FlattenSeq(records), flow)
    BY DEF FlowInv
  <1>4. /\ rest \in Seq(FlowMessage) /\ buf \in Seq(Octet) /\ frames \in Seq(FlowMessage)
        /\ flow = frames \o rest /\ buf \o FlattenSeq(records) = AllBytes(rest)
    BY <1>3 DEF Remains
  <1>5. max_frag \in Nat /\ max_frag > 0 /\ flow \in Seq(FlowMessage) /\ records \in Seq(Seq(Octet))
    BY DEF FlowInv, FlowTyped
  <1>6. PICK fs \in Seq(Seq(Octet)) : fs = fragment(e) /\ FlattenSeq(fs) = e
    <2>1. CASE Len(e) <= max_frag
      <3>1. <<e>> \in Seq(Seq(Octet)) /\ fragment(e) = <<e>>
        BY <2>1 DEF fragment
      <3> QED BY <3>1, FlattenOne
    <2>2. CASE ~(Len(e) <= max_frag)
      <3>1. fragment(e) = Chunks(e, max_frag)
        BY <2>2 DEF fragment
      <3> QED BY <1>5, <3>1, ChunksAreWhole
    <2> QED BY <2>1, <2>2
  <1>7. flow' = Append(flow, m) /\ records' = records \o fs
        /\ UNCHANGED <<max_frag, buf, frames, desynced>>
    BY <1>1, <1>2, <1>6 DEF SendFlow
  <1>8. records' \in Seq(Seq(Octet)) /\ FlattenSeq(records') = FlattenSeq(records) \o e
    BY <1>5, <1>6, <1>7, ConcatProperties, FlattenConcat
  <1>9. PICK r \in Seq(FlowMessage), x \in Seq(FlowMessage) : r = rest \o <<m>> /\ x = <<m>>
    <2>1. <<m>> \in Seq(FlowMessage)
      OBVIOUS
    <2> QED BY <1>4, <2>1, ConcatProperties
  <1>10. flow' \in Seq(FlowMessage) /\ flow' = frames \o r
    <2>1. Append(flow, m) \in Seq(FlowMessage) /\ Append(flow, m) = flow \o x
      BY <1>5, <1>9, AppendProperties, AppendIsConcat
    <2>2. PICK y \in Seq(FlowMessage), z \in Seq(FlowMessage) : y = frames /\ z = rest
      BY <1>4
    <2>3. (y \o z) \o x = y \o (z \o x)
      BY ConcatAssociative, SMTT(60)
    <2> QED BY <1>4, <1>7, <1>9, <2>1, <2>2, <2>3
  <1>11. buf' \o FlattenSeq(records') = AllBytes(r)
    <2>1. AllBytes(r) = AllBytes(rest) \o e
      BY <1>2, <1>4, <1>9, AllBytesConcat, AllBytesOne
    <2>2. PICK z \in Seq(Octet) : z = FlattenSeq(records)
      BY <1>5, FlattenType
    <2>3. PICK y \in Seq(Octet) : y = buf
      BY <1>4
    <2>4. (y \o z) \o e = y \o (z \o e)
      BY ConcatAssociative, SMTT(60)
    <2> QED BY <1>4, <1>7, <1>8, <2>1, <2>2, <2>3, <2>4
  <1>12. Remains(r, [buf |-> buf', frames |-> frames'], FlattenSeq(records'), flow')
    BY <1>4, <1>7, <1>10, <1>11 DEF Remains
  <1>13. FlowTyped'
    BY <1>5, <1>7, <1>8, <1>10 DEF FlowTyped, FlowInv
  <1>14. (desynced' <=> BufferState(buf') # "NeedsMoreData") /\ ~Deframable(buf')
    BY <1>7 DEF FlowInv
  <1> QED BY <1>12, <1>13, <1>14 DEF FlowInv

(* Records that are put together hold the same bytes.                      *)
LEMMA MergeRecordsInv == FlowInv /\ MergeRecords => FlowInv'
  <1> SUFFICES ASSUME FlowInv, MergeRecords PROVE FlowInv'
    OBVIOUS
  <1>1. records \in Seq(Seq(Octet)) /\ Len(records) > 1
    BY DEF FlowInv, FlowTyped, MergeRecords
  <1>2. PICK rs : rs = <<records[1] \o records[2]>> \o SubSeq(records, 3, Len(records))
    OBVIOUS
  <1>3. records' = rs /\ UNCHANGED <<max_frag, flow, buf, frames, desynced>>
    BY <1>2 DEF MergeRecords
  <1>4. FlattenSeq(rs) = FlattenSeq(records)
    BY <1>1, <1>2, FlattenMerge
  <1>5. rs \in Seq(Seq(Octet))
    <2>1. records[1] \in Seq(Octet) /\ records[2] \in Seq(Octet)
      <3>1. 1 \in 1..Len(records) /\ 2 \in 1..Len(records)
        BY <1>1
      <3> QED BY <1>1, <3>1, ElementOfSeq
    <2>2. records[1] \o records[2] \in Seq(Octet)
      BY <2>1, ConcatProperties
    <2>3. <<records[1] \o records[2]>> \in Seq(Seq(Octet))
      BY <2>2
    <2>4. SubSeq(records, 3, Len(records)) \in Seq(Seq(Octet))
      <3>1. Len(records) \in Int /\ \A i \in 3..Len(records) : i \in 1..Len(records)
        BY <1>1
      <3>2. \A i \in 3..Len(records) : records[i] \in Seq(Octet)
        BY <1>1, <3>1, ElementOfSeq
      <3> QED BY <3>1, <3>2, SubSeqProperties
    <2> QED BY <1>2, <2>3, <2>4, ConcatProperties
  <1> QED BY <1>3, <1>4, <1>5 DEF FlowInv, FlowTyped

(* take_message moves a record into the buffer, and whole messages out of it.*)
LEMMA TakeMessageInv == FlowInv /\ take_message => FlowInv'
  <1> SUFFICES ASSUME FlowInv, take_message PROVE FlowInv'
    OBVIOUS
  <1>1. records \in Seq(Seq(Octet)) /\ records # <<>>
    BY DEF FlowInv, FlowTyped, take_message
  <1>2. PICK h \in Seq(Octet), rs \in Seq(Seq(Octet)) :
          h = Head(records) /\ rs = Tail(records) /\ FlattenSeq(records) = h \o FlattenSeq(rs)
    BY <1>1, HeadTailProperties, FlattenFirst
  <1>3. PICK t \in Seq(Octet) : t = FlattenSeq(rs)
    BY FlattenType
  <1>4. PICK rest : Remains(rest, [buf |-> buf, frames |-> frames], FlattenSeq(records), flow)
    BY DEF FlowInv
  <1>5. buf \in Seq(Octet) /\ buf \o (h \o t) = AllBytes(rest)
    BY <1>2, <1>3, <1>4 DEF Remains
  <1>6. PICK b \in Seq(Octet) : b = buf \o h /\ b \o t = AllBytes(rest)
    <2>1. buf \o h \in Seq(Octet)
      BY <1>5, ConcatProperties
    <2>2. PICK x \in Seq(Octet) : x = buf
      BY <1>5
    <2>3. (x \o h) \o t = x \o (h \o t)
      BY ConcatAssociative, SMTT(60)
    <2> QED BY <1>5, <2>1, <2>2, <2>3
  <1>7. Remains(rest, [buf |-> b, frames |-> frames], t, flow)
    BY <1>4, <1>6 DEF Remains
  <1>8. PICK joiner : joiner = Deframe(b, frames)
    OBVIOUS
  <1>9. (\E r : Remains(r, joiner, t, flow)) /\ ~Deframable(joiner.buf)
    BY <1>7, <1>8, DeframeKeeps
  <1>10. /\ buf' = joiner.buf /\ frames' = joiner.frames
         /\ desynced' = (BufferState(joiner.buf) # "NeedsMoreData")
         /\ records' = rs /\ UNCHANGED <<max_frag, flow>>
    BY <1>2, <1>6, <1>8 DEF take_message
  <1>11. FlowTyped'
    BY <1>10 DEF FlowInv, FlowTyped
  <1>12. \E r : Remains(r, [buf |-> buf', frames |-> frames'], FlattenSeq(records'), flow')
    BY <1>3, <1>9, <1>10 DEF Remains
  <1> QED BY <1>9, <1>10, <1>11, <1>12 DEF FlowInv

(* Every step keeps the invariant.                                         *)
LEMMA FlowNextInv == FlowInv /\ [FlowNext]_flowVars => FlowInv'
  <1> SUFFICES ASSUME FlowInv, [FlowNext]_flowVars PROVE FlowInv'
    OBVIOUS
  <1>1. ASSUME NEW size \in FragmentSizes, set_max_fragment_size(size) PROVE FlowInv'
    <2>1. max_frag' \in Nat /\ max_frag' > 0
      BY <1>1 DEF set_max_fragment_size, FlowInv, FlowTyped, PACKET_OVERHEAD
    <2> QED BY <1>1, <2>1 DEF set_max_fragment_size, FlowInv, FlowTyped
  <1>2. CASE UNCHANGED flowVars
    BY <1>2 DEF flowVars, FlowInv, FlowTyped
  <1> QED BY <1>1, <1>2, SendFlowInv, MergeRecordsInv, TakeMessageInv DEF FlowNext

(* The invariant implies all that the joiner promises.                     *)
LEMMA FlowInvImplies == FlowInv => FlowIsKept
  <1> SUFFICES ASSUME FlowInv PROVE FlowIsKept
    OBVIOUS
  <1>1. PICK rest : Remains(rest, [buf |-> buf, frames |-> frames], FlattenSeq(records), flow)
    BY DEF FlowInv
  <1>2. PICK t \in Seq(Octet) : t = FlattenSeq(records)
    BY FlattenType DEF FlowInv, FlowTyped
  <1>3. /\ rest \in Seq(FlowMessage) /\ buf \in Seq(Octet) /\ frames \in Seq(FlowMessage)
        /\ flow = frames \o rest /\ buf \o t = AllBytes(rest) /\ flow \in Seq(FlowMessage)
    BY <1>1, <1>2 DEF Remains, FlowInv, FlowTyped
  <1>4. PICK m \in Nat, n \in Nat : m = Len(frames) /\ n = Len(rest) /\ Len(flow) = m + n
    BY <1>3, ConcatProperties
  <1>5. FramesAreTheFlow
    <2>1. DOMAIN frames = 1..m /\ \A i \in 1..m : flow[i] = frames[i]
      BY <1>3, <1>4, ConcatProperties
    <2> QED BY <1>4, <2>1 DEF FramesAreTheFlow
  <1>6. NoByteIsLost
    <2>1. AllBytes(flow) = AllBytes(frames) \o AllBytes(rest)
      BY <1>3, AllBytesConcat
    <2>2. AllBytes(frames) \in Seq(Octet)
      BY <1>3, EncodingsType
    <2>3. PICK x \in Seq(Octet), y \in Seq(Octet) : x = AllBytes(frames) /\ y = buf
      BY <1>3, <2>2
    <2>4. (x \o y) \o t = x \o (y \o t)
      BY ConcatAssociative, SMTT(60)
    <2> QED BY <1>2, <1>3, <2>1, <2>3, <2>4 DEF NoByteIsLost
  (* Where the next message is. *)
  <1>7. rest # <<>> => /\ m + 1 \in 1..m + n /\ flow[m + 1] = Head(rest)
                       /\ Head(rest) \in FlowMessage /\ DOMAIN flow = 1..m + n
    <2> SUFFICES ASSUME rest # <<>>
                 PROVE  /\ m + 1 \in 1..m + n /\ flow[m + 1] = Head(rest)
                        /\ Head(rest) \in FlowMessage /\ DOMAIN flow = 1..m + n
      OBVIOUS
    <2>1. n > 0 /\ Head(rest) = rest[1] /\ Head(rest) \in FlowMessage
      BY <1>3, <1>4, HeadTailProperties
    <2>2. m + 1 \in 1..m + n /\ ~(m + 1 <= m) /\ (m + 1) - m = 1
      BY <1>4, <2>1
    <2>3. flow[m + 1] = rest[(m + 1) - m]
      BY <1>3, <1>4, <2>2, ConcatProperties
    <2>4. DOMAIN flow = 1..m + n
      BY <1>3, <1>4
    <2> QED BY <2>1, <2>2, <2>3, <2>4
  (* A joiner that has given up has a message in front of it that it cannot take. *)
  <1>8. desynced => rest # <<>> /\ ~Joinable(Head(rest))
    <2> SUFFICES ASSUME desynced PROVE rest # <<>> /\ ~Joinable(Head(rest))
      OBVIOUS
    <2>1. BufferState(buf) # "NeedsMoreData" /\ ~Deframable(buf)
      BY DEF FlowInv
    <2>2. Len(buf) >= HEADER_SIZE
      BY <1>3, <2>1, StateIs
    <2>3. /\ rest # <<>> /\ LengthIn(buf) = Len(EncodingOf(Head(rest))) - HEADER_SIZE
          /\ LengthIn(buf) \in Nat
          /\ Len(buf) >= HEADER_SIZE + LengthIn(buf) => MessageIn(buf) = EncodingOf(Head(rest))
      BY <1>3, <2>2, FrontIs
    <2>4. CASE BufferState(buf) = "OneMessage"
      <3>1. Len(buf) >= HEADER_SIZE + LengthIn(buf)
        BY <1>3, <2>4, StateIs
      <3> QED BY <2>1, <2>3, <2>4, <3>1 DEF Deframable, Joinable
    <2>5. CASE BufferState(buf) # "OneMessage"
      <3>1. LengthIn(buf) > MAX_HANDSHAKE_SIZE
        BY <1>3, <2>1, <2>5, StateIs
      <3> QED BY <2>3, <3>1, FlowAssumption DEF Joinable
    <2> QED BY <2>4, <2>5
  <1>9. DesyncHasACause
    BY <1>7, <1>8 DEF DesyncHasACause
  <1>10. NothingIsHeldBack
    <2> SUFFICES ASSUME records = <<>>, NEW k \in DOMAIN flow,
                        \A i \in 1..k : Joinable(flow[i]), ~(Len(frames) >= k)
                 PROVE  FALSE
      BY DEF NothingIsHeldBack
    <2>1. k \in 1..m + n /\ k > m
      BY <1>3, <1>4
    <2>2. rest # <<>>
      BY <1>4, <2>1
    <2>3. m + 1 \in 1..k
      BY <1>4, <2>1
    <2>4. Joinable(Head(rest))
      BY <1>7, <2>2, <2>3
    <2>5. BufferState(buf) = "NeedsMoreData"
      BY <1>8, <2>4 DEF FlowInv
    <2>6. buf = AllBytes(rest) /\ buf \o <<>> = AllBytes(rest)
      BY <1>2, <1>3, FlattenNone, ConcatEmptySeq
    <2>7. PICK e \in Seq(Octet), more \in Seq(Octet) :
            e = EncodingOf(Head(rest)) /\ buf = e \o more /\ Len(e) >= HEADER_SIZE
      BY <1>3, <2>2, <2>6, AllBytesFirst, EncodingIs, EncodingsType
    <2>8. Len(buf) >= Len(e) /\ Len(buf) >= HEADER_SIZE
      <3>1. Len(buf) = Len(e) + Len(more) /\ Len(e) \in Nat /\ Len(more) \in Nat
        BY <2>7, ConcatProperties
      <3> QED BY <2>7, <3>1 DEF HEADER_SIZE
    <2>9. LengthIn(buf) = Len(e) - HEADER_SIZE /\ LengthIn(buf) \in Nat
      <3>1. PICK b \in Seq(Octet), x \in Seq(Octet) : b = buf /\ x = <<>>
        BY <1>3, EmptySeq
      <3>2. LengthIn(b) = Len(EncodingOf(Head(rest))) - HEADER_SIZE /\ LengthIn(b) \in Nat
        <4>1. b \o x = AllBytes(rest) /\ Len(b) >= HEADER_SIZE
          BY <2>6, <2>8, <3>1
        <4> QED BY <1>3, <4>1, FrontIs
      <3> QED BY <2>7, <3>1, <3>2
    <2>10. LengthIn(buf) <= MAX_HANDSHAKE_SIZE
      BY <2>4, <2>7, <2>9 DEF Joinable
    <2>11. Len(buf) >= HEADER_SIZE + LengthIn(buf)
      <3>1. Len(e) \in Nat /\ HEADER_SIZE \in Nat
        BY DEF HEADER_SIZE
      <3> QED BY <2>8, <2>9, <3>1
    <2> QED BY <1>3, <2>5, <2>8, <2>9, <2>10, <2>11, StateIs
  <1> QED BY <1>5, <1>6, <1>9, <1>10 DEF FlowIsKept

(* However handshake messages are cut into records, and records put        *)
(* together, the joiner gives out the messages that were sent, complete    *)
(* and in order, gives up only for one that cannot be read, and holds none *)
(* back: for every codec, fragment size, limit and flow.                   *)
THEOREM FlowKept == FlowSpec => []FlowIsKept
  <1>1. FlowSpec => []FlowInv
    BY FlowInitInv, FlowNextInv, PTL DEF FlowSpec
  <1> QED BY <1>1, FlowInvImplies, PTL
=============================================================================
