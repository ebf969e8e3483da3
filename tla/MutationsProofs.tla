-------------------------- MODULE MutationsProofs --------------------------
(***************************************************************************)
(* Proofs about the mutations, for every signature, seed, zoo and bound:   *)
(* first about positions and terms, then about traces, then one lemma for  *)
(* every mutator, from which the theorems follow.                          *)
(***************************************************************************)
EXTENDS Mutations, SequenceTheorems, FiniteSetTheorems, TLAPS

Index == Nat \ {0}

-----------------------------------------------------------------------------
(* Positions                                                               *)

(* A position is below p exactly if it continues p.                        *)
LEMMA BelowConcat ==
    ASSUME NEW p \in Position, NEW q \in Position
    PROVE  /\ p \o q \in Position
           /\ Below(p \o q, p)
           /\ SubSeq(p \o q, Len(p) + 1, Len(p \o q)) = q
  BY DEF Below, Position

(* A position below p is p followed by a position.                         *)
LEMMA BelowSplit ==
    ASSUME NEW p \in Position, NEW r \in Position, Below(r, p)
    PROVE  /\ SubSeq(r, Len(p) + 1, Len(r)) \in Position
           /\ r = p \o SubSeq(r, Len(p) + 1, Len(r))
  BY DEF Below, Position

(* A step further below p is a step further in the subterm at p.           *)
LEMMA ConcatAppend ==
    ASSUME NEW p \in Position, NEW q \in Position, NEW i \in Index
    PROVE  Append(p \o q, i) = p \o Append(q, i)
  <1>1. p \o q \in Seq(Index) /\ <<i>> \in Seq(Index)
    BY DEF Position, Index
  <1>2. Append(p \o q, i) = (p \o q) \o <<i>> /\ Append(q, i) = q \o <<i>>
    BY <1>1, AppendIsConcat DEF Position, Index
  <1> QED
    BY <1>1, <1>2, ConcatAssociative DEF Position, Index

(* A step further from a position below p stays below p.                   *)
LEMMA BelowAppend ==
    ASSUME NEW p \in Position, NEW q \in Position, NEW i \in Index, Below(q, p)
    PROVE  Below(Append(q, i), p)
  BY DEF Below, Position, Index

(* A step that leads below p, from a position that is not, leads to p.     *)
LEMMA BelowEnter ==
    ASSUME NEW p \in Position, NEW q \in Position, NEW i \in Index,
           Below(Append(q, i), p), ~Below(q, p)
    PROVE  Append(q, i) = p
  <1>1. Len(Append(q, i)) = Len(q) + 1 /\ Len(p) \in Nat /\ Len(q) \in Nat
    BY DEF Position, Index
  <1>2. CASE Len(p) <= Len(q)
    <2>1. SubSeq(Append(q, i), 1, Len(p)) = SubSeq(q, 1, Len(p))
      BY <1>2 DEF Position, Index
    <2> QED
      BY <1>2, <2>1 DEF Below
  <1>3. CASE Len(p) = Len(q) + 1
    <2>1. SubSeq(Append(q, i), 1, Len(q) + 1) = Append(q, i)
      BY <1>1, AppendProperties, SubSeqFull DEF Position, Index
    <2>2. SubSeq(Append(q, i), 1, Len(p)) = p
      BY DEF Below
    <2> QED
      BY <1>3, <2>1, <2>2
  <1>4. Len(p) <= Len(Append(q, i))
    BY DEF Below
  <1> QED
    BY <1>1, <1>2, <1>3, <1>4

(* A position is not below its argument positions.                         *)
LEMMA NotBelowParent ==
    ASSUME NEW p \in Position, NEW i \in Index
    PROVE  ~Below(p, Append(p, i))
  BY DEF Below, Position, Index

(* Every position is below the root and below itself.                      *)
LEMMA BelowRoot ==
    ASSUME NEW p \in Position
    PROVE  /\ Below(p, <<>>) /\ Below(p, p)
           /\ Below(<<>>, p) => p = <<>>
  BY DEF Below, Position

(* A position other than the root is an argument of its parent.            *)
LEMMA LastStep ==
    ASSUME NEW q \in Position, q # <<>>
    PROVE  /\ SubSeq(q, 1, Len(q) - 1) \in Position
           /\ q[Len(q)] \in Index
           /\ q = Append(SubSeq(q, 1, Len(q) - 1), q[Len(q)])
  BY DEF Position, Index

-----------------------------------------------------------------------------
(* Terms                                                                   *)

(* The positions of t that stay when the subterm at p is replaced.         *)
Kept(t, p) == {q \in DOMAIN t : ~Below(q, p)}

(* The positions of m are those of t that were not below p, with their     *)
(* symbols, and those of s, under p.                                       *)
Mutated(m, t, p, s) ==
    /\ DOMAIN m = Kept(t, p) \cup {p \o r : r \in DOMAIN s}
    /\ DOMAIN m \subseteq Position
    /\ \A q \in Kept(t, p) : q \in DOMAIN m /\ m[q] = t[q]
    /\ \A r \in DOMAIN s : p \o r \in DOMAIN m /\ m[p \o r] = s[r]

(* mutate replaces one subterm and nothing else.                           *)
LEMMA MutatePositions ==
    ASSUME NEW t, NEW p \in DOMAIN t, NEW s, IsTerm(t), IsTerm(s)
    PROVE  Mutated(mutate(t, p, s), t, p, s)
  <1>1. p \in Position /\ DOMAIN s \subseteq Position /\ DOMAIN t \subseteq Position
    BY DEF IsTerm
  <1> DEFINE m == mutate(t, p, s)
             kept == Kept(t, p)
             all == kept \cup {p \o r : r \in DOMAIN s}
  <1>2. m = [q \in all |-> IF q \in kept THEN t[q] ELSE s[SubSeq(q, Len(p) + 1, Len(q))]]
    BY DEF mutate, Kept
  <1> HIDE DEF m, all
  <1>3. DOMAIN m = all
    BY <1>2
  <1>4. \A r \in DOMAIN s : p \o r \in all /\ p \o r \in Position /\ p \o r \notin kept
                            /\ SubSeq(p \o r, Len(p) + 1, Len(p \o r)) = r
    BY <1>1, BelowConcat DEF all, Kept
  <1>5. \A r \in DOMAIN s : p \o r \in DOMAIN m /\ m[p \o r] = s[r]
    BY <1>2, <1>3, <1>4
  <1>6. \A q \in kept : q \in all /\ m[q] = t[q]
    BY <1>2 DEF all
  <1>7. all \subseteq Position
    <2>1. kept \subseteq Position
      BY <1>1 DEF Kept
    <2>2. {p \o r : r \in DOMAIN s} \subseteq Position
      BY <1>4
    <2> QED
      BY <2>1, <2>2 DEF all
  <1> QED
    BY <1>3, <1>5, <1>6, <1>7 DEF all, m, Mutated

(* Putting a position before all members of a finite set gives a finite    *)
(* set that is not larger.                                                 *)
LEMMA ConcatFinite ==
    ASSUME NEW p, NEW D, IsFiniteSet(D)
    PROVE  IsFiniteSet({p \o r : r \in D}) /\ Cardinality({p \o r : r \in D}) <= Cardinality(D)
  <1> DEFINE T == {p \o r : r \in D}
             f == [r \in D |-> p \o r]
  <1>1. f \in Surjection(D, T)
    BY DEF Surjection
  <1> HIDE DEF T, f
  <1>2. IsFiniteSet(T) /\ Cardinality(T) <= Cardinality(D)
    BY <1>1, FS_Surjection
  <1> QED
    BY <1>2 DEF T

(* Replacing a subterm by a term gives a term.                             *)
LEMMA MutateIsTerm ==
    ASSUME NEW t, NEW p \in DOMAIN t, NEW s, IsTerm(t), IsTerm(s)
    PROVE  IsTerm(mutate(t, p, s))
  <1> DEFINE m == mutate(t, p, s)
             kept == Kept(t, p)
             new == {p \o r : r \in DOMAIN s}
  <1>1. Mutated(m, t, p, s)
    BY MutatePositions
  <1>0. m = [q \in DOMAIN m |-> m[q]]
    BY DEF mutate
  <1> HIDE DEF m
  <1>2. p \in Position /\ DOMAIN s \subseteq Position /\ DOMAIN t \subseteq Position
        /\ <<>> \in DOMAIN s /\ <<>> \in DOMAIN t
    BY DEF IsTerm
  <1>3. p \o <<>> = p
    BY <1>2 DEF Position
  <1>4. p \in DOMAIN m
    BY <1>1, <1>2, <1>3 DEF Mutated, Kept
  <1>5. IsFiniteSet(DOMAIN m)
    <2>1. IsFiniteSet(kept)
      BY FS_Subset DEF IsTerm, Kept
    <2>2. IsFiniteSet(new)
      BY ConcatFinite DEF IsTerm
    <2>3. DOMAIN m = kept \cup new
      BY <1>1 DEF Mutated
    <2> HIDE DEF kept, new
    <2> QED
      BY <2>1, <2>2, <2>3, FS_Union
  <1>6. <<>> \in DOMAIN m
    <2>1. <<>> \in Position
      BY DEF Position
    <2> QED
      BY <1>1, <1>2, <1>4, <2>1, BelowRoot DEF Mutated, Kept
  <1>7. ASSUME NEW q \in kept
        PROVE  /\ m[q] \in Symbol
               /\ \A i \in 1..Len(Arguments[m[q]]) : Append(q, i) \in DOMAIN m
               /\ q # <<>> => LET u == SubSeq(q, 1, Len(q) - 1)
                              IN  u \in DOMAIN m /\ q[Len(q)] <= Len(Arguments[m[u]])
    <2>1. q \in DOMAIN t /\ m[q] = t[q] /\ ~Below(q, p) /\ q \in Position
      BY <1>1, <1>2, <1>7 DEF Mutated, Kept
    <2>2. m[q] \in Symbol
      BY <2>1 DEF IsTerm
    <2>3. ASSUME NEW i \in 1..Len(Arguments[m[q]])
          PROVE  Append(q, i) \in DOMAIN m
      <3>1. Append(q, i) \in DOMAIN t
        BY <2>1 DEF IsTerm
      <3>2. i \in Index
        BY <2>2, SignatureAssumption DEF Index
      <3> QED
        BY <1>1, <1>2, <1>4, <2>1, <3>1, <3>2, BelowEnter DEF Mutated, Kept
    <2>4. ASSUME q # <<>>
          PROVE  LET u == SubSeq(q, 1, Len(q) - 1)
                 IN  u \in DOMAIN m /\ q[Len(q)] <= Len(Arguments[m[u]])
      <3> DEFINE u == SubSeq(q, 1, Len(q) - 1)
      <3>1. u \in DOMAIN t /\ q[Len(q)] <= Len(Arguments[t[u]])
        BY <2>1, <2>4 DEF IsTerm
      <3>2. u \in Position /\ q[Len(q)] \in Index /\ q = Append(u, q[Len(q)])
        BY <2>1, <2>4, LastStep
      <3> HIDE DEF u
      <3>3. ~Below(u, p)
        BY <1>2, <2>1, <3>2, BelowAppend
      <3>4. u \in DOMAIN m /\ m[u] = t[u]
        BY <1>1, <3>1, <3>3 DEF Mutated, Kept
      <3> QED
        BY <3>1, <3>4 DEF u
    <2> QED
      BY <2>2, <2>3, <2>4
  <1>8. ASSUME NEW r \in DOMAIN s
        PROVE  LET q == p \o r
               IN  /\ m[q] \in Symbol
                   /\ \A i \in 1..Len(Arguments[m[q]]) : Append(q, i) \in DOMAIN m
                   /\ q # <<>> => LET u == SubSeq(q, 1, Len(q) - 1)
                                  IN  u \in DOMAIN m /\ q[Len(q)] <= Len(Arguments[m[u]])
    <2> DEFINE q == p \o r
    <2>1. q \in DOMAIN m /\ m[q] = s[r] /\ q \in Position /\ r \in Position
      BY <1>1, <1>2 DEF Mutated, Kept
    <2>2. m[q] \in Symbol
      BY <2>1 DEF IsTerm
    <2> HIDE DEF q
    <2>3. ASSUME NEW i \in 1..Len(Arguments[m[q]])
          PROVE  Append(q, i) \in DOMAIN m
      <3>1. Append(r, i) \in DOMAIN s
        BY <2>1 DEF IsTerm
      <3>2. i \in Index
        BY <2>2, SignatureAssumption DEF Index
      <3>3. Append(q, i) = p \o Append(r, i)
        BY <1>2, <2>1, <3>2, ConcatAppend DEF q
      <3> QED
        BY <1>1, <3>1, <3>3 DEF Mutated, Kept
    <2>4. ASSUME q # <<>>
          PROVE  LET u == SubSeq(q, 1, Len(q) - 1)
                 IN  u \in DOMAIN m /\ q[Len(q)] <= Len(Arguments[m[u]])
      <3>1. CASE r = <<>>
        <4> DEFINE u == SubSeq(p, 1, Len(p) - 1)
        <4>1. q = p
          BY <1>3, <3>1 DEF q
        <4>2. u \in DOMAIN t /\ p[Len(p)] <= Len(Arguments[t[u]])
          BY <2>4, <4>1 DEF IsTerm
        <4>3. u \in Position /\ p[Len(p)] \in Index /\ p = Append(u, p[Len(p)])
          BY <1>2, <2>4, <4>1, LastStep
        <4> HIDE DEF u
        <4>4. ~Below(u, p)
          BY <4>3, NotBelowParent
        <4>5. u \in DOMAIN m /\ m[u] = t[u]
          BY <1>1, <4>2, <4>4 DEF Mutated, Kept
        <4> QED
          BY <4>1, <4>2, <4>5 DEF u
      <3>2. CASE r # <<>>
        <4> DEFINE u == SubSeq(r, 1, Len(r) - 1)
                   j == r[Len(r)]
        <4>1. u \in DOMAIN s /\ j <= Len(Arguments[s[u]])
          BY <3>2 DEF IsTerm
        <4>2. u \in Position /\ j \in Index /\ r = Append(u, j)
          BY <2>1, <3>2, LastStep
        <4> HIDE DEF u, j
        <4>3. q = Append(p \o u, j) /\ p \o u \in Position
          BY <1>2, <4>2, ConcatAppend, BelowConcat DEF q
        <4>4. SubSeq(q, 1, Len(q) - 1) = p \o u /\ q[Len(q)] = j
          BY <4>2, <4>3 DEF Position, Index
        <4>5. p \o u \in DOMAIN m /\ m[p \o u] = s[u]
          BY <1>1, <4>1 DEF Mutated, Kept
        <4> QED
          BY <4>1, <4>4, <4>5
      <3> QED
        BY <3>1, <3>2
    <2> QED
      BY <2>2, <2>3, <2>4 DEF q
  <1>9. ASSUME NEW q \in DOMAIN m
        PROVE  /\ m[q] \in Symbol
               /\ \A i \in 1..Len(Arguments[m[q]]) : Append(q, i) \in DOMAIN m
               /\ q # <<>> => LET u == SubSeq(q, 1, Len(q) - 1)
                              IN  u \in DOMAIN m /\ q[Len(q)] <= Len(Arguments[m[u]])
    <2>1. CASE q \in kept
      BY <1>7, <2>1
    <2>2. CASE q \in new
      <3>1. PICK r \in DOMAIN s : q = p \o r
        BY <2>2
      <3> QED
        BY <1>8, <3>1
    <2> QED
      BY <1>1, <2>1, <2>2 DEF Mutated, Kept
  <1>10. IsTerm(m)
    BY <1>0, <1>1, <1>5, <1>6, <1>9 DEF IsTerm, Mutated
  <1> QED
    BY <1>10 DEF m

(* Replacing a subterm by one of the same type keeps a term well-typed.    *)
LEMMA MutateWellTyped ==
    ASSUME NEW t, NEW p \in DOMAIN t, NEW s, IsTerm(t), IsTerm(s),
           WellTyped(t), WellTyped(s), get_type_shape(s) = ReturnType[t[p]]
    PROVE  WellTyped(mutate(t, p, s))
  <1> DEFINE m == mutate(t, p, s)
  <1>1. Mutated(m, t, p, s)
    BY MutatePositions
  <1> HIDE DEF m
  <1>2. p \in Position /\ DOMAIN s \subseteq Position /\ DOMAIN t \subseteq Position
        /\ <<>> \in DOMAIN s
    BY DEF IsTerm
  <1>3. p \o <<>> = p
    BY <1>2 DEF Position
  <1>4. p \in DOMAIN m /\ m[p] = s[<<>>]
    BY <1>1, <1>2, <1>3 DEF Mutated
  <1>5. ASSUME NEW q \in Kept(t, p), NEW i \in 1..Len(Arguments[m[q]])
        PROVE  ReturnType[m[Append(q, i)]] = Arguments[m[q]][i]
    <2>1. q \in DOMAIN t /\ m[q] = t[q] /\ ~Below(q, p) /\ q \in Position
      BY <1>1, <1>2, <1>5 DEF Kept, Mutated
    <2>2. m[q] \in Symbol
      BY <2>1 DEF IsTerm
    <2>3. i \in Index
      BY <2>2, SignatureAssumption DEF Index
    <2>4. Append(q, i) \in DOMAIN t /\ ReturnType[t[Append(q, i)]] = Arguments[t[q]][i]
      BY <2>1 DEF IsTerm, WellTyped
    <2>5. CASE Below(Append(q, i), p)
      BY <1>2, <1>4, <2>1, <2>3, <2>4, <2>5, BelowEnter DEF get_type_shape
    <2>6. CASE ~Below(Append(q, i), p)
      BY <1>1, <2>1, <2>4, <2>6 DEF Kept, Mutated
    <2> QED
      BY <2>5, <2>6
  <1>6. ASSUME NEW r \in DOMAIN s, NEW i \in 1..Len(Arguments[m[p \o r]])
        PROVE  ReturnType[m[Append(p \o r, i)]] = Arguments[m[p \o r]][i]
    <2>1. m[p \o r] = s[r] /\ r \in Position
      BY <1>1, <1>2 DEF Mutated
    <2>2. m[p \o r] \in Symbol
      BY <2>1 DEF IsTerm
    <2>3. i \in Index
      BY <2>2, SignatureAssumption DEF Index
    <2>4. Append(r, i) \in DOMAIN s /\ ReturnType[s[Append(r, i)]] = Arguments[s[r]][i]
      BY <2>1 DEF IsTerm, WellTyped
    <2>5. Append(p \o r, i) = p \o Append(r, i)
      BY <1>2, <2>1, <2>3, ConcatAppend
    <2>6. m[p \o Append(r, i)] = s[Append(r, i)]
      BY <1>1, <2>4 DEF Mutated
    <2> QED
      BY <2>1, <2>4, <2>5, <2>6
  <1>7. ASSUME NEW q \in DOMAIN m
        PROVE  \A i \in 1..Len(Arguments[m[q]]) : ReturnType[m[Append(q, i)]] = Arguments[m[q]][i]
    <2>1. CASE q \in Kept(t, p)
      BY <1>5, <2>1
    <2>2. CASE q \in {p \o r : r \in DOMAIN s}
      <3>1. PICK r \in DOMAIN s : q = p \o r
        BY <2>2
      <3> QED
        BY <1>6, <3>1
    <2> QED
      BY <1>1, <2>1, <2>2 DEF Mutated
  <1> QED
    BY <1>7 DEF m, WellTyped

(* The positions of a subterm are those of the term below p, seen from p.  *)
Part(s, t, p) ==
    /\ DOMAIN s \subseteq Position
    /\ \A q \in Position : q \in DOMAIN s <=> p \o q \in DOMAIN t
    /\ \A q \in DOMAIN s : s[q] = t[p \o q]

(* subterm cuts out the part of a term below a position.                   *)
LEMMA SubtermPositions ==
    ASSUME NEW t, NEW p \in DOMAIN t, IsTerm(t)
    PROVE  Part(subterm(t, p), t, p)
  <1> DEFINE D == {SubSeq(r, Len(p) + 1, Len(r)) : r \in {r \in DOMAIN t : Below(r, p)}}
             s == subterm(t, p)
  <1>1. p \in Position /\ DOMAIN t \subseteq Position
    BY DEF IsTerm
  <1>2. s = [q \in D |-> t[p \o q]]
    BY DEF subterm
  <1>3. DOMAIN s = D /\ \A q \in DOMAIN s : s[q] = t[p \o q]
    BY <1>2
  <1>4. ASSUME NEW q \in D
        PROVE  q \in Position /\ p \o q \in DOMAIN t
    <2>1. PICK r \in DOMAIN t : Below(r, p) /\ q = SubSeq(r, Len(p) + 1, Len(r))
      BY <1>4
    <2> QED
      BY <1>1, <2>1, BelowSplit
  <1>5. ASSUME NEW q \in Position, p \o q \in DOMAIN t
        PROVE  q \in D
    <2>1. Below(p \o q, p) /\ q = SubSeq(p \o q, Len(p) + 1, Len(p \o q))
      BY <1>1, BelowConcat
    <2> QED
      BY <1>5, <2>1
  <1> HIDE DEF s, D
  <1> QED
    BY <1>3, <1>4, <1>5 DEF Part, s

(* A subterm is a term, well-typed if the whole term is.                   *)
LEMMA SubtermIsTerm ==
    ASSUME NEW t, NEW p \in DOMAIN t, IsTerm(t)
    PROVE  /\ IsTerm(subterm(t, p))
           /\ get_type_shape(subterm(t, p)) = ReturnType[t[p]]
           /\ WellTyped(t) => WellTyped(subterm(t, p))
           /\ Variables(subterm(t, p)) \subseteq Variables(t)
  <1> DEFINE s == subterm(t, p)
  <1>0. s = [q \in DOMAIN s |-> s[q]]
    BY DEF subterm
  <1>1. Part(s, t, p)
    BY SubtermPositions
  <1>2. p \in Position /\ DOMAIN t \subseteq Position
    BY DEF IsTerm
  <1>3. p \o <<>> = p /\ <<>> \in Position
    BY <1>2 DEF Position
  <1>4. IsFiniteSet(DOMAIN s)
    <2> DEFINE E == {r \in DOMAIN t : Below(r, p)}
               D == {SubSeq(r, Len(p) + 1, Len(r)) : r \in E}
               f == [r \in E |-> SubSeq(r, Len(p) + 1, Len(r))]
    <2>1. IsFiniteSet(E)
      BY FS_Subset DEF IsTerm
    <2>2. f \in Surjection(E, D)
      BY DEF Surjection
    <2>3. DOMAIN s = D
      BY DEF subterm
    <2> HIDE DEF E, D, f, s
    <2> QED
      BY <2>1, <2>2, <2>3, FS_Surjection
  <1> HIDE DEF s
  <1>5. <<>> \in DOMAIN s /\ s[<<>>] = t[p]
    BY <1>1, <1>3 DEF Part
  <1>6. ASSUME NEW q \in DOMAIN s
        PROVE  /\ s[q] \in Symbol
               /\ \A i \in 1..Len(Arguments[s[q]]) :
                     /\ Append(q, i) \in DOMAIN s
                     /\ WellTyped(t) => ReturnType[s[Append(q, i)]] = Arguments[s[q]][i]
               /\ q # <<>> => LET u == SubSeq(q, 1, Len(q) - 1)
                              IN  u \in DOMAIN s /\ q[Len(q)] <= Len(Arguments[s[u]])
    <2>1. q \in Position /\ p \o q \in DOMAIN t /\ s[q] = t[p \o q]
      BY <1>1 DEF Part
    <2>2. s[q] \in Symbol
      BY <2>1 DEF IsTerm
    <2>3. ASSUME NEW i \in 1..Len(Arguments[s[q]])
          PROVE  /\ Append(q, i) \in DOMAIN s
                 /\ WellTyped(t) => ReturnType[s[Append(q, i)]] = Arguments[s[q]][i]
      <3>1. Append(p \o q, i) \in DOMAIN t
        BY <2>1 DEF IsTerm
      <3>2. i \in Index
        BY <2>2, SignatureAssumption DEF Index
      <3>3. Append(p \o q, i) = p \o Append(q, i)
        BY <1>2, <2>1, <3>2, ConcatAppend
      <3>4. Append(q, i) \in Position
        BY <2>1, <3>2 DEF Position, Index
      <3>5. Append(q, i) \in DOMAIN s /\ s[Append(q, i)] = t[Append(p \o q, i)]
        BY <1>1, <3>1, <3>3, <3>4 DEF Part
      <3>6. WellTyped(t) => ReturnType[t[Append(p \o q, i)]] = Arguments[t[p \o q]][i]
        BY <2>1 DEF WellTyped
      <3> QED
        BY <2>1, <3>5, <3>6
    <2>4. ASSUME q # <<>>
          PROVE  LET u == SubSeq(q, 1, Len(q) - 1)
                 IN  u \in DOMAIN s /\ q[Len(q)] <= Len(Arguments[s[u]])
      <3> DEFINE u == SubSeq(q, 1, Len(q) - 1)
                 j == q[Len(q)]
      <3>1. u \in Position /\ j \in Index /\ q = Append(u, j)
        BY <2>1, <2>4, LastStep
      <3> HIDE DEF u, j
      <3>2. p \o q = Append(p \o u, j) /\ p \o u \in Position
        BY <1>2, <3>1, ConcatAppend, BelowConcat
      <3>3. /\ p \o q # <<>>
            /\ SubSeq(p \o q, 1, Len(p \o q) - 1) = p \o u /\ (p \o q)[Len(p \o q)] = j
        BY <3>1, <3>2 DEF Position, Index
      <3>4. p \o u \in DOMAIN t /\ j <= Len(Arguments[t[p \o u]])
        BY <2>1, <3>3 DEF IsTerm
      <3>5. u \in DOMAIN s /\ s[u] = t[p \o u]
        BY <1>1, <3>1, <3>4 DEF Part
      <3> QED
        BY <3>4, <3>5 DEF u, j
    <2> QED
      BY <2>2, <2>3, <2>4
  <1>7. IsTerm(s)
    BY <1>0, <1>1, <1>4, <1>5, <1>6 DEF IsTerm, Part
  <1>8. WellTyped(t) => WellTyped(s)
    BY <1>6 DEF WellTyped
  <1>9. Variables(s) \subseteq Variables(t)
    BY <1>1 DEF Variables, Part
  <1> QED
    BY <1>5, <1>7, <1>8, <1>9 DEF s, get_type_shape

(* Replacing a subterm brings in no variables but those of the new one.    *)
LEMMA MutateVariables ==
    ASSUME NEW t, NEW p \in DOMAIN t, NEW s, IsTerm(t), IsTerm(s)
    PROVE  Variables(mutate(t, p, s)) \subseteq Variables(t) \cup Variables(s)
  <1> DEFINE m == mutate(t, p, s)
  <1>1. Mutated(m, t, p, s)
    BY MutatePositions
  <1> HIDE DEF m
  <1>2. \A q \in DOMAIN m : m[q] \in {t[u] : u \in DOMAIN t} \cup {s[u] : u \in DOMAIN s}
    BY <1>1 DEF Mutated, Kept
  <1>3. Variables(m) \subseteq Variables(t) \cup Variables(s)
    BY <1>2 DEF Variables
  <1> QED
    BY <1>3 DEF m

-----------------------------------------------------------------------------
(* Traces                                                                  *)

Term == {t \in UNION {[D -> Symbol] : D \in SUBSET Position} : IsTerm(t)}

TraceStep == [agent : Agent, recipe : Term \cup {NoRecipe}]

(* The terms are a set.                                                    *)
LEMMA TermsAreASet ==
    ASSUME NEW t
    PROVE  IsTerm(t) <=> t \in Term
  <1>1. ASSUME IsTerm(t)
        PROVE  t \in [DOMAIN t -> Symbol] /\ DOMAIN t \in SUBSET Position
    <2>1. t = [q \in DOMAIN t |-> t[q]] /\ \A q \in DOMAIN t : t[q] \in Symbol
      BY <1>1 DEF IsTerm
    <2>2. t \in [DOMAIN t -> Symbol]
      BY <2>1
    <2> QED
      BY <1>1, <2>2 DEF IsTerm
  <1> QED
    BY <1>1 DEF Term

(* The empty sequence that stands for no recipe is not a term.             *)
LEMMA NoRecipeIsNoTerm == ~IsTerm(NoRecipe) /\ WellTyped(NoRecipe) /\ Variables(NoRecipe) = {}
  <1>1. DOMAIN NoRecipe = {}
    BY DEF NoRecipe
  <1> QED
    BY <1>1 DEF IsTerm, WellTyped, Variables

(* The traces are the sequences of steps.                                  *)
LEMMA TracesAreSequences ==
    ASSUME NEW trace
    PROVE  IsTrace(trace) <=> trace \in Seq(TraceStep)
  <1>1. ASSUME IsTrace(trace)
        PROVE  trace \in Seq(TraceStep)
    <2>1. /\ Len(trace) \in Nat
          /\ trace = [k \in 1..Len(trace) |-> [agent |-> trace[k].agent, recipe |-> trace[k].recipe]]
      BY <1>1 DEF IsTrace
    <2>2. ASSUME NEW k \in 1..Len(trace)
          PROVE  [agent |-> trace[k].agent, recipe |-> trace[k].recipe] \in TraceStep
      BY <1>1, TermsAreASet DEF IsTrace, TraceStep
    <2>3. [k \in 1..Len(trace) |-> [agent |-> trace[k].agent, recipe |-> trace[k].recipe]]
             \in [1..Len(trace) -> TraceStep]
      BY <2>2
    <2> QED
      BY <2>1, <2>3
  <1>2. ASSUME trace \in Seq(TraceStep)
        PROVE  IsTrace(trace)
    <2>1. \A k \in 1..Len(trace) : trace[k] \in TraceStep
      BY <1>2
    <2>2. \A k \in 1..Len(trace) :
             trace[k] = [agent |-> trace[k].agent, recipe |-> trace[k].recipe]
      BY <2>1 DEF TraceStep
    <2>3. Len(trace) \in Nat /\ trace = [k \in 1..Len(trace) |-> trace[k]]
      BY <1>2
    <2>4. trace = [k \in 1..Len(trace) |-> [agent |-> trace[k].agent, recipe |-> trace[k].recipe]]
      BY <2>2, <2>3
    <2>5. \A k \in 1..Len(trace) : /\ trace[k].agent \in Agent
                                   /\ trace[k].recipe = NoRecipe \/ IsTerm(trace[k].recipe)
      BY <2>1, TermsAreASet DEF TraceStep
    <2> QED
      BY <2>3, <2>4, <2>5 DEF IsTrace
  <1> QED
    BY <1>1, <1>2

(* The variables, the agents and the well-typedness of a trace.            *)
Vars(trace) == UNION {Variables(trace[k].recipe) : k \in DOMAIN trace}
Typed(trace) == \A k \in DOMAIN trace : WellTyped(trace[k].recipe)

(* new is a trace, and its agents and variables are those of old.          *)
Derived(new, old) ==
    /\ new \in Seq(TraceStep)
    /\ \A k \in DOMAIN new : \E l \in DOMAIN old : new[k].agent = old[l].agent
    /\ Vars(new) \subseteq Vars(old)

(* A path of the trace leads to a subterm of a recipe.                     *)
LEMMA PathsLeadToTerms ==
    ASSUME steps \in Seq(TraceStep), NEW a \in TracePath
    PROVE  /\ a = <<a[1], a[2]>>
           /\ a[1] \in DOMAIN steps
           /\ IsTerm(steps[a[1]].recipe)
           /\ a[2] \in DOMAIN steps[a[1]].recipe
  <1>1. PICK k \in DOMAIN steps : Mutable(steps[k].recipe) /\ a \in {<<k, p>> : p \in DOMAIN steps[k].recipe}
    BY DEF TracePath
  <1>2. PICK p \in DOMAIN steps[k].recipe : a = <<k, p>>
    BY <1>1
  <1>3. steps[k] \in TraceStep /\ steps[k].recipe # NoRecipe
    BY <1>1 DEF Mutable
  <1>4. IsTerm(steps[k].recipe)
    BY <1>3, TermsAreASet DEF TraceStep
  <1> QED
    BY <1>1, <1>2, <1>4

(* new is trace with the recipe of its k-th step replaced by r.            *)
Replaced(new, trace, k, r) ==
    /\ new \in Seq(TraceStep)
    /\ DOMAIN new = DOMAIN trace /\ Len(new) = Len(trace)
    /\ new[k].recipe = r /\ new[k].agent = trace[k].agent
    /\ \A l \in DOMAIN trace : l # k => new[l] = trace[l]

(* Replacing a recipe by a term.                                           *)
LEMMA RecipeReplaced ==
    ASSUME NEW trace \in Seq(TraceStep), NEW k \in DOMAIN trace, NEW r, IsTerm(r)
    PROVE  Replaced([trace EXCEPT ![k].recipe = r], trace, k, r)
  <1> DEFINE new == [trace EXCEPT ![k].recipe = r]
  <1>1. r \in Term
    BY TermsAreASet
  <1>2. trace[k] \in TraceStep
    OBVIOUS
  <1>3. new = [trace EXCEPT ![k] = [trace[k] EXCEPT !.recipe = r]]
    OBVIOUS
  <1> HIDE DEF new
  <1>4. [trace[k] EXCEPT !.recipe = r] \in TraceStep
    BY <1>1, <1>2 DEF TraceStep
  <1>5. /\ new \in Seq(TraceStep)
        /\ DOMAIN new = DOMAIN trace /\ Len(new) = Len(trace)
        /\ new[k] = [trace[k] EXCEPT !.recipe = r]
        /\ \A l \in DOMAIN trace : l # k => new[l] = trace[l]
    BY <1>3, <1>4
  <1>6. new[k].recipe = r /\ new[k].agent = trace[k].agent
    BY <1>2, <1>5 DEF TraceStep
  <1> QED
    BY <1>5, <1>6 DEF new, Replaced

(* What a replaced recipe preserves of a trace.                            *)
LEMMA ReplacedDerives ==
    ASSUME NEW trace, NEW k \in DOMAIN trace, NEW r, NEW new, Replaced(new, trace, k, r),
           NEW old, Derived(trace, old), Variables(r) \subseteq Vars(old)
    PROVE  /\ Derived(new, old)
           /\ Typed(trace) /\ WellTyped(r) => Typed(new)
  <1>1. \A l \in DOMAIN trace : Variables(trace[l].recipe) \subseteq Vars(old)
    BY DEF Derived, Vars
  <1>2. \A l \in DOMAIN new : Variables(new[l].recipe) \subseteq Vars(old)
    BY <1>1 DEF Replaced
  <1>3. Vars(new) \subseteq Vars(old)
    BY <1>2 DEF Vars
  <1>4. \A l \in DOMAIN new : l \in DOMAIN trace /\ new[l].agent = trace[l].agent
    BY DEF Replaced
  <1>5. new \in Seq(TraceStep)
    BY DEF Replaced
  <1>6. \A l \in DOMAIN new : \E n \in DOMAIN old : new[l].agent = old[n].agent
    BY <1>4 DEF Derived
  <1>7. Derived(new, old)
    BY <1>3, <1>5, <1>6 DEF Derived
  <1>8. Typed(trace) /\ WellTyped(r) => Typed(new)
    BY DEF Typed, Replaced
  <1> QED
    BY <1>7, <1>8

(* The same for Put: if the new term brings in no variables, neither does  *)
(* the new trace, and if it fits, the trace stays well-typed.              *)
LEMMA PutDerives ==
    ASSUME NEW trace \in Seq(TraceStep), NEW k \in DOMAIN trace, NEW p, NEW s,
           IsTerm(trace[k].recipe), p \in DOMAIN trace[k].recipe, IsTerm(s),
           NEW old, Derived(trace, old), Variables(s) \subseteq Vars(old)
    PROVE  LET new == Put(trace, <<k, p>>, s)
           IN  /\ Derived(new, old)
               /\ DOMAIN new = DOMAIN trace /\ Len(new) = Len(trace)
               /\ new[k].recipe = mutate(trace[k].recipe, p, s)
               /\ \A l \in DOMAIN trace : l # k => new[l] = trace[l]
               /\ (Typed(trace) /\ WellTyped(s) /\ get_type_shape(s) = ReturnType[trace[k].recipe[p]])
                     => Typed(new)
  <1> DEFINE new == Put(trace, <<k, p>>, s)
             r == mutate(trace[k].recipe, p, s)
  <1>1. IsTerm(r)
    BY MutateIsTerm
  <1>2. Variables(r) \subseteq Vars(old)
    <2>1. Variables(trace[k].recipe) \subseteq Vars(old)
      BY DEF Derived, Vars
    <2> QED
      BY <2>1, MutateVariables
  <1>3. (WellTyped(trace[k].recipe) /\ WellTyped(s) /\ get_type_shape(s) = ReturnType[trace[k].recipe[p]])
          => WellTyped(r)
    BY MutateWellTyped
  <1>4. Typed(trace) => WellTyped(trace[k].recipe)
    BY DEF Typed
  <1>5. new = [trace EXCEPT ![k].recipe = r]
    BY DEF Put
  <1> HIDE DEF r, new
  <1>6. Replaced(new, trace, k, r)
    BY <1>1, <1>5, RecipeReplaced
  <1>7. Derived(new, old) /\ (Typed(trace) /\ WellTyped(r) => Typed(new))
    BY <1>2, <1>6, ReplacedDerives
  <1> QED
    BY <1>3, <1>4, <1>6, <1>7 DEF r, new, Replaced

(* Replacing a symbol by a function of the same shape.                     *)
LEMMA SymbolReplaced ==
    ASSUME NEW t, IsTerm(t), NEW p \in DOMAIN t, NEW f \in Function,
           ReturnType[f] = ReturnType[t[p]], Arguments[f] = Arguments[t[p]]
    PROVE  LET m == [t EXCEPT ![p] = f]
           IN  /\ IsTerm(m)
               /\ WellTyped(t) => WellTyped(m)
               /\ Variables(m) \subseteq Variables(t)
  <1> DEFINE m == [t EXCEPT ![p] = f]
  <1>1. /\ m = [q \in DOMAIN m |-> m[q]] /\ DOMAIN m = DOMAIN t
        /\ \A q \in DOMAIN t : m[q] = IF q = p THEN f ELSE t[q]
    OBVIOUS
  <1>2. f \in Symbol /\ f \notin Variable
    BY SignatureAssumption DEF Symbol
  <1> HIDE DEF m
  <1>3. \A q \in DOMAIN t : /\ Arguments[m[q]] = Arguments[t[q]]
                            /\ ReturnType[m[q]] = ReturnType[t[q]]
                            /\ t[q] \in Symbol => m[q] \in Symbol
    BY <1>1, <1>2
  <1>4. IsTerm(m)
    BY <1>1, <1>3 DEF IsTerm
  <1>5. WellTyped(t) => WellTyped(m)
    BY <1>1, <1>3 DEF WellTyped, IsTerm
  <1>6. Variables(m) \subseteq Variables(t)
    BY <1>1, <1>2 DEF Variables
  <1> QED
    BY <1>4, <1>5, <1>6 DEF m

(* A sequence of steps of a trace is a trace like it.                      *)
LEMMA SameSteps ==
    ASSUME NEW old \in Seq(TraceStep), NEW new \in Seq(TraceStep),
           \A k \in DOMAIN new : \E l \in DOMAIN old : new[k] = old[l]
    PROVE  Derived(new, old) /\ (Typed(old) => Typed(new))
  <1>1. Vars(new) \subseteq Vars(old)
    BY DEF Vars
  <1>2. Typed(old) => Typed(new)
    BY DEF Typed
  <1> QED
    BY <1>1, <1>2 DEF Derived

(* A trace is like itself.                                                 *)
LEMMA SelfDerived ==
    ASSUME NEW trace \in Seq(TraceStep)
    PROVE  Derived(trace, trace)
  BY DEF Derived

(* The subterm at a path of the trace.                                     *)
LEMMA SubtermAt ==
    ASSUME steps \in Seq(TraceStep), NEW a \in TracePath
    PROVE  /\ IsTerm(TermAt(a)) /\ get_type_shape(TermAt(a)) = TypeAt(a)
           /\ Typed(steps) => WellTyped(TermAt(a))
           /\ Variables(TermAt(a)) \subseteq Vars(steps)
  <1> DEFINE t == steps[a[1]].recipe
  <1>1. a[1] \in DOMAIN steps /\ IsTerm(t) /\ a[2] \in DOMAIN t
    BY PathsLeadToTerms
  <1>2. Variables(t) \subseteq Vars(steps) /\ (Typed(steps) => WellTyped(t))
    BY <1>1 DEF Vars, Typed
  <1> QED
    BY <1>1, <1>2, SubtermIsTerm DEF TermAt, TypeAt

-----------------------------------------------------------------------------
(* The mutators                                                            *)

(* What a mutation must preserve of the trace.                             *)
Preserves ==
    /\ Derived(steps', steps)
    /\ Typed(steps) => Typed(steps')

(* RepeatMutator inserts a copy of a step.                                 *)
LEMMA RepeatPreserves ==
    ASSUME steps \in Seq(TraceStep), Repeat
    PROVE  /\ Preserves /\ Len(steps') = Len(steps) + 1
           /\ \A j \in DOMAIN steps' : \E l \in DOMAIN steps : steps'[j] = steps[l]
  <1>1. PICK i \in 0..Len(steps), k \in 1..Len(steps) :
            steps' = SubSeq(steps, 1, i) \o <<steps[k]>> \o SubSeq(steps, i + 1, Len(steps))
    BY DEF Repeat
  <1> DEFINE front == SubSeq(steps, 1, i)
             back == SubSeq(steps, i + 1, Len(steps))
  <1>2. /\ front \in Seq(TraceStep) /\ Len(front) = i
        /\ \A j \in 1..i : front[j] = steps[j]
    OBVIOUS
  <1>3. /\ back \in Seq(TraceStep) /\ Len(back) = Len(steps) - i
        /\ \A j \in 1..(Len(steps) - i) : back[j] = steps[i + j]
    OBVIOUS
  <1>4. <<steps[k]>> \in Seq(TraceStep) /\ Len(<<steps[k]>>) = 1 /\ <<steps[k]>>[1] = steps[k]
    OBVIOUS
  <1> HIDE DEF front, back
  <1>5. steps' = front \o <<steps[k]>> \o back
    BY <1>1 DEF front, back
  <1>6. steps' \in Seq(TraceStep) /\ Len(steps') = Len(steps) + 1
    BY <1>2, <1>3, <1>4, <1>5
  <1>7. ASSUME NEW j \in DOMAIN steps'
        PROVE  \E l \in DOMAIN steps : steps'[j] = steps[l]
    <2>1. j \in 1..(Len(steps) + 1)
      BY <1>6
    <2>2. CASE j <= i
      BY <1>2, <1>3, <1>4, <1>5, <2>1, <2>2
    <2>3. CASE j = i + 1
      <3>1. steps'[j] = steps[k]
        BY <1>2, <1>3, <1>4, <1>5, <2>1, <2>3
      <3> QED
        BY <3>1
    <2>4. CASE j > i + 1
      <3>1. steps'[j] = back[j - i - 1] /\ j - i - 1 \in 1..(Len(steps) - i)
        BY <1>2, <1>3, <1>4, <1>5, <2>1, <2>4
      <3>2. back[j - i - 1] = steps[j - 1]
        BY <1>3, <2>1, <3>1
      <3>3. j - 1 \in DOMAIN steps
        BY <2>1, <2>4
      <3> QED
        BY <3>1, <3>2, <3>3
    <2> QED
      BY <2>1, <2>2, <2>3, <2>4
  <1> QED
    BY <1>6, <1>7, SameSteps DEF Preserves

(* SkipMutator removes a step.                                             *)
LEMMA SkipPreserves ==
    ASSUME steps \in Seq(TraceStep), Skip
    PROVE  /\ Preserves /\ Len(steps') = Len(steps) - 1
           /\ \A j \in DOMAIN steps' : \E l \in DOMAIN steps : steps'[j] = steps[l]
  <1>1. PICK i \in 1..Len(steps) :
            steps' = SubSeq(steps, 1, i - 1) \o SubSeq(steps, i + 1, Len(steps))
    BY DEF Skip
  <1> DEFINE front == SubSeq(steps, 1, i - 1)
             back == SubSeq(steps, i + 1, Len(steps))
  <1>2. /\ front \in Seq(TraceStep) /\ Len(front) = i - 1
        /\ \A j \in 1..(i - 1) : front[j] = steps[j]
    OBVIOUS
  <1>3. /\ back \in Seq(TraceStep) /\ Len(back) = Len(steps) - i
        /\ \A j \in 1..(Len(steps) - i) : back[j] = steps[i + j]
    OBVIOUS
  <1> HIDE DEF front, back
  <1>4. steps' = front \o back
    BY <1>1 DEF front, back
  <1>5. steps' \in Seq(TraceStep) /\ Len(steps') = Len(steps) - 1
    BY <1>2, <1>3, <1>4
  <1>6. ASSUME NEW j \in DOMAIN steps'
        PROVE  \E l \in DOMAIN steps : steps'[j] = steps[l]
    <2>1. j \in 1..(Len(steps) - 1)
      BY <1>5
    <2>2. CASE j < i
      <3>1. steps'[j] = front[j] /\ j \in 1..(i - 1)
        BY <1>2, <1>3, <1>4, <2>1, <2>2
      <3> QED
        BY <1>2, <3>1
    <2>3. CASE j >= i
      <3>1. steps'[j] = back[j - i + 1] /\ j - i + 1 \in 1..(Len(steps) - i)
        BY <1>2, <1>3, <1>4, <2>1, <2>3
      <3> QED
        BY <1>3, <2>1, <2>3, <3>1
    <2> QED
      BY <2>1, <2>2, <2>3
  <1> QED
    BY <1>5, <1>6, SameSteps DEF Preserves

(* ReplaceReuseMutator puts in a term of the trace, of the same type.      *)
LEMMA ReplaceReusePreserves ==
    ASSUME steps \in Seq(TraceStep), ReplaceReuse
    PROVE  Preserves /\ Len(steps') = Len(steps)
  <1>1. PICK a \in TracePath, b \in TracePath : TypeAt(a) = TypeAt(b) /\ steps' = Put(steps, b, TermAt(a))
    BY DEF ReplaceReuse
  <1>2. IsTerm(TermAt(a)) /\ get_type_shape(TermAt(a)) = TypeAt(b)
        /\ (Typed(steps) => WellTyped(TermAt(a))) /\ Variables(TermAt(a)) \subseteq Vars(steps)
    BY <1>1, SubtermAt
  <1>3. /\ b = <<b[1], b[2]>> /\ b[1] \in DOMAIN steps
        /\ IsTerm(steps[b[1]].recipe) /\ b[2] \in DOMAIN steps[b[1]].recipe
    BY PathsLeadToTerms
  <1> QED
    BY <1>1, <1>2, <1>3, PutDerives, SelfDerived DEF Preserves, TypeAt

(* ReplaceMatchMutator puts in a function symbol of the same shape.        *)
LEMMA ReplaceMatchPreserves ==
    ASSUME steps \in Seq(TraceStep), ReplaceMatch
    PROVE  Preserves /\ Len(steps') = Len(steps)
  <1>1. PICK a \in TracePath, f \in Function :
            /\ ReturnType[f] = ReturnType[steps[a[1]].recipe[a[2]]]
            /\ Arguments[f] = Arguments[steps[a[1]].recipe[a[2]]]
            /\ steps' = [steps EXCEPT ![a[1]].recipe = [@ EXCEPT ![a[2]] = f]]
    BY DEF ReplaceMatch
  <1> DEFINE t == steps[a[1]].recipe
             m == [t EXCEPT ![a[2]] = f]
  <1>2. a[1] \in DOMAIN steps /\ IsTerm(t) /\ a[2] \in DOMAIN t
    BY PathsLeadToTerms
  <1>3. IsTerm(m) /\ (WellTyped(t) => WellTyped(m)) /\ Variables(m) \subseteq Variables(t)
    BY <1>1, <1>2, SymbolReplaced
  <1>4. steps' = [steps EXCEPT ![a[1]].recipe = m]
    BY <1>1
  <1>5. Variables(t) \subseteq Vars(steps) /\ (Typed(steps) => WellTyped(t))
    BY <1>2 DEF Vars, Typed
  <1> HIDE DEF t, m
  <1> QED
    <2>1. Variables(m) \subseteq Vars(steps) /\ Derived(steps, steps)
      BY <1>3, <1>5, SelfDerived
    <2>2. Replaced(steps', steps, a[1], m)
      BY <1>2, <1>3, <1>4, RecipeReplaced
    <2>3. Derived(steps', steps) /\ (Typed(steps) /\ WellTyped(m) => Typed(steps'))
      BY <1>2, <2>1, <2>2, ReplacedDerives
    <2> QED
      BY <1>3, <1>5, <2>2, <2>3 DEF Preserves, Replaced

(* RemoveAndLiftMutator puts in a part of the term it replaces.            *)
LEMMA RemoveAndLiftPreserves ==
    ASSUME steps \in Seq(TraceStep), RemoveAndLift
    PROVE  Preserves /\ Len(steps') = Len(steps)
  <1>1. PICK a \in TracePath : \E i \in 1..Len(Arguments[steps[a[1]].recipe[a[2]]]) :
              \E j \in 1..Len(Arguments[steps[a[1]].recipe[Append(a[2], i)]]) :
                 LET old == steps[a[1]].recipe
                     child == Append(a[2], i)
                 IN  /\ ReturnType[old[Append(child, j)]] = ReturnType[old[child]]
                     /\ steps' = Put(steps, <<a[1], child>>, subterm(old, Append(child, j)))
    BY DEF RemoveAndLift
  <1> DEFINE old == steps[a[1]].recipe
  <1>2. a[1] \in DOMAIN steps /\ IsTerm(old) /\ a[2] \in DOMAIN old
    BY PathsLeadToTerms
  <1>3. PICK i \in 1..Len(Arguments[old[a[2]]]) : \E j \in 1..Len(Arguments[old[Append(a[2], i)]]) :
                 LET child == Append(a[2], i)
                 IN  /\ ReturnType[old[Append(child, j)]] = ReturnType[old[child]]
                     /\ steps' = Put(steps, <<a[1], child>>, subterm(old, Append(child, j)))
    BY <1>1
  <1> DEFINE child == Append(a[2], i)
  <1>4. PICK j \in 1..Len(Arguments[old[child]]) :
                     /\ ReturnType[old[Append(child, j)]] = ReturnType[old[child]]
                     /\ steps' = Put(steps, <<a[1], child>>, subterm(old, Append(child, j)))
    BY <1>3
  <1> DEFINE s == subterm(old, Append(child, j))
  <1>5. child \in DOMAIN old
    BY <1>2, <1>3 DEF IsTerm
  <1> HIDE DEF child
  <1>6. Append(child, j) \in DOMAIN old
    BY <1>2, <1>4, <1>5 DEF IsTerm
  <1>7. IsTerm(s) /\ get_type_shape(s) = ReturnType[old[child]]
        /\ (WellTyped(old) => WellTyped(s)) /\ Variables(s) \subseteq Variables(old)
    BY <1>2, <1>4, <1>6, SubtermIsTerm
  <1>8. Variables(old) \subseteq Vars(steps) /\ (Typed(steps) => WellTyped(old))
    BY <1>2 DEF Vars, Typed
  <1> HIDE DEF s
  <1> QED
    BY <1>2, <1>4, <1>5, <1>7, <1>8, PutDerives, SelfDerived DEF Preserves, s

(* GenerateMutator puts in a term of the zoo, which has no variables.      *)
LEMMA GeneratePreserves ==
    ASSUME steps \in Seq(TraceStep), zoo = {} \/ zoo \in Zoos, Generate
    PROVE  /\ Preserves /\ Len(steps') = Len(steps)
           /\ zoo' \in Zoos
           /\ mutation_counter' = (mutation_counter + 1) % refresh_zoo_after
  <1>1. PICK a \in TracePath :
        /\ mutation_counter' = (mutation_counter + 1) % refresh_zoo_after
        /\ zoo' \in IF mutation_counter' = 0 \/ zoo = {} THEN Zoos ELSE {zoo}
        /\ \/ \E t \in zoo' : get_type_shape(t) = TypeAt(a) /\ steps' = Put(steps, a, t)
           \/ UNCHANGED steps
    BY DEF Generate
  <1>2. zoo' \in Zoos
    BY <1>1
  <1>3. ASSUME UNCHANGED steps
        PROVE  Preserves /\ Len(steps') = Len(steps)
    BY <1>3, SelfDerived DEF Preserves
  <1>4. ASSUME NEW t \in zoo', get_type_shape(t) = TypeAt(a), steps' = Put(steps, a, t)
        PROVE  Preserves /\ Len(steps') = Len(steps)
    <2>1. IsTerm(t) /\ WellTyped(t) /\ Variables(t) = {}
      BY <1>2, MutationsAssumption
    <2>2. /\ a = <<a[1], a[2]>> /\ a[1] \in DOMAIN steps
          /\ IsTerm(steps[a[1]].recipe) /\ a[2] \in DOMAIN steps[a[1]].recipe
      BY PathsLeadToTerms
    <2> QED
      BY <1>4, <2>1, <2>2, PutDerives, SelfDerived DEF Preserves, TypeAt
  <1>5. Preserves /\ Len(steps') = Len(steps)
    <2>1. CASE \E t \in zoo' : get_type_shape(t) = TypeAt(a) /\ steps' = Put(steps, a, t)
      BY <1>4, <2>1
    <2> QED
      BY <1>1, <1>3, <2>1
  <1> QED
    BY <1>1, <1>2, <1>5

(* Swap replaces twice.  The second time, the path of the first term leads *)
(* to a term of the right type if the first term is not part of the other. *)
LEMMA SwapPreserves ==
    ASSUME steps \in Seq(TraceStep), Swap
    PROVE  /\ Derived(steps', steps) /\ Len(steps') = Len(steps)
           /\ Typed(steps) => Typed(steps') \/ NestedSwap
  <1>1. PICK a \in TracePath, b \in TracePath : TypeAt(a) = TypeAt(b) /\ steps' = swap(a, b)
    BY DEF Swap
  <1> DEFINE trace == Put(steps, b, TermAt(a))
  <1>2. /\ IsTerm(TermAt(a)) /\ get_type_shape(TermAt(a)) = TypeAt(b)
        /\ Typed(steps) => WellTyped(TermAt(a))
        /\ Variables(TermAt(a)) \subseteq Vars(steps)
    BY <1>1, SubtermAt
  <1>3. /\ IsTerm(TermAt(b)) /\ get_type_shape(TermAt(b)) = TypeAt(a)
        /\ Typed(steps) => WellTyped(TermAt(b))
        /\ Variables(TermAt(b)) \subseteq Vars(steps)
    BY <1>1, SubtermAt
  <1>4. /\ b = <<b[1], b[2]>> /\ b[1] \in DOMAIN steps
        /\ IsTerm(steps[b[1]].recipe) /\ b[2] \in DOMAIN steps[b[1]].recipe
    BY PathsLeadToTerms
  <1>5. /\ a = <<a[1], a[2]>> /\ a[1] \in DOMAIN steps
        /\ IsTerm(steps[a[1]].recipe) /\ a[2] \in DOMAIN steps[a[1]].recipe
    BY PathsLeadToTerms
  <1>6. /\ Derived(trace, steps) /\ DOMAIN trace = DOMAIN steps /\ Len(trace) = Len(steps)
        /\ trace[b[1]].recipe = mutate(steps[b[1]].recipe, b[2], TermAt(a))
        /\ \A l \in DOMAIN steps : l # b[1] => trace[l] = steps[l]
        /\ Typed(steps) => Typed(trace)
    BY <1>2, <1>4, PutDerives, SelfDerived DEF TypeAt
  <1>7. steps' = IF a[2] \in DOMAIN trace[a[1]].recipe THEN Put(trace, a, TermAt(b)) ELSE trace
    BY <1>1 DEF swap
  <1> HIDE DEF trace
  <1>8. CASE a[2] \notin DOMAIN trace[a[1]].recipe
    BY <1>6, <1>7, <1>8
  <1>9. CASE a[2] \in DOMAIN trace[a[1]].recipe
    <2>1. trace \in Seq(TraceStep) /\ a[1] \in DOMAIN trace
      BY <1>5, <1>6 DEF Derived
    <2>2. IsTerm(trace[a[1]].recipe)
      <3>1. trace[a[1]] \in TraceStep
        BY <2>1
      <3>2. trace[a[1]].recipe # NoRecipe
        BY <1>9 DEF NoRecipe
      <3> QED
        BY <3>1, <3>2, TermsAreASet DEF TraceStep
    <2>3. /\ Derived(steps', steps) /\ Len(steps') = Len(trace)
          /\ (Typed(trace) /\ WellTyped(TermAt(b)) /\ TypeAt(a) = ReturnType[trace[a[1]].recipe[a[2]]])
                => Typed(steps')
      BY <1>3, <1>5, <1>6, <1>7, <1>9, <2>1, <2>2, PutDerives
    <2>4. CASE a[1] # b[1]
      <3>1. TypeAt(a) = ReturnType[trace[a[1]].recipe[a[2]]]
        BY <1>5, <1>6, <2>4 DEF TypeAt
      <3> QED
        BY <1>3, <1>6, <2>3, <3>1
    <2>5. CASE a[1] = b[1]
      <3> DEFINE t == steps[b[1]].recipe
                 m == trace[b[1]].recipe
      <3>1. Mutated(m, t, b[2], TermAt(a))
        BY <1>2, <1>4, <1>6, MutatePositions
      <3>2. CASE ~Below(a[2], b[2])
        <4>1. m[a[2]] = t[a[2]]
          BY <1>5, <2>5, <3>1, <3>2 DEF Mutated, Kept
        <4> QED
          BY <1>3, <1>6, <2>3, <2>5, <4>1 DEF TypeAt
      <3>3. CASE a[2] = b[2]
        <4>1. <<>> \in DOMAIN TermAt(a) /\ b[2] \in Position
          BY <1>2, <1>4 DEF IsTerm
        <4>2. b[2] \o <<>> = b[2]
          BY <4>1 DEF Position
        <4>3. m[b[2]] = TermAt(a)[<<>>]
          BY <3>1, <4>1, <4>2 DEF Mutated
        <4>4. TypeAt(a) = ReturnType[trace[a[1]].recipe[a[2]]]
          BY <1>1, <1>2, <2>5, <3>3, <4>3 DEF get_type_shape
        <4> QED
          BY <1>3, <1>6, <2>3, <4>4
      <3>4. CASE Below(a[2], b[2]) /\ a[2] # b[2]
        <4>1. NestedSwap
          BY <1>1, <2>5, <3>4 DEF NestedSwap
        <4> QED
          BY <1>6, <2>3, <4>1
      <3> QED
        BY <3>2, <3>3, <3>4
    <2> QED
      BY <1>6, <2>3, <2>4, <2>5
  <1> QED
    BY <1>8, <1>9

-----------------------------------------------------------------------------
(* The theorems                                                            *)

(* TypeOK with the traces as a set.                                        *)
LEMMA TypeOKForm ==
    TypeOK <=> /\ steps \in Seq(TraceStep)
               /\ zoo = {} \/ zoo \in Zoos
               /\ mutation_counter \in 0..(refresh_zoo_after - 1)
  BY TracesAreSequences DEF TypeOK

(* What every step does to the trace.                                      *)
LEMMA StepPreserves ==
    ASSUME TypeOK, Next
    PROVE  /\ TypeOK'
           /\ Derived(steps', steps)
           /\ Typed(steps) => Typed(steps') \/ NestedSwap
           /\ \/ Len(steps') = Len(steps)
              \/ Len(steps) < max_trace_length /\ Len(steps') = Len(steps) + 1
              \/ Len(steps) > min_trace_length /\ Len(steps') = Len(steps) - 1
  <1>1. /\ steps \in Seq(TraceStep)
        /\ zoo = {} \/ zoo \in Zoos
        /\ mutation_counter \in 0..(refresh_zoo_after - 1)
    BY TypeOKForm
  <1> DEFINE Result ==
             /\ Derived(steps', steps)
             /\ Typed(steps) => Typed(steps') \/ NestedSwap
             /\ \/ Len(steps') = Len(steps)
                \/ Len(steps) < max_trace_length /\ Len(steps') = Len(steps) + 1
                \/ Len(steps) > min_trace_length /\ Len(steps') = Len(steps) - 1
             /\ zoo' = {} \/ zoo' \in Zoos
             /\ mutation_counter' \in 0..(refresh_zoo_after - 1)
  <1> SUFFICES Result
    <2>1. ASSUME Result PROVE IsTrace(steps')
      BY <2>1, TracesAreSequences DEF Derived
    <2> QED
      BY <2>1 DEF TypeOK, IsTrace
  <1>2. CASE Repeat
    BY <1>1, <1>2, RepeatPreserves DEF Preserves, Repeat
  <1>3. CASE Skip
    BY <1>1, <1>3, SkipPreserves DEF Preserves, Skip
  <1>4. CASE ReplaceReuse
    BY <1>1, <1>4, ReplaceReusePreserves DEF Preserves, ReplaceReuse
  <1>5. CASE ReplaceMatch
    BY <1>1, <1>5, ReplaceMatchPreserves DEF Preserves, ReplaceMatch
  <1>6. CASE RemoveAndLift
    BY <1>1, <1>6, RemoveAndLiftPreserves DEF Preserves, RemoveAndLift
  <1>7. CASE Generate
    <2>1. (mutation_counter + 1) % refresh_zoo_after \in 0..(refresh_zoo_after - 1)
      BY <1>1, MutationsAssumption
    <2> QED
      BY <1>1, <1>7, <2>1, GeneratePreserves DEF Preserves
  <1>8. CASE Swap
    BY <1>1, <1>8, SwapPreserves DEF Swap
  <1> QED
    BY <1>2, <1>3, <1>4, <1>5, <1>6, <1>7, <1>8 DEF Next

(* For every signature, corpus and zoo, every recipe of every mutated      *)
(* trace is a term: all symbols have their arguments.                      *)
THEOREM TypeCorrect == Spec => []TypeOK
  <1>1. Init => TypeOK
    BY MutationsAssumption DEF Init, TypeOK
  <1>2. TypeOK /\ [Next]_vars => TypeOK'
    <2>1. ASSUME TypeOK, Next PROVE TypeOK'
      BY <2>1, StepPreserves
    <2>2. TypeOK /\ UNCHANGED vars => TypeOK'
      BY DEF TypeOK, vars, IsTrace
    <2> QED
      BY <2>1, <2>2
  <1> QED
    BY <1>1, <1>2, PTL DEF Spec

(* Repeat and Skip respect the bounds on the length, and no other mutator  *)
(* changes it.                                                             *)
THEOREM LengthStaysWithinBounds == Spec => LengthWithinBounds
  <1> DEFINE P == /\ Len(steps') > max_trace_length => Len(steps') <= Len(steps)
                  /\ Len(steps') < min_trace_length => Len(steps') >= Len(steps)
  <1>1. TypeOK /\ [Next]_vars => [P]_vars
    <2>1. ASSUME TypeOK, Next
          PROVE  P
      <3>1. Len(steps) \in Nat
        BY <2>1 DEF TypeOK, IsTrace
      <3>2. \/ Len(steps') = Len(steps)
            \/ Len(steps) < max_trace_length /\ Len(steps') = Len(steps) + 1
            \/ Len(steps) > min_trace_length /\ Len(steps') = Len(steps) - 1
        BY <2>1, StepPreserves
      <3> QED
        BY <3>1, <3>2, MutationsAssumption
    <2> QED
      BY <2>1
  <1> QED
    BY <1>1, TypeCorrect, PTL DEF Spec, LengthWithinBounds

(* The recipes of a trace, and the trace: the same variables.              *)
LEMMA RecipesOf ==
    /\ UNION {Variables(t) : t \in Recipes} = Vars(steps)
    /\ AllWellTyped <=> Typed(steps)
  <1>1. \A k \in DOMAIN steps : steps[k].recipe \in Recipes \/ steps[k].recipe = NoRecipe
    BY DEF Recipes
  <1>2. \A t \in Recipes : \E k \in DOMAIN steps : t = steps[k].recipe
    BY DEF Recipes
  <1> QED
    BY <1>1, <1>2, NoRecipeIsNoTerm DEF Vars, Typed, AllWellTyped

(* No mutator brings an agent or a variable into a trace that was not      *)
(* there.                                                                  *)
THEOREM NothingIsEverInvented == Spec => NothingIsInvented
  <1> DEFINE P == /\ \A k \in DOMAIN steps' : \E l \in DOMAIN steps : steps'[k].agent = steps[l].agent
                  /\ UNION {Variables(t) : t \in Recipes'} \subseteq UNION {Variables(t) : t \in Recipes}
  <1>1. TypeOK /\ [Next]_vars => [P]_vars
    <2>1. ASSUME TypeOK, Next
          PROVE  P
      <3>1. Derived(steps', steps)
        BY <2>1, StepPreserves
      <3>2. UNION {Variables(t) : t \in Recipes'} = Vars(steps')
        <4>1. \A k \in DOMAIN steps' : steps'[k].recipe \in Recipes' \/ steps'[k].recipe = NoRecipe
          BY DEF Recipes
        <4>2. \A t \in Recipes' : \E k \in DOMAIN steps' : t = steps'[k].recipe
          BY DEF Recipes
        <4> QED
          BY <4>1, <4>2, NoRecipeIsNoTerm DEF Vars
      <3> QED
        BY <3>1, <3>2, RecipesOf DEF Derived
    <2> QED
      BY <2>1
  <1> QED
    BY <1>1, TypeCorrect, PTL DEF Spec, NothingIsInvented

(* Only the exchange of a term with one that contains it can make an       *)
(* ill-typed recipe out of well-typed ones.                                *)
THEOREM OnlyNestedSwapsBreakTypes == Spec => TypesMatchButForNestedSwaps
  <1> DEFINE P == AllWellTyped => AllWellTyped' \/ NestedSwap
  <1>1. TypeOK /\ [Next]_vars => [P]_vars
    <2>1. ASSUME TypeOK, Next
          PROVE  P
      <3>1. Typed(steps) => Typed(steps') \/ NestedSwap
        BY <2>1, StepPreserves
      <3>2. Typed(steps') => AllWellTyped'
        BY DEF Typed, AllWellTyped, Recipes
      <3> QED
        BY <3>1, <3>2, RecipesOf
    <2> QED
      BY <2>1
  <1> QED
    BY <1>1, TypeCorrect, PTL DEF Spec, TypesMatchButForNestedSwaps

-----------------------------------------------------------------------------
(* Sizes                                                                   *)

(* The cardinality of a union of two finite sets.                          *)
LEMMA UnionSize ==
    ASSUME NEW S, NEW T, IsFiniteSet(S), IsFiniteSet(T)
    PROVE  /\ IsFiniteSet(S \cup T)
           /\ Cardinality(S) \in Nat /\ Cardinality(T) \in Nat /\ Cardinality(S \cup T) \in Nat
           /\ Cardinality(S \cup T) <= Cardinality(S) + Cardinality(T)
           /\ S \cap T = {} => Cardinality(S \cup T) = Cardinality(S) + Cardinality(T)
  <1>1. IsFiniteSet(S \cup T) /\ IsFiniteSet(S \cap T)
    BY FS_Union, FS_Intersection
  <1>2. Cardinality(S \cup T) = Cardinality(S) + Cardinality(T) - Cardinality(S \cap T)
    BY FS_Union
  <1>3. /\ Cardinality(S) \in Nat /\ Cardinality(T) \in Nat
        /\ Cardinality(S \cup T) \in Nat /\ Cardinality(S \cap T) \in Nat
    BY <1>1, FS_CardinalityType
  <1>4. S \cap T = {} => Cardinality(S \cap T) = 0
    BY FS_EmptySet
  <1> QED
    BY <1>1, <1>2, <1>3, <1>4

(* The positions of t at and below p.                                      *)
Under(t, p) == {q \in DOMAIN t : Below(q, p)}

(* The size of a term, of a subterm and of a term with a new subterm.      *)
LEMMA Sizes ==
    ASSUME NEW t, NEW p \in DOMAIN t, IsTerm(t)
    PROVE  /\ size(t) \in Nat
           /\ IsFiniteSet(Kept(t, p)) /\ Cardinality(Kept(t, p)) \in Nat
           /\ Cardinality(Kept(t, p)) < size(t)
           /\ IsFiniteSet(Under(t, p))
           /\ size(subterm(t, p)) \in Nat
           /\ size(subterm(t, p)) <= Cardinality(Under(t, p))
           /\ size(subterm(t, p)) <= size(t)
  <1>1. IsFiniteSet(DOMAIN t) /\ p \in Position
    BY DEF IsTerm
  <1>2. size(t) \in Nat
    BY <1>1, FS_CardinalityType DEF size
  <1>3. Below(p, p)
    BY <1>1, BelowRoot
  <1>4. Kept(t, p) \in SUBSET DOMAIN t /\ Under(t, p) \in SUBSET DOMAIN t
    BY DEF Kept, Under
  <1>5. Kept(t, p) # DOMAIN t
    BY <1>3 DEF Kept
  <1>6. /\ IsFiniteSet(Kept(t, p)) /\ Cardinality(Kept(t, p)) \in Nat
        /\ IsFiniteSet(Under(t, p)) /\ Cardinality(Under(t, p)) \in Nat
    BY <1>1, <1>4, FS_Subset, FS_CardinalityType
  <1>7. Cardinality(Kept(t, p)) < size(t) /\ Cardinality(Under(t, p)) <= size(t)
    <2>1. Cardinality(Kept(t, p)) <= size(t) /\ Cardinality(Kept(t, p)) # size(t)
      BY <1>1, <1>4, <1>5, FS_Subset DEF size
    <2>2. Cardinality(Under(t, p)) <= size(t)
      BY <1>1, <1>4, FS_Subset DEF size
    <2> QED
      BY <1>2, <1>6, <2>1, <2>2
  <1>8. IsFiniteSet(DOMAIN subterm(t, p)) /\ size(subterm(t, p)) <= Cardinality(Under(t, p))
    <2> DEFINE D == {SubSeq(r, Len(p) + 1, Len(r)) : r \in Under(t, p)}
               f == [r \in Under(t, p) |-> SubSeq(r, Len(p) + 1, Len(r))]
    <2>1. f \in Surjection(Under(t, p), D)
      BY DEF Surjection
    <2>2. DOMAIN subterm(t, p) = D
      BY DEF subterm, Under
    <2> HIDE DEF D, f
    <2> QED
      BY <1>6, <2>1, <2>2, FS_Surjection DEF size
  <1>9. size(subterm(t, p)) \in Nat
    BY <1>8, FS_CardinalityType DEF size
  <1> QED
    BY <1>2, <1>6, <1>7, <1>8, <1>9

(* A new subterm adds less than its size to a term.                        *)
LEMMA MutateSize ==
    ASSUME NEW t, NEW p \in DOMAIN t, NEW s, IsTerm(t), IsTerm(s)
    PROVE  /\ size(mutate(t, p, s)) \in Nat /\ size(s) \in Nat
           /\ size(mutate(t, p, s)) <= Cardinality(Kept(t, p)) + size(s)
  <1> DEFINE m == mutate(t, p, s)
             new == {p \o r : r \in DOMAIN s}
  <1>1. DOMAIN m = Kept(t, p) \cup new
    BY MutatePositions DEF Mutated
  <1>2. IsFiniteSet(Kept(t, p)) /\ Cardinality(Kept(t, p)) \in Nat
    BY Sizes
  <1>3. IsFiniteSet(new) /\ Cardinality(new) <= size(s)
    BY ConcatFinite DEF size, IsTerm
  <1>4. size(s) \in Nat
    BY FS_CardinalityType DEF size, IsTerm
  <1> HIDE DEF m, new
  <1>5. /\ Cardinality(DOMAIN m) \in Nat /\ Cardinality(new) \in Nat
        /\ Cardinality(DOMAIN m) <= Cardinality(Kept(t, p)) + Cardinality(new)
    BY <1>1, <1>2, <1>3, UnionSize
  <1> QED
    BY <1>2, <1>3, <1>4, <1>5 DEF size, m

(* When a subterm at a was copied to b, what is then not below a has at    *)
(* most the size of the term: the copy is not larger than what was below   *)
(* a.                                                                      *)
LEMMA SwapSize ==
    ASSUME NEW t, NEW a \in DOMAIN t, NEW b \in DOMAIN t, IsTerm(t),
           NEW m, m = mutate(t, b, subterm(t, a)),
           IsTerm(m), a \in DOMAIN m
    PROVE  Cardinality(Kept(m, a)) <= size(t)
  <1> DEFINE A == subterm(t, a)
             X == {q \in DOMAIN t : ~Below(q, b) /\ ~Below(q, a)}
             new == {b \o r : r \in DOMAIN A}
  <1>1. IsTerm(A)
    BY SubtermIsTerm
  <1>2. DOMAIN m = Kept(t, b) \cup new
    <2>1. Mutated(m, t, b, A)
      BY <1>1, MutatePositions
    <2> QED
      BY <2>1 DEF Mutated
  <1>3. Kept(m, a) \subseteq X \cup new
    BY <1>2 DEF Kept
  <1>4. IsFiniteSet(new) /\ Cardinality(new) <= size(A)
    <2>1. IsFiniteSet(DOMAIN A)
      BY <1>1 DEF IsTerm
    <2> HIDE DEF A
    <2> QED
      BY <2>1, ConcatFinite DEF size
  <1>5. /\ size(t) \in Nat /\ IsFiniteSet(Under(t, a))
        /\ size(A) \in Nat /\ size(A) <= Cardinality(Under(t, a))
    BY Sizes
  <1>6. IsFiniteSet(X)
    BY FS_Subset DEF IsTerm
  <1>7. X \cap Under(t, a) = {} /\ X \cup Under(t, a) \in SUBSET DOMAIN t
    BY DEF Under
  <1> HIDE DEF A, X, new
  <1>8. /\ Cardinality(X) + Cardinality(Under(t, a)) <= size(t)
        /\ Cardinality(X) \in Nat /\ Cardinality(Under(t, a)) \in Nat
    <2>1. Cardinality(X \cup Under(t, a)) <= size(t)
      BY <1>7, FS_Subset DEF size, IsTerm
    <2> QED
      BY <1>5, <1>6, <1>7, <2>1, UnionSize
  <1>9. /\ Cardinality(X \cup new) <= Cardinality(X) + Cardinality(new)
        /\ Cardinality(new) \in Nat /\ Cardinality(X \cup new) \in Nat
        /\ IsFiniteSet(X \cup new)
    BY <1>4, <1>6, UnionSize
  <1>10. Cardinality(Kept(m, a)) <= Cardinality(X \cup new)
    BY <1>3, <1>9, FS_Subset
  <1>11. Cardinality(Kept(m, a)) \in Nat
    BY Sizes
  <1> QED
    BY <1>4, <1>5, <1>8, <1>9, <1>10, <1>11

(* RecipesAreBounded, for one recipe.                                      *)
Bounded(t) ==
    \/ \E seed \in Seeds : \E k \in 1..Len(seed) : t = seed[k].recipe
    \/ size(t) < 2 * max_term_size
    \/ \E new \in UNION Zoos : size(t) < max_term_size + size(new)

(* Every recipe of the new trace is one of the old trace, or bounded.      *)
Bounding ==
    \A k \in DOMAIN steps' :
        \/ \E l \in DOMAIN steps : steps'[k].recipe = steps[l].recipe
        \/ Bounded(steps'[k].recipe)

(* The recipes that may be mutated, and their subterms, are small.         *)
LEMMA MutableIsSmall ==
    ASSUME steps \in Seq(TraceStep), NEW a \in TracePath
    PROVE  /\ size(steps[a[1]].recipe) < max_term_size
           /\ size(steps[a[1]].recipe) \in Nat
           /\ size(TermAt(a)) < max_term_size /\ size(TermAt(a)) \in Nat
  <1>1. size(steps[a[1]].recipe) < max_term_size
    BY DEF TracePath, Mutable
  <1>2. IsTerm(steps[a[1]].recipe) /\ a[2] \in DOMAIN steps[a[1]].recipe
    BY PathsLeadToTerms
  <1>3. /\ size(steps[a[1]].recipe) \in Nat
        /\ size(TermAt(a)) \in Nat /\ size(TermAt(a)) <= size(steps[a[1]].recipe)
    BY <1>2, Sizes DEF TermAt
  <1> QED
    BY <1>1, <1>3, MutationsAssumption

(* Putting a small term into a small recipe gives a bounded recipe.        *)
LEMMA PutBounds ==
    ASSUME steps \in Seq(TraceStep), NEW k \in DOMAIN steps, NEW p, NEW s,
           IsTerm(steps[k].recipe), p \in DOMAIN steps[k].recipe, IsTerm(s),
           size(steps[k].recipe) < max_term_size,
           Variables(s) \subseteq Vars(steps)
    PROVE  LET new == Put(steps, <<k, p>>, s)
           IN  /\ size(new[k].recipe) \in Nat /\ size(s) \in Nat
               /\ size(new[k].recipe) < max_term_size + size(s)
               /\ DOMAIN new = DOMAIN steps
               /\ \A l \in DOMAIN steps : l # k => new[l] = steps[l]
  <1> DEFINE new == Put(steps, <<k, p>>, s)
             t == steps[k].recipe
  <1>1. /\ new[k].recipe = mutate(t, p, s)
        /\ DOMAIN new = DOMAIN steps
        /\ \A l \in DOMAIN steps : l # k => new[l] = steps[l]
    BY PutDerives, SelfDerived
  <1>2. /\ size(mutate(t, p, s)) \in Nat /\ size(s) \in Nat
        /\ size(mutate(t, p, s)) <= Cardinality(Kept(t, p)) + size(s)
    BY MutateSize
  <1>3. Cardinality(Kept(t, p)) < size(t) /\ size(t) \in Nat /\ Cardinality(Kept(t, p)) \in Nat
    BY Sizes
  <1> HIDE DEF new, t
  <1>4. size(t) < max_term_size
    BY DEF t
  <1>5. size(mutate(t, p, s)) < max_term_size + size(s)
    BY <1>2, <1>3, <1>4, MutationsAssumption
  <1> QED
    BY <1>1, <1>2, <1>5 DEF new

(* ReplaceReuseMutator joins two small recipes.                            *)
LEMMA ReplaceReuseBounds ==
    ASSUME steps \in Seq(TraceStep), ReplaceReuse
    PROVE  Bounding
  <1>1. PICK a \in TracePath, b \in TracePath : TypeAt(a) = TypeAt(b) /\ steps' = Put(steps, b, TermAt(a))
    BY DEF ReplaceReuse
  <1>2. IsTerm(TermAt(a)) /\ Variables(TermAt(a)) \subseteq Vars(steps)
    BY SubtermAt
  <1>3. /\ b = <<b[1], b[2]>> /\ b[1] \in DOMAIN steps
        /\ IsTerm(steps[b[1]].recipe) /\ b[2] \in DOMAIN steps[b[1]].recipe
    BY PathsLeadToTerms
  <1>4. size(steps[b[1]].recipe) < max_term_size /\ size(TermAt(a)) < max_term_size
    BY MutableIsSmall
  <1>5. /\ size(steps'[b[1]].recipe) \in Nat /\ size(TermAt(a)) \in Nat
        /\ size(steps'[b[1]].recipe) < max_term_size + size(TermAt(a))
        /\ DOMAIN steps' = DOMAIN steps
        /\ \A l \in DOMAIN steps : l # b[1] => steps'[l] = steps[l]
    BY <1>1, <1>2, <1>3, <1>4, PutBounds
  <1>6. size(steps'[b[1]].recipe) < 2 * max_term_size
    BY <1>4, <1>5, MutationsAssumption
  <1> QED
    BY <1>5, <1>6 DEF Bounding, Bounded

(* ReplaceMatchMutator does not change the size.                           *)
LEMMA ReplaceMatchBounds ==
    ASSUME steps \in Seq(TraceStep), ReplaceMatch
    PROVE  Bounding
  <1>1. PICK a \in TracePath, f \in Function :
            steps' = [steps EXCEPT ![a[1]].recipe = [@ EXCEPT ![a[2]] = f]]
    BY DEF ReplaceMatch
  <1> DEFINE t == steps[a[1]].recipe
             m == [t EXCEPT ![a[2]] = f]
  <1>2. a[1] \in DOMAIN steps /\ size(t) < max_term_size /\ size(t) \in Nat
    BY PathsLeadToTerms, MutableIsSmall
  <1>3. size(m) = size(t)
    BY DEF size
  <1>4. steps[a[1]] \in TraceStep
    BY <1>2
  <1>5. /\ DOMAIN steps' = DOMAIN steps
        /\ steps'[a[1]].recipe = m
        /\ \A l \in DOMAIN steps : l # a[1] => steps'[l] = steps[l]
    BY <1>1, <1>2, <1>4 DEF TraceStep
  <1> HIDE DEF t, m
  <1>6. size(m) < 2 * max_term_size
    BY <1>2, <1>3, MutationsAssumption
  <1> QED
    BY <1>5, <1>6 DEF Bounding, Bounded

(* RemoveAndLiftMutator puts in a part of a small recipe.                  *)
LEMMA RemoveAndLiftBounds ==
    ASSUME steps \in Seq(TraceStep), RemoveAndLift
    PROVE  Bounding
  <1>1. PICK a \in TracePath : \E i \in 1..Len(Arguments[steps[a[1]].recipe[a[2]]]) :
              \E j \in 1..Len(Arguments[steps[a[1]].recipe[Append(a[2], i)]]) :
                 LET old == steps[a[1]].recipe
                     child == Append(a[2], i)
                 IN  steps' = Put(steps, <<a[1], child>>, subterm(old, Append(child, j)))
    BY DEF RemoveAndLift
  <1> DEFINE old == steps[a[1]].recipe
  <1>2. a[1] \in DOMAIN steps /\ IsTerm(old) /\ a[2] \in DOMAIN old
    BY PathsLeadToTerms
  <1>3. PICK i \in 1..Len(Arguments[old[a[2]]]) : \E j \in 1..Len(Arguments[old[Append(a[2], i)]]) :
            steps' = Put(steps, <<a[1], Append(a[2], i)>>, subterm(old, Append(Append(a[2], i), j)))
    BY <1>1
  <1> DEFINE child == Append(a[2], i)
  <1>4. PICK j \in 1..Len(Arguments[old[child]]) :
            steps' = Put(steps, <<a[1], child>>, subterm(old, Append(child, j)))
    BY <1>3
  <1> DEFINE s == subterm(old, Append(child, j))
  <1>5. child \in DOMAIN old
    BY <1>2, <1>3 DEF IsTerm
  <1> HIDE DEF child
  <1>6. Append(child, j) \in DOMAIN old
    BY <1>2, <1>4, <1>5 DEF IsTerm
  <1>7. IsTerm(s) /\ Variables(s) \subseteq Variables(old) /\ size(s) \in Nat /\ size(s) <= size(old)
    BY <1>2, <1>6, SubtermIsTerm, Sizes
  <1>8. Variables(old) \subseteq Vars(steps)
    BY <1>2 DEF Vars
  <1>9. size(old) < max_term_size /\ size(old) \in Nat
    BY MutableIsSmall
  <1>12. steps' = Put(steps, <<a[1], child>>, s)
    BY <1>4
  <1> HIDE DEF s
  <1>10. /\ size(steps'[a[1]].recipe) \in Nat
         /\ size(steps'[a[1]].recipe) < max_term_size + size(s)
         /\ DOMAIN steps' = DOMAIN steps
         /\ \A l \in DOMAIN steps : l # a[1] => steps'[l] = steps[l]
    BY <1>2, <1>5, <1>7, <1>8, <1>9, <1>12, PutBounds
  <1>11. size(steps'[a[1]].recipe) < 2 * max_term_size
    BY <1>7, <1>9, <1>10, MutationsAssumption
  <1> QED
    BY <1>10, <1>11 DEF Bounding, Bounded

(* GenerateMutator adds a term of the zoo to a small recipe.               *)
LEMMA GenerateBounds ==
    ASSUME steps \in Seq(TraceStep), zoo = {} \/ zoo \in Zoos, Generate
    PROVE  Bounding
  <1>1. PICK a \in TracePath :
           \/ \E t \in zoo' : steps' = Put(steps, a, t)
           \/ UNCHANGED steps
    BY DEF Generate
  <1>2. zoo' \in Zoos
    BY GeneratePreserves
  <1>3. CASE UNCHANGED steps
    BY <1>3 DEF Bounding
  <1>4. ASSUME NEW t \in zoo', steps' = Put(steps, a, t)
        PROVE  Bounding
    <2>1. IsTerm(t) /\ Variables(t) = {}
      BY <1>2, MutationsAssumption
    <2>2. /\ a = <<a[1], a[2]>> /\ a[1] \in DOMAIN steps
          /\ IsTerm(steps[a[1]].recipe) /\ a[2] \in DOMAIN steps[a[1]].recipe
      BY PathsLeadToTerms
    <2>3. /\ size(steps'[a[1]].recipe) < max_term_size + size(t)
          /\ DOMAIN steps' = DOMAIN steps
          /\ \A l \in DOMAIN steps : l # a[1] => steps'[l] = steps[l]
      BY <1>4, <2>1, <2>2, MutableIsSmall, PutBounds
    <2>4. Bounded(steps'[a[1]].recipe)
      BY <1>2, <1>4, <2>3 DEF Bounded
    <2> QED
      BY <2>3, <2>4 DEF Bounding
  <1> QED
    BY <1>1, <1>3, <1>4

(* Swap adds at most one small term to each of two small recipes, or to    *)
(* one, also when the terms overlap.                                       *)
LEMMA SwapBounds ==
    ASSUME steps \in Seq(TraceStep), Swap
    PROVE  Bounding
  <1>1. PICK a \in TracePath, b \in TracePath : steps' = swap(a, b)
    BY DEF Swap
  <1> DEFINE trace == Put(steps, b, TermAt(a))
  <1>2. /\ IsTerm(TermAt(a)) /\ Variables(TermAt(a)) \subseteq Vars(steps)
        /\ IsTerm(TermAt(b)) /\ Variables(TermAt(b)) \subseteq Vars(steps)
    BY SubtermAt
  <1>3. /\ b = <<b[1], b[2]>> /\ b[1] \in DOMAIN steps
        /\ IsTerm(steps[b[1]].recipe) /\ b[2] \in DOMAIN steps[b[1]].recipe
    BY PathsLeadToTerms
  <1>4. /\ a = <<a[1], a[2]>> /\ a[1] \in DOMAIN steps
        /\ IsTerm(steps[a[1]].recipe) /\ a[2] \in DOMAIN steps[a[1]].recipe
    BY PathsLeadToTerms
  <1>5. /\ size(steps[b[1]].recipe) < max_term_size /\ size(steps[b[1]].recipe) \in Nat
        /\ size(steps[a[1]].recipe) < max_term_size /\ size(steps[a[1]].recipe) \in Nat
        /\ size(TermAt(a)) < max_term_size /\ size(TermAt(a)) \in Nat
        /\ size(TermAt(b)) < max_term_size /\ size(TermAt(b)) \in Nat
    BY MutableIsSmall
  <1>6. /\ Derived(trace, steps) /\ DOMAIN trace = DOMAIN steps
        /\ trace[b[1]].recipe = mutate(steps[b[1]].recipe, b[2], TermAt(a))
        /\ \A l \in DOMAIN steps : l # b[1] => trace[l] = steps[l]
    BY <1>2, <1>3, PutDerives, SelfDerived
  <1>7. size(trace[b[1]].recipe) < 2 * max_term_size
    <2>1. /\ size(trace[b[1]].recipe) \in Nat
          /\ size(trace[b[1]].recipe) < max_term_size + size(TermAt(a))
      BY <1>2, <1>3, <1>5, PutBounds
    <2> QED
      BY <1>5, <2>1, MutationsAssumption
  <1>8. steps' = IF a[2] \in DOMAIN trace[a[1]].recipe THEN Put(trace, a, TermAt(b)) ELSE trace
    BY <1>1 DEF swap
  <1> HIDE DEF trace
  <1>9. CASE a[2] \notin DOMAIN trace[a[1]].recipe
    BY <1>6, <1>7, <1>8, <1>9 DEF Bounding, Bounded
  <1>10. CASE a[2] \in DOMAIN trace[a[1]].recipe
    <2> DEFINE m == trace[a[1]].recipe
    <2>1. trace \in Seq(TraceStep) /\ a[1] \in DOMAIN trace
      BY <1>4, <1>6 DEF Derived
    <2>2. IsTerm(m)
      <3>1. trace[a[1]] \in TraceStep
        BY <2>1
      <3>2. m # NoRecipe
        BY <1>10 DEF NoRecipe
      <3> QED
        BY <3>1, <3>2, TermsAreASet DEF TraceStep
    <2>3. /\ DOMAIN steps' = DOMAIN trace
          /\ steps'[a[1]].recipe = mutate(m, a[2], TermAt(b))
          /\ \A l \in DOMAIN trace : l # a[1] => steps'[l] = trace[l]
      BY <1>2, <1>4, <1>6, <1>8, <1>10, <2>1, <2>2, PutDerives
    <2>4. Cardinality(Kept(m, a[2])) <= size(steps[a[1]].recipe)
      <3>1. CASE a[1] = b[1]
        <4>1. m = mutate(steps[a[1]].recipe, b[2], subterm(steps[a[1]].recipe, a[2]))
          BY <1>6, <3>1 DEF TermAt
        <4> HIDE DEF m
        <4> QED
          BY <1>3, <1>4, <1>10, <2>2, <3>1, <4>1, SwapSize DEF m
      <3>2. CASE a[1] # b[1]
        <4>1. m = steps[a[1]].recipe
          BY <1>4, <1>6, <3>2
        <4>2. Cardinality(Kept(steps[a[1]].recipe, a[2])) < size(steps[a[1]].recipe)
              /\ Cardinality(Kept(steps[a[1]].recipe, a[2])) \in Nat
          BY <1>4, Sizes
        <4> QED
          BY <1>5, <4>1, <4>2
      <3> QED
        BY <3>1, <3>2
    <2>5. /\ size(mutate(m, a[2], TermAt(b))) \in Nat
          /\ size(mutate(m, a[2], TermAt(b))) <= Cardinality(Kept(m, a[2])) + size(TermAt(b))
          /\ Cardinality(Kept(m, a[2])) \in Nat
      BY <1>2, <1>10, <2>2, MutateSize, Sizes
    <2> HIDE DEF m
    <2>6. size(steps'[a[1]].recipe) < 2 * max_term_size
      BY <1>5, <2>3, <2>4, <2>5, MutationsAssumption
    <2>7. ASSUME NEW k \in DOMAIN steps'
          PROVE  \/ \E l \in DOMAIN steps : steps'[k].recipe = steps[l].recipe
                 \/ Bounded(steps'[k].recipe)
      BY <1>6, <1>7, <2>3, <2>6 DEF Bounded
    <2> QED
      BY <2>7 DEF Bounding
  <1> QED
    BY <1>9, <1>10

(* Every recipe of every mutated trace comes from a seed, has less than    *)
(* twice the size of a recipe that may be mutated, or exceeds it by less   *)
(* than a term of the zoo.                                                 *)
THEOREM RecipesStayBounded == Spec => []RecipesAreBounded
  <1>1. Init => RecipesAreBounded
    <2>1. ASSUME Init
          PROVE  \A k \in DOMAIN steps : \E seed \in Seeds : \E l \in 1..Len(seed) :
                    steps[k].recipe = seed[l].recipe
      <3>1. steps \in Seeds /\ IsTrace(steps)
        BY <2>1, MutationsAssumption DEF Init
      <3>2. DOMAIN steps = 1..Len(steps)
        BY <3>1 DEF IsTrace
      <3> QED
        BY <3>1, <3>2
    <2> QED
      BY <2>1 DEF RecipesAreBounded, Recipes
  <1>2. ASSUME TypeOK, RecipesAreBounded, [Next]_vars
        PROVE  RecipesAreBounded'
    <2>1. ASSUME Next
          PROVE  Bounding
      <3>1. steps \in Seq(TraceStep) /\ (zoo = {} \/ zoo \in Zoos)
        BY <1>2, TypeOKForm
      <3>2. CASE Repeat
        BY <3>1, <3>2, RepeatPreserves DEF Bounding
      <3>3. CASE Skip
        BY <3>1, <3>3, SkipPreserves DEF Bounding
      <3> QED
        BY <2>1, <3>1, <3>2, <3>3, ReplaceReuseBounds, ReplaceMatchBounds,
           RemoveAndLiftBounds, GenerateBounds, SwapBounds DEF Next
    <2>2. CASE UNCHANGED vars
      BY <1>2, <2>2 DEF vars, RecipesAreBounded, Recipes
    <2>3. CASE Next
      <3>1. \A k \in DOMAIN steps : steps[k].recipe = NoRecipe \/ Bounded(steps[k].recipe)
        BY <1>2 DEF RecipesAreBounded, Recipes, Bounded
      <3>2. \A k \in DOMAIN steps' : steps'[k].recipe = NoRecipe \/ Bounded(steps'[k].recipe)
        BY <2>1, <2>3, <3>1 DEF Bounding
      <3>3. \A t \in Recipes' : Bounded(t)
        BY <3>2 DEF Recipes
      <3> QED
        BY <3>3 DEF RecipesAreBounded, Bounded
    <2> QED
      BY <1>2, <2>2, <2>3
  <1> QED
    BY <1>1, <1>2, TypeCorrect, PTL DEF Spec
=============================================================================
