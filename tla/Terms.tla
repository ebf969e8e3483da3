------------------------------- MODULE Terms -------------------------------
(***************************************************************************)
(* The terms of puffin/src/algebra: variables and applications of function *)
(* symbols, the recipes of input steps.  A term is a function from its     *)
(* positions to symbols.  A position is a sequence of argument numbers,    *)
(* what fuzzer/mutations.rs calls a TermPath.                              *)
(***************************************************************************)
EXTENDS Naturals, Sequences, FiniteSets

CONSTANTS
    Function,   \* the function symbols of the Signature
    Variable,   \* the variables: a type and a query
    Type,       \* TypeShapes
    ReturnType, \* the type of every function symbol and variable
    Arguments   \* the argument types of every symbol, none for a variable

Symbol == Function \cup Variable

ASSUME SignatureAssumption ==
    /\ Function \cap Variable = {}
    /\ ReturnType \in [Symbol -> Type]
    /\ Arguments \in [Symbol -> Seq(Type)]
    /\ \A v \in Variable : Arguments[v] = <<>>

Position == Seq(Nat \ {0})

(* Whether q is p or a position below it.                                  *)
Below(q, p) == Len(p) <= Len(q) /\ SubSeq(q, 1, Len(p)) = p

(* A term in which every symbol has as many arguments as its arity says.   *)
IsTerm(t) ==
    /\ t = [q \in DOMAIN t |-> t[q]]
    /\ DOMAIN t \subseteq Position
    /\ IsFiniteSet(DOMAIN t)
    /\ <<>> \in DOMAIN t
    /\ \A q \in DOMAIN t :
          /\ t[q] \in Symbol
          /\ \A i \in 1..Len(Arguments[t[q]]) : Append(q, i) \in DOMAIN t
          /\ q # <<>> => LET p == SubSeq(q, 1, Len(q) - 1)
                         IN  p \in DOMAIN t /\ q[Len(q)] <= Len(Arguments[t[p]])

(* Every argument has the type that the symbol above it expects.           *)
WellTyped(t) ==
    \A q \in DOMAIN t : \A i \in 1..Len(Arguments[t[q]]) :
        ReturnType[t[Append(q, i)]] = Arguments[t[q]][i]

size(t) == Cardinality(DOMAIN t)

subterm(t, p) ==
    [q \in {SubSeq(r, Len(p) + 1, Len(r)) : r \in {r \in DOMAIN t : Below(r, p)}} |-> t[p \o q]]

(* t with the subterm at p replaced by s.                                  *)
mutate(t, p, s) ==
    LET kept == {q \in DOMAIN t : ~Below(q, p)}
    IN  [q \in kept \cup {p \o r : r \in DOMAIN s} |->
            IF q \in kept THEN t[q] ELSE s[SubSeq(q, Len(p) + 1, Len(q))]]

get_type_shape(t) == ReturnType[t[<<>>]]

Variables(t) == {t[q] : q \in DOMAIN t} \cap Variable
=============================================================================
