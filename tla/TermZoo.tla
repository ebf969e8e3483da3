------------------------------ MODULE TermZoo ------------------------------
(***************************************************************************)
(* The zoo of closed terms of puffin/src/fuzzer/term_zoo.rs: for every     *)
(* function symbol of the signature at most one term that starts with it.  *)
(***************************************************************************)
EXTENDS Terms

CONSTANT MAX_DEPTH

(* f applied to a sequence of terms.                                       *)
Application(f, subterms) ==
    LET at(q) == subterms[Head(q)][Tail(q)]
    IN  [q \in {<<>>} \cup UNION {{<<i>> \o r : r \in DOMAIN subterms[i]} : i \in DOMAIN subterms} |->
            IF q = <<>> THEN f ELSE at(q)]

(* The terms that generate_term may return with a given depth left: an     *)
(* argument is generated for a random function symbol of its type, and     *)
(* with no depth left there is none.                                       *)
generate_term[depth \in 0..MAX_DEPTH] ==
    IF depth = 0 THEN {}
    ELSE UNION {
           {Application(f, subterms) :
              subterms \in {s \in [1..Len(Arguments[f]) -> generate_term[depth - 1]] :
                              \A i \in DOMAIN s : get_type_shape(s[i]) = Arguments[f][i]}}
           : f \in Function}

(* What TermZoo::generate may return.  All MAX_TRIES tries may run out of  *)
(* depth, except for a constant, which needs none.                         *)
Zoo ==
    {zoo \in SUBSET generate_term[MAX_DEPTH] :
        /\ \A s, t \in zoo : s[<<>>] = t[<<>>] => s = t
        /\ \A f \in Function : Arguments[f] = <<>> => \E t \in zoo : t[<<>>] = f}
=============================================================================
