---------------------------- MODULE MCMutations ----------------------------
(***************************************************************************)
(* A signature with two types, a constant of each, a unary and a binary    *)
(* function, and a variable, and a seed.                                   *)
(***************************************************************************)
EXTENDS Mutations, TermZoo

MCReturnType == [c |-> "A", d |-> "B", h |-> "A", f |-> "A", v |-> "A"]
MCArguments  ==
    [c |-> <<>>, d |-> <<>>, h |-> <<"A">>, f |-> <<"B", "A">>, v |-> <<>>]

Const(s) == Application(s, <<>>)
In(agent, recipe) == [agent |-> agent, recipe |-> recipe]
Out(agent) == [agent |-> agent, recipe |-> NoRecipe]

(* An input, f(d, h(v)), after an output.                                  *)
MCSeeds ==
    {<<Out("n1"),
       In("n0", Application("f", <<Const("d"), Application("h", <<Const("v")>>)>>))>>}
=============================================================================
