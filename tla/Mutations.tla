----------------------------- MODULE Mutations -----------------------------
(***************************************************************************)
(* The trace mutations of puffin/src/fuzzer/mutations.rs, applied one      *)
(* after the other, as PuffinScheduledMutator does to a trace and the      *)
(* fuzzer to the traces that it keeps in its corpus.  Randomness is        *)
(* nondeterminism.  A mutation that is Skipped changes nothing and is not  *)
(* a step here.                                                            *)
(***************************************************************************)
EXTENDS Terms

CONSTANTS
    Agent,             \* names of agents
    Seeds,             \* the initial corpus: sequences of steps
    Zoos,              \* the values TermZoo::generate may return
    min_trace_length, max_trace_length,
    min_term_size, max_term_size,   \* TermConstraints
    refresh_zoo_after

(* An output step has no recipe.                                           *)
NoRecipe == <<>>

IsTrace(trace) ==
    /\ Len(trace) \in Nat
    /\ trace = [k \in 1..Len(trace) |-> [agent |-> trace[k].agent, recipe |-> trace[k].recipe]]
    /\ \A k \in 1..Len(trace) :
          /\ trace[k].agent \in Agent
          /\ trace[k].recipe = NoRecipe \/ IsTerm(trace[k].recipe)

ASSUME MutationsAssumption ==
    /\ min_trace_length \in Nat /\ max_trace_length \in Nat
    /\ min_term_size \in Nat /\ max_term_size \in Nat
    /\ refresh_zoo_after \in Nat \ {0}
    /\ Zoos # {}
    /\ \A zoo \in Zoos : \A t \in zoo : IsTerm(t) /\ WellTyped(t) /\ Variables(t) = {}
    /\ \A seed \in Seeds : IsTrace(seed) /\ \A k \in 1..Len(seed) : WellTyped(seed[k].recipe)

VARIABLES
    steps,            \* Trace.steps of the trace being mutated
    zoo,              \* GenerateMutator.zoo, {} until it is first needed
    mutation_counter  \* GenerateMutator.mutation_counter, modulo refresh_zoo_after

vars == <<steps, zoo, mutation_counter>>

Init ==
    /\ steps \in Seeds
    /\ zoo = {}
    /\ mutation_counter = 0

-----------------------------------------------------------------------------
(* Choosing terms                                                          *)

(* Mutant: large recipes are mutated, too.                                 *)
Mutable_AnySize(recipe) == recipe # NoRecipe /\ size(recipe) > min_term_size

(* Only recipes of a size within the constraints are mutated.              *)
Mutable(recipe) ==
    /\ recipe # NoRecipe
    /\ size(recipe) > min_term_size
    /\ size(recipe) < max_term_size

(* The positions of the trace that reservoir_sample chooses from.          *)
TracePath ==
    UNION {{<<k, p>> : p \in DOMAIN steps[k].recipe} : k \in {k \in DOMAIN steps : Mutable(steps[k].recipe)}}

(* find_term_mut, to read a term of the trace and to write it.             *)
TermAt(path) == subterm(steps[path[1]].recipe, path[2])
TypeAt(path) == ReturnType[steps[path[1]].recipe[path[2]]]
Put(trace, path, term) == [trace EXCEPT ![path[1]].recipe = mutate(@, path[2], term)]

-----------------------------------------------------------------------------
(* The mutators                                                            *)

Repeat ==
    /\ Len(steps) < max_trace_length
    /\ \E i \in 0..Len(steps), k \in 1..Len(steps) :
          steps' = SubSeq(steps, 1, i) \o <<steps[k]>> \o SubSeq(steps, i + 1, Len(steps))
    /\ UNCHANGED <<zoo, mutation_counter>>

Skip ==
    /\ Len(steps) > min_trace_length
    /\ \E i \in 1..Len(steps) :
          steps' = SubSeq(steps, 1, i - 1) \o SubSeq(steps, i + 1, Len(steps))
    /\ UNCHANGED <<zoo, mutation_counter>>

ReplaceReuse ==
    /\ \E a, b \in TracePath :
          /\ TypeAt(a) = TypeAt(b)
          /\ steps' = Put(steps, b, TermAt(a))
    /\ UNCHANGED <<zoo, mutation_counter>>

(* Mutant: a function is replaced by one with other arguments.             *)
ReplaceMatch_AnyArguments ==
    /\ \E a \in TracePath : \E f \in Function :
          /\ ReturnType[f] = TypeAt(a)
          /\ steps' = [steps EXCEPT ![a[1]].recipe = [@ EXCEPT ![a[2]] = f]]
    /\ UNCHANGED <<zoo, mutation_counter>>

(* A variable is replaced by a constant, a function symbol by another with *)
(* the same shape.                                                         *)
ReplaceMatch ==
    /\ \E a \in TracePath : \E f \in Function :
          LET old == steps[a[1]].recipe[a[2]]
          IN  /\ f # old
              /\ ReturnType[f] = ReturnType[old]
              /\ Arguments[f] = Arguments[old]
              /\ steps' = [steps EXCEPT ![a[1]].recipe = [@ EXCEPT ![a[2]] = f]]
    /\ UNCHANGED <<zoo, mutation_counter>>

(* Mutant: the type of the grandchild is not compared.                     *)
RemoveAndLift_AnyType ==
    /\ \E a \in TracePath :
          LET old == steps[a[1]].recipe
          IN  \E i \in 1..Len(Arguments[old[a[2]]]) :
              \E j \in 1..Len(Arguments[old[Append(a[2], i)]]) :
                 LET child == Append(a[2], i)
                 IN  steps' = Put(steps, <<a[1], child>>, subterm(old, Append(child, j)))
    /\ UNCHANGED <<zoo, mutation_counter>>

(* A child is replaced by one of its own children of the same type:        *)
(* push and swap_remove leave the other arguments where they are.          *)
RemoveAndLift ==
    /\ \E a \in TracePath :
          LET old == steps[a[1]].recipe
          IN  \E i \in 1..Len(Arguments[old[a[2]]]) :
              \E j \in 1..Len(Arguments[old[Append(a[2], i)]]) :
                 LET child == Append(a[2], i)
                 IN  /\ ReturnType[old[Append(child, j)]] = ReturnType[old[child]]
                     /\ steps' = Put(steps, <<a[1], child>>, subterm(old, Append(child, j)))
    /\ UNCHANGED <<zoo, mutation_counter>>

(* The zoo is made when it is first needed and again after every           *)
(* refresh_zoo_after mutations, even if no term of it fits.                *)
Generate ==
    \E a \in TracePath :
        /\ mutation_counter' = (mutation_counter + 1) % refresh_zoo_after
        /\ zoo' \in IF mutation_counter' = 0 \/ zoo = {} THEN Zoos ELSE {zoo}
        /\ \/ \E t \in zoo' : get_type_shape(t) = TypeAt(a) /\ steps' = Put(steps, a, t)
           \/ (\A t \in zoo' : get_type_shape(t) # TypeAt(a)) /\ UNCHANGED steps

(* The term at b is overwritten first; the path of a is then looked up in  *)
(* the changed trace, where it may lead elsewhere, or nowhere.             *)
swap(a, b) ==
    LET trace == Put(steps, b, TermAt(a))
    IN  IF a[2] \in DOMAIN trace[a[1]].recipe THEN Put(trace, a, TermAt(b)) ELSE trace

Swap ==
    /\ \E a, b \in TracePath :
          /\ TypeAt(a) = TypeAt(b)
          /\ steps' = swap(a, b)
    /\ UNCHANGED <<zoo, mutation_counter>>

Next ==
    \/ Repeat \/ Skip \/ ReplaceReuse \/ ReplaceMatch
    \/ RemoveAndLift \/ Generate \/ Swap

Spec == Init /\ [][Next]_vars

-----------------------------------------------------------------------------
(* Properties                                                              *)

Recipes == {steps[k].recipe : k \in DOMAIN steps} \ {NoRecipe}

(* All recipes stay terms: whatever is replaced, swapped or lifted, every  *)
(* symbol has as many arguments as its arity says, and every path chosen   *)
(* later leads to a subterm.                                               *)
TypeOK ==
    /\ IsTrace(steps)
    /\ zoo = {} \/ zoo \in Zoos
    /\ mutation_counter \in 0..(refresh_zoo_after - 1)

(* Skip and Repeat keep the length of a trace within the configured bounds *)
(* if it was within them, and never take it further away.                  *)
LengthWithinBounds ==
    [][ /\ Len(steps') > max_trace_length => Len(steps') <= Len(steps)
        /\ Len(steps') < min_trace_length => Len(steps') >= Len(steps) ]_vars

(* Recipes do not grow forever: one mutation can add to a recipe that may  *)
(* still be mutated at most a recipe of which that is true, too, or a term *)
(* of the zoo.  Afterwards the recipe is frozen.                           *)
RecipesAreBounded ==
    \A t \in Recipes :
        \/ \E seed \in Seeds : \E k \in 1..Len(seed) : t = seed[k].recipe
        \/ size(t) < 2 * max_term_size
        \/ \E new \in UNION Zoos : size(t) < max_term_size + size(new)

(* No mutation invents a query or an agent: what a mutated trace asks of   *)
(* the knowledge, and which agents it runs, comes from the trace it was    *)
(* made from.                                                              *)
NothingIsInvented ==
    [][ /\ \A k \in DOMAIN steps' : \E l \in DOMAIN steps : steps'[k].agent = steps[l].agent
        /\ UNION {Variables(t) : t \in Recipes'} \subseteq UNION {Variables(t) : t \in Recipes} ]_vars

(* The exchange of a term with one that contains it.                       *)
NestedSwap ==
    \E a, b \in TracePath :
        /\ TypeAt(a) = TypeAt(b)
        /\ a[1] = b[1] /\ a[2] # b[2] /\ Below(a[2], b[2])
        /\ steps' = swap(a, b)

AllWellTyped == \A t \in Recipes : WellTyped(t)

(* Every mutator but one turns well-typed recipes into well-typed recipes. *)
(* The exception is Swap, when the first term it chose is part of the      *)
(* second.                                                                 *)
TypesMatchButForNestedSwaps == [][ AllWellTyped => AllWellTyped' \/ NestedSwap ]_vars

-----------------------------------------------------------------------------
(* Statements of the documentation                                         *)

(* SwapMutator: "Swaps a sub-term with a different sub-term which is part  *)
(* of the trace (such that types match)."                                  *)
TypesMatch == AllWellTyped
=============================================================================
