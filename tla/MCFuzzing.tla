------------------------------ MODULE MCFuzzing ------------------------------
(* What a worker does to its inputs, how workers run and restart, and what   *)
(* the seeds they begin with do.  A behaviour is one of the component chosen *)
(* at its start.                                                             *)
EXTENDS MCMutations, FuzzCampaign, MCSeedExecution

VARIABLE which

FuzzInput(length, sizes, ends) == [length |-> length, sizes |-> sizes, ends |-> ends]
Short == FuzzInput(1, <<>>, "ok")
Long  == FuzzInput(8, <<1, 6>>, "extr")
Bad   == FuzzInput(4, <<3>>, "SecurityClaim")
Hangs == FuzzInput(2, <<2>>, "timeout")

MCInputs  == {Short, Long, Bad, Hangs}
MCCorpora == {<<Short, Long>>, <<Long, Hangs, Short>>}

mutationVars == <<steps, zoo, mutation_counter>>
FuzzingVars == <<which, mutationVars, campaignVars, seedVars>>

FuzzingInit ==
    /\ which \in {"mutations", "campaign", "seeds"}
    /\ Init /\ CampaignInit /\ SeedInit
    /\ which # "campaign" => source = "embedded" /\ seeds = CHOOSE c \in Corpora : TRUE
    /\ which # "seeds" => run = CHOOSE r \in Runs : TRUE

InMutations(A) == which = "mutations" /\ A /\ UNCHANGED <<which, campaignVars, seedVars>>
InCampaign(A) == which = "campaign" /\ A /\ UNCHANGED <<which, mutationVars, seedVars>>
InSeeds(A) == which = "seeds" /\ A /\ UNCHANGED <<which, mutationVars, campaignVars>>

FuzzingNext == InMutations(Next) \/ InCampaign(CampaignNext) \/ InSeeds(SeedNext)

\* The campaign and a seed are as fair as in their own specifications.
FuzzingSpec ==
    /\ FuzzingInit /\ [][FuzzingNext]_FuzzingVars
    /\ \A w \in Workers : WF_FuzzingVars(InCampaign(WorkerStep(w)))
    /\ WF_FuzzingVars(InCampaign(display))
    /\ []<>(which # "seeds" \/ result # "running") \/ []<><<InSeeds(SeedNext)>>_FuzzingVars

\* A worker that fuzzes comes back to it, also after a crash; and with embedded
\* seeds it gets there, unless its first seed ends every process.
FuzzWorkersGoOn == which = "campaign" => WorkersGoOn

\* Every run of a seed comes to an end: the steps of a trace and the take loops
\* in them.
FuzzSeedsEnd == which = "seeds" => SeedRunEnds
==============================================================================
