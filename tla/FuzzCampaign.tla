---------------------------- MODULE FuzzCampaign ----------------------------
(***************************************************************************)
(* The loop that the fuzzer's workers run (puffin/src/fuzzer): seeds,      *)
(* stages, the harness, the statistics it keeps and the monitor that the   *)
(* broker runs.  A worker is a process: a policy violation aborts it, a    *)
(* PUT may crash or hang it, and LibAFL starts it again with the state it  *)
(* has saved.  The statistics are static variables, which do not survive.  *)
(*                                                                         *)
(* An input is a record: the length of its trace, the sizes of its         *)
(* recipes, and how its execution ends.  What the mutators make of an      *)
(* input is in Mutations.                                                  *)
(***************************************************************************)
EXTENDS Integers, Sequences, FiniteSets, FiniteSetsExt, SequencesExt

CONSTANTS
    Workers,
    Inputs,             \* the traces that mutations reach
    Corpora,            \* values of PB::create_corpus(), or the files of
                        \* initial_corpus_dir: sequences of inputs
    MaxIterations,      \* max_iterations_per_stage
    MaxMutations,       \* max_mutations_per_iteration
    MaxIters,           \* max_iters: rounds of one process
    UsizeMax,           \* usize::MAX
    MaxRestarts         \* bound: restarts of one worker

\* The errors that the harness counts, in the order of STATS.
ErrorKinds == <<"fn", "term", "put", "io", "ag", "str", "extr">>
\* How an execution ends that takes its process with it.
Fatal == {"SecurityClaim", "crash", "timeout"}

ASSUME FuzzCampaignAssumption ==
    /\ MaxIterations \in Nat \ {0} /\ MaxMutations \in Nat \ {0}
    /\ MaxIters \in Nat \ {0} /\ MaxRestarts \in Nat \ {0} /\ UsizeMax \in Nat
    /\ \A c \in Corpora : c \in Seq(Inputs) /\ c # <<>>
    /\ \A i \in Inputs : /\ i.length \in 0..UsizeMax - 1 /\ i.sizes \in Seq(0..UsizeMax - 1)
                         /\ i.ends \in {"ok"} \cup ToSet(ErrorKinds) \cup Fatal

VARIABLES
    seeds,      \* the initial inputs; never changes
    source,     \* "directory" if initial_corpus_dir exists, or "embedded"
    pc,         \* where each worker is
    todo,       \* seeds or iterations left, the input of the stage, rounds left
    stats,      \* the static variables of each worker's process
    corpus,     \* the corpus of each worker
    events,     \* events on the way to the broker
    monitor,    \* client_stats of the broker's StatsMonitor
    restarts,   \* times each worker was started again
    seeded      \* positions of the seeds that each worker kept, in order (history)

campaignVars == <<seeds, source, pc, todo, stats, corpus, events, monitor, restarts, seeded>>

-----------------------------------------------------------------------------
(* Statistics: stats_stage.rs *)

NewMinMaxMean == [set |-> FALSE, min |-> UsizeMax, max |-> 0, mean |-> 0]
NewStats == [counter |-> [k \in ToSet(ErrorKinds) |-> 0],
             length |-> NewMinMaxMean, size |-> NewMinMaxMean]

\* MinMaxMean::mean: not the mean, but the middle of the last mean and the value.
mean(s, value) == IF s.set THEN (s.mean + value) \div 2 ELSE value

\* MinMaxMean::update.
update(s, value) == [set |-> TRUE, mean |-> mean(s, value),
                     max |-> Max({s.max, value}), min |-> Min({s.min, value})]

\* Counter::increment, for an error that is counted.
increment(counter, kind) ==
    IF kind \in DOMAIN counter THEN [counter EXCEPT ![kind] = @ + 1] ELSE counter

\* MinMaxMean::fire: three events, once a value is known.
MinMaxMean_fire(name, s) ==
    IF s.set THEN <<<<name, "min", s.min>>, <<name, "max", s.max>>, <<name, "mean", s.mean>>>> ELSE <<>>

\* Mutant: the last error is left out.
fire_AllButLast(s) ==
    [i \in 1..Len(ErrorKinds) - 1 |-> <<ErrorKinds[i], "number", s.counter[ErrorKinds[i]]>>]
    \o MinMaxMean_fire("trace-length", s.length) \o MinMaxMean_fire("term-size", s.size)

\* STATS, as the events of one StatsStage.
fire(s) ==
    [i \in DOMAIN ErrorKinds |-> <<ErrorKinds[i], "number", s.counter[ErrorKinds[i]]>>]
    \o MinMaxMean_fire("trace-length", s.length) \o MinMaxMean_fire("term-size", s.size)

-----------------------------------------------------------------------------
(* The harness *)

\* The loop of harness() over the steps of the trace: TERM_SIZE.update with the
\* size of each recipe.
update_sizes(s, sizes) ==
    LET after[k \in 0..Len(sizes)] == IF k = 0 THEN s ELSE update(after[k - 1], sizes[k])
    IN  after[Len(sizes)]

\* What harness() leaves in the static variables before and after execute.
CountInput(s, i) ==
    [s EXCEPT !.length = update(@, i.length), !.size = update_sizes(@, i.sizes)]
harness(s, i) == [CountInput(s, i) EXCEPT !.counter = increment(@, i.ends)]

\* abort() after a violation of the policy, or a PUT that crashes or hangs.
Ends(i) == i.ends \in Fatal

\* The signal handlers of LibAFL: the state is saved, the process ends.
Die(w, i) ==
    /\ restarts[w] < MaxRestarts
    /\ pc' = [pc EXCEPT ![w] = "dead"]
    /\ restarts' = [restarts EXCEPT ![w] = @ + 1]
    /\ stats' = [stats EXCEPT ![w] = CountInput(@, i)]
    /\ UNCHANGED <<seeds, source, todo, corpus, events, monitor, seeded>>

-----------------------------------------------------------------------------
(* A worker *)

CampaignInit ==
    /\ seeds \in Corpora /\ source \in {"directory", "embedded"}
    /\ pc = [w \in Workers |-> "start"]
    /\ todo = [w \in Workers |-> [left |-> 0, base |-> seeds[1], rounds |-> MaxIters]]
    /\ stats = [w \in Workers |-> NewStats]
    /\ corpus = [w \in Workers |-> {}]
    /\ events = <<>>
    /\ monitor = [w \in Workers |-> <<>>]
    /\ restarts = [w \in Workers |-> 0]
    /\ seeded = [w \in Workers |-> <<>>]

\* Mutant: the seeds are loaded by every process.
LoadsSeeds_Always(w) == TRUE

\* "In case the corpus is empty (on first run), reset".
LoadsSeeds(w) == corpus[w] = {}

\* RunClientBuilder::run_client, with the state that was saved, if any.  The
\* initial inputs are the files of initial_corpus_dir, if it exists.
run_client(w) ==
    /\ pc[w] = "start"
    /\ pc' = [pc EXCEPT ![w] = IF LoadsSeeds(w) THEN "seeding" ELSE "fuzz"]
    /\ todo' = [todo EXCEPT ![w].left = 1, ![w].rounds = MaxIters]
    /\ UNCHANGED <<seeds, source, stats, corpus, events, monitor, restarts, seeded>>

\* Fuzzer::add_input executes an embedded seed and keeps it;
\* load_initial_inputs keeps a file of the directory if it is interesting.
add_input(w) ==
    LET k == todo[w].left
        i == seeds[k]
    IN  /\ pc[w] = "seeding"
        /\ \/ Ends(i) /\ Die(w, i)
           \/ /\ ~Ends(i)
              /\ \E keep \in IF source = "embedded" THEN {TRUE} ELSE BOOLEAN :
                    /\ corpus' = [corpus EXCEPT ![w] = IF keep THEN @ \cup {i} ELSE @]
                    /\ seeded' = [seeded EXCEPT ![w] = IF keep THEN Append(@, k) ELSE @]
              /\ stats' = [stats EXCEPT ![w] = harness(@, i)]
              /\ IF k < Len(seeds)
                 THEN todo' = [todo EXCEPT ![w].left = @ + 1] /\ UNCHANGED pc
                 ELSE pc' = [pc EXCEPT ![w] = "fuzz"] /\ UNCHANGED todo
              /\ UNCHANGED <<seeds, source, events, monitor, restarts>>

\* A worker ends for good: a file of the directory cannot be loaded, and
\* run_client panics outside of an execution, so that no state is saved; or the
\* directory gave it nothing, and the loop has no input to pick.
run_client_fails(w) ==
    /\ \/ pc[w] = "seeding" /\ source = "directory"
       \/ pc[w] = "fuzz" /\ todo[w].rounds > 0 /\ corpus[w] = {}
    /\ pc' = [pc EXCEPT ![w] = "failed"]
    /\ UNCHANGED <<seeds, source, todo, stats, corpus, events, monitor, restarts, seeded>>

\* fuzz_one: the scheduler picks an input for the stages, and
\* PuffinMutationalStage::iterations the number of iterations.
fuzz_one(w) ==
    /\ pc[w] = "fuzz" /\ todo[w].rounds > 0
    /\ \E i \in corpus[w], n \in 1..MaxIterations :
          todo' = [todo EXCEPT ![w].left = n, ![w].base = i]
    /\ pc' = [pc EXCEPT ![w] = "mutate"]
    /\ UNCHANGED <<seeds, source, stats, corpus, events, monitor, restarts, seeded>>

\* PuffinScheduledMutator applies fewer than MaxMutations mutations, perhaps
\* none, so that the input itself may be executed again.
Mutated(i) == IF MaxMutations = 1 THEN {i} ELSE Inputs

\* An iteration of the stage: mutate, execute, and keep what is interesting.
Iteration(w) ==
    /\ pc[w] = "mutate"
    /\ \E i \in Mutated(todo[w].base) :
          \/ Ends(i) /\ Die(w, i)
          \/ /\ ~Ends(i)
             /\ \E interesting \in BOOLEAN :
                   corpus' = [corpus EXCEPT ![w] = IF interesting THEN @ \cup {i} ELSE @]
             /\ stats' = [stats EXCEPT ![w] = harness(@, i)]
             /\ todo' = [todo EXCEPT ![w].left = @ - 1]
             /\ pc' = [pc EXCEPT ![w] = IF todo[w].left = 1 THEN "stats" ELSE "mutate"]
             /\ UNCHANGED <<seeds, source, events, monitor, restarts, seeded>>

\* StatsStage::perform ends a round.
StatsStage(w) ==
    /\ pc[w] = "stats"
    /\ events' = events \o [k \in DOMAIN fire(stats[w]) |->
                              [client |-> w, event |-> fire(stats[w])[k], life |-> restarts[w]]]
    /\ todo' = [todo EXCEPT ![w].rounds = @ - 1]
    /\ pc' = [pc EXCEPT ![w] = "fuzz"]
    /\ UNCHANGED <<seeds, source, stats, corpus, monitor, restarts, seeded>>

\* The fuzzing loop handles the events of the other workers: an input that is
\* new to one of them may be interesting here.
Import(w) ==
    /\ pc[w] = "fuzz" /\ todo[w].rounds > 0
    /\ \E i \in Inputs \ corpus[w] : ~Ends(i) /\ corpus' = [corpus EXCEPT ![w] = @ \cup {i}]
    /\ UNCHANGED <<seeds, source, pc, todo, stats, events, monitor, restarts, seeded>>

\* The parent process starts the worker again.
Restart(w) ==
    /\ pc[w] = "dead"
    /\ pc' = [pc EXCEPT ![w] = "start"]
    /\ stats' = [stats EXCEPT ![w] = NewStats]
    /\ UNCHANGED <<seeds, source, todo, corpus, events, monitor, restarts, seeded>>

WorkerStep(w) ==
    \/ run_client(w) \/ add_input(w) \/ run_client_fails(w)
    \/ fuzz_one(w) \/ Iteration(w) \/ StatsStage(w) \/ Restart(w)

-----------------------------------------------------------------------------
(* The monitor: stats_monitor.rs *)

\* get_number: 0 if nothing was reported.
get_number(client, n) == IF n \in DOMAIN client THEN client[n].value ELSE 0

\* ErrorStatistics::count and TraceStatistics::new of a client.
ErrorStatistics(client) == [k \in ToSet(ErrorKinds) |-> get_number(client, <<k, "number">>)]
TraceStatistics(client) ==
    [s \in {"trace-length", "term-size"} |->
        [f \in {"min", "max", "mean"} |-> get_number(client, <<s, f>>)]]

\* The broker stores the value of an event and calls display, which writes the
\* statistics of the client at every hundredth event; here, it may at any.
display ==
    /\ events # <<>>
    /\ LET e == Head(events)
           n == <<e.event[1], e.event[2]>>
           new == [value |-> e.event[3], life |-> e.life]
       IN  monitor' = [monitor EXCEPT ![e.client] =
                          [k \in {n} \cup DOMAIN @ |-> IF k = n THEN new ELSE @[k]]]
    /\ events' = Tail(events)
    /\ UNCHANGED <<seeds, source, pc, todo, stats, corpus, restarts, seeded>>

CampaignNext == (\E w \in Workers : WorkerStep(w) \/ Import(w)) \/ display

\* Workers are processes that the system schedules; so is the broker.
CampaignFairness == (\A w \in Workers : WF_campaignVars(WorkerStep(w))) /\ WF_campaignVars(display)

CampaignSpec == CampaignInit /\ [][CampaignNext]_campaignVars /\ CampaignFairness

-----------------------------------------------------------------------------
(* Properties *)

\* A worker keeps each initial input at most once, and in order, however often
\* the process is started again; and when it fuzzes on embedded seeds, it has
\* exactly those in front of the first seed that ends a process: those behind
\* it are never loaded.
SeedsAreLoadedOnce ==
    \A w \in Workers :
        /\ \A j, k \in DOMAIN seeded[w] : j < k => seeded[w][j] < seeded[w][k]
        /\ pc[w] \in {"fuzz", "mutate", "stats"} /\ source = "embedded" =>
              \A k \in DOMAIN seeds :
                 (\E j \in DOMAIN seeded[w] : seeded[w][j] = k) <=> \A i \in 1..k : ~Ends(seeds[i])

\* What the monitor may write at any event is in order, although the numbers
\* arrive one by one: once all three come from one process, the minimum does
\* not exceed the mean, nor the mean the maximum.
ReportsAreOrdered ==
    \A w \in Workers, s \in {"trace-length", "term-size"} :
        LET c == monitor[w]
            t == TraceStatistics(c)[s]
        IN  /\ {<<s, "min">>, <<s, "max">>, <<s, "mean">>} \subseteq DOMAIN c
            /\ c[<<s, "min">>].life = c[<<s, "mean">>].life
            /\ c[<<s, "max">>].life = c[<<s, "mean">>].life
            => t.min <= t.mean /\ t.mean <= t.max

\* Between two rounds, once the broker has handled everything, the monitor
\* shows the errors that the worker's process has counted, none of them for an
\* earlier process.
ErrorsAreShown ==
    \A w \in Workers :
        events = <<>> /\ pc[w] = "fuzz" /\ todo[w].rounds < MaxIters
            => ErrorStatistics(monitor[w]) = stats[w].counter

\* What the monitor shows of a worker is true of one of its processes.
StatisticsAreRight == ReportsAreOrdered /\ ErrorsAreShown

\* A worker that fuzzes comes back to it, also after a crash; and a worker with
\* embedded seeds gets there, unless its first seed ends every process.
WorkersGoOn ==
    \A w \in Workers :
        /\ pc[w] = "mutate" ~> pc[w] = "fuzz"
        /\ source = "embedded" /\ ~Ends(seeds[1]) => []<>(pc[w] = "fuzz")
=============================================================================
