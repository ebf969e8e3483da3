------------------------- MODULE FuzzCampaignProofs -------------------------
(***************************************************************************)
(* Proofs about the fuzzing loop, for any number of workers, any inputs    *)
(* and seeds and any bounds: seeds are loaded once and in order, and the   *)
(* statistics that the monitor shows are right.                            *)
(***************************************************************************)
EXTENDS FuzzCampaign, WellFoundedInduction, SequenceTheorems, TLAPS

MinMaxMean == [set : BOOLEAN, min : Nat, max : Nat, mean : Nat]
Kinds == {"fn", "term", "put", "io", "ag", "str", "extr"}
Counted == {"trace-length", "term-size"}
StatsType == [counter : [Kinds -> Nat], length : MinMaxMean, size : MinMaxMean]
TodoType == [left : Int, base : Inputs, rounds : Int]
PcType == {"start", "seeding", "fuzz", "mutate", "stats", "dead", "failed"}

\* The seven counters of errors are the kinds that events name.
LEMMA KindsAre == ToSet(ErrorKinds) = Kinds
  BY DEF ToSet, ErrorKinds, Kinds

\* The length and the sizes of an input are natural numbers.
LEMMA InputType ==
    ASSUME NEW i \in Inputs
    PROVE  i.length \in Nat /\ i.sizes \in Seq(Nat)
<1>1. i.length \in 0..UsizeMax - 1 /\ i.sizes \in Seq(0..UsizeMax - 1) /\ UsizeMax \in Nat
  BY FuzzCampaignAssumption
<1>2. i.sizes \in Seq(Nat)
  <2>1. i.sizes \in [1..Len(i.sizes) -> 0..UsizeMax - 1] /\ Len(i.sizes) \in Nat
    BY <1>1
  <2>2. i.sizes \in [1..Len(i.sizes) -> Nat]
    BY <1>1, <2>1
  <2> QED
    BY <2>1, <2>2
<1> QED
  BY <1>1, <1>2

\* A corpus of seeds is a non-empty sequence of inputs.
LEMMA SeedsType ==
    ASSUME NEW c \in Corpora
    PROVE  /\ c \in Seq(Inputs) /\ Len(c) \in Nat /\ Len(c) > 0
           /\ \A k \in 1..Len(c) : c[k] \in Inputs
  BY FuzzCampaignAssumption

------------------------------------------------------------------------------
(* Seeds *)

WorkerTypes ==
    /\ seeds \in Corpora /\ source \in {"directory", "embedded"}
    /\ pc \in [Workers -> PcType] /\ todo \in [Workers -> TodoType]
    /\ corpus \in [Workers -> SUBSET Inputs] /\ seeded \in [Workers -> Seq(Nat)]

\* Worker w has nothing more to load: all embedded seeds are there, or those in
\* front of one that ends its process.
AllLoaded(w) ==
    source = "embedded" =>
        \/ Len(seeded[w]) = Len(seeds)
        \/ Len(seeded[w]) + 1 <= Len(seeds) /\ Ends(seeds[Len(seeded[w]) + 1])

\* What worker w has kept is in order, and on embedded seeds without a gap and
\* without a seed that ends a process; while it loads them, the next one is
\* behind what it has; only a worker that has kept nothing starts over; and once
\* it fuzzes there is nothing more to load, also after it has died.
SeedsOf(w) ==
    /\ \A j, k \in 1..Len(seeded[w]) : j < k => seeded[w][j] < seeded[w][k]
    /\ corpus[w] = {} => seeded[w] = <<>>
    /\ pc[w] = "seeding" =>
          /\ todo[w].left \in 1..Len(seeds)
          /\ \A j \in 1..Len(seeded[w]) : seeded[w][j] < todo[w].left
          /\ source = "embedded" => Len(seeded[w]) = todo[w].left - 1
    /\ source = "embedded" =>
          \A j \in 1..Len(seeded[w]) : seeded[w][j] = j /\ j <= Len(seeds) /\ ~Ends(seeds[j])
    /\ pc[w] \in {"fuzz", "mutate", "stats", "dead"} => AllLoaded(w)
    /\ pc[w] = "start" /\ corpus[w] # {} => AllLoaded(w)

SeedInv == WorkerTypes /\ \A w \in Workers : SeedsOf(w)

\* Before a worker starts it has loaded nothing.
LEMMA SeedInit == CampaignInit => SeedInv
<1> SUFFICES ASSUME CampaignInit PROVE SeedInv
  OBVIOUS
<1>1. seeds \in Corpora /\ seeds[1] \in Inputs /\ MaxIters \in Int /\ Len(seeds) \in Nat
  BY SeedsType, FuzzCampaignAssumption DEF CampaignInit
<1>2. WorkerTypes
  BY <1>1 DEF CampaignInit, WorkerTypes, PcType, TodoType
<1>3. ASSUME NEW w \in Workers PROVE SeedsOf(w)
  <2>1. pc[w] = "start" /\ corpus[w] = {} /\ seeded[w] = <<>>
    BY DEF CampaignInit
  <2> QED
    BY <1>1, <2>1 DEF SeedsOf
<1> QED
  BY <1>2, <1>3 DEF SeedInv

\* A worker is not touched by a step of another.
LEMMA OtherWorker ==
    ASSUME NEW v, SeedsOf(v), UNCHANGED <<seeds, source, pc[v], todo[v], corpus[v], seeded[v]>>
    PROVE  SeedsOf(v)'
  BY DEF SeedsOf, AllLoaded, Ends

\* A process that dies loses none of the seeds its worker had loaded.
LEMMA DieSeeds ==
    ASSUME SeedInv, NEW w \in Workers, NEW i, Die(w, i), AllLoaded(w)
    PROVE  SeedInv'
<1>1. WorkerTypes /\ SeedsOf(w)
  BY DEF SeedInv
<1>2. UNCHANGED <<seeds, source, todo, corpus, seeded>> /\ pc' = [pc EXCEPT ![w] = "dead"]
  BY DEF Die
<1>3. WorkerTypes'
  BY <1>1, <1>2 DEF WorkerTypes, PcType
<1>4. ASSUME NEW v \in Workers PROVE SeedsOf(v)'
  <2>1. CASE v # w
    <3>1. UNCHANGED <<seeds, source, pc[v], todo[v], corpus[v], seeded[v]>> /\ SeedsOf(v)
      BY <1>1, <1>2, <2>1 DEF WorkerTypes, SeedInv
    <3> QED
      BY <3>1, OtherWorker
  <2>2. CASE v = w
    <3>1. pc'[v] = "dead"
      BY <1>1, <1>2, <2>2 DEF WorkerTypes
    <3>2. AllLoaded(w)'
      BY <1>2 DEF AllLoaded, Ends
    <3> QED
      BY <1>1, <1>2, <2>2, <3>1, <3>2 DEF SeedsOf, Ends
  <2> QED
    BY <2>1, <2>2
<1> QED
  BY <1>3, <1>4 DEF SeedInv

\* Loading goes on behind the seed it has come to, whether that one is kept or not.
LEMMA add_inputSeeds == ASSUME SeedInv, NEW w \in Workers, add_input(w) PROVE SeedInv'
<1>1. WorkerTypes /\ SeedsOf(w)
  BY DEF SeedInv
<1>2. PICK n \in Nat : n = Len(seeded[w])
  BY <1>1 DEF WorkerTypes
<1>3. /\ pc[w] = "seeding" /\ seeds \in Seq(Inputs) /\ Len(seeds) \in Nat /\ seeded[w] \in Seq(Nat)
      /\ todo[w].left \in 1..Len(seeds)
  BY <1>1, SeedsType DEF add_input, WorkerTypes, SeedsOf
<1>4. PICK m \in 1..Len(seeds) : m = todo[w].left
  BY <1>3
<1>5. PICK i \in Inputs : i = seeds[m]
  BY <1>3
<1>6. (source = "embedded" => n = m - 1) /\ \A j \in 1..n : seeded[w][j] < m
  BY <1>1, <1>2, <1>3, <1>4 DEF SeedsOf
<1>7. CASE Ends(i) /\ Die(w, i)
  <2>1. AllLoaded(w)
    <3>1. source = "embedded" => n + 1 = m
      BY <1>3, <1>6
    <3> QED
      BY <1>2, <1>3, <1>5, <1>7, <3>1 DEF AllLoaded
  <2> QED
    BY <1>7, <2>1, DieSeeds
<1>8. CASE ~(Ends(i) /\ Die(w, i))
  <2>1. PICK keep \in BOOLEAN :
          /\ source = "embedded" => keep
          /\ corpus' = [corpus EXCEPT ![w] = IF keep THEN @ \cup {i} ELSE @]
          /\ seeded' = [seeded EXCEPT ![w] = IF keep THEN Append(@, m) ELSE @]
    BY <1>4, <1>5, <1>8 DEF add_input
  <2>2. /\ ~Ends(i) /\ UNCHANGED <<seeds, source>>
        /\ \/ m < Len(seeds) /\ todo' = [todo EXCEPT ![w].left = @ + 1] /\ UNCHANGED pc
           \/ ~(m < Len(seeds)) /\ pc' = [pc EXCEPT ![w] = "fuzz"] /\ UNCHANGED todo
    BY <1>4, <1>5, <1>8 DEF add_input
  <2>3. PICK c \in SUBSET Inputs : corpus' = [corpus EXCEPT ![w] = c] /\ (keep => c # {}) /\ (~keep => c = corpus[w])
    <3>1. corpus[w] \in SUBSET Inputs /\ corpus[w] \cup {i} \in SUBSET Inputs
      BY <1>1, <1>5 DEF WorkerTypes
    <3>2. CASE keep
      <4>1. corpus' = [corpus EXCEPT ![w] = corpus[w] \cup {i}] /\ corpus[w] \cup {i} # {}
        BY <2>1, <3>2
      <4> QED
        BY <3>1, <3>2, <4>1
    <3>3. CASE ~keep
      <4>1. corpus' = [corpus EXCEPT ![w] = corpus[w]]
        BY <2>1, <3>3
      <4> QED
        BY <3>1, <3>3, <4>1
    <3> QED
      BY <3>2, <3>3
  <2>4. PICK q \in Seq(Nat) :
          /\ seeded' = [seeded EXCEPT ![w] = q]
          /\ keep => Len(q) = n + 1 /\ q[n + 1] = m /\ \A k \in 1..n : q[k] = seeded[w][k]
          /\ ~keep => q = seeded[w]
    <3>1. CASE keep
      <4>1. Append(seeded[w], m) \in Seq(Nat) /\ seeded' = [seeded EXCEPT ![w] = Append(seeded[w], m)]
        BY <1>3, <2>1, <3>1
      <4>2. /\ Len(Append(seeded[w], m)) = n + 1 /\ Append(seeded[w], m)[n + 1] = m
            /\ \A k \in 1..n : Append(seeded[w], m)[k] = seeded[w][k]
        BY <1>2, <1>3
      <4> QED
        BY <3>1, <4>1, <4>2
    <3>2. CASE ~keep
      BY <1>3, <2>1, <3>2
    <3> QED
      BY <3>1, <3>2
  <2>5. todo' \in [Workers -> TodoType] /\ (m < Len(seeds) => todo'[w].left = m + 1)
    <3>1. todo[w].left \in Int /\ todo[w] \in TodoType
      BY <1>1 DEF WorkerTypes, TodoType
    <3>2. [todo[w] EXCEPT !.left = @ + 1] \in TodoType
      BY <3>1 DEF TodoType
    <3>3. CASE m < Len(seeds)
      <4>1. todo' = [todo EXCEPT ![w] = [todo[w] EXCEPT !.left = @ + 1]]
        BY <1>1, <2>2, <3>3 DEF WorkerTypes
      <4>2. todo'[w].left = todo[w].left + 1
        BY <1>1, <3>1, <4>1 DEF WorkerTypes, TodoType
      <4> QED
        BY <1>1, <1>4, <3>2, <4>1, <4>2 DEF WorkerTypes
    <3>4. CASE ~(m < Len(seeds))
      BY <1>1, <2>2, <3>4 DEF WorkerTypes
    <3> QED
      BY <3>3, <3>4
  <2>6. WorkerTypes'
    BY <1>1, <2>2, <2>3, <2>4, <2>5 DEF WorkerTypes, PcType
  <2>7. ASSUME NEW v \in Workers PROVE SeedsOf(v)'
    <3>1. CASE v # w
      <4>1. UNCHANGED <<seeds, source, pc[v], todo[v], corpus[v], seeded[v]>> /\ SeedsOf(v)
        BY <1>1, <2>2, <2>3, <2>4, <3>1 DEF WorkerTypes, SeedInv
      <4> QED
        BY <4>1, OtherWorker
    <3>2. CASE v = w
      <4>1. seeded'[w] = q /\ corpus'[w] = c
        BY <1>1, <2>3, <2>4 DEF WorkerTypes
      <4>2. (pc'[w] = "seeding" /\ m < Len(seeds)) \/ (pc'[w] = "fuzz" /\ ~(m < Len(seeds)))
        BY <1>1, <1>3, <2>2 DEF WorkerTypes
      <4>3. \A j \in 1..Len(q) : q[j] < m + 1
        <5>1. \A j \in 1..n : seeded[w][j] < m + 1
          BY <1>2, <1>3, <1>6
        <5>2. CASE keep
          <6>1. \A j \in 1..n + 1 : j \in 1..n \/ j = n + 1
            OBVIOUS
          <6> QED
            BY <2>4, <5>1, <5>2, <6>1
        <5>3. CASE ~keep
          BY <1>2, <2>4, <5>1, <5>3
        <5> QED
          BY <5>2, <5>3
      <4>4. \A j, k \in 1..Len(q) : j < k => q[j] < q[k]
        <5>1. \A j, k \in 1..n : j < k => seeded[w][j] < seeded[w][k]
          BY <1>1, <1>2 DEF SeedsOf
        <5>2. CASE keep
          <6>1. ASSUME NEW j \in 1..n + 1, NEW k \in 1..n + 1, j < k PROVE q[j] < q[k]
            <7>1. j \in 1..n
              BY <6>1
            <7>2. CASE k \in 1..n
              BY <2>4, <5>1, <5>2, <6>1, <7>1, <7>2
            <7>3. CASE k = n + 1
              BY <1>6, <2>4, <5>2, <7>1, <7>3
            <7> QED
              BY <7>2, <7>3
          <6> QED
            BY <2>4, <5>2, <6>1
        <5>3. CASE ~keep
          BY <1>2, <2>4, <5>1, <5>3
        <5> QED
          BY <5>2, <5>3
      <4>5. c = {} => q = <<>>
        BY <1>1, <2>3, <2>4 DEF SeedsOf
      <4>6. source = "embedded" => Len(q) = m /\ \A j \in 1..m : q[j] = j /\ j <= Len(seeds) /\ ~Ends(seeds[j])
        <5> SUFFICES ASSUME source = "embedded"
                     PROVE  Len(q) = m /\ \A j \in 1..m : q[j] = j /\ j <= Len(seeds) /\ ~Ends(seeds[j])
          OBVIOUS
        <5>1. keep /\ n + 1 = m
          BY <1>3, <1>6, <2>1
        <5>2. \A j \in 1..n : seeded[w][j] = j /\ j <= Len(seeds) /\ ~Ends(seeds[j])
          BY <1>1, <1>2 DEF SeedsOf
        <5>3. \A j \in 1..n : q[j] = j /\ j <= Len(seeds) /\ ~Ends(seeds[j])
          BY <2>4, <5>1, <5>2
        <5>4. Len(q) = m /\ q[m] = m /\ m <= Len(seeds) /\ ~Ends(seeds[m])
          BY <1>3, <1>5, <2>2, <2>4, <5>1
        <5>5. \A j \in 1..m : j \in 1..n \/ j = m
          BY <5>1
        <5> QED
          BY <5>3, <5>4, <5>5
      <4>7. pc'[w] = "fuzz" => m = Len(seeds)
        BY <1>3, <4>2
      <4>8. pc'[w] = "seeding" => todo'[w].left = m + 1 /\ m + 1 \in 1..Len(seeds)
        BY <1>3, <2>5, <4>2
      <4>9. pc'[w] = "fuzz" /\ source = "embedded" => Len(q) = Len(seeds)
        BY <4>6, <4>7
      <4>10. pc'[w] = "fuzz" => AllLoaded(w)'
        BY <2>2, <4>1, <4>9 DEF AllLoaded
      <4>11. pc'[w] = "seeding" =>
               /\ todo'[w].left \in 1..Len(seeds) /\ \A j \in 1..Len(q) : q[j] < todo'[w].left
               /\ source = "embedded" => Len(q) = todo'[w].left - 1
        BY <4>3, <4>6, <4>8
      <4> QED
        BY <2>2, <3>2, <4>1, <4>2, <4>4, <4>5, <4>6, <4>10, <4>11 DEF SeedsOf, Ends
    <3> QED
      BY <3>1, <3>2
  <2> QED
    BY <2>6, <2>7 DEF SeedInv
<1> QED
  BY <1>7, <1>8

\* The steps that add no seed.
LEMMA OtherSeeds ==
    ASSUME SeedInv, NEW w \in Workers,
           run_client(w) \/ run_client_fails(w) \/ fuzz_one(w) \/ Iteration(w) \/ StatsStage(w) \/ Restart(w) \/ Import(w)
    PROVE  SeedInv'
<1>1. WorkerTypes /\ SeedsOf(w)
  BY DEF SeedInv
<1>2. /\ seeds \in Seq(Inputs) /\ Len(seeds) \in Nat /\ Len(seeds) > 0
      /\ pc[w] \in PcType /\ todo[w] \in TodoType /\ corpus[w] \in SUBSET Inputs /\ seeded[w] \in Seq(Nat)
      /\ MaxIters \in Int /\ MaxIterations \in Nat
  BY <1>1, SeedsType, FuzzCampaignAssumption DEF WorkerTypes
<1>3. UNCHANGED <<seeds, source, seeded>> => (AllLoaded(w)' <=> AllLoaded(w))
  BY DEF AllLoaded, Ends
<1>4. ASSUME UNCHANGED <<seeds, source, seeded>>,
             NEW p \in PcType, pc' = [pc EXCEPT ![w] = p],
             NEW d \in TodoType, todo' = [todo EXCEPT ![w] = d],
             NEW c \in SUBSET Inputs, corpus' = [corpus EXCEPT ![w] = c], corpus[w] \subseteq c,
             p = "seeding" => corpus[w] = {} /\ d.left = 1,
             p \in {"fuzz", "mutate", "stats", "dead"} => AllLoaded(w),
             p = "start" /\ c # {} => AllLoaded(w)
      PROVE  SeedInv'
  <2>1. WorkerTypes'
    BY <1>1, <1>4 DEF WorkerTypes
  <2>2. ASSUME NEW v \in Workers PROVE SeedsOf(v)'
    <3>1. CASE v # w
      <4>1. UNCHANGED <<seeds, source, pc[v], todo[v], corpus[v], seeded[v]>> /\ SeedsOf(v)
        BY <1>1, <1>4, <3>1 DEF WorkerTypes, SeedInv
      <4> QED
        BY <4>1, OtherWorker
    <3>2. CASE v = w
      <4>1. pc'[v] = p /\ todo'[v] = d /\ corpus'[v] = c /\ seeded' = seeded /\ seeds' = seeds
        BY <1>1, <1>4, <3>2 DEF WorkerTypes
      <4>2. corpus[w] = {} => seeded[w] = <<>> /\ Len(seeded[w]) = 0
        BY <1>1, <1>2 DEF SeedsOf
      <4>3. p = "seeding" => /\ d.left = 1 /\ d.left \in 1..Len(seeds) /\ seeded[w] = <<>>
                             /\ Len(seeded[w]) = d.left - 1
        BY <1>2, <1>4, <4>2
      <4>4. AllLoaded(v)' <=> AllLoaded(w)
        BY <1>3, <1>4, <3>2
      <4> QED
        BY <1>1, <1>4, <3>2, <4>1, <4>2, <4>3, <4>4 DEF SeedsOf, Ends
    <3> QED
      BY <3>1, <3>2
  <2> QED
    BY <2>1, <2>2 DEF SeedInv
<1>5. pc = [pc EXCEPT ![w] = pc[w]] /\ todo = [todo EXCEPT ![w] = todo[w]] /\ corpus = [corpus EXCEPT ![w] = corpus[w]]
  BY <1>1 DEF WorkerTypes
<1>6. CASE run_client(w)
  <2>1. PICK p : p = IF LoadsSeeds(w) THEN "seeding" ELSE "fuzz"
    OBVIOUS
  <2>2. p \in PcType /\ pc' = [pc EXCEPT ![w] = p] /\ (p = "seeding" => corpus[w] = {})
    BY <1>6, <2>1 DEF run_client, LoadsSeeds, PcType
  <2>3. PICK d : d = [left |-> 1, base |-> todo[w].base, rounds |-> MaxIters]
    OBVIOUS
  <2>4. d \in TodoType /\ d.left = 1
    BY <1>2, <2>3 DEF TodoType
  <2>5. todo' = [todo EXCEPT ![w] = d]
    <3>1. todo' = [todo EXCEPT ![w].left = 1, ![w].rounds = MaxIters]
      BY <1>6 DEF run_client
    <3>2. [[todo[w] EXCEPT !.left = 1] EXCEPT !.rounds = MaxIters] = d
      <4>1. PICK r : r = [todo[w] EXCEPT !.left = 1]
        OBVIOUS
      <4>2. todo[w] \in [left : Int, base : Inputs, rounds : Int]
        BY <1>2 DEF TodoType
      <4>3. r \in [left : Int, base : Inputs, rounds : Int] /\ r.left = 1 /\ r.base = todo[w].base
        BY <4>1, <4>2
      <4>4. [r EXCEPT !.rounds = MaxIters] = d
        BY <2>3, <4>3
      <4> QED
        BY <4>1, <4>4, Zenon
    <3> QED
      BY <1>1, <3>1, <3>2 DEF WorkerTypes
  <2>6. p = "fuzz" => AllLoaded(w)
    BY <1>1, <1>6, <2>1 DEF run_client, LoadsSeeds, SeedsOf
  <2>7. UNCHANGED <<seeds, source, seeded, corpus>> /\ p \in {"seeding", "fuzz"}
    BY <1>6, <2>1 DEF run_client
  <2> QED
    BY <1>2, <1>4, <1>5, <2>2, <2>4, <2>5, <2>6, <2>7
<1>7. CASE fuzz_one(w)
  <2>1. PICK i \in corpus[w], n \in 1..MaxIterations : todo' = [todo EXCEPT ![w].left = n, ![w].base = i]
    BY <1>7 DEF fuzz_one
  <2>2. PICK d : d = [left |-> n, base |-> i, rounds |-> todo[w].rounds]
    OBVIOUS
  <2>3. d \in TodoType
    BY <1>2, <2>2 DEF TodoType
  <2>4. todo' = [todo EXCEPT ![w] = d]
    <3>1. [[todo[w] EXCEPT !.left = n] EXCEPT !.base = i] = d
      <4>1. PICK r : r = [todo[w] EXCEPT !.left = n]
        OBVIOUS
      <4>2. r \in TodoType /\ r.left = n /\ r.rounds = todo[w].rounds
        BY <1>2, <4>1 DEF TodoType
      <4>3. [r EXCEPT !.base = i] = d
        BY <2>2, <4>2 DEF TodoType
      <4> QED
        BY <4>1, <4>3, Zenon
    <3> QED
      BY <1>1, <2>1, <3>1 DEF WorkerTypes
  <2>5. UNCHANGED <<seeds, source, seeded, corpus>> /\ pc' = [pc EXCEPT ![w] = "mutate"] /\ pc[w] = "fuzz"
    BY <1>7 DEF fuzz_one
  <2>6. AllLoaded(w)
    BY <1>1, <2>5 DEF SeedsOf
  <2> QED
    BY <1>2, <1>4, <1>5, <2>3, <2>4, <2>5, <2>6 DEF PcType
<1>8. CASE Iteration(w)
  <2>1. pc[w] = "mutate" /\ AllLoaded(w)
    BY <1>1, <1>8 DEF Iteration, SeedsOf
  <2>2. PICK i \in Mutated(todo[w].base) :
          \/ Ends(i) /\ Die(w, i)
          \/ /\ \E interesting \in BOOLEAN :
                  corpus' = [corpus EXCEPT ![w] = IF interesting THEN @ \cup {i} ELSE @]
             /\ todo' = [todo EXCEPT ![w].left = @ - 1]
             /\ pc' = [pc EXCEPT ![w] = IF todo[w].left = 1 THEN "stats" ELSE "mutate"]
             /\ UNCHANGED <<seeds, source, seeded>>
    BY <1>8 DEF Iteration
  <2>3. i \in Inputs
    BY <1>2 DEF Mutated, TodoType
  <2>4. CASE Ends(i) /\ Die(w, i)
    BY <2>1, <2>4, DieSeeds
  <2>5. CASE ~(Ends(i) /\ Die(w, i))
    <3>1. PICK c \in SUBSET Inputs : corpus' = [corpus EXCEPT ![w] = c] /\ corpus[w] \subseteq c
      <4>1. PICK interesting \in BOOLEAN :
              corpus' = [corpus EXCEPT ![w] = IF interesting THEN corpus[w] \cup {i} ELSE corpus[w]]
        BY <2>2, <2>5
      <4>2. CASE interesting
        BY <1>2, <2>3, <4>1, <4>2
      <4>3. CASE ~interesting
        BY <1>2, <4>1, <4>3
      <4> QED
        BY <4>2, <4>3
    <3>2. PICK d \in TodoType : todo' = [todo EXCEPT ![w] = d]
      <4>1. [todo[w] EXCEPT !.left = @ - 1] \in TodoType
        BY <1>2 DEF TodoType
      <4>2. todo' = [todo EXCEPT ![w] = [todo[w] EXCEPT !.left = @ - 1]]
        BY <1>1, <2>2, <2>5 DEF WorkerTypes
      <4> QED
        BY <4>1, <4>2
    <3>3. PICK p \in {"stats", "mutate"} : pc' = [pc EXCEPT ![w] = p]
      BY <2>2, <2>5
    <3>4. p \in PcType /\ UNCHANGED <<seeds, source, seeded>>
      BY <2>2, <2>5 DEF PcType
    <3> QED
      BY <1>4, <2>1, <3>1, <3>2, <3>3, <3>4
  <2> QED
    BY <2>4, <2>5
<1>9. CASE StatsStage(w)
  <2>1. PICK d \in TodoType : todo' = [todo EXCEPT ![w] = d]
    <3>1. [todo[w] EXCEPT !.rounds = @ - 1] \in TodoType
      BY <1>2 DEF TodoType
    <3>2. todo' = [todo EXCEPT ![w] = [todo[w] EXCEPT !.rounds = @ - 1]]
      BY <1>1, <1>9 DEF WorkerTypes, StatsStage
    <3> QED
      BY <3>1, <3>2
  <2>2. UNCHANGED <<seeds, source, seeded, corpus>> /\ pc' = [pc EXCEPT ![w] = "fuzz"] /\ pc[w] = "stats"
    BY <1>9 DEF StatsStage
  <2>3. AllLoaded(w)
    BY <1>1, <2>2 DEF SeedsOf
  <2> QED
    BY <1>2, <1>4, <1>5, <2>1, <2>2, <2>3 DEF PcType
<1>10. CASE Restart(w)
  <2>1. UNCHANGED <<seeds, source, seeded, corpus, todo>> /\ pc' = [pc EXCEPT ![w] = "start"] /\ pc[w] = "dead"
    BY <1>10 DEF Restart
  <2>2. AllLoaded(w)
    BY <1>1, <2>1 DEF SeedsOf
  <2> QED
    BY <1>2, <1>4, <1>5, <2>1, <2>2 DEF PcType
<1>11. CASE Import(w)
  <2>1. PICK i \in Inputs : corpus' = [corpus EXCEPT ![w] = corpus[w] \cup {i}]
    BY <1>11 DEF Import
  <2>2. UNCHANGED <<seeds, source, seeded, pc, todo>> /\ pc[w] = "fuzz" /\ corpus[w] \cup {i} \in SUBSET Inputs
    BY <1>2, <1>11 DEF Import
  <2>3. AllLoaded(w)
    BY <1>1, <2>2 DEF SeedsOf
  <2>4. corpus[w] \subseteq corpus[w] \cup {i}
    OBVIOUS
  <2> QED
    BY <1>2, <1>4, <1>5, <2>1, <2>2, <2>3, <2>4, ZenonT(30) DEF PcType
<1>12. CASE run_client_fails(w)
  <2>1. UNCHANGED <<seeds, source, seeded, corpus, todo>> /\ pc' = [pc EXCEPT ![w] = "failed"]
    BY <1>12 DEF run_client_fails
  <2> QED
    BY <1>2, <1>4, <1>5, <2>1 DEF PcType
<1> QED
  BY <1>6, <1>7, <1>8, <1>9, <1>10, <1>11, <1>12

\* Loading goes through the seeds in order, in every state.
LEMMA SeedInvariant == CampaignSpec => []SeedInv
<1>1. SeedInv /\ [CampaignNext]_campaignVars => SeedInv'
  <2> SUFFICES ASSUME SeedInv, [CampaignNext]_campaignVars PROVE SeedInv'
    OBVIOUS
  <2>1. CASE UNCHANGED <<seeds, source, pc, todo, corpus, seeded>>
    BY <2>1 DEF SeedInv, WorkerTypes, SeedsOf, AllLoaded, Ends
  <2>2. CASE display \/ UNCHANGED campaignVars
    BY <2>1, <2>2 DEF display, campaignVars
  <2> QED
    BY <2>2, add_inputSeeds, OtherSeeds DEF CampaignNext, WorkerStep
<1> QED
  BY <1>1, SeedInit, PTL DEF CampaignSpec

\* RunClientBuilder::run_client: the initial inputs are kept in order and each at
\* most once, for any inputs and any order of deaths and restarts; and on embedded
\* seeds a worker fuzzes with exactly those in front of the first that ends its
\* process.
THEOREM SeedsLoadedOnce == CampaignSpec => []SeedsAreLoadedOnce
<1>1. SeedInv => SeedsAreLoadedOnce
  <2> SUFFICES ASSUME SeedInv, NEW w \in Workers
               PROVE  /\ \A j, k \in DOMAIN seeded[w] : j < k => seeded[w][j] < seeded[w][k]
                      /\ pc[w] \in {"fuzz", "mutate", "stats"} /\ source = "embedded" =>
                            \A k \in DOMAIN seeds :
                               (\E j \in DOMAIN seeded[w] : seeded[w][j] = k)
                                  <=> \A i \in 1..k : ~Ends(seeds[i])
    BY DEF SeedsAreLoadedOnce
  <2>1. /\ SeedsOf(w) /\ DOMAIN seeded[w] = 1..Len(seeded[w]) /\ DOMAIN seeds = 1..Len(seeds)
        /\ Len(seeded[w]) \in Nat /\ Len(seeds) \in Nat
    BY SeedsType DEF SeedInv, WorkerTypes
  <2>2. \A j, k \in DOMAIN seeded[w] : j < k => seeded[w][j] < seeded[w][k]
    BY <2>1 DEF SeedsOf
  <2>3. ASSUME pc[w] \in {"fuzz", "mutate", "stats"}, source = "embedded", NEW k \in DOMAIN seeds
        PROVE  (\E j \in DOMAIN seeded[w] : seeded[w][j] = k) <=> \A i \in 1..k : ~Ends(seeds[i])
    <3>1. PICK n \in Nat : n = Len(seeded[w])
      BY <2>1
    <3>2. \A j \in 1..n : seeded[w][j] = j /\ j <= Len(seeds) /\ ~Ends(seeds[j])
      BY <2>1, <2>3, <3>1 DEF SeedsOf
    <3>3. n = Len(seeds) \/ (n + 1 <= Len(seeds) /\ Ends(seeds[n + 1]))
      BY <2>1, <2>3, <3>1 DEF SeedsOf, AllLoaded
    <3>4. CASE k <= n
      <4>1. k \in 1..n /\ \A i \in 1..k : i \in 1..n
        BY <2>1, <3>4
      <4> QED
        BY <2>1, <3>1, <3>2, <4>1
    <3>5. CASE ~(k <= n)
      <4>1. n + 1 \in 1..k /\ Ends(seeds[n + 1])
        <5>1. k \in 1..Len(seeds) /\ k >= n + 1
          BY <2>1, <3>5
        <5>2. n # Len(seeds)
          BY <2>1, <3>1, <5>1
        <5> QED
          BY <2>1, <3>1, <3>3, <5>1, <5>2
      <4>2. ~\E j \in DOMAIN seeded[w] : seeded[w][j] = k
        BY <2>1, <3>1, <3>2, <3>5
      <4> QED
        BY <4>1, <4>2
    <3> QED
      BY <3>4, <3>5
  <2> QED
    BY <2>2, <2>3
<1> QED
  BY <1>1, SeedInvariant, PTL

------------------------------------------------------------------------------
(* The statistics of a process *)

Ordered(s) == s.set => s.min <= s.mean /\ s.mean <= s.max
Grows(s, t) == t.min <= s.min /\ s.max <= t.max /\ (s.set => t.set)

\* The greater and the smaller of two numbers, as update computes them.
LEMMA MaxMin ==
    ASSUME NEW a \in Nat, NEW b \in Nat
    PROVE  /\ Max({a, b}) \in Nat /\ Max({a, b}) >= a /\ Max({a, b}) >= b
           /\ Min({a, b}) \in Nat /\ Min({a, b}) <= a /\ Min({a, b}) <= b
<1>1. \E x \in {a, b} : \A y \in {a, b} : x >= y
  OBVIOUS
<1>2. \E x \in {a, b} : \A y \in {a, b} : x =< y
  OBVIOUS
<1>3. Max({a, b}) \in {a, b} /\ \A y \in {a, b} : Max({a, b}) >= y
  BY <1>1 DEF Max
<1>4. Min({a, b}) \in {a, b} /\ \A y \in {a, b} : Min({a, b}) =< y
  BY <1>2 DEF Min
<1> QED
  BY <1>3, <1>4

\* MinMaxMean::update keeps what was known in bounds, and its mean between them.
LEMMA UpdateIs ==
    ASSUME NEW s \in MinMaxMean, Ordered(s), NEW v \in Nat
    PROVE  update(s, v) \in MinMaxMean /\ update(s, v).set /\ Ordered(update(s, v)) /\ Grows(s, update(s, v))
<1>1. s.min \in Nat /\ s.max \in Nat /\ s.mean \in Nat /\ s.set \in BOOLEAN
  BY DEF MinMaxMean
<1>2. PICK lo, hi \in Nat : lo = Min({s.min, v}) /\ hi = Max({s.max, v})
  BY <1>1, MaxMin
<1>3. lo <= s.min /\ lo <= v /\ hi >= s.max /\ hi >= v
  BY <1>1, <1>2, MaxMin
<1>4. PICK m : m = mean(s, v)
  OBVIOUS
<1>5. m \in Nat /\ lo <= m /\ m <= hi
  <2>1. CASE s.set
    <3>1. m = (s.mean + v) \div 2 /\ s.min <= s.mean /\ s.mean <= s.max
      BY <1>4, <2>1 DEF mean, Ordered
    <3> QED
      BY <1>1, <1>3, <3>1
  <2>2. CASE ~s.set
    BY <1>3, <1>4, <2>2 DEF mean
  <2> QED
    BY <2>1, <2>2
<1>6. update(s, v) = [set |-> TRUE, mean |-> m, max |-> hi, min |-> lo]
  BY <1>2, <1>4 DEF update
<1> QED
  BY <1>1, <1>3, <1>5, <1>6 DEF MinMaxMean, Ordered, Grows

\* The same for the loop over the recipes of an input.
LEMMA UpdateSizesIs ==
    ASSUME NEW s \in MinMaxMean, Ordered(s), NEW sizes \in Seq(Nat)
    PROVE  /\ update_sizes(s, sizes) \in MinMaxMean
           /\ Ordered(update_sizes(s, sizes)) /\ Grows(s, update_sizes(s, sizes))
<1> DEFINE Loop(g, n) == g = [k \in 0..n |-> IF k = 0 THEN s ELSE update(g[k - 1], sizes[k])]
           Good(x) == x \in MinMaxMean /\ Ordered(x) /\ Grows(s, x)
<1>1. Len(sizes) \in Nat /\ \A k \in 1..Len(sizes) : sizes[k] \in Nat
  OBVIOUS
<1>2. \A n \in 0..Len(sizes) : \E g : Loop(g, n)
  <2> DEFINE Bad == {n \in 0..Len(sizes) : ~\E g : Loop(g, n)}
  <2> SUFFICES ASSUME Bad # {} PROVE FALSE
    OBVIOUS
  <2>1. Bad \subseteq Nat
    BY <1>1
  <2> HIDE DEF Bad
  <2>2. PICK n \in Bad : \A y \in Bad : ~(<<y, n>> \in OpToRel(<, Nat))
    BY <2>1, NatLessThanWellFounded, WFMin, Zenon
  <2>3. \A y \in Bad : ~(y < n)
    BY <2>1, <2>2 DEF OpToRel
  <2>4. n \in 0..Len(sizes) /\ ~\E g : Loop(g, n)
    BY <2>2 DEF Bad
  <2>5. CASE n = 0
    <3>1. Loop([k \in 0..0 |-> s], 0)
      OBVIOUS
    <3> QED
      BY <2>4, <2>5, <3>1
  <2>6. CASE n > 0
    <3>1. n - 1 \in 0..Len(sizes) /\ n - 1 < n
      BY <1>1, <2>4, <2>6
    <3>2. PICK g : Loop(g, n - 1)
      BY <2>3, <3>1 DEF Bad
    <3>3. PICK h : h = [k \in 0..n |-> IF k = n THEN update(g[n - 1], sizes[n]) ELSE g[k]]
      OBVIOUS
    <3>4. n \in Nat
      BY <2>4
    <3>5. \A k \in 0..n - 1 : g[k] = IF k = 0 THEN s ELSE update(g[k - 1], sizes[k])
      BY <3>2
    <3>6. ASSUME NEW k \in 0..n PROVE h[k] = IF k = 0 THEN s ELSE update(h[k - 1], sizes[k])
      <4>1. CASE k = 0
        <5>1. k \in 0..n - 1 /\ k # n
          BY <2>6, <3>4, <4>1
        <5> QED
          BY <3>3, <3>5, <4>1, <5>1
      <4>2. CASE k # 0 /\ k # n
        <5>1. k \in 0..n - 1 /\ k - 1 \in 0..n /\ k - 1 # n
          BY <3>4, <4>2
        <5>2. h[k] = g[k] /\ h[k - 1] = g[k - 1]
          BY <3>3, <4>2, <5>1
        <5> QED
          BY <3>5, <4>2, <5>1, <5>2
      <4>3. CASE k = n
        <5>1. n - 1 \in 0..n /\ n - 1 # n /\ k # 0
          BY <2>6, <3>4, <4>3
        <5>2. h[n] = update(g[n - 1], sizes[n]) /\ h[n - 1] = g[n - 1]
          BY <3>3, <3>4, <4>3, <5>1
        <5> QED
          BY <4>3, <5>1, <5>2
      <4> QED
        BY <4>1, <4>2, <4>3
    <3>7. h = [k \in 0..n |-> h[k]]
      BY <3>3
    <3>8. Loop(h, n)
      BY <3>6, <3>7
    <3> QED
      BY <2>4, <3>8
  <2> QED
    BY <2>4, <2>5, <2>6
<1>3. ASSUME NEW g, Loop(g, Len(sizes)) PROVE \A n \in 0..Len(sizes) : Good(g[n])
  <2> DEFINE Bad == {n \in 0..Len(sizes) : ~Good(g[n])}
  <2> SUFFICES ASSUME Bad # {} PROVE FALSE
    OBVIOUS
  <2>1. Bad \subseteq Nat
    BY <1>1
  <2> HIDE DEF Bad
  <2>2. PICK n \in Bad : \A y \in Bad : ~(<<y, n>> \in OpToRel(<, Nat))
    BY <2>1, NatLessThanWellFounded, WFMin, Zenon
  <2>3. \A y \in Bad : ~(y < n)
    BY <2>1, <2>2 DEF OpToRel
  <2>4. n \in 0..Len(sizes) /\ ~Good(g[n])
    BY <2>2 DEF Bad
  <2>5. g[n] = IF n = 0 THEN s ELSE update(g[n - 1], sizes[n])
    BY <1>3, <2>4
  <2>6. CASE n = 0
    <3>1. Good(s)
      BY DEF Grows, MinMaxMean
    <3> QED
      BY <2>4, <2>5, <2>6, <3>1
  <2>7. CASE n > 0
    <3>1. n - 1 \in 0..Len(sizes) /\ n - 1 < n /\ n \in 1..Len(sizes)
      BY <1>1, <2>4, <2>7
    <3>2. Good(g[n - 1]) /\ sizes[n] \in Nat
      BY <1>1, <2>3, <3>1 DEF Bad
    <3>3. PICK x, y : x = g[n - 1] /\ y = update(x, sizes[n])
      OBVIOUS
    <3>4. x \in MinMaxMean /\ Ordered(x) /\ Grows(s, x) /\ g[n] = y
      BY <2>5, <2>7, <3>2, <3>3
    <3>5. y \in MinMaxMean /\ Ordered(y) /\ Grows(x, y)
      BY <3>2, <3>3, <3>4, UpdateIs
    <3>6. Grows(s, y)
      BY <3>4, <3>5 DEF Grows, MinMaxMean
    <3> QED
      BY <2>4, <3>4, <3>5, <3>6
  <2> QED
    BY <2>4, <2>6, <2>7
<1>4. PICK g : g = CHOOSE f : Loop(f, Len(sizes))
  OBVIOUS
<1>5. Len(sizes) \in 0..Len(sizes)
  BY <1>1
<1>6. Loop(g, Len(sizes))
  <2> HIDE DEF Loop
  <2> QED
    BY <1>2, <1>4, <1>5
<1>7. update_sizes(s, sizes) = g[Len(sizes)]
  BY <1>4 DEF update_sizes
<1>8. Good(g[Len(sizes)])
  <2> HIDE DEF Loop, Good
  <2> QED
    BY <1>3, <1>5, <1>6
<1> QED
  BY <1>7, <1>8

\* What harness() does to the statistics: the three numbers of each stay in
\* order, their bounds only widen, and only an error is counted.
LEMMA HarnessIs ==
    ASSUME NEW s \in StatsType, Ordered(s.length), Ordered(s.size), NEW i \in Inputs,
           NEW t \in {CountInput(s, i), harness(s, i)}
    PROVE  /\ t \in StatsType /\ Ordered(t.length) /\ Ordered(t.size)
           /\ Grows(s.length, t.length) /\ Grows(s.size, t.size)
<1>1. s.length \in MinMaxMean /\ s.size \in MinMaxMean /\ s.counter \in [Kinds -> Nat]
  BY DEF StatsType
<1>2. i.length \in Nat /\ i.sizes \in Seq(Nat)
  BY InputType
<1>3. PICK l : l = update(s.length, i.length)
  OBVIOUS
<1>4. PICK z : z = update_sizes(s.size, i.sizes)
  OBVIOUS
<1>5. l \in MinMaxMean /\ Ordered(l) /\ Grows(s.length, l)
  BY <1>1, <1>2, <1>3, UpdateIs
<1>6. z \in MinMaxMean /\ Ordered(z) /\ Grows(s.size, z)
  BY <1>1, <1>2, <1>4, UpdateSizesIs
<1>7. PICK c : c = CountInput(s, i)
  OBVIOUS
<1>8. c = [counter |-> s.counter, length |-> l, size |-> z]
  BY <1>3, <1>4, <1>7 DEF CountInput, StatsType
<1>9. c \in StatsType /\ c.length = l /\ c.size = z
  BY <1>1, <1>5, <1>6, <1>8 DEF StatsType
<1>10. increment(s.counter, i.ends) \in [Kinds -> Nat]
  BY <1>1 DEF increment
<1>11. PICK h : h = harness(s, i)
  OBVIOUS
<1>12. h = [c EXCEPT !.counter = increment(s.counter, i.ends)]
  <2>1. h = [c EXCEPT !.counter = increment(c.counter, i.ends)]
    BY <1>7, <1>11 DEF harness
  <2>2. c.counter = s.counter
    BY <1>8
  <2> QED
    BY <2>1, <2>2, Zenon
<1>13. h \in StatsType /\ h.length = l /\ h.size = z
  BY <1>9, <1>10, <1>12 DEF StatsType
<1>14. CASE t = c
  BY <1>5, <1>6, <1>9, <1>14
<1>15. CASE t = h
  BY <1>5, <1>6, <1>13, <1>15
<1> QED
  BY <1>7, <1>11, <1>14, <1>15

------------------------------------------------------------------------------
(* The events of a StatsStage *)

EventFields == {"number", "min", "max", "mean"}
Event == (Kinds \cup Counted) \X EventFields \X Nat

StatOf(st, s) == IF s = "trace-length" THEN st.length ELSE st.size

\* Events F tell of st: those of a minimum, maximum or mean what it is, and the
\* one of a mean comes right after those of the maximum and the minimum.
Tells(F, st) ==
    \A k \in 1..Len(F), s \in Counted :
        F[k][1] = s =>
          /\ StatOf(st, s).set
          /\ \/ F[k] = <<s, "min", StatOf(st, s).min>>
             \/ F[k] = <<s, "max", StatOf(st, s).max>>
             \/ F[k] = <<s, "mean", StatOf(st, s).mean>>
          /\ F[k][2] = "mean" => /\ k > 2
                                 /\ F[k - 1] = <<s, "max", StatOf(st, s).max>>
                                 /\ F[k - 2] = <<s, "min", StatOf(st, s).min>>

\* F goes on after Q, with no number of errors.
GoesOn(Q, F) ==
    /\ Len(Q) \in Nat /\ Len(F) \in Nat /\ Len(F) >= Len(Q)
    /\ \A k \in 1..Len(Q) : F[k] = Q[k]
    /\ \A k \in 1..Len(F) : k > Len(Q) => F[k][2] # "number"

\* The events of one statistic, appended to a report, tell its values.
LEMMA FireBlock ==
    ASSUME NEW st \in StatsType, NEW Q \in Seq(Event), Tells(Q, st), NEW name \in Counted,
           NEW F, F = Q \o MinMaxMean_fire(name, StatOf(st, name))
    PROVE  F \in Seq(Event) /\ Tells(F, st) /\ GoesOn(Q, F)
<1>1. PICK m : m = StatOf(st, name)
  OBVIOUS
<1>2. m \in MinMaxMean /\ m.min \in Nat /\ m.max \in Nat /\ m.mean \in Nat
  BY <1>1 DEF StatOf, StatsType, MinMaxMean
<1>3. PICK n \in Nat : n = Len(Q)
  OBVIOUS
<1>4. CASE ~m.set
  <2>1. MinMaxMean_fire(name, StatOf(st, name)) = <<>>
    BY <1>1, <1>4 DEF MinMaxMean_fire
  <2>2. F = Q
    BY <2>1
  <2> QED
    BY <1>3, <2>2 DEF GoesOn
<1>5. CASE m.set
  <2>1. PICK B : B = <<<<name, "min", m.min>>, <<name, "max", m.max>>, <<name, "mean", m.mean>>>>
    OBVIOUS
  <2>2. F = Q \o B
    BY <1>1, <1>5, <2>1 DEF MinMaxMean_fire
  <2>3. B \in Seq(Event) /\ Len(B) = 3
    BY <1>2, <2>1 DEF Event, EventFields
  <2>10. /\ F \in Seq(Event) /\ Len(F) = Len(Q) + Len(B)
         /\ \A k \in 1..Len(Q) + Len(B) : F[k] = IF k <= Len(Q) THEN Q[k] ELSE B[k - Len(Q)]
    <3>1. /\ Q \o B \in Seq(Event) /\ Len(Q \o B) = Len(Q) + Len(B)
          /\ \A k \in 1..Len(Q) + Len(B) : (Q \o B)[k] = IF k <= Len(Q) THEN Q[k] ELSE B[k - Len(Q)]
      BY <2>3, ConcatProperties
    <3> QED
      BY <2>2, <3>1, Zenon
  <2>11. F \in Seq(Event) /\ Len(F) = n + 3 /\ \A k \in 1..n + 3 : F[k] = IF k <= n THEN Q[k] ELSE B[k - n]
    BY <1>3, <2>3, <2>10, Zenon
  <2>4. F \in Seq(Event) /\ Len(F) = n + 3 /\ \A k \in 1..n : F[k] = Q[k]
    <3>1. \A k \in 1..n : k \in 1..n + 3 /\ k <= n
      OBVIOUS
    <3> QED
      BY <2>11, <3>1
  <2>5. /\ F[n + 1] = <<name, "min", m.min>> /\ F[n + 2] = <<name, "max", m.max>>
        /\ F[n + 3] = <<name, "mean", m.mean>>
    <3>1. /\ n + 1 \in 1..n + 3 /\ n + 2 \in 1..n + 3 /\ n + 3 \in 1..n + 3
          /\ ~(n + 1 <= n) /\ ~(n + 2 <= n) /\ ~(n + 3 <= n)
          /\ (n + 1) - n = 1 /\ (n + 2) - n = 2 /\ (n + 3) - n = 3
      OBVIOUS
    <3>2. F[n + 1] = B[(n + 1) - n] /\ F[n + 2] = B[(n + 2) - n] /\ F[n + 3] = B[(n + 3) - n]
      BY <2>11, <3>1
    <3>3. F[n + 1] = B[1] /\ F[n + 2] = B[2] /\ F[n + 3] = B[3]
      BY <3>1, <3>2
    <3>4. B[1] = <<name, "min", m.min>> /\ B[2] = <<name, "max", m.max>> /\ B[3] = <<name, "mean", m.mean>>
      BY <2>1
    <3> QED
      BY <3>3, <3>4, Zenon
  <2>6. \A k \in 1..n + 3 : k \in 1..n \/ k = n + 1 \/ k = n + 2 \/ k = n + 3
    OBVIOUS
  <2>7. ASSUME NEW k \in 1..Len(F), NEW s \in Counted, F[k][1] = s
        PROVE  /\ StatOf(st, s).set
               /\ \/ F[k] = <<s, "min", StatOf(st, s).min>>
                  \/ F[k] = <<s, "max", StatOf(st, s).max>>
                  \/ F[k] = <<s, "mean", StatOf(st, s).mean>>
               /\ F[k][2] = "mean" => /\ k > 2
                                      /\ F[k - 1] = <<s, "max", StatOf(st, s).max>>
                                      /\ F[k - 2] = <<s, "min", StatOf(st, s).min>>
    <3>1. CASE k \in 1..n
      <4>1. F[k] = Q[k]
        BY <2>4, <3>1
      <4>2. /\ StatOf(st, s).set
            /\ \/ F[k] = <<s, "min", StatOf(st, s).min>>
               \/ F[k] = <<s, "max", StatOf(st, s).max>>
               \/ F[k] = <<s, "mean", StatOf(st, s).mean>>
            /\ F[k][2] = "mean" => /\ k > 2
                                   /\ Q[k - 1] = <<s, "max", StatOf(st, s).max>>
                                   /\ Q[k - 2] = <<s, "min", StatOf(st, s).min>>
        BY <1>3, <2>7, <3>1, <4>1 DEF Tells
      <4>3. k > 2 => k - 1 \in 1..n /\ k - 2 \in 1..n
        BY <3>1
      <4> QED
        BY <2>4, <4>2, <4>3
    <3>2. CASE k = n + 1
      BY <1>1, <1>5, <2>5, <2>7, <3>2
    <3>3. CASE k = n + 2
      BY <1>1, <1>5, <2>5, <2>7, <3>3
    <3>4. CASE k = n + 3
      <4>1. k > 2 /\ k - 1 = n + 2 /\ k - 2 = n + 1
        BY <3>4
      <4>2. s = name
        BY <2>5, <2>7, <3>4
      <4>3. /\ F[k] = <<s, "mean", StatOf(st, s).mean>> /\ StatOf(st, s).set
            /\ F[k - 1] = <<s, "max", StatOf(st, s).max>> /\ F[k - 2] = <<s, "min", StatOf(st, s).min>>
        BY <1>1, <1>5, <2>5, <3>4, <4>1, <4>2, Zenon
      <4> QED
        BY <4>1, <4>3
    <3> QED
      BY <2>4, <2>6, <3>1, <3>2, <3>3, <3>4
  <2>8. Tells(F, st)
    BY <2>7 DEF Tells
  <2>9. ASSUME NEW k \in 1..Len(F), k > Len(Q) PROVE F[k][2] # "number"
    <3>1. k = n + 1 \/ k = n + 2 \/ k = n + 3
      BY <1>3, <2>4, <2>6, <2>9
    <3>2. CASE k = n + 1
      BY <2>5, <3>2
    <3>3. CASE k = n + 2
      BY <2>5, <3>3
    <3>4. CASE k = n + 3
      BY <2>5, <3>4
    <3> QED
      BY <3>1, <3>2, <3>3, <3>4
  <2> QED
    BY <1>3, <2>4, <2>8, <2>9 DEF GoesOn
<1> QED
  BY <1>4, <1>5

\* RuntimeStats::fire for all of STATS: first the number of each error, then
\* what is known of lengths and sizes.
LEMMA FireIs ==
    ASSUME NEW st \in StatsType, NEW F, F = fire(st)
    PROVE  /\ F \in Seq(Event) /\ Tells(F, st) /\ Len(F) \in Nat /\ Len(F) >= 7
           /\ \A k \in 1..7 : F[k] = <<ErrorKinds[k], "number", st.counter[ErrorKinds[k]]>>
           /\ \A k \in 1..Len(F) : k > 7 => F[k][2] # "number"
<1>1. PICK A : A = [k \in 1..7 |-> <<ErrorKinds[k], "number", st.counter[ErrorKinds[k]]>>]
  OBVIOUS
<1>2. DOMAIN ErrorKinds = 1..7 /\ \A k \in 1..7 : ErrorKinds[k] \in Kinds
  BY DEF ErrorKinds, Kinds
<1>3. A \in Seq(Event) /\ Len(A) = 7
  <2>1. \A k \in 1..7 : <<ErrorKinds[k], "number", st.counter[ErrorKinds[k]]>> \in Event
    BY <1>2 DEF Event, EventFields, StatsType
  <2> QED
    BY <1>1, <2>1
<1>4. \A k \in 1..7 : A[k] = <<ErrorKinds[k], "number", st.counter[ErrorKinds[k]]>> /\ A[k][1] = ErrorKinds[k]
  BY <1>1
<1>5. Tells(A, st)
  <2>1. \A k \in 1..7 : A[k][1] \notin Counted
    BY <1>2, <1>4 DEF Counted, Kinds
  <2> QED
    BY <1>3, <2>1 DEF Tells
<1>6. PICK B : B = A \o MinMaxMean_fire("trace-length", StatOf(st, "trace-length"))
  OBVIOUS
<1>7. F = B \o MinMaxMean_fire("term-size", StatOf(st, "term-size"))
  BY <1>1, <1>2, <1>6 DEF fire, StatOf
<1>8. "trace-length" \in Counted /\ "term-size" \in Counted
  BY DEF Counted
<1>9. /\ B \in Seq(Event) /\ Tells(B, st) /\ Len(B) \in Nat /\ Len(B) >= 7
      /\ \A k \in 1..7 : B[k] = A[k]
      /\ \A k \in 1..Len(B) : k > 7 => B[k][2] # "number"
  <2>1. B \in Seq(Event) /\ Tells(B, st) /\ GoesOn(A, B)
    BY <1>3, <1>5, <1>6, <1>8, FireBlock, Zenon
  <2> QED
    BY <1>3, <2>1 DEF GoesOn
<1>10. /\ F \in Seq(Event) /\ Tells(F, st) /\ Len(F) \in Nat /\ Len(F) >= Len(B)
       /\ \A k \in 1..Len(B) : F[k] = B[k]
       /\ \A k \in 1..Len(F) : k > Len(B) => F[k][2] # "number"
  <2>1. F \in Seq(Event) /\ Tells(F, st) /\ GoesOn(B, F)
    BY <1>7, <1>8, <1>9, FireBlock, Zenon
  <2> QED
    BY <2>1 DEF GoesOn
<1>11. \A k \in 1..7 : F[k] = A[k]
  BY <1>9, <1>10
<1>12. ASSUME NEW k \in 1..Len(F), k > 7 PROVE F[k][2] # "number"
  <2>1. CASE k > Len(B)
    BY <1>10, <2>1
  <2>2. CASE k <= Len(B)
    <3>1. k \in 1..Len(B)
      BY <1>9, <1>10, <2>2
    <3> QED
      BY <1>9, <1>10, <1>12, <3>1
  <2> QED
    BY <1>9, <1>10, <2>1, <2>2
<1> QED
  BY <1>4, <1>9, <1>10, <1>11, <1>12

------------------------------------------------------------------------------
(* What the monitor shows *)

QueuedEvent == [client : Workers, event : Event, life : Nat]
ClientStats == UNION {[D -> [value : Nat, life : Nat]] : D \in SUBSET ((Kinds \cup Counted) \X EventFields)}

StatTypes ==
    /\ stats \in [Workers -> StatsType] /\ restarts \in [Workers -> Nat]
    /\ events \in Seq(QueuedEvent) /\ monitor \in [Workers -> ClientStats]

IsEvent(e, w, s, f) == e.client = w /\ e.event[1] = s /\ e.event[2] = f

\* The life that a process of w reports in is not over.  A worker that is dead
\* has reported nothing in its next life.
Lives(w) ==
    /\ \A j \in 1..Len(events) :
          events[j].client = w => /\ events[j].life <= restarts[w]
                                  /\ pc[w] = "dead" => events[j].life < restarts[w]
    /\ \A n \in DOMAIN monitor[w] : /\ monitor[w][n].life <= restarts[w]
                                    /\ pc[w] = "dead" => monitor[w][n].life < restarts[w]

\* A mean of this life that is shown or on its way is within the bounds that
\* the process knows now.
Within(w, s) ==
    LET st == StatOf(stats[w], s)
    IN  /\ Ordered(st)
        /\ \A j \in 1..Len(events) :
              IsEvent(events[j], w, s, "mean") /\ events[j].life = restarts[w]
                => st.set /\ st.min <= events[j].event[3] /\ events[j].event[3] <= st.max
        /\ <<s, "mean">> \in DOMAIN monitor[w] /\ monitor[w][<<s, "mean">>].life = restarts[w]
                => /\ st.set /\ st.min <= monitor[w][<<s, "mean">>].value
                   /\ monitor[w][<<s, "mean">>].value <= st.max

\* A mean on its way follows the maximum and the minimum of the same stage; those
\* that are no longer on their way are shown.
FollowsBounds(w, s) ==
    \A j \in 1..Len(events) :
        IsEvent(events[j], w, s, "mean") =>
          /\ IF j > 1
             THEN /\ IsEvent(events[j - 1], w, s, "max") /\ events[j - 1].life = events[j].life
                  /\ events[j].event[3] <= events[j - 1].event[3]
             ELSE /\ <<s, "max">> \in DOMAIN monitor[w] /\ monitor[w][<<s, "max">>].life = events[j].life
                  /\ events[j].event[3] <= monitor[w][<<s, "max">>].value
          /\ IF j > 2
             THEN /\ IsEvent(events[j - 2], w, s, "min") /\ events[j - 2].life = events[j].life
                  /\ events[j - 2].event[3] <= events[j].event[3]
             ELSE /\ <<s, "min">> \in DOMAIN monitor[w] /\ monitor[w][<<s, "min">>].life = events[j].life
                  /\ monitor[w][<<s, "min">>].value <= events[j].event[3]

\* A bound on its way is one for the means of the same life before it.
BoundsLater(w, s) ==
    \A j \in 1..Len(events) :
        /\ IsEvent(events[j], w, s, "min") =>
              /\ <<s, "mean">> \in DOMAIN monitor[w] /\ monitor[w][<<s, "mean">>].life = events[j].life
                   => events[j].event[3] <= monitor[w][<<s, "mean">>].value
              /\ \A i \in 1..j - 1 :
                   IsEvent(events[i], w, s, "mean") /\ events[i].life = events[j].life
                     => events[j].event[3] <= events[i].event[3]
        /\ IsEvent(events[j], w, s, "max") =>
              /\ <<s, "mean">> \in DOMAIN monitor[w] /\ monitor[w][<<s, "mean">>].life = events[j].life
                   => monitor[w][<<s, "mean">>].value <= events[j].event[3]
              /\ \A i \in 1..j - 1 :
                   IsEvent(events[i], w, s, "mean") /\ events[i].life = events[j].life
                     => events[i].event[3] <= events[j].event[3]

\* The mean that is shown is within each of the bounds shown of the same life.
ShownInOrder(w, s) ==
    <<s, "mean">> \in DOMAIN monitor[w] =>
      /\ <<s, "min">> \in DOMAIN monitor[w] /\ monitor[w][<<s, "min">>].life = monitor[w][<<s, "mean">>].life
           => monitor[w][<<s, "min">>].value <= monitor[w][<<s, "mean">>].value
      /\ <<s, "max">> \in DOMAIN monitor[w] /\ monitor[w][<<s, "max">>].life = monitor[w][<<s, "mean">>].life
           => monitor[w][<<s, "mean">>].value <= monitor[w][<<s, "max">>].value

\* Between two rounds the last report of each number of errors is what the
\* process has counted, on its way or shown.
LastNumber(w, k) ==
    \/ \E j \in 1..Len(events) :
          /\ IsEvent(events[j], w, k, "number") /\ events[j].event[3] = stats[w].counter[k]
          /\ \A i \in 1..Len(events) : i > j => ~IsEvent(events[i], w, k, "number")
    \/ /\ \A i \in 1..Len(events) : ~IsEvent(events[i], w, k, "number")
       /\ <<k, "number">> \in DOMAIN monitor[w] /\ monitor[w][<<k, "number">>].value = stats[w].counter[k]

NumbersOf(w) ==
    /\ pc[w] = "seeding" => todo[w].rounds = MaxIters
    /\ pc[w] = "fuzz" /\ todo[w].rounds < MaxIters => \A k \in Kinds : LastNumber(w, k)

StatInv ==
    /\ StatTypes
    /\ \A w \in Workers : Lives(w) /\ NumbersOf(w)
    /\ \A w \in Workers, s \in Counted :
          Within(w, s) /\ FollowsBounds(w, s) /\ BoundsLater(w, s) /\ ShownInOrder(w, s)

\* The statistics of a new process are ordered.
LEMMA NewStatsIs ==
    NewStats \in StatsType /\ Ordered(NewStats.length) /\ Ordered(NewStats.size)
<1>1. NewMinMaxMean \in MinMaxMean /\ Ordered(NewMinMaxMean)
  BY FuzzCampaignAssumption DEF NewMinMaxMean, MinMaxMean, Ordered
<1> QED
  BY <1>1, KindsAre DEF NewStats, StatsType

\* Before anything is reported nothing is shown.
LEMMA StatInit == CampaignInit => StatInv
<1> SUFFICES ASSUME CampaignInit PROVE StatInv
  OBVIOUS
<1>1. events = <<>> /\ \A w \in Workers : monitor[w] = <<>> /\ pc[w] = "start" /\ stats[w] = NewStats
  BY DEF CampaignInit
<1>2. DOMAIN <<>> = {} /\ Len(<<>>) = 0 /\ 1..0 = {}
  OBVIOUS
<1>3. <<>> \in ClientStats
  <2>1. <<>> \in [{} -> [value : Nat, life : Nat]]
    BY <1>2
  <2> QED
    BY <2>1 DEF ClientStats
<1>4. StatTypes
  <2>1. events \in Seq(QueuedEvent)
    BY <1>1
  <2> QED
    BY <2>1, <1>3, NewStatsIs DEF StatTypes, CampaignInit
<1>5. ASSUME NEW w \in Workers PROVE Lives(w) /\ NumbersOf(w)
  BY <1>1, <1>2 DEF Lives, NumbersOf
<1>6. ASSUME NEW w \in Workers, NEW s \in Counted
      PROVE  Within(w, s) /\ FollowsBounds(w, s) /\ BoundsLater(w, s) /\ ShownInOrder(w, s)
  <2>1. Ordered(StatOf(stats[w], s))
    BY <1>1, NewStatsIs DEF StatOf
  <2> QED
    BY <1>1, <1>2, <2>1 DEF Within, FollowsBounds, BoundsLater, ShownInOrder
<1> QED
  BY <1>4, <1>5, <1>6 DEF StatInv

\* A step of w that reports nothing: its process goes on and knows wider bounds,
\* or is over, or is a new one.
LEMMA QuietStep ==
    ASSUME StatInv, NEW w \in Workers, UNCHANGED <<events, monitor>>,
           \A v \in Workers \ {w} : UNCHANGED <<pc[v], todo[v], stats[v], restarts[v]>>,
           stats' \in [Workers -> StatsType], restarts' \in [Workers -> Nat],
           Ordered(stats'[w].length), Ordered(stats'[w].size),
           \/ /\ restarts'[w] = restarts[w] /\ pc'[w] # "dead"
              /\ Grows(stats[w].length, stats'[w].length) /\ Grows(stats[w].size, stats'[w].size)
           \/ restarts'[w] = restarts[w] + 1
           \/ restarts'[w] = restarts[w] /\ pc[w] = "dead" /\ pc'[w] # "dead",
           NumbersOf(w)'
    PROVE  StatInv'
<1>1. StatTypes /\ Lives(w) /\ \A v \in Workers : restarts[v] \in Nat
  BY DEF StatInv, StatTypes
<1>2. StatTypes'
  BY <1>1 DEF StatTypes
<1>3. \A j \in 1..Len(events) : events[j].life \in Nat /\ events[j].event[3] \in Nat
  <2>1. \A j \in 1..Len(events) : events[j] \in QueuedEvent
    BY <1>1 DEF StatTypes
  <2> QED
    BY <2>1 DEF QueuedEvent, Event
<1>4. \A v \in Workers : \A n \in DOMAIN monitor[v] : monitor[v][n].life \in Nat /\ monitor[v][n].value \in Nat
  <2>1. \A v \in Workers : monitor[v] \in ClientStats
    BY <1>1 DEF StatTypes
  <2> QED
    BY <2>1 DEF ClientStats
<1>5. ASSUME NEW v \in Workers PROVE Lives(v)' /\ NumbersOf(v)'
  <2>1. CASE v # w
    <3>1. UNCHANGED <<pc[v], todo[v], stats[v], restarts[v], events, monitor>> /\ Lives(v) /\ NumbersOf(v)
      BY <2>1 DEF StatInv
    <3> QED
      BY <3>1 DEF Lives, NumbersOf, LastNumber, IsEvent
  <2>2. CASE v = w
    <3>1. /\ restarts'[w] \in Nat /\ restarts[w] \in Nat
          /\ (restarts'[w] = restarts[w] /\ pc'[w] # "dead") \/ restarts'[w] = restarts[w] + 1
      BY <1>1
    <3>2. Lives(w)'
      BY <1>1, <1>3, <1>4, <3>1 DEF Lives
    <3> QED
      BY <2>2, <3>2
  <2> QED
    BY <2>1, <2>2
<1>6. ASSUME NEW v \in Workers, NEW s \in Counted
      PROVE  (Within(v, s) /\ FollowsBounds(v, s) /\ BoundsLater(v, s) /\ ShownInOrder(v, s))'
  <2>1. Within(v, s) /\ FollowsBounds(v, s) /\ BoundsLater(v, s) /\ ShownInOrder(v, s)
    BY DEF StatInv
  <2>2. (FollowsBounds(v, s) /\ BoundsLater(v, s) /\ ShownInOrder(v, s))'
    BY <2>1, ZenonT(30) DEF FollowsBounds, BoundsLater, ShownInOrder, IsEvent
  <2>3. CASE v # w
    BY <2>1, <2>2, <2>3 DEF Within, StatOf, IsEvent
  <2>4. CASE v = w
    <3>1. PICK a, b : a = StatOf(stats[w], s) /\ b = StatOf(stats'[w], s)
      OBVIOUS
    <3>2. a \in MinMaxMean /\ b \in MinMaxMean /\ Ordered(b)
      BY <1>1, <3>1 DEF StatOf, StatTypes, StatsType
    <3>3. \/ restarts'[w] = restarts[w] /\ Grows(a, b)
          \/ \A j \in 1..Len(events) : events[j].client = w => events[j].life # restarts'[w]
      BY <1>1, <1>3, <3>1 DEF StatOf, Lives
    <3>4. \/ restarts'[w] = restarts[w] /\ Grows(a, b)
          \/ \A n \in DOMAIN monitor[w] : monitor[w][n].life # restarts'[w]
      BY <1>1, <1>4, <3>1 DEF StatOf, Lives
    <3>5. ASSUME NEW j \in 1..Len(events), IsEvent(events[j], w, s, "mean"), events[j].life = restarts'[w]
          PROVE  b.set /\ b.min <= events[j].event[3] /\ events[j].event[3] <= b.max
      <4>1. restarts'[w] = restarts[w] /\ Grows(a, b)
        BY <3>3, <3>5 DEF IsEvent
      <4>2. a.set /\ a.min <= events[j].event[3] /\ events[j].event[3] <= a.max
        BY <2>1, <2>4, <3>1, <3>5, <4>1 DEF Within
      <4> QED
        BY <1>3, <3>2, <4>1, <4>2 DEF Grows, MinMaxMean
    <3>6. ASSUME <<s, "mean">> \in DOMAIN monitor[w], monitor[w][<<s, "mean">>].life = restarts'[w]
          PROVE  /\ b.set /\ b.min <= monitor[w][<<s, "mean">>].value
                 /\ monitor[w][<<s, "mean">>].value <= b.max
      <4>1. restarts'[w] = restarts[w] /\ Grows(a, b)
        BY <3>4, <3>6
      <4>2. /\ a.set /\ a.min <= monitor[w][<<s, "mean">>].value
            /\ monitor[w][<<s, "mean">>].value <= a.max
        BY <2>1, <2>4, <3>1, <3>6, <4>1 DEF Within
      <4>3. monitor[w][<<s, "mean">>].value \in Nat
        BY <1>4, <3>6
      <4> QED
        BY <3>2, <4>1, <4>2, <4>3 DEF Grows, MinMaxMean
    <3>7. Within(w, s)'
      BY <3>1, <3>2, <3>5, <3>6 DEF Within
    <3> QED
      BY <2>2, <2>4, <3>7
  <2> QED
    BY <2>3, <2>4
<1> QED
  BY <1>2, <1>5, <1>6 DEF StatInv

\* What the invariant says of the statistics of one process.
LEMMA StatFacts ==
    ASSUME StatInv, NEW w \in Workers
    PROVE  /\ stats[w] \in StatsType /\ Ordered(stats[w].length) /\ Ordered(stats[w].size)
           /\ Grows(stats[w].length, stats[w].length) /\ Grows(stats[w].size, stats[w].size)
           /\ restarts[w] \in Nat /\ NumbersOf(w)
<1>1. stats[w] \in StatsType /\ restarts[w] \in Nat /\ NumbersOf(w)
  BY DEF StatInv, StatTypes
<1>2. "trace-length" \in Counted /\ "term-size" \in Counted
  BY DEF Counted
<1>3. Ordered(StatOf(stats[w], "trace-length")) /\ Ordered(StatOf(stats[w], "term-size"))
  BY <1>2 DEF StatInv, Within
<1>4. Ordered(stats[w].length) /\ Ordered(stats[w].size)
  BY <1>3 DEF StatOf
<1>5. Grows(stats[w].length, stats[w].length) /\ Grows(stats[w].size, stats[w].size)
  BY <1>1 DEF Grows, StatsType, MinMaxMean
<1> QED
  BY <1>1, <1>4, <1>5

\* A process that dies leaves its reports as they are; the next has new statistics.
LEMMA DieStats ==
    ASSUME SeedInv, StatInv, NEW w \in Workers, NEW i \in Inputs, Die(w, i)
    PROVE  StatInv'
<1>1. /\ stats[w] \in StatsType /\ Ordered(stats[w].length) /\ Ordered(stats[w].size)
      /\ restarts[w] \in Nat /\ WorkerTypes /\ StatTypes
  BY StatFacts DEF SeedInv, StatInv
<1>2. /\ UNCHANGED <<events, monitor, todo>> /\ pc' = [pc EXCEPT ![w] = "dead"]
      /\ restarts' = [restarts EXCEPT ![w] = restarts[w] + 1]
      /\ stats' = [stats EXCEPT ![w] = CountInput(stats[w], i)]
  BY DEF Die
<1>3. PICK t : t = CountInput(stats[w], i)
  OBVIOUS
<1>4. t \in StatsType /\ Ordered(t.length) /\ Ordered(t.size)
  BY <1>1, <1>3, HarnessIs
<1>5. stats' \in [Workers -> StatsType] /\ restarts' \in [Workers -> Nat] /\ stats'[w] = t
      /\ restarts'[w] = restarts[w] + 1
  BY <1>1, <1>2, <1>3, <1>4 DEF StatTypes
<1>6. \A v \in Workers \ {w} : UNCHANGED <<pc[v], todo[v], stats[v], restarts[v]>>
  BY <1>1, <1>2 DEF WorkerTypes, StatTypes
<1>7. NumbersOf(w)'
  BY <1>1, <1>2 DEF NumbersOf, WorkerTypes
<1> QED
  BY <1>2, <1>4, <1>5, <1>6, <1>7, QuietStep

\* An execution that its process survives.
LEMMA RunStats ==
    ASSUME SeedInv, StatInv, NEW w \in Workers, NEW i \in Inputs, UNCHANGED <<events, monitor, restarts>>,
           stats' = [stats EXCEPT ![w] = harness(stats[w], i)],
           NEW p \in PcType, pc' = [pc EXCEPT ![w] = p], p # "dead",
           \A v \in Workers \ {w} : UNCHANGED todo[v],
           p \in {"seeding", "fuzz"} => todo'[w].rounds = MaxIters
    PROVE  StatInv'
<1>1. /\ stats[w] \in StatsType /\ Ordered(stats[w].length) /\ Ordered(stats[w].size)
      /\ restarts[w] \in Nat /\ WorkerTypes /\ StatTypes /\ MaxIters \in Nat
  BY StatFacts, FuzzCampaignAssumption DEF SeedInv, StatInv
<1>2. PICK t : t = harness(stats[w], i)
  OBVIOUS
<1>3. /\ t \in StatsType /\ Ordered(t.length) /\ Ordered(t.size)
      /\ Grows(stats[w].length, t.length) /\ Grows(stats[w].size, t.size)
  BY <1>1, <1>2, HarnessIs
<1>4. stats' \in [Workers -> StatsType] /\ restarts' \in [Workers -> Nat] /\ stats'[w] = t
  BY <1>1, <1>2, <1>3 DEF StatTypes
<1>5. \A v \in Workers \ {w} : UNCHANGED <<pc[v], todo[v], stats[v], restarts[v]>>
  BY <1>1 DEF WorkerTypes, StatTypes
<1>6. pc'[w] = p
  BY <1>1 DEF WorkerTypes
<1>7. NumbersOf(w)'
  BY <1>1, <1>6 DEF NumbersOf
<1> QED
  BY <1>3, <1>4, <1>5, <1>6, <1>7, QuietStep

\* Loading, iterating and restarting send nothing to the monitor.
LEMMA QuietSteps ==
    ASSUME SeedInv, StatInv, NEW w \in Workers,
           \/ run_client(w) \/ run_client_fails(w) \/ add_input(w)
           \/ fuzz_one(w) \/ Iteration(w) \/ Restart(w)
    PROVE  StatInv'
<1>1. /\ stats[w] \in StatsType /\ Ordered(stats[w].length) /\ Ordered(stats[w].size)
      /\ Grows(stats[w].length, stats[w].length) /\ Grows(stats[w].size, stats[w].size)
      /\ restarts[w] \in Nat /\ NumbersOf(w) /\ WorkerTypes /\ SeedsOf(w) /\ StatTypes
      /\ todo[w] \in TodoType /\ MaxIters \in Nat
  BY StatFacts, FuzzCampaignAssumption DEF SeedInv, StatInv, WorkerTypes
<1>2. stats \in [Workers -> StatsType] /\ restarts \in [Workers -> Nat]
  BY <1>1 DEF StatTypes
<1>3. CASE run_client(w)
  <2>1. /\ UNCHANGED <<events, monitor, stats, restarts>>
        /\ todo' = [todo EXCEPT ![w].left = 1, ![w].rounds = MaxIters]
        /\ pc' = [pc EXCEPT ![w] = IF LoadsSeeds(w) THEN "seeding" ELSE "fuzz"]
    BY <1>3 DEF run_client
  <2>2. \A v \in Workers \ {w} : UNCHANGED <<pc[v], todo[v], stats[v], restarts[v]>>
    BY <1>1, <2>1 DEF WorkerTypes
  <2>3. todo'[w].rounds = MaxIters /\ pc'[w] \in {"seeding", "fuzz"}
    BY <1>1, <2>1 DEF WorkerTypes, TodoType
  <2>4. NumbersOf(w)'
    BY <1>1, <2>3 DEF NumbersOf
  <2>5. pc'[w] # "dead" /\ stats' = stats /\ restarts' = restarts
    BY <2>1, <2>3
  <2> QED
    BY <1>1, <1>2, <2>1, <2>2, <2>4, <2>5, QuietStep
<1>4. CASE add_input(w)
  <2>1. PICK i : i = seeds[todo[w].left]
    OBVIOUS
  <2>2. i \in Inputs /\ pc[w] = "seeding" /\ todo[w].rounds = MaxIters
    <3>1. pc[w] = "seeding"
      BY <1>4 DEF add_input
    <3>2. todo[w].left \in 1..Len(seeds) /\ todo[w].rounds = MaxIters
      BY <1>1, <3>1 DEF SeedsOf, NumbersOf
    <3>3. \A k \in 1..Len(seeds) : seeds[k] \in Inputs
      BY <1>1, SeedsType DEF WorkerTypes
    <3> QED
      BY <2>1, <3>1, <3>2, <3>3
  <2>3. CASE Ends(i) /\ Die(w, i)
    BY <2>2, <2>3, DieStats
  <2>4. CASE ~(Ends(i) /\ Die(w, i))
    <3>1. /\ stats' = [stats EXCEPT ![w] = harness(stats[w], i)] /\ UNCHANGED <<events, monitor, restarts>>
          /\ \/ todo' = [todo EXCEPT ![w].left = @ + 1] /\ UNCHANGED pc
             \/ pc' = [pc EXCEPT ![w] = "fuzz"] /\ UNCHANGED todo
      BY <1>4, <2>1, <2>4 DEF add_input
    <3>2. PICK p \in {"seeding", "fuzz"} : pc' = [pc EXCEPT ![w] = p]
      <4>1. pc = [pc EXCEPT ![w] = "seeding"]
        BY <1>1, <2>2 DEF WorkerTypes
      <4> QED
        BY <3>1, <4>1
    <3>3. (\A v \in Workers \ {w} : UNCHANGED todo[v]) /\ todo'[w].rounds = MaxIters
      BY <1>1, <2>2, <3>1 DEF WorkerTypes, TodoType
    <3>4. p \in PcType /\ p # "dead"
      BY DEF PcType
    <3> QED
      BY <2>2, <3>1, <3>2, <3>3, <3>4, RunStats
  <2> QED
    BY <2>3, <2>4
<1>5. CASE fuzz_one(w)
  <2>1. /\ UNCHANGED <<events, monitor, stats, restarts>> /\ pc' = [pc EXCEPT ![w] = "mutate"]
        /\ \E i, n : todo' = [todo EXCEPT ![w].left = n, ![w].base = i]
    BY <1>5 DEF fuzz_one
  <2>2. \A v \in Workers \ {w} : UNCHANGED <<pc[v], todo[v], stats[v], restarts[v]>>
    BY <1>1, <2>1 DEF WorkerTypes
  <2>3. pc'[w] = "mutate"
    BY <1>1, <2>1 DEF WorkerTypes
  <2>4. NumbersOf(w)'
    BY <2>3 DEF NumbersOf
  <2>5. pc'[w] # "dead" /\ stats' = stats /\ restarts' = restarts
    BY <2>1, <2>3
  <2> QED
    BY <1>1, <1>2, <2>1, <2>2, <2>4, <2>5, QuietStep
<1>6. CASE Iteration(w)
  <2>1. PICK i \in Mutated(todo[w].base) :
          \/ Ends(i) /\ Die(w, i)
          \/ /\ stats' = [stats EXCEPT ![w] = harness(stats[w], i)]
             /\ todo' = [todo EXCEPT ![w].left = @ - 1]
             /\ pc' = [pc EXCEPT ![w] = IF todo[w].left = 1 THEN "stats" ELSE "mutate"]
             /\ UNCHANGED <<events, monitor, restarts>>
    BY <1>6 DEF Iteration
  <2>2. i \in Inputs
    BY <1>1 DEF Mutated, TodoType
  <2>3. CASE Ends(i) /\ Die(w, i)
    BY <2>2, <2>3, DieStats
  <2>4. CASE ~(Ends(i) /\ Die(w, i))
    <3>1. PICK p \in {"stats", "mutate"} : pc' = [pc EXCEPT ![w] = p]
      BY <2>1, <2>4
    <3>2. \A v \in Workers \ {w} : UNCHANGED todo[v]
      BY <1>1, <2>1, <2>4 DEF WorkerTypes
    <3>3. p \in PcType /\ p # "dead" /\ p \notin {"seeding", "fuzz"}
      BY DEF PcType
    <3> QED
      BY <2>1, <2>2, <2>4, <3>1, <3>2, <3>3, RunStats
  <2> QED
    BY <2>3, <2>4
<1>7. CASE Restart(w)
  <2>1. /\ UNCHANGED <<events, monitor, restarts, todo>> /\ pc' = [pc EXCEPT ![w] = "start"]
        /\ stats' = [stats EXCEPT ![w] = NewStats] /\ pc[w] = "dead"
    BY <1>7 DEF Restart
  <2>2. stats' \in [Workers -> StatsType] /\ stats'[w] = NewStats
    BY <1>2, <2>1, NewStatsIs
  <2>3. \A v \in Workers \ {w} : UNCHANGED <<pc[v], todo[v], stats[v], restarts[v]>>
    BY <1>1, <1>2, <2>1 DEF WorkerTypes
  <2>4. pc'[w] = "start"
    BY <1>1, <2>1 DEF WorkerTypes
  <2>5. NumbersOf(w)'
    BY <2>4 DEF NumbersOf
  <2>6. Ordered(stats'[w].length) /\ Ordered(stats'[w].size)
    BY <2>2, NewStatsIs
  <2>7. restarts' = restarts /\ pc'[w] # "dead"
    BY <2>1, <2>4
  <2> QED
    BY <1>2, <2>1, <2>2, <2>3, <2>5, <2>6, <2>7, QuietStep
<1>8. CASE run_client_fails(w)
  <2>1. UNCHANGED <<events, monitor, stats, restarts, todo>> /\ pc' = [pc EXCEPT ![w] = "failed"]
    BY <1>8 DEF run_client_fails
  <2>2. \A v \in Workers \ {w} : UNCHANGED <<pc[v], todo[v], stats[v], restarts[v]>>
    BY <1>1, <2>1 DEF WorkerTypes
  <2>3. pc'[w] = "failed"
    BY <1>1, <2>1 DEF WorkerTypes
  <2>4. NumbersOf(w)'
    BY <2>3 DEF NumbersOf
  <2>5. pc'[w] # "dead" /\ stats' = stats /\ restarts' = restarts
    BY <2>1, <2>3
  <2> QED
    BY <1>1, <1>2, <2>1, <2>2, <2>4, <2>5, QuietStep
<1> QED
  BY <1>3, <1>4, <1>5, <1>6, <1>7, <1>8

\* A report sends the numbers of the process after those it sent before.
LEMMA StatsStageStats ==
    ASSUME SeedInv, StatInv, NEW w \in Workers, StatsStage(w)
    PROVE  StatInv'
<1>1. /\ stats[w] \in StatsType /\ Ordered(stats[w].length) /\ Ordered(stats[w].size)
      /\ restarts[w] \in Nat /\ WorkerTypes /\ StatTypes
  BY StatFacts DEF SeedInv, StatInv
<1>2. PICK F, r : F = fire(stats[w]) /\ r = restarts[w]
  OBVIOUS
<1>3. /\ F \in Seq(Event) /\ Tells(F, stats[w]) /\ Len(F) \in Nat /\ Len(F) >= 7
      /\ \A k \in 1..7 : F[k] = <<ErrorKinds[k], "number", stats[w].counter[ErrorKinds[k]]>>
      /\ \A k \in 1..Len(F) : k > 7 => F[k][2] # "number"
  BY <1>1, <1>2, FireIs, Zenon
<1>4. PICK G : G = [k \in 1..Len(F) |-> [client |-> w, event |-> F[k], life |-> r]]
  OBVIOUS
<1>5. G \in Seq(QueuedEvent) /\ Len(G) = Len(F)
  <2>1. \A k \in 1..Len(F) : [client |-> w, event |-> F[k], life |-> r] \in QueuedEvent
    BY <1>1, <1>2, <1>3 DEF QueuedEvent
  <2> QED
    BY <1>3, <1>4, <2>1
<1>6. /\ events' = events \o G /\ UNCHANGED <<stats, monitor, restarts>>
      /\ pc' = [pc EXCEPT ![w] = "fuzz"] /\ todo' = [todo EXCEPT ![w].rounds = @ - 1]
  <2>1. DOMAIN F = 1..Len(F)
    BY <1>3
  <2> QED
    BY <1>2, <1>4, <2>1 DEF StatsStage
<1>7. PICK N, L \in Nat : N = Len(events) /\ L = Len(F)
  BY <1>1, <1>3 DEF StatTypes
<1>8. /\ events' \in Seq(QueuedEvent) /\ Len(events') = N + L
      /\ \A j \in 1..N + L : events'[j] = IF j <= N THEN events[j] ELSE G[j - N]
  <2>1. /\ events \o G \in Seq(QueuedEvent) /\ Len(events \o G) = Len(events) + Len(G)
        /\ \A j \in 1..Len(events) + Len(G) : (events \o G)[j] = IF j <= Len(events) THEN events[j] ELSE G[j - Len(events)]
    BY <1>1, <1>5, ConcatProperties DEF StatTypes
  <2> QED
    BY <1>5, <1>6, <1>7, <2>1, Zenon
<1>9. \A j \in 1..N : events'[j] = events[j]
  <2>1. \A j \in 1..N : j \in 1..N + L /\ j <= N
    OBVIOUS
  <2> QED
    BY <1>8, <2>1
<1>10. \A k \in 1..L : events'[N + k] = [client |-> w, event |-> F[k], life |-> r]
  <2>1. ASSUME NEW k \in 1..L PROVE events'[N + k] = [client |-> w, event |-> F[k], life |-> r]
    <3>1. N + k \in 1..N + L /\ ~(N + k <= N) /\ (N + k) - N = k
      OBVIOUS
    <3>2. events'[N + k] = G[(N + k) - N]
      BY <1>8, <3>1
    <3>3. G[k] = [client |-> w, event |-> F[k], life |-> r]
      BY <1>4, <1>7, <2>1
    <3> QED
      BY <3>1, <3>2, <3>3
  <2> QED
    BY <2>1
<1>11. \A j \in 1..N + L : j \in 1..N \/ \E k \in 1..L : j = N + k
  <2>1. ASSUME NEW j \in 1..N + L, j \notin 1..N PROVE j - N \in 1..L /\ j = N + (j - N)
    BY <2>1
  <2> QED
    BY <2>1
<1>16. ASSUME NEW k \in 1..L, NEW j, j = N + k
       PROVE  events'[j].client = w /\ events'[j].event = F[k] /\ events'[j].life = r
  <2>1. events'[j] = [client |-> w, event |-> F[k], life |-> r]
    BY <1>10, <1>16, Zenon
  <2> QED
    BY <2>1
<1>12. StatTypes'
  BY <1>1, <1>6, <1>8 DEF StatTypes
<1>13. pc'[w] = "fuzz" /\ \A v \in Workers \ {w} : UNCHANGED <<pc[v], todo[v]>>
  BY <1>1, <1>6 DEF WorkerTypes
<1>14. ASSUME NEW v \in Workers PROVE Lives(v)' /\ NumbersOf(v)'
  <2>1. Lives(v) /\ NumbersOf(v) /\ restarts[v] \in Nat
    BY <1>1 DEF StatInv, StatTypes
  <2>2. ASSUME NEW j \in 1..N + L, events'[j].client = v
        PROVE  events'[j].life <= restarts[v] /\ (pc'[v] = "dead" => events'[j].life < restarts[v])
    <3>1. CASE j \in 1..N
      <4>1. events'[j] = events[j] /\ (pc'[v] = "dead" => pc[v] = "dead")
        BY <1>9, <1>13, <3>1
      <4> QED
        BY <1>7, <2>1, <2>2, <3>1, <4>1 DEF Lives
    <3>2. ASSUME NEW k \in 1..L, j = N + k PROVE v = w /\ events'[j].life = r
      BY <1>16, <2>2, <3>2, Zenon
    <3> QED
      BY <1>2, <1>11, <1>13, <2>1, <3>1, <3>2
  <2>3. Lives(v)'
    <3>1. pc'[v] = "dead" => pc[v] = "dead"
      BY <1>13
    <3> QED
      BY <1>6, <1>8, <2>1, <2>2, <3>1 DEF Lives
  <2>4. CASE v # w
    <3>1. ASSUME NEW k \in Kinds, LastNumber(v, k) PROVE LastNumber(v, k)'
      <4>1. \A j \in 1..N + L : IsEvent(events'[j], v, k, "number") => j \in 1..N /\ events'[j] = events[j]
        <5>1. ASSUME NEW j \in 1..N + L, IsEvent(events'[j], v, k, "number")
              PROVE  j \in 1..N /\ events'[j] = events[j]
          <6>1. ASSUME NEW l \in 1..L, j = N + l PROVE FALSE
            BY <1>16, <2>4, <5>1, <6>1, Zenon DEF IsEvent
          <6> QED
            BY <1>9, <1>11, <6>1, Zenon
        <5> QED
          BY <5>1
      <4>2. CASE \E j \in 1..N : /\ IsEvent(events[j], v, k, "number") /\ events[j].event[3] = stats[v].counter[k]
                                 /\ \A i \in 1..N : i > j => ~IsEvent(events[i], v, k, "number")
        <5>1. PICK j \in 1..N : /\ IsEvent(events[j], v, k, "number") /\ events[j].event[3] = stats[v].counter[k]
                                /\ \A i \in 1..N : i > j => ~IsEvent(events[i], v, k, "number")
          BY <4>2
        <5>2. j \in 1..N + L /\ events'[j] = events[j]
          BY <1>9
        <5>3. \A i \in 1..N + L : i > j => ~IsEvent(events'[i], v, k, "number")
          BY <4>1, <5>1
        <5> QED
          <6>1. \E m \in 1..Len(events') :
                   /\ IsEvent(events'[m], v, k, "number") /\ events'[m].event[3] = stats'[v].counter[k]
                   /\ \A i \in 1..Len(events') : i > m => ~IsEvent(events'[i], v, k, "number")
            BY <1>6, <1>8, <5>1, <5>2, <5>3
          <6> QED
            BY <6>1 DEF LastNumber, IsEvent
      <4>3. CASE /\ \A i \in 1..N : ~IsEvent(events[i], v, k, "number")
                 /\ <<k, "number">> \in DOMAIN monitor[v] /\ monitor[v][<<k, "number">>].value = stats[v].counter[k]
        <5>1. \A i \in 1..N + L : ~IsEvent(events'[i], v, k, "number")
          BY <4>1, <4>3
        <5> QED
          BY <1>6, <1>8, <4>3, <5>1 DEF LastNumber, IsEvent
      <4> QED
        BY <1>7, <3>1, <4>2, <4>3 DEF LastNumber
    <3> QED
      BY <1>13, <2>1, <2>3, <2>4, <3>1 DEF NumbersOf
  <2>5. CASE v = w
    <3>1. ASSUME NEW k \in Kinds PROVE LastNumber(w, k)'
      <4>1. PICK m \in 1..7 : ErrorKinds[m] = k
        BY DEF ErrorKinds, Kinds
      <4>2. m \in 1..L /\ N + m \in 1..N + L
        BY <1>3, <1>7
      <4>3. F[m] = <<k, "number", stats[w].counter[k]>>
        BY <1>3, <4>1
      <4>4. IsEvent(events'[N + m], w, k, "number") /\ events'[N + m].event[3] = stats[w].counter[k]
        <5>1. events'[N + m].client = w /\ events'[N + m].event = F[m]
          BY <1>16, <4>2, Zenon
        <5> QED
          BY <4>3, <5>1 DEF IsEvent
      <4>5. ASSUME NEW j \in 1..N + L, j > N + m PROVE ~IsEvent(events'[j], w, k, "number")
        <5>1. PICK l \in 1..L : j = N + l
          BY <1>11, <4>5
        <5>2. l > m
          BY <4>5, <5>1
        <5>3. CASE l > 7
          <6>1. F[l][2] # "number"
            BY <1>3, <1>7, <5>3
          <6> QED
            BY <1>16, <5>1, <6>1, Zenon DEF IsEvent
        <5>4. CASE l \in 1..7
          <6>1. F[l][1] = ErrorKinds[l]
            BY <1>3, <5>4
          <6>2. \A a, b \in 1..7 : a > b => ErrorKinds[a] # ErrorKinds[b]
            BY DEF ErrorKinds
          <6>3. F[l][1] # k
            BY <4>1, <5>2, <5>4, <6>1, <6>2
          <6> QED
            BY <1>16, <5>1, <6>3, Zenon DEF IsEvent
        <5> QED
          BY <5>3, <5>4
      <4> QED
        <5>1. \E j \in 1..Len(events') :
                 /\ IsEvent(events'[j], w, k, "number") /\ events'[j].event[3] = stats'[w].counter[k]
                 /\ \A i \in 1..Len(events') : i > j => ~IsEvent(events'[i], w, k, "number")
          BY <1>6, <1>8, <4>2, <4>4, <4>5
        <5> QED
          BY <5>1 DEF LastNumber, IsEvent
    <3> QED
      BY <1>13, <2>3, <2>5, <3>1 DEF NumbersOf
  <2> QED
    BY <2>4, <2>5
<1>15. ASSUME NEW v \in Workers, NEW s \in Counted
      PROVE  (Within(v, s) /\ FollowsBounds(v, s) /\ BoundsLater(v, s) /\ ShownInOrder(v, s))'
  <2>1. Within(v, s) /\ FollowsBounds(v, s) /\ BoundsLater(v, s) /\ ShownInOrder(v, s)
    BY DEF StatInv
  <2>2. PICK st : st = StatOf(stats[w], s)
    OBVIOUS
  <2>3. Ordered(st) /\ st.min \in Nat /\ st.max \in Nat /\ st.mean \in Nat
    BY <1>1, <2>2 DEF StatOf, StatsType, MinMaxMean
  <2>4. ASSUME NEW j \in 1..N + L, NEW f, IsEvent(events'[j], v, s, f), j \notin 1..N
        PROVE  \E k \in 1..L : /\ j = N + k /\ v = w /\ events'[j].life = r /\ events'[j].event = F[k]
                               /\ st.set
                               /\ \/ F[k] = <<s, "min", st.min>>
                                  \/ F[k] = <<s, "max", st.max>>
                                  \/ F[k] = <<s, "mean", st.mean>>
                               /\ F[k][2] = "mean" => /\ k > 2 /\ F[k - 1] = <<s, "max", st.max>>
                                                      /\ F[k - 2] = <<s, "min", st.min>>
    <3>1. PICK k \in 1..L : j = N + k
      BY <1>11, <2>4
    <3>2. v = w /\ events'[j].life = r /\ events'[j].event = F[k] /\ F[k][1] = s
      BY <1>16, <2>4, <3>1, Zenon DEF IsEvent
    <3>3. k \in 1..Len(F)
      BY <1>7
    <3> QED
      BY <1>3, <2>2, <3>1, <3>2, <3>3 DEF Tells
  <2>5. ShownInOrder(v, s)'
    BY <1>6, <2>1 DEF ShownInOrder
  <2>6. Within(v, s)'
    <3>1. PICK sv : sv = StatOf(stats[v], s)
      OBVIOUS
    <3>2. ASSUME NEW j \in 1..N + L, IsEvent(events'[j], v, s, "mean"), events'[j].life = restarts[v]
          PROVE  sv.set /\ sv.min <= events'[j].event[3] /\ events'[j].event[3] <= sv.max
      <4>1. CASE j \in 1..N
        BY <1>7, <1>9, <2>1, <3>1, <3>2, <4>1 DEF Within
      <4>2. CASE j \notin 1..N
        <5>1. v = w /\ st.set /\ events'[j].event = <<s, "mean", st.mean>>
          BY <2>4, <3>2, <4>2 DEF IsEvent
        <5>2. sv = st /\ events'[j].event[3] = st.mean
          BY <2>2, <3>1, <5>1
        <5> QED
          BY <2>3, <5>1, <5>2 DEF Ordered
      <4> QED
        BY <4>1, <4>2
    <3> QED
      BY <1>6, <1>8, <2>1, <3>1, <3>2 DEF Within
  <2>7. FollowsBounds(v, s)'
    <3>1. ASSUME NEW j \in 1..N + L, IsEvent(events'[j], v, s, "mean")
          PROVE  /\ IF j > 1
                    THEN /\ IsEvent(events'[j - 1], v, s, "max") /\ events'[j - 1].life = events'[j].life
                         /\ events'[j].event[3] <= events'[j - 1].event[3]
                    ELSE /\ <<s, "max">> \in DOMAIN monitor[v] /\ monitor[v][<<s, "max">>].life = events'[j].life
                         /\ events'[j].event[3] <= monitor[v][<<s, "max">>].value
                 /\ IF j > 2
                    THEN /\ IsEvent(events'[j - 2], v, s, "min") /\ events'[j - 2].life = events'[j].life
                         /\ events'[j - 2].event[3] <= events'[j].event[3]
                    ELSE /\ <<s, "min">> \in DOMAIN monitor[v] /\ monitor[v][<<s, "min">>].life = events'[j].life
                         /\ monitor[v][<<s, "min">>].value <= events'[j].event[3]
      <4>1. CASE j \in 1..N
        <5>1. events'[j] = events[j] /\ (j > 1 => events'[j - 1] = events[j - 1])
              /\ (j > 2 => events'[j - 2] = events[j - 2])
          BY <1>9, <4>1
        <5> QED
          BY <1>7, <2>1, <3>1, <4>1, <5>1 DEF FollowsBounds
      <4>2. CASE j \notin 1..N
        <5>1. PICK k \in 1..L : /\ j = N + k /\ v = w /\ events'[j].life = r /\ events'[j].event = F[k]
                                /\ st.set
                                /\ \/ F[k] = <<s, "min", st.min>>
                                   \/ F[k] = <<s, "max", st.max>>
                                   \/ F[k] = <<s, "mean", st.mean>>
                                /\ F[k][2] = "mean" => /\ k > 2 /\ F[k - 1] = <<s, "max", st.max>>
                                                       /\ F[k - 2] = <<s, "min", st.min>>
          BY <2>4, <3>1, <4>2
        <5>2. F[k][2] = "mean"
          BY <3>1, <5>1 DEF IsEvent
        <5>3. /\ k > 2 /\ F[k] = <<s, "mean", st.mean>> /\ F[k - 1] = <<s, "max", st.max>>
              /\ F[k - 2] = <<s, "min", st.min>>
          BY <5>1, <5>2
        <5>4. j > 2 /\ k - 1 \in 1..L /\ k - 2 \in 1..L /\ j - 1 = N + (k - 1) /\ j - 2 = N + (k - 2)
          BY <5>1, <5>3
        <5>5. /\ events'[j - 1] = [client |-> w, event |-> <<s, "max", st.max>>, life |-> r]
              /\ events'[j - 2] = [client |-> w, event |-> <<s, "min", st.min>>, life |-> r]
          BY <1>10, <5>3, <5>4
        <5>6. events'[j].event[3] = st.mean /\ st.min <= st.mean /\ st.mean <= st.max
          BY <2>3, <5>1, <5>3 DEF Ordered
        <5> QED
          BY <5>1, <5>4, <5>5, <5>6 DEF IsEvent
      <4> QED
        BY <4>1, <4>2
    <3> QED
      BY <1>6, <1>8, <3>1 DEF FollowsBounds, IsEvent
  <2>8. BoundsLater(v, s)'
    <3>1. ASSUME NEW j \in 1..N + L, j \notin 1..N,
                 IsEvent(events'[j], v, s, "min") \/ IsEvent(events'[j], v, s, "max")
          PROVE  /\ v = w /\ events'[j].life = restarts[v] /\ st.set
                 /\ IsEvent(events'[j], v, s, "min") => events'[j].event[3] = st.min
                 /\ IsEvent(events'[j], v, s, "max") => events'[j].event[3] = st.max
      BY <1>2, <2>4, <3>1 DEF IsEvent
    <3>2. ASSUME NEW i \in 1..N + L, v = w, IsEvent(events'[i], v, s, "mean"), events'[i].life = restarts[v]
          PROVE  st.min <= events'[i].event[3] /\ events'[i].event[3] <= st.max
      <4>1. CASE i \in 1..N
        BY <1>7, <1>9, <2>1, <2>2, <3>2, <4>1 DEF Within
      <4>2. CASE i \notin 1..N
        <5>1. st.set /\ events'[i].event = <<s, "mean", st.mean>>
          BY <2>4, <3>2, <4>2 DEF IsEvent
        <5> QED
          BY <2>3, <5>1 DEF Ordered
      <4> QED
        BY <4>1, <4>2
    <3>3. v = w /\ <<s, "mean">> \in DOMAIN monitor[v] /\ monitor[v][<<s, "mean">>].life = restarts[v]
            => st.min <= monitor[v][<<s, "mean">>].value /\ monitor[v][<<s, "mean">>].value <= st.max
      BY <2>1, <2>2 DEF Within
    <3>4. ASSUME NEW j \in 1..N + L, IsEvent(events'[j], v, s, "min")
          PROVE  /\ <<s, "mean">> \in DOMAIN monitor[v] /\ monitor[v][<<s, "mean">>].life = events'[j].life
                      => events'[j].event[3] <= monitor[v][<<s, "mean">>].value
                 /\ \A i \in 1..j - 1 :
                      IsEvent(events'[i], v, s, "mean") /\ events'[i].life = events'[j].life
                        => events'[j].event[3] <= events'[i].event[3]
      <4>1. CASE j \in 1..N
        <5>1. \A i \in 1..j - 1 : i \in 1..N /\ events'[i] = events[i]
          BY <1>9, <4>1
        <5>2. events'[j] = events[j]
          BY <1>9, <4>1
        <5> QED
          BY <1>7, <2>1, <3>4, <4>1, <5>1, <5>2 DEF BoundsLater
      <4>2. CASE j \notin 1..N
        <5>1. \A i \in 1..j - 1 : i \in 1..N + L
          BY <3>4
        <5> QED
          BY <3>1, <3>2, <3>3, <3>4, <4>2, <5>1
      <4> QED
        BY <4>1, <4>2
    <3>5. ASSUME NEW j \in 1..N + L, IsEvent(events'[j], v, s, "max")
          PROVE  /\ <<s, "mean">> \in DOMAIN monitor[v] /\ monitor[v][<<s, "mean">>].life = events'[j].life
                      => monitor[v][<<s, "mean">>].value <= events'[j].event[3]
                 /\ \A i \in 1..j - 1 :
                      IsEvent(events'[i], v, s, "mean") /\ events'[i].life = events'[j].life
                        => events'[i].event[3] <= events'[j].event[3]
      <4>1. CASE j \in 1..N
        <5>1. \A i \in 1..j - 1 : i \in 1..N /\ events'[i] = events[i]
          BY <1>9, <4>1
        <5>2. events'[j] = events[j]
          BY <1>9, <4>1
        <5> QED
          BY <1>7, <2>1, <3>5, <4>1, <5>1, <5>2 DEF BoundsLater
      <4>2. CASE j \notin 1..N
        <5>1. \A i \in 1..j - 1 : i \in 1..N + L
          BY <3>5
        <5> QED
          BY <3>1, <3>2, <3>3, <3>5, <4>2, <5>1
      <4> QED
        BY <4>1, <4>2
    <3> QED
      BY <1>6, <1>8, <3>4, <3>5 DEF BoundsLater, IsEvent
  <2> QED
    BY <2>5, <2>6, <2>7, <2>8
<1> QED
  BY <1>12, <1>14, <1>15 DEF StatInv

\* The broker takes an event from the queue and stores its value.
LEMMA DisplayIs ==
    ASSUME StatTypes, display
    PROVE  /\ events # <<>> /\ Len(events) \in Nat /\ Len(events) > 0
           /\ StatTypes' /\ Len(events') = Len(events) - 1
           /\ \A j \in 1..Len(events) - 1 : events'[j] = events[j + 1]
           /\ \A v \in Workers : \A n :
                IF v = events[1].client /\ n = <<events[1].event[1], events[1].event[2]>>
                THEN /\ n \in DOMAIN monitor'[v]
                     /\ monitor'[v][n].value = events[1].event[3] /\ monitor'[v][n].life = events[1].life
                ELSE /\ n \in DOMAIN monitor'[v] <=> n \in DOMAIN monitor[v]
                     /\ n \in DOMAIN monitor[v] => monitor'[v][n] = monitor[v][n]
<1>1. PICK e : e = events[1]
  OBVIOUS
<1>2. PICK n : n = <<e.event[1], e.event[2]>>
  OBVIOUS
<1>3. PICK x : x = [value |-> e.event[3], life |-> e.life]
  OBVIOUS
<1>4. events # <<>> /\ Len(events) \in Nat /\ Len(events) > 0 /\ events \in Seq(QueuedEvent) /\ Head(events) = e
  BY <1>1 DEF StatTypes, display
<1>5. e \in QueuedEvent
  BY <1>1, <1>4
<1>6. /\ n \in (Kinds \cup Counted) \X EventFields /\ x \in [value : Nat, life : Nat] /\ e.client \in Workers
      /\ x.value = e.event[3] /\ x.life = e.life
  BY <1>2, <1>3, <1>5 DEF QueuedEvent, Event
<1>7. /\ monitor' = [monitor EXCEPT ![e.client] =
                        [k \in {n} \cup DOMAIN monitor[e.client] |-> IF k = n THEN x ELSE monitor[e.client][k]]]
      /\ events' = Tail(events) /\ UNCHANGED <<stats, restarts>>
  BY <1>2, <1>3, <1>4 DEF display
<1>8. PICK m : m = monitor[e.client]
  OBVIOUS
<1>10. PICK u : u = [k \in {n} \cup DOMAIN m |-> IF k = n THEN x ELSE m[k]]
  OBVIOUS
<1>11. u \in ClientStats
  <2>1. m \in ClientStats
    BY <1>6, <1>8 DEF StatTypes
  <2>2. PICK D \in SUBSET ((Kinds \cup Counted) \X EventFields) : m \in [D -> [value : Nat, life : Nat]]
    BY <2>1 DEF ClientStats
  <2>3. {n} \cup D \in SUBSET ((Kinds \cup Counted) \X EventFields) /\ DOMAIN m = D
    BY <1>6, <2>2
  <2>4. u \in [{n} \cup D -> [value : Nat, life : Nat]]
    BY <1>6, <1>10, <2>2, <2>3
  <2> QED
    BY <2>3, <2>4 DEF ClientStats
<1>12. monitor' \in [Workers -> ClientStats] /\ monitor'[e.client] = u
       /\ \A v \in Workers : v # e.client => monitor'[v] = monitor[v]
  BY <1>6, <1>7, <1>8, <1>10, <1>11 DEF StatTypes
<1>13. StatTypes'
  BY <1>4, <1>7, <1>12 DEF StatTypes
<1>14. Len(events') = Len(events) - 1 /\ \A j \in 1..Len(events) - 1 : events'[j] = events[j + 1]
  BY <1>4, <1>7
<1>15. ASSUME NEW v \in Workers, NEW k
       PROVE  IF v = e.client /\ k = n
              THEN /\ k \in DOMAIN monitor'[v]
                   /\ monitor'[v][k].value = e.event[3] /\ monitor'[v][k].life = e.life
              ELSE /\ k \in DOMAIN monitor'[v] <=> k \in DOMAIN monitor[v]
                   /\ k \in DOMAIN monitor[v] => monitor'[v][k] = monitor[v][k]
  <2>1. CASE v # e.client
    BY <1>12, <2>1
  <2>2. CASE v = e.client /\ k = n
    BY <1>6, <1>10, <1>12, <2>2
  <2>3. CASE v = e.client /\ k # n
    <3>1. monitor[v] = m /\ monitor'[v] = u
      BY <1>8, <1>12, <2>3
    <3>2. DOMAIN u = {n} \cup DOMAIN m /\ (k \in DOMAIN m => u[k] = m[k])
      BY <1>10, <2>3
    <3> QED
      BY <2>3, <3>1, <3>2
  <2> QED
    BY <2>1, <2>2, <2>3
<1> QED
  BY <1>1, <1>2, <1>4, <1>13, <1>14, <1>15

\* The monitor shows the next event that the broker has.
LEMMA DisplayStats == ASSUME StatInv, display PROVE StatInv'
<1>1. StatTypes /\ UNCHANGED <<stats, restarts, pc, todo>>
  BY DEF StatInv, display
<1>2. PICK e, N : e = events[1] /\ N = Len(events)
  OBVIOUS
<1>3. /\ StatTypes' /\ N \in Nat /\ N > 0 /\ Len(events') = N - 1
      /\ \A j \in 1..N - 1 : events'[j] = events[j + 1]
  BY <1>1, <1>2, DisplayIs, Zenon
<1>4. \A v \in Workers : \A n :
        IF v = e.client /\ n = <<e.event[1], e.event[2]>>
        THEN /\ n \in DOMAIN monitor'[v]
             /\ monitor'[v][n].value = e.event[3] /\ monitor'[v][n].life = e.life
        ELSE /\ n \in DOMAIN monitor'[v] <=> n \in DOMAIN monitor[v]
             /\ n \in DOMAIN monitor[v] => monitor'[v][n] = monitor[v][n]
  BY <1>1, <1>2, DisplayIs, Zenon
<1>5. \A v \in Workers : \A s, f :
        IF IsEvent(e, v, s, f)
        THEN /\ <<s, f>> \in DOMAIN monitor'[v]
             /\ monitor'[v][<<s, f>>].value = e.event[3] /\ monitor'[v][<<s, f>>].life = e.life
        ELSE /\ <<s, f>> \in DOMAIN monitor'[v] <=> <<s, f>> \in DOMAIN monitor[v]
             /\ <<s, f>> \in DOMAIN monitor[v] => monitor'[v][<<s, f>>] = monitor[v][<<s, f>>]
  <2>1. ASSUME NEW v, NEW s, NEW f
        PROVE  IsEvent(e, v, s, f) <=> v = e.client /\ <<s, f>> = <<e.event[1], e.event[2]>>
    BY DEF IsEvent
  <2> QED
    BY <1>4, <2>1
<1>6. 1 \in 1..N /\ \A j \in 1..N - 1 : j + 1 \in 1..N /\ j \in 1..N
  BY <1>3
<1>7. ASSUME NEW v \in Workers PROVE Lives(v)'
  <2>1. Lives(v)
    BY DEF StatInv
  <2>2. \A j \in 1..N - 1 : events'[j].client = v => /\ events'[j].life <= restarts[v]
                                                     /\ pc[v] = "dead" => events'[j].life < restarts[v]
    BY <1>2, <1>3, <1>6, <2>1 DEF Lives
  <2>3. ASSUME NEW n \in DOMAIN monitor'[v]
        PROVE  monitor'[v][n].life <= restarts[v] /\ (pc[v] = "dead" => monitor'[v][n].life < restarts[v])
    <3>1. CASE v = e.client /\ n = <<e.event[1], e.event[2]>>
      <4>1. monitor'[v][n].life = events[1].life /\ events[1].client = v
        BY <1>2, <1>4, <3>1
      <4> QED
        BY <1>2, <1>6, <2>1, <4>1 DEF Lives
    <3>2. CASE ~(v = e.client /\ n = <<e.event[1], e.event[2]>>)
      <4>1. n \in DOMAIN monitor[v] /\ monitor'[v][n] = monitor[v][n]
        BY <1>4, <2>3, <3>2
      <4> QED
        BY <2>1, <4>1 DEF Lives
    <3> QED
      BY <3>1, <3>2
  <2> QED
    BY <1>1, <1>3, <2>2, <2>3 DEF Lives
<1>8. ASSUME NEW v \in Workers PROVE NumbersOf(v)'
  <2>1. ASSUME NEW k \in Kinds, LastNumber(v, k) PROVE LastNumber(v, k)'
    <3>1. CASE \E j \in 1..N : /\ IsEvent(events[j], v, k, "number") /\ events[j].event[3] = stats[v].counter[k]
                               /\ \A i \in 1..N : i > j => ~IsEvent(events[i], v, k, "number")
      <4>1. PICK j \in 1..N : /\ IsEvent(events[j], v, k, "number") /\ events[j].event[3] = stats[v].counter[k]
                              /\ \A i \in 1..N : i > j => ~IsEvent(events[i], v, k, "number")
        BY <3>1
      <4>2. CASE j = 1
        <5>1. ASSUME NEW i \in 1..N - 1 PROVE ~IsEvent(events'[i], v, k, "number")
          <6>1. i + 1 \in 1..N /\ i + 1 > j
            BY <1>3, <4>2
          <6> QED
            BY <1>3, <4>1, <6>1
        <5>2. <<k, "number">> \in DOMAIN monitor'[v] /\ monitor'[v][<<k, "number">>].value = stats'[v].counter[k]
          BY <1>1, <1>2, <1>5, <4>1, <4>2
        <5>3. \A i \in 1..Len(events') : ~IsEvent(events'[i], v, k, "number")
          BY <1>3, <5>1
        <5> QED
          BY <5>2, <5>3 DEF LastNumber, IsEvent
      <4>3. CASE j # 1
        <5>1. PICK m \in 1..N - 1 : j = m + 1
          <6>1. j - 1 \in 1..N - 1 /\ j = (j - 1) + 1
            BY <1>3, <4>3
          <6> QED
            BY <6>1
        <5>2. ASSUME NEW i \in 1..N - 1, i > m PROVE ~IsEvent(events'[i], v, k, "number")
          <6>1. i + 1 \in 1..N /\ i + 1 > j
            BY <1>3, <5>1, <5>2
          <6> QED
            BY <1>3, <4>1, <6>1
        <5>3. IsEvent(events'[m], v, k, "number") /\ events'[m].event[3] = stats[v].counter[k]
          BY <1>3, <4>1, <5>1
        <5>4. \E l \in 1..Len(events') :
                 /\ IsEvent(events'[l], v, k, "number") /\ events'[l].event[3] = stats'[v].counter[k]
                 /\ \A i \in 1..Len(events') : i > l => ~IsEvent(events'[i], v, k, "number")
          BY <1>1, <1>3, <5>2, <5>3
        <5> QED
          BY <5>4 DEF LastNumber, IsEvent
      <4> QED
        BY <4>2, <4>3
    <3>2. CASE /\ \A i \in 1..N : ~IsEvent(events[i], v, k, "number")
               /\ <<k, "number">> \in DOMAIN monitor[v] /\ monitor[v][<<k, "number">>].value = stats[v].counter[k]
      <4>1. \A i \in 1..Len(events') : ~IsEvent(events'[i], v, k, "number")
        BY <1>3, <1>6, <3>2
      <4>2. ~IsEvent(e, v, k, "number")
        BY <1>2, <1>6, <3>2
      <4>3. <<k, "number">> \in DOMAIN monitor'[v] /\ monitor'[v][<<k, "number">>].value = stats'[v].counter[k]
        BY <1>1, <1>5, <3>2, <4>2
      <4> QED
        BY <4>1, <4>3 DEF LastNumber, IsEvent
    <3> QED
      BY <1>2, <2>1, <3>1, <3>2 DEF LastNumber
  <2>2. NumbersOf(v)
    BY DEF StatInv
  <2> QED
    BY <1>1, <2>1, <2>2 DEF NumbersOf
<1>9. ASSUME NEW v \in Workers, NEW s \in Counted
      PROVE  (Within(v, s) /\ FollowsBounds(v, s) /\ BoundsLater(v, s) /\ ShownInOrder(v, s))'
  <2>1. Within(v, s) /\ FollowsBounds(v, s) /\ BoundsLater(v, s) /\ ShownInOrder(v, s)
    BY DEF StatInv
  <2>2. Within(v, s)'
    <3>1. PICK st : st = StatOf(stats[v], s)
      OBVIOUS
    <3>2. Ordered(st)
      BY <2>1, <3>1 DEF Within
    <3>3. \A j \in 1..N : IsEvent(events[j], v, s, "mean") /\ events[j].life = restarts[v]
            => st.set /\ st.min <= events[j].event[3] /\ events[j].event[3] <= st.max
      BY <1>2, <2>1, <3>1 DEF Within
    <3>4. \A j \in 1..N - 1 : IsEvent(events'[j], v, s, "mean") /\ events'[j].life = restarts[v]
            => st.set /\ st.min <= events'[j].event[3] /\ events'[j].event[3] <= st.max
      BY <1>3, <1>6, <3>3
    <3>5. ASSUME <<s, "mean">> \in DOMAIN monitor'[v], monitor'[v][<<s, "mean">>].life = restarts[v]
          PROVE  /\ st.set /\ st.min <= monitor'[v][<<s, "mean">>].value
                 /\ monitor'[v][<<s, "mean">>].value <= st.max
      <4>1. CASE IsEvent(e, v, s, "mean")
        BY <1>2, <1>5, <1>6, <3>3, <3>5, <4>1
      <4>2. CASE ~IsEvent(e, v, s, "mean")
        BY <1>5, <2>1, <3>1, <3>5, <4>2 DEF Within
      <4> QED
        BY <4>1, <4>2
    <3> QED
      BY <1>1, <1>3, <3>1, <3>2, <3>4, <3>5 DEF Within, IsEvent
  <2>3. FollowsBounds(v, s)'
    <3>1. ASSUME NEW j \in 1..N - 1, IsEvent(events'[j], v, s, "mean")
          PROVE  /\ IF j > 1
                    THEN /\ IsEvent(events'[j - 1], v, s, "max") /\ events'[j - 1].life = events'[j].life
                         /\ events'[j].event[3] <= events'[j - 1].event[3]
                    ELSE /\ <<s, "max">> \in DOMAIN monitor'[v] /\ monitor'[v][<<s, "max">>].life = events'[j].life
                         /\ events'[j].event[3] <= monitor'[v][<<s, "max">>].value
                 /\ IF j > 2
                    THEN /\ IsEvent(events'[j - 2], v, s, "min") /\ events'[j - 2].life = events'[j].life
                         /\ events'[j - 2].event[3] <= events'[j].event[3]
                    ELSE /\ <<s, "min">> \in DOMAIN monitor'[v] /\ monitor'[v][<<s, "min">>].life = events'[j].life
                         /\ monitor'[v][<<s, "min">>].value <= events'[j].event[3]
      <4>1. PICK i \in 1..N : i = j + 1
        BY <1>6
      <4>2. /\ events'[j] = events[i] /\ i > 1 /\ i - 1 = j
            /\ j > 1 => events'[j - 1] = events[i - 1] /\ i > 2
            /\ j > 2 => events'[j - 2] = events[i - 2]
            /\ j = 2 => i - 2 = 1
        <5>1. j > 1 => j - 1 \in 1..N - 1 /\ (j - 1) + 1 = i - 1
          BY <1>3, <4>1
        <5>2. j > 2 => j - 2 \in 1..N - 1 /\ (j - 2) + 1 = i - 2
          BY <1>3, <4>1
        <5>3. j > 1 => events'[j - 1] = events[(j - 1) + 1]
          BY <1>3, <5>1
        <5>4. j > 2 => events'[j - 2] = events[(j - 2) + 1]
          BY <1>3, <5>2
        <5>5. events'[j] = events[j + 1]
          BY <1>3
        <5>6. i > 1 /\ i - 1 = j /\ (j > 1 => i > 2) /\ (j = 2 => i - 2 = 1)
          BY <4>1
        <5> QED
          BY <4>1, <5>1, <5>2, <5>3, <5>4, <5>5, <5>6
      <4>3. /\ IsEvent(events[i - 1], v, s, "max") /\ events[i - 1].life = events[i].life
            /\ events[i].event[3] <= events[i - 1].event[3]
            /\ IF i > 2
               THEN /\ IsEvent(events[i - 2], v, s, "min") /\ events[i - 2].life = events[i].life
                    /\ events[i - 2].event[3] <= events[i].event[3]
               ELSE /\ <<s, "min">> \in DOMAIN monitor[v] /\ monitor[v][<<s, "min">>].life = events[i].life
                    /\ monitor[v][<<s, "min">>].value <= events[i].event[3]
        BY <1>2, <2>1, <3>1, <4>2 DEF FollowsBounds
      <4>4. CASE j > 2
        BY <4>2, <4>3, <4>4
      <4>5. CASE j = 2
        <5>1. events[i - 2] = e
          BY <1>2, <4>2, <4>5
        <5>2. IsEvent(e, v, s, "min") /\ e.life = events[i].life /\ e.event[3] <= events[i].event[3]
          BY <4>2, <4>3, <4>5, <5>1
        <5> QED
          BY <1>5, <4>2, <4>3, <4>5, <5>2
      <4>6. CASE j = 1
        <5>1. events[i - 1] = e /\ i = 2
          BY <1>2, <4>1, <4>2, <4>6
        <5>2. IsEvent(e, v, s, "max") /\ e.life = events[i].life /\ events[i].event[3] <= e.event[3]
          BY <4>3, <5>1
        <5>3. ~IsEvent(e, v, s, "min")
          BY <5>2 DEF IsEvent
        <5>4. /\ <<s, "min">> \in DOMAIN monitor[v] /\ monitor[v][<<s, "min">>].life = events[i].life
              /\ monitor[v][<<s, "min">>].value <= events[i].event[3]
          BY <4>3, <5>1
        <5> QED
          BY <1>5, <4>2, <4>6, <5>2, <5>3, <5>4
      <4> QED
        BY <4>4, <4>5, <4>6
    <3> QED
      BY <1>3, <3>1 DEF FollowsBounds, IsEvent
  <2>4. BoundsLater(v, s)'
    <3>1. ASSUME NEW j \in 1..N - 1, IsEvent(events'[j], v, s, "min")
          PROVE  /\ <<s, "mean">> \in DOMAIN monitor'[v] /\ monitor'[v][<<s, "mean">>].life = events'[j].life
                      => events'[j].event[3] <= monitor'[v][<<s, "mean">>].value
                 /\ \A i \in 1..j - 1 :
                      IsEvent(events'[i], v, s, "mean") /\ events'[i].life = events'[j].life
                        => events'[j].event[3] <= events'[i].event[3]
      <4>1. PICK l \in 1..N : l = j + 1 /\ events'[j] = events[l]
        BY <1>3, <1>6
      <4>2. /\ <<s, "mean">> \in DOMAIN monitor[v] /\ monitor[v][<<s, "mean">>].life = events[l].life
                 => events[l].event[3] <= monitor[v][<<s, "mean">>].value
            /\ \A i \in 1..l - 1 : IsEvent(events[i], v, s, "mean") /\ events[i].life = events[l].life
                                     => events[l].event[3] <= events[i].event[3]
        BY <1>2, <2>1, <3>1, <4>1 DEF BoundsLater
      <4>3. \A i \in 1..j - 1 : i + 1 \in 1..l - 1 /\ events'[i] = events[i + 1]
        BY <1>3, <4>1
      <4>4. 1 \in 1..l - 1
        BY <4>1
      <4>5. CASE IsEvent(e, v, s, "mean")
        BY <1>2, <1>5, <4>1, <4>2, <4>3, <4>4, <4>5
      <4>6. CASE ~IsEvent(e, v, s, "mean")
        BY <1>5, <4>1, <4>2, <4>3, <4>6
      <4> QED
        BY <4>5, <4>6
    <3>2. ASSUME NEW j \in 1..N - 1, IsEvent(events'[j], v, s, "max")
          PROVE  /\ <<s, "mean">> \in DOMAIN monitor'[v] /\ monitor'[v][<<s, "mean">>].life = events'[j].life
                      => monitor'[v][<<s, "mean">>].value <= events'[j].event[3]
                 /\ \A i \in 1..j - 1 :
                      IsEvent(events'[i], v, s, "mean") /\ events'[i].life = events'[j].life
                        => events'[i].event[3] <= events'[j].event[3]
      <4>1. PICK l \in 1..N : l = j + 1 /\ events'[j] = events[l]
        BY <1>3, <1>6
      <4>2. /\ <<s, "mean">> \in DOMAIN monitor[v] /\ monitor[v][<<s, "mean">>].life = events[l].life
                 => monitor[v][<<s, "mean">>].value <= events[l].event[3]
            /\ \A i \in 1..l - 1 : IsEvent(events[i], v, s, "mean") /\ events[i].life = events[l].life
                                     => events[i].event[3] <= events[l].event[3]
        BY <1>2, <2>1, <3>2, <4>1 DEF BoundsLater
      <4>3. \A i \in 1..j - 1 : i + 1 \in 1..l - 1 /\ events'[i] = events[i + 1]
        BY <1>3, <4>1
      <4>4. 1 \in 1..l - 1
        BY <4>1
      <4>5. CASE IsEvent(e, v, s, "mean")
        BY <1>2, <1>5, <4>1, <4>2, <4>3, <4>4, <4>5
      <4>6. CASE ~IsEvent(e, v, s, "mean")
        BY <1>5, <4>1, <4>2, <4>3, <4>6
      <4> QED
        BY <4>5, <4>6
    <3> QED
      BY <1>3, <3>1, <3>2 DEF BoundsLater, IsEvent
  <2>5. ShownInOrder(v, s)'
    <3>1. CASE IsEvent(e, v, s, "mean")
      <4>1. /\ <<s, "max">> \in DOMAIN monitor[v] /\ e.event[3] <= monitor[v][<<s, "max">>].value
            /\ <<s, "min">> \in DOMAIN monitor[v] /\ monitor[v][<<s, "min">>].value <= e.event[3]
        BY <1>2, <1>6, <2>1, <3>1, SMTT(30) DEF FollowsBounds
      <4>2. ~IsEvent(e, v, s, "max") /\ ~IsEvent(e, v, s, "min")
        BY <3>1 DEF IsEvent
      <4> QED
        BY <1>5, <3>1, <4>1, <4>2 DEF ShownInOrder
    <3>2. CASE IsEvent(e, v, s, "min")
      <4>1. ~IsEvent(e, v, s, "max") /\ ~IsEvent(e, v, s, "mean")
        BY <3>2 DEF IsEvent
      <4>2. <<s, "mean">> \in DOMAIN monitor[v] /\ monitor[v][<<s, "mean">>].life = e.life
              => e.event[3] <= monitor[v][<<s, "mean">>].value
        BY <1>2, <1>6, <2>1, <3>2 DEF BoundsLater
      <4> QED
        BY <1>5, <2>1, <3>2, <4>1, <4>2 DEF ShownInOrder
    <3>3. CASE IsEvent(e, v, s, "max")
      <4>1. ~IsEvent(e, v, s, "min") /\ ~IsEvent(e, v, s, "mean")
        BY <3>3 DEF IsEvent
      <4>2. <<s, "mean">> \in DOMAIN monitor[v] /\ monitor[v][<<s, "mean">>].life = e.life
              => monitor[v][<<s, "mean">>].value <= e.event[3]
        BY <1>2, <1>6, <2>1, <3>3 DEF BoundsLater
      <4> QED
        BY <1>5, <2>1, <3>3, <4>1, <4>2 DEF ShownInOrder
    <3>4. CASE ~IsEvent(e, v, s, "min") /\ ~IsEvent(e, v, s, "max") /\ ~IsEvent(e, v, s, "mean")
      BY <1>5, <2>1, <3>4 DEF ShownInOrder
    <3> QED
      BY <3>1, <3>2, <3>3, <3>4
  <2> QED
    BY <2>2, <2>3, <2>4, <2>5
<1> QED
  BY <1>3, <1>7, <1>8, <1>9 DEF StatInv

\* Reports and what is shown follow the statistics, in every state.
LEMMA StatInvariant == CampaignSpec => []StatInv
<1>1. SeedInv /\ StatInv /\ [CampaignNext]_campaignVars => StatInv'
  <2> SUFFICES ASSUME SeedInv, StatInv, [CampaignNext]_campaignVars PROVE StatInv'
    OBVIOUS
  <2>1. CASE UNCHANGED <<pc, todo, stats, restarts, events, monitor>>
    <3>1. StatTypes' /\ \A v \in Workers : Lives(v)'
      BY <2>1 DEF StatInv, StatTypes, Lives
    <3>2. ASSUME NEW v \in Workers PROVE NumbersOf(v)'
      <4>1. NumbersOf(v)
        BY DEF StatInv
      <4> QED
        BY <2>1, <4>1 DEF NumbersOf, LastNumber, IsEvent
    <3>3. ASSUME NEW v \in Workers, NEW s \in Counted
          PROVE  (Within(v, s) /\ FollowsBounds(v, s) /\ BoundsLater(v, s) /\ ShownInOrder(v, s))'
      <4>1. Within(v, s) /\ FollowsBounds(v, s) /\ BoundsLater(v, s) /\ ShownInOrder(v, s)
        BY DEF StatInv
      <4>2. Within(v, s)'
        BY <2>1, <4>1 DEF Within, IsEvent
      <4>3. FollowsBounds(v, s)'
        BY <2>1, <4>1 DEF FollowsBounds, IsEvent
      <4>4. BoundsLater(v, s)' /\ ShownInOrder(v, s)'
        BY <2>1, <4>1 DEF BoundsLater, ShownInOrder, IsEvent
      <4> QED
        BY <4>2, <4>3, <4>4
    <3> QED
      BY <3>1, <3>2, <3>3 DEF StatInv
  <2>2. ASSUME NEW w \in Workers, Import(w) PROVE StatInv'
    BY <2>1, <2>2 DEF Import
  <2>3. CASE UNCHANGED campaignVars
    BY <2>1, <2>3 DEF campaignVars
  <2> QED
    BY <2>2, <2>3, QuietSteps, StatsStageStats, DisplayStats DEF CampaignNext, WorkerStep
<1> QED
  BY <1>1, StatInit, SeedInvariant, PTL DEF CampaignSpec

\* StatsStage and StatsMonitor: what the monitor may write of a process at any
\* event is in order, although the three numbers of a statistic arrive one by
\* one; and once all events are handled, it shows the errors counted.
THEOREM StatisticsRight == CampaignSpec => []StatisticsAreRight
<1>1. StatInv => StatisticsAreRight
  <2> SUFFICES ASSUME StatInv PROVE StatisticsAreRight
    OBVIOUS
  <2>1. ASSUME NEW w \in Workers, NEW s \in {"trace-length", "term-size"},
               {<<s, "min">>, <<s, "max">>, <<s, "mean">>} \subseteq DOMAIN monitor[w],
               monitor[w][<<s, "min">>].life = monitor[w][<<s, "mean">>].life,
               monitor[w][<<s, "max">>].life = monitor[w][<<s, "mean">>].life
        PROVE  /\ TraceStatistics(monitor[w])[s].min <= TraceStatistics(monitor[w])[s].mean
               /\ TraceStatistics(monitor[w])[s].mean <= TraceStatistics(monitor[w])[s].max
    <3>1. ShownInOrder(w, s)
      BY DEF StatInv, Counted
    <3>2. /\ monitor[w][<<s, "min">>].value <= monitor[w][<<s, "mean">>].value
          /\ monitor[w][<<s, "mean">>].value <= monitor[w][<<s, "max">>].value
      BY <2>1, <3>1 DEF ShownInOrder
    <3>3. /\ get_number(monitor[w], <<s, "min">>) = monitor[w][<<s, "min">>].value
          /\ get_number(monitor[w], <<s, "mean">>) = monitor[w][<<s, "mean">>].value
          /\ get_number(monitor[w], <<s, "max">>) = monitor[w][<<s, "max">>].value
      BY <2>1 DEF get_number
    <3>4. TraceStatistics(monitor[w])[s] = [f \in {"min", "max", "mean"} |-> get_number(monitor[w], <<s, f>>)]
      BY DEF TraceStatistics
    <3>5. /\ TraceStatistics(monitor[w])[s].min = get_number(monitor[w], <<s, "min">>)
          /\ TraceStatistics(monitor[w])[s].mean = get_number(monitor[w], <<s, "mean">>)
          /\ TraceStatistics(monitor[w])[s].max = get_number(monitor[w], <<s, "max">>)
      BY <3>4
    <3> QED
      BY <3>2, <3>3, <3>5
  <2>2. ReportsAreOrdered
    BY <2>1 DEF ReportsAreOrdered
  <2>3. ASSUME NEW w \in Workers, events = <<>>, pc[w] = "fuzz", todo[w].rounds < MaxIters
        PROVE  ErrorStatistics(monitor[w]) = stats[w].counter
    <3>1. NumbersOf(w) /\ stats[w] \in StatsType
      BY DEF StatInv, StatTypes
    <3>2. stats[w].counter \in [Kinds -> Nat]
      BY <3>1 DEF StatsType
    <3>3. 1..Len(events) = {}
      BY <2>3
    <3>4. ASSUME NEW k \in Kinds PROVE get_number(monitor[w], <<k, "number">>) = stats[w].counter[k]
      <4>1. LastNumber(w, k)
        BY <2>3, <3>1 DEF NumbersOf
      <4> QED
        BY <3>3, <4>1 DEF LastNumber, get_number
    <3>5. ErrorStatistics(monitor[w]) = [k \in Kinds |-> get_number(monitor[w], <<k, "number">>)]
      BY KindsAre DEF ErrorStatistics
    <3> QED
      BY <3>2, <3>4, <3>5
  <2>4. ErrorsAreShown
    BY <2>3 DEF ErrorsAreShown
  <2> QED
    BY <2>2, <2>4 DEF StatisticsAreRight
<1> QED
  BY <1>1, StatInvariant, PTL

==============================================================================
