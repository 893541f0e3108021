--------------------------- MODULE GeneticSearch ---------------------------
(***************************************************************************)
(* The genetic search for a throttle sequence.  Every random choice is a   *)
(* nondeterministic one over what the call may return; a call of random    *)
(* that raises, on an empty range or for a sample that is too large, has   *)
(* no successor.                                                           *)
(***************************************************************************)
EXTENDS GeneticFitness, FiniteSets

CONSTANTS Throttles,       \* the integers of throttle_range
          PopulationSize,
          Configurations,  \* the rest of GeneticConfiguration that the loop reads
          Timeout,         \* timeout_ms, in units of time
          MaxSetup,        \* bound: time that the initial population takes
          MaxDuration      \* bound: time that one generation takes

ASSUME SearchAssumption ==
  /\ Throttles # {}
  /\ PopulationSize \in Nat \ {0}
  /\ Configurations \subseteq [num_generations: Nat, num_best_parents: Nat,
                               num_worst_parents: Nat]
  /\ Timeout \in Nat \ {0} /\ MaxSetup \in Nat /\ MaxDuration \in Nat \ {0}

VARIABLES configuration, pc, population, scores, offspring, best, generation,
          clock,      \* time since the call
          startTime   \* start_time

vars == <<configuration, pc, population, scores, offspring, best, generation, clock,
          startTime>>

Individuals == 1..PopulationSize

\* What the search may hold: never empty, never longer than allowed.
Genomes == UNION {[1..n -> Throttles] : n \in 1..MaxLength}

Scores == {0} \cup {Score(s) : s \in Genomes}

None == <<>>   \* an individual that is not there yet; no genome is empty

NoResult == [sequence |-> None, score |-> 0]

-----------------------------------------------------------------------------
(* The genetic operators: the sets of what they may return.                *)

\* The child is one throttle too long.
Trim_OneTooLong(child) ==
  IF Len(child) > MaxLength THEN SubSeq(child, 1, MaxLength + 1) ELSE child

Trim(child) ==
  IF Len(child) >= MaxLength THEN SubSeq(child, 1, MaxLength) ELSE child

\* A head of one parent and a tail of the other; the head is not empty.
Crossover(p1, p2) ==
  {Trim(SubSeq(p1, 1, cut1) \o SubSeq(p2, cut2 + 1, Len(p2))) :
     cut1 \in 1..Len(p1), cut2 \in 1..Len(p2)}

Without(s, d) ==
  [i \in 1..(Len(s) - 1) |-> IF i < d THEN s[i] ELSE s[i + 1]]

\* Any throttles may be replaced, then one of several may be deleted.
Mutations(s) ==
  LET replaced == [1..Len(s) -> Throttles]
  IN  replaced \cup (IF Len(s) > 1
                     THEN {Without(t, d) : t \in replaced, d \in 1..Len(s)}
                     ELSE {})

-----------------------------------------------------------------------------
(* Selection.                                                              *)

\* The order of sorted, which is stable.
Precedes(i, j) == scores'[i] < scores'[j] \/ (scores'[i] = scores'[j] /\ i < j)

\* The slice of the sorted population ends with it.
NumBest == IF configuration.num_best_parents < PopulationSize
           THEN configuration.num_best_parents ELSE PopulationSize

BestParents(parents) ==
  /\ Cardinality(parents) = NumBest
  /\ \A i \in parents, j \in Individuals \ parents : Precedes(i, j)

\* Two entries of best_parents + worst_parents; an individual that is in both lists
\* may mate with itself.
Mates(bestOnes, randomOnes) ==
  {m \in (bestOnes \cup randomOnes) \X (bestOnes \cup randomOnes) :
     m[1] = m[2] => m[1] \in bestOnes \cap randomOnes}

Children(mates) ==
  UNION {UNION {Mutations(child) : child \in Crossover(population[m[1]],
                                                       population[m[2]])} :
           m \in mates}

-----------------------------------------------------------------------------

\* The search is called.
Init ==
  /\ configuration \in Configurations
  /\ pc = "call"
  /\ population = [i \in Individuals |-> None]
  /\ scores = [i \in Individuals |-> 0]
  /\ offspring = [i \in Individuals |-> None]
  /\ best = NoResult
  /\ generation = 0
  /\ clock = 0
  /\ startTime = 0

\* generate_initial_population, which takes its time; start_time is read after it.
Generate ==
  /\ pc = "call"
  /\ population' \in [Individuals -> Genomes]
  /\ \E d \in 0..MaxSetup : clock' = clock + d
  /\ startTime' = clock'
  /\ pc' = "breed"
  /\ UNCHANGED <<configuration, scores, offspring, best, generation>>

\* Fitness, selection, crossover and mutation of one generation.
Breed ==
  /\ pc = "breed" /\ generation < configuration.num_generations
  /\ scores' = [i \in Individuals |-> Score(population[i])]
  /\ \E bestOnes, randomOnes \in SUBSET Individuals :
       /\ BestParents(bestOnes)
       /\ Cardinality(randomOnes) = configuration.num_worst_parents
       /\ offspring' \in [Individuals -> Children(Mates(bestOnes, randomOnes))]
  /\ pc' = "keep"
  /\ UNCHANGED <<configuration, population, best, generation, clock, startTime>>

\* min, and the position of its first occurrence.
IsFirstBest(i) ==
  \A j \in Individuals :
    scores[i] <= scores[j] /\ (j < i => scores[i] < scores[j])

\* The clock must be past the timeout.
TimedOut_Past(time) == time > Timeout

TimedOut(time) == time >= Timeout

\* The best is looked up after the update of the population.
Choice_AfterUpdate(i) == [sequence |-> offspring[i], score |-> scores[i]]

Choice(i) == [sequence |-> population[i], score |-> scores[i]]

\* The rest of the loop body: the best of the evaluated population, the update of
\* the population and the look at the clock, which shows the time of the generation.
Keep ==
  /\ pc = "keep"
  /\ \E i \in Individuals : IsFirstBest(i) /\ best' = Choice(i)
  /\ population' = offspring
  /\ offspring' = [i \in Individuals |-> None]
  /\ generation' = generation + 1
  /\ \E d \in 0..MaxDuration : clock' = clock + d
  /\ pc' = IF TimedOut(clock' - startTime) THEN "done" ELSE "breed"
  /\ UNCHANGED <<configuration, scores, startTime>>

\* The generations are used up.
Exhaust ==
  /\ pc = "breed" /\ generation = configuration.num_generations
  /\ pc' = "done"
  /\ UNCHANGED <<configuration, population, scores, offspring, best, generation, clock,
                 startTime>>

\* The result was returned.
Returned == pc = "done" /\ UNCHANGED vars

SearchStep == Generate \/ Breed \/ Keep \/ Exhaust

Next == SearchStep \/ Returned

Spec == Init /\ [][Next]_vars

-----------------------------------------------------------------------------
(* Properties.                                                             *)

\* Whatever crossover, trimming, mutation and deletion do, every individual of every
\* generation has between 1 and max_sequence_length throttles, all of them in range:
\* the next crossover never draws from an empty range.
TypeOK ==
  /\ configuration \in Configurations
  /\ pc \in {"call", "breed", "keep", "done"}
  /\ population \in [Individuals -> IF pc = "call" THEN {None} ELSE Genomes]
  /\ scores \in [Individuals -> Scores]
  /\ offspring \in [Individuals -> IF pc = "keep" THEN Genomes ELSE {None}]
  /\ best = NoResult \/ best \in [sequence: Genomes, score: Scores]
  /\ generation \in 0..configuration.num_generations
  /\ pc = "keep" => generation < configuration.num_generations
  /\ clock \in Nat /\ startTime \in Nat

\* find_optimal_throttle_sequence returns a sequence with its own fitness, although
\* the population it belongs to was replaced and its offspring mutated meanwhile;
\* without a generation it returns nothing.
ResultFitsItsScore ==
  pc = "done" =>
    IF generation = 0 THEN best = NoResult
    ELSE best.sequence \in Genomes /\ best.score = Score(best.sequence)

\* From its call to its return the search, which blocks the event loop, takes less than
\* the initial population, the timeout and one generation: the timeout does not count
\* the first, and is only looked at when the last is over.
OverrunIsBounded == clock < MaxSetup + Timeout + MaxDuration

=============================================================================
