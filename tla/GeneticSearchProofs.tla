------------------------ MODULE GeneticSearchProofs ------------------------
(***************************************************************************)
(* The genetic search, and the route that runs it, for every configuration *)
(* and game state: any population, lengths, throttles, numbers of parents  *)
(* and generations, timeout and physics.                                   *)
(***************************************************************************)
EXTENDS ThrottleRoute, SequenceTheorems, FiniteSetTheorems, TLAPS

-----------------------------------------------------------------------------
(* The genetic operators stay within the genomes.                          *)

LEMMA GenomeIsSequence ==
  ASSUME NEW s
  PROVE  s \in Genomes <=> s \in Seq(Throttles) /\ Len(s) \in 1..MaxLength
<1>1. ASSUME NEW n \in 1..MaxLength, s \in [1..n -> Throttles]
      PROVE  s \in Seq(Throttles) /\ Len(s) = n
  BY <1>1, MaxLengthAssumption, LenProperties
<1>2. ASSUME s \in Seq(Throttles), Len(s) \in 1..MaxLength
      PROVE  s \in [1..Len(s) -> Throttles]
  BY <1>2, LenProperties
<1> QED
  BY <1>1, <1>2 DEF Genomes

LEMMA TrimGivesGenome ==
  ASSUME NEW s \in Seq(Throttles), Len(s) >= 1
  PROVE  Trim(s) \in Genomes
<1>1. CASE Len(s) >= MaxLength
  <2>1. \A i \in 1..MaxLength : s[i] \in Throttles
    BY <1>1, MaxLengthAssumption, LenProperties, ElementOfSeq
  <2>2. SubSeq(s, 1, MaxLength) \in Seq(Throttles)
        /\ Len(SubSeq(s, 1, MaxLength)) = MaxLength
    BY <2>1, MaxLengthAssumption, SubSeqProperties
  <2>3. Trim(s) = SubSeq(s, 1, MaxLength)
    BY <1>1 DEF Trim
  <2>4. MaxLength \in 1..MaxLength
    BY MaxLengthAssumption
  <2> QED
    BY <2>2, <2>3, <2>4, GenomeIsSequence
<1>2. CASE ~(Len(s) >= MaxLength)
  <2>1. Trim(s) = s /\ Len(s) \in Nat
    BY <1>2, LenProperties DEF Trim
  <2>2. Len(s) \in 1..MaxLength
    BY <1>2, <2>1, MaxLengthAssumption
  <2> QED
    BY <2>1, <2>2, GenomeIsSequence
<1> QED
  BY <1>1, <1>2

LEMMA CrossoverGivesGenomes ==
  ASSUME NEW p1 \in Genomes, NEW p2 \in Genomes
  PROVE  Crossover(p1, p2) \subseteq Genomes
<1>1. /\ p1 \in Seq(Throttles) /\ Len(p1) \in Nat
      /\ p2 \in Seq(Throttles) /\ Len(p2) \in Nat
  BY GenomeIsSequence, LenProperties
<1>2. ASSUME NEW cut1 \in 1..Len(p1), NEW cut2 \in 1..Len(p2)
      PROVE  Trim(SubSeq(p1, 1, cut1) \o SubSeq(p2, cut2 + 1, Len(p2))) \in Genomes
  <2> DEFINE head == SubSeq(p1, 1, cut1)
             tail == SubSeq(p2, cut2 + 1, Len(p2))
  <2>1. head \in Seq(Throttles) /\ Len(head) = cut1
    <3>1. \A i \in 1..cut1 : p1[i] \in Throttles
      BY <1>1, ElementOfSeq
    <3> QED
      BY <1>1, <3>1, SubSeqProperties
  <2>2. tail \in Seq(Throttles) /\ Len(tail) \in Nat
    <3>1. \A i \in (cut2 + 1)..Len(p2) : p2[i] \in Throttles
      BY <1>1, ElementOfSeq
    <3> QED
      BY <1>1, <3>1, SubSeqProperties, LenProperties
  <2> HIDE DEF head, tail
  <2>3. head \o tail \in Seq(Throttles) /\ Len(head \o tail) >= 1
    BY <2>1, <2>2, ConcatProperties
  <2> QED
    BY <2>3, TrimGivesGenome DEF head, tail
<1> QED
  BY <1>2 DEF Crossover

LEMMA MutationsGiveGenomes ==
  ASSUME NEW s \in Genomes
  PROVE  Mutations(s) \subseteq Genomes
<1>1. Len(s) \in 1..MaxLength
  BY GenomeIsSequence
<1>2. [1..Len(s) -> Throttles] \subseteq Genomes
  BY <1>1 DEF Genomes
<1>3. ASSUME Len(s) > 1, NEW t \in [1..Len(s) -> Throttles], NEW d \in 1..Len(s)
      PROVE  Without(t, d) \in Genomes
  <2>1. Len(t) = Len(s)
    BY <1>1, <1>2, MaxLengthAssumption, LenProperties
  <2>2. Len(s) - 1 \in 1..MaxLength
    BY <1>1, <1>3, MaxLengthAssumption
  <2>3. \A i \in 1..(Len(s) - 1) : (IF i < d THEN t[i] ELSE t[i + 1]) \in Throttles
    BY <1>1, MaxLengthAssumption
  <2>4. Without(t, d) \in [1..(Len(s) - 1) -> Throttles]
    BY <2>1, <2>3 DEF Without
  <2> QED
    BY <2>2, <2>4 DEF Genomes
<1> QED
  BY <1>2, <1>3 DEF Mutations

LEMMA ChildrenAreGenomes ==
  ASSUME population \in [Individuals -> Genomes],
         NEW bestOnes \in SUBSET Individuals, NEW randomOnes \in SUBSET Individuals
  PROVE  Children(Mates(bestOnes, randomOnes)) \subseteq Genomes
<1>1. ASSUME NEW m \in Mates(bestOnes, randomOnes)
      PROVE  Crossover(population[m[1]], population[m[2]]) \subseteq Genomes
  <2>1. m[1] \in Individuals /\ m[2] \in Individuals
    BY DEF Mates
  <2> QED
    BY <2>1, CrossoverGivesGenomes
<1> QED
  BY <1>1, MutationsGiveGenomes DEF Children

-----------------------------------------------------------------------------
(* The inductive invariant.                                                *)

\* While the offspring wait for their turn the scores belong to the population.
ScoresFit ==
  pc = "keep" => scores = [i \in Individuals |-> Score(population[i])]

BestFits ==
  IF generation = 0 THEN best = NoResult
  ELSE best.sequence \in Genomes /\ best.score = Score(best.sequence)

\* A generation is only begun before the timeout.
InTime ==
  /\ startTime <= MaxSetup
  /\ clock < startTime + Timeout + MaxDuration
  /\ pc # "done" => clock < startTime + Timeout

AtCall == pc = "call" => clock = 0

IInv == TypeOK /\ ScoresFit /\ BestFits /\ AtCall /\ InTime

LEMMA InitHolds == Init => IInv
  BY MaxLengthAssumption, SearchAssumption
     DEF Init, IInv, TypeOK, ScoresFit, BestFits, AtCall, InTime, Scores

\* The configuration counts in natural numbers.
LEMMA ConfigurationFacts ==
  ASSUME TypeOK
  PROVE  /\ configuration.num_generations \in Nat
         /\ configuration.num_best_parents \in Nat
         /\ configuration.num_worst_parents \in Nat
         /\ generation \in Nat /\ generation <= configuration.num_generations
<1>1. configuration \in [num_generations: Nat, num_best_parents: Nat,
                         num_worst_parents: Nat]
  BY SearchAssumption DEF TypeOK
<1> QED
  BY <1>1 DEF TypeOK

LEMMA GenerateKeeps ==
  ASSUME IInv, Generate
  PROVE  IInv'
<1>1. PICK d \in 0..MaxSetup : clock' = clock + d /\ startTime' = clock'
  BY DEF Generate
<1>2. pc = "call" /\ pc' = "breed" /\ population' \in [Individuals -> Genomes]
      /\ UNCHANGED <<configuration, scores, offspring, best, generation>>
  BY DEF Generate
<1>3. TypeOK'
  BY <1>1, <1>2, SearchAssumption DEF IInv, TypeOK, Scores
<1>4. ScoresFit' /\ BestFits' /\ AtCall'
  BY <1>2 DEF IInv, ScoresFit, BestFits, AtCall
<1>5. InTime'
  BY <1>1, <1>2, SearchAssumption DEF IInv, TypeOK, InTime, AtCall
<1> QED
  BY <1>3, <1>4, <1>5 DEF IInv

LEMMA BreedKeeps ==
  ASSUME IInv, Breed
  PROVE  IInv'
<1>1. PICK bestOnes, randomOnes \in SUBSET Individuals :
        offspring' \in [Individuals -> Children(Mates(bestOnes, randomOnes))]
  BY DEF Breed
<1>2. offspring' \in [Individuals -> Genomes]
  <2>1. population \in [Individuals -> Genomes]
    BY DEF Breed, IInv, TypeOK
  <2> QED
    BY <1>1, <2>1, ChildrenAreGenomes
<1>3. scores' \in [Individuals -> Scores]
  BY DEF Breed, IInv, TypeOK, Scores
<1>4. TypeOK'
  <2>1. population' \in [Individuals -> Genomes] /\ pc' = "keep"
    BY DEF Breed, IInv, TypeOK
  <2>2. /\ configuration' \in Configurations
        /\ generation' \in 0..configuration'.num_generations
        /\ generation' < configuration'.num_generations
        /\ clock' \in Nat /\ startTime' \in Nat
        /\ best' = NoResult \/ best' \in [sequence: Genomes, score: Scores]
    BY DEF Breed, IInv, TypeOK
  <2> QED
    BY <1>2, <1>3, <2>1, <2>2 DEF TypeOK, Scores
<1>5. ScoresFit' /\ BestFits' /\ AtCall' /\ InTime'
  BY DEF Breed, IInv, ScoresFit, BestFits, AtCall, InTime
<1> QED
  BY <1>4, <1>5 DEF IInv

LEMMA KeepKeeps ==
  ASSUME IInv, Keep
  PROVE  IInv'
<1>1. PICK i \in Individuals : best' = Choice(i)
  BY DEF Keep
<1>2. population[i] \in Genomes /\ scores[i] = Score(population[i])
  BY <1>1 DEF Keep, IInv, TypeOK, ScoresFit
<1>3. /\ best'.sequence \in Genomes /\ best'.score = Score(best'.sequence)
      /\ best' \in [sequence: Genomes, score: Scores]
  BY <1>1, <1>2 DEF Choice, Scores
<1>4. generation \in Nat /\ generation' = generation + 1
      /\ generation' \in 0..configuration'.num_generations
      /\ configuration' \in Configurations
  BY ConfigurationFacts DEF Keep, IInv, TypeOK
<1>5. PICK d \in 0..MaxDuration : clock' = clock + d
  BY DEF Keep
<1>6. clock' \in Nat /\ startTime' \in Nat /\ InTime'
  BY <1>5, SearchAssumption
     DEF Keep, IInv, TypeOK, InTime, TimedOut
<1>7. pc' \in {"breed", "done"} /\ pc' # "keep" /\ pc' # "call"
  BY DEF Keep
<1>8. /\ population' \in [Individuals -> Genomes]
      /\ offspring' \in [Individuals -> {None}]
      /\ scores' \in [Individuals -> Scores]
  BY DEF Keep, IInv, TypeOK
<1>9. TypeOK'
  BY <1>3, <1>4, <1>6, <1>7, <1>8 DEF TypeOK, Scores
<1>10. ScoresFit' /\ BestFits' /\ AtCall'
  BY <1>3, <1>4, <1>7 DEF ScoresFit, BestFits, AtCall
<1> QED
  BY <1>6, <1>9, <1>10 DEF IInv

LEMMA ExhaustKeeps ==
  ASSUME IInv, Exhaust
  PROVE  IInv'
  BY DEF Exhaust, IInv, TypeOK, ScoresFit, BestFits, AtCall, InTime, Scores

LEMMA StepKeeps == IInv /\ [Next]_vars => IInv'
<1> SUFFICES ASSUME IInv, [Next]_vars
             PROVE  IInv'
  OBVIOUS
<1>1. CASE Generate
  BY <1>1, GenerateKeeps
<1>2. CASE Breed
  BY <1>2, BreedKeeps
<1>3. CASE Keep
  BY <1>3, KeepKeeps
<1>4. CASE Exhaust
  BY <1>4, ExhaustKeeps
<1>5. CASE UNCHANGED vars
  BY <1>5 DEF vars, IInv, TypeOK, ScoresFit, BestFits, AtCall, InTime, Scores
<1> QED
  BY <1>1, <1>2, <1>3, <1>4, <1>5 DEF Next, SearchStep, Returned

LEMMA Invariant == Spec => []IInv
  BY InitHolds, StepKeeps, PTL DEF Spec

\* No generation of any search holds an empty, an overlong or an out-of-range
\* sequence.
THEOREM PopulationsAreLegal == Spec => []TypeOK
<1>1. IInv => TypeOK
  BY DEF IInv
<1> QED
  BY <1>1, Invariant, PTL

\* The result of a search is a legal sequence with its own score.
THEOREM ResultIsConsistent == Spec => []ResultFitsItsScore
<1>1. IInv => ResultFitsItsScore
  BY DEF IInv, BestFits, ResultFitsItsScore
<1> QED
  BY <1>1, Invariant, PTL

\* From its call to its return a search takes less than the initial population, the
\* timeout and one generation, for any bounds on the first and the last.
THEOREM OverrunBound == Spec => []OverrunIsBounded
<1>1. IInv => OverrunIsBounded
  BY SearchAssumption DEF IInv, TypeOK, InTime, OverrunIsBounded
<1> QED
  BY <1>1, Invariant, PTL

-----------------------------------------------------------------------------
(* The route.                                                              *)

\* The handler does to the search only what the search does itself.
LEMMA RouteStepIsSearchStep == [RouteNext]_routeVars => [Next]_vars
  BY DEF RouteNext, routeVars, Start, Evaluate, Continue, Refuse, Reply, Answered, Next,
         SearchStep

\* Every call of the route runs the search as it is specified, whatever it answers.
THEOREM RouteRunsTheSearch == RouteSpec => Spec
<1>1. RouteInit => Init
  BY DEF RouteInit
<1> QED
  BY <1>1, RouteStepIsSearchStep, PTL DEF RouteSpec, Spec

\* A generation that was bred had parents enough: the samples that random.sample can
\* draw are those that SampleFails does not exclude.
LEMMA BreedingSamples ==
  ASSUME TypeOK, Breed
  PROVE  ~SampleFails
<1> DEFINE Worst == configuration.num_worst_parents
<1>1. PICK bestOnes, randomOnes \in SUBSET Individuals :
        /\ Cardinality(bestOnes) = NumBest
        /\ Cardinality(randomOnes) = Worst
        /\ offspring' \in [Individuals -> Children(Mates(bestOnes, randomOnes))]
  BY DEF Breed, BestParents
<1>2. IsFiniteSet(Individuals) /\ Cardinality(Individuals) = PopulationSize
  <2>1. PopulationSize \in Nat /\ PopulationSize >= 1
    BY SearchAssumption
  <2>2. /\ IsFiniteSet(1..PopulationSize)
        /\ Cardinality(1..PopulationSize)
             = IF 1 > PopulationSize THEN 0 ELSE PopulationSize - 1 + 1
    BY <2>1, FS_Interval
  <2> QED
    BY <2>1, <2>2 DEF Individuals
<1>3. /\ IsFiniteSet(bestOnes) /\ IsFiniteSet(randomOnes)
      /\ Worst <= PopulationSize
  BY <1>1, <1>2, FS_Subset
<1>4. PICK m \in Mates(bestOnes, randomOnes) : TRUE
  <2>1. 1 \in Individuals
    BY SearchAssumption DEF Individuals
  <2>2. Children(Mates(bestOnes, randomOnes)) # {}
    BY <1>1, <2>1
  <2> QED
    BY <2>2 DEF Children
<1>5. /\ m[1] \in bestOnes \cup randomOnes /\ m[2] \in bestOnes \cup randomOnes
      /\ m[1] = m[2] => m[1] \in bestOnes /\ m[1] \in randomOnes
  BY <1>4 DEF Mates
<1>6. /\ NumBest \in Nat /\ Worst \in Nat
      /\ \A x \in bestOnes : NumBest >= 1
      /\ \A x \in randomOnes : Worst >= 1
  <2>1. Cardinality(bestOnes) \in Nat /\ Cardinality(randomOnes) \in Nat
    BY <1>3, FS_CardinalityType
  <2>2. /\ \A x \in bestOnes : Cardinality(bestOnes) # 0
        /\ \A x \in randomOnes : Cardinality(randomOnes) # 0
    BY <1>3, FS_EmptySet
  <2> QED
    BY <1>1, <2>1, <2>2
<1>7. NumBest + Worst >= 2
  <2>1. CASE m[1] = m[2]
    BY <1>5, <1>6, <2>1
  <2>2. ASSUME NEW S, S \in {bestOnes, randomOnes}, m[1] \in S, m[2] \in S,
               m[1] # m[2]
        PROVE  Cardinality(S) >= 2
    <3>1. IsFiniteSet(S) /\ Cardinality(S) \in Nat
      BY <1>3, <2>2, FS_CardinalityType
    <3>2. IsFiniteSet(S \ {m[1]}) /\ Cardinality(S \ {m[1]}) = Cardinality(S) - 1
      BY <2>2, <3>1, FS_RemoveElement
    <3>3. m[2] \in S \ {m[1]}
      BY <2>2
    <3>4. Cardinality(S \ {m[1]}) \in Nat /\ Cardinality(S \ {m[1]}) # 0
      BY <3>2, <3>3, FS_CardinalityType, FS_EmptySet
    <3> QED
      BY <3>1, <3>2, <3>4
  <2>3. CASE m[1] # m[2]
    BY <1>1, <1>5, <1>6, <2>2, <2>3
  <2> QED
    BY <2>1, <2>3
<1> HIDE DEF Worst
<1>8. ~(Worst > PopulationSize) /\ ~(NumBest + Worst < 2)
  BY <1>3, <1>6, <1>7, SearchAssumption
<1> QED
  BY <1>8 DEF SampleFails, Worst

\* A search that was begun has its units and their distance, and one that evaluated
\* a generation had a mass to divide by and parents to mate.
NothingWasMissing ==
  /\ pc # "call" => HasUnits /\ ~Overflows
  /\ pc = "keep" \/ generation > 0 => ~MainUnit.massless /\ ~SampleFails

\* A result comes of a finished loop, and its absence of one that never ran.
DoneHasReason == pc = "done" /\ generation = 0 => configuration.num_generations = 0

AnswerIsFinal ==
  answer # NoAnswer =>
    \/ answer = BadRequest /\ ~Searchable
    \/ /\ pc = "done" /\ generation > 0
       /\ answer = [status |-> "200", goals |-> FindPath(best.sequence)]

RouteInv == NothingWasMissing /\ DoneHasReason /\ AnswerIsFinal

LEMMA NoResultBeforeGenerations ==
  ASSUME IInv
  PROVE  best = NoResult <=> generation = 0
<1>1. ASSUME best = NoResult
      PROVE  generation = 0
  <2> SUFFICES ASSUME generation # 0
               PROVE  FALSE
    OBVIOUS
  <2>1. None \in Genomes
    BY <1>1 DEF IInv, BestFits, NoResult
  <2>2. Len(None) \in 1..MaxLength
    BY <2>1, GenomeIsSequence
  <2> QED
    BY <2>2 DEF None
<1> QED
  BY <1>1 DEF IInv, BestFits

LEMMA RouteInitHolds == RouteInit => RouteInv
  BY DEF RouteInit, Init, RouteInv, NothingWasMissing, DoneHasReason, AnswerIsFinal

\* The request and the configuration are given once and for all.
LEMMA GivenStays ==
  ASSUME [RouteNext]_routeVars
  PROVE  UNCHANGED <<request, configuration>>
  BY DEF RouteNext, routeVars, vars, Start, Generate, Evaluate, Breed, Continue, Keep,
         Exhaust, Refuse, Reply, Answered

LEMMA RouteStepKeeps == IInv /\ RouteInv /\ [RouteNext]_routeVars => RouteInv'
<1> SUFFICES ASSUME IInv, RouteInv, [RouteNext]_routeVars
             PROVE  RouteInv'
  OBVIOUS
<1>1. /\ generation \in Nat /\ configuration.num_generations \in Nat
      /\ generation <= configuration.num_generations
  BY ConfigurationFacts DEF IInv
<1>2. /\ UNCHANGED <<request, configuration>>
      /\ HasUnits' = HasUnits /\ Overflows' = Overflows
      /\ MainUnit' = MainUnit /\ TargetUnit' = TargetUnit
      /\ SampleFails' = SampleFails /\ Searchable' = Searchable
  BY GivenStays DEF HasUnits, Overflows, MainUnit, TargetUnit, SampleFails, NumBest,
                    Searchable
<1>3. CASE Start
  BY <1>1, <1>2, <1>3
     DEF Start, Generate, RouteInv, NothingWasMissing, DoneHasReason, AnswerIsFinal
<1>4. CASE Evaluate
  <2>1. ~MainUnit.massless /\ ~SampleFails
    BY <1>4, BreedingSamples DEF Evaluate, IInv
  <2> QED
    BY <1>1, <1>2, <1>4, <2>1
       DEF Evaluate, Breed, RouteInv, NothingWasMissing, DoneHasReason, AnswerIsFinal
<1>5. CASE Keep /\ UNCHANGED <<request, answer>>
  BY <1>1, <1>2, <1>5
     DEF Keep, RouteInv, NothingWasMissing, DoneHasReason, AnswerIsFinal
<1>6. CASE Exhaust /\ UNCHANGED <<request, answer>>
  BY <1>1, <1>2, <1>6
     DEF Exhaust, RouteInv, NothingWasMissing, DoneHasReason, AnswerIsFinal
<1>7. CASE Refuse
  <2>1. ~Searchable
    BY <1>1, <1>7, NoResultBeforeGenerations
       DEF Refuse, Raises, Searchable, RouteInv, DoneHasReason
  <2> QED
    BY <1>1, <1>2, <1>7, <2>1
       DEF Refuse, vars, RouteInv, NothingWasMissing, DoneHasReason, AnswerIsFinal
<1>8. CASE Reply
  BY <1>1, <1>2, <1>8, NoResultBeforeGenerations
     DEF Reply, vars, FindPath, RouteInv, NothingWasMissing, DoneHasReason, AnswerIsFinal
<1>9. CASE UNCHANGED routeVars
  BY <1>2, <1>9
     DEF routeVars, vars, FindPath, RouteInv, NothingWasMissing, DoneHasReason,
         AnswerIsFinal
<1> QED
  BY <1>3, <1>4, <1>5, <1>6, <1>7, <1>8, <1>9 DEF RouteNext, Continue, Answered

LEMMA RouteInvGivesFit ==
  ASSUME IInv, RouteInv
  PROVE  AnswerFitsRequest
<1>1. ASSUME answer.status = "200"
      PROVE  /\ Searchable
             /\ [k \in DOMAIN answer.goals |-> answer.goals[k].throttle] = best.sequence
             /\ best.sequence \in Genomes /\ Score(best.sequence) = best.score
             /\ \A k \in DOMAIN answer.goals :
                  answer.goals[k].coordinate = TargetUnit.coordinate
  <2>1. /\ pc = "done" /\ generation > 0
        /\ answer = [status |-> "200", goals |-> FindPath(best.sequence)]
    BY <1>1 DEF RouteInv, AnswerIsFinal, NoAnswer, BadRequest
  <2>2. Searchable
    BY <2>1, ConfigurationFacts DEF IInv, RouteInv, NothingWasMissing, Searchable
  <2>3. best.sequence \in Genomes /\ Score(best.sequence) = best.score
    BY <2>1, SearchAssumption DEF IInv, BestFits, TypeOK
  <2>4. PICK n \in 1..MaxLength : best.sequence \in [1..n -> Throttles]
    BY <2>3 DEF Genomes
  <2>5. Len(best.sequence) = n
    BY <2>4, MaxLengthAssumption, LenProperties
  <2>6. answer.goals = FindPath(best.sequence)
    BY <2>1
  <2>7. DOMAIN answer.goals = 1..n
    BY <2>5, <2>6 DEF FindPath
  <2>8. \A k \in 1..n : /\ answer.goals[k].throttle = best.sequence[k]
                        /\ answer.goals[k].coordinate = TargetUnit.coordinate
    BY <2>5, <2>6 DEF FindPath
  <2>9. [k \in DOMAIN answer.goals |-> answer.goals[k].throttle] = best.sequence
    BY <2>4, <2>7, <2>8
  <2> QED
    BY <2>2, <2>3, <2>7, <2>8, <2>9
<1>2. ASSUME answer.status = "400"
      PROVE  ~Searchable
  BY <1>2 DEF RouteInv, AnswerIsFinal, NoAnswer, BadRequest
<1> QED
  BY <1>1, <1>2 DEF AnswerFitsRequest

\* For every game state and configuration, a 200 carries the goals of a legal sequence
\* with the score of the result towards the first enemy unit, and is given only to what
\* can be searched; a 400 is given only to what cannot.
THEOREM AnswersAreFaithful == RouteSpec => []AnswerFitsRequest
<1>1. RouteSpec => []IInv
  BY RouteRunsTheSearch, Invariant, PTL
<1>2. RouteSpec => []RouteInv
  BY <1>1, RouteInitHolds, RouteStepKeeps, PTL DEF RouteSpec
<1> QED
  BY <1>1, <1>2, RouteInvGivesFit, PTL

=============================================================================
