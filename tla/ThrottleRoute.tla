--------------------------- MODULE ThrottleRoute ---------------------------
(***************************************************************************)
(* A call of the route that computes throttle steps: the handler maps the  *)
(* game state, runs the search between its first units and answers with a  *)
(* goal per throttle.  Whatever raises on the way becomes a 400.           *)
(***************************************************************************)
EXTENDS GeneticSearch

CONSTANTS Places,   \* coordinates, which are finite
          TooFar,   \* the pairs of them whose distance overflows when it is squared
          Requests  \* game states that pass the validation of the DTO

\* A unit without mass divides by zero; the speed, the mass and the friction of any
\* other first unit, and its distance, are the constants of GeneticFitness.
Units == [coordinate: Places, massless: BOOLEAN]

ASSUME RequestsAssumption ==
  /\ TooFar \subseteq Places \X Places
  /\ Requests \subseteq [player_units: Seq(Units), enemy_units: Seq(Units)]

VARIABLES request, answer

routeVars == <<vars, request, answer>>

NoAnswer == [status |-> "none", goals |-> <<>>]

BadRequest == [status |-> "400", goals |-> <<>>]

-----------------------------------------------------------------------------

RouteInit ==
  /\ Init
  /\ request \in Requests
  /\ answer = NoAnswer

HasUnits == request.player_units # <<>> /\ request.enemy_units # <<>>

MainUnit == Head(request.player_units)

TargetUnit == Head(request.enemy_units)

\* calc_euclidean_distance of the two raises OverflowError.
Overflows ==
  HasUnits /\ <<MainUnit.coordinate, TargetUnit.coordinate>> \in TooFar

\* random.sample raises: of the population for the random parents, or of all parents
\* for a pair of mates.
SampleFails ==
  \/ configuration.num_worst_parents > PopulationSize
  \/ NumBest + configuration.num_worst_parents < 2

\* The goals lie where the unit is, as those of LLMPathFinderStrategy do.
FindPath_WhereItIs(throttles) ==
  [k \in 1..Len(throttles) |->
     [coordinate |-> MainUnit.coordinate, throttle |-> throttles[k]]]

\* Every goal is the target; only the throttles tell the steps apart.
FindPath(throttles) ==
  [k \in 1..Len(throttles) |->
     [coordinate |-> TargetUnit.coordinate, throttle |-> throttles[k]]]

\* The first units are there and have a distance, and the search begins.
Start ==
  /\ HasUnits /\ ~Overflows
  /\ Generate
  /\ UNCHANGED <<request, answer>>

\* The fitness of a generation divides by the mass.
Evaluate ==
  /\ pc = "breed" /\ ~MainUnit.massless
  /\ Breed
  /\ UNCHANGED <<request, answer>>

Continue == (Keep \/ Exhaust) /\ UNCHANGED <<request, answer>>

\* An index out of range or an overflow; a division by zero or a sample that is too
\* large; or a result without a sequence.
Raises ==
  \/ pc = "call" /\ (~HasUnits \/ Overflows)
  \/ /\ pc = "breed" /\ generation < configuration.num_generations
     /\ MainUnit.massless \/ SampleFails
  \/ pc = "done" /\ best = NoResult

Refuse ==
  /\ answer = NoAnswer /\ Raises
  /\ answer' = BadRequest
  /\ UNCHANGED <<vars, request>>

Reply ==
  /\ answer = NoAnswer /\ pc = "done" /\ best # NoResult
  /\ answer' = [status |-> "200", goals |-> FindPath(best.sequence)]
  /\ UNCHANGED <<vars, request>>

Answered == answer # NoAnswer /\ UNCHANGED routeVars

RouteNext == Start \/ Evaluate \/ Continue \/ Refuse \/ Reply \/ Answered

RouteSpec == RouteInit /\ [][RouteNext]_routeVars

-----------------------------------------------------------------------------
(* Properties.                                                             *)

\* What the search needs: first units with a distance between them, a generation that
\* has parents to mate, and a mass to divide by.
Searchable ==
  /\ HasUnits /\ ~Overflows /\ ~MainUnit.massless
  /\ configuration.num_generations > 0 /\ ~SampleFails

\* A 200 leads to the first enemy unit by at least one step and at most as many as
\* the configuration allows, with throttles that have the score of the result.  It is
\* given to what can be searched and a 400 to what cannot, so that nothing that breaks
\* in the course of a search which was possible is reported as the fault of a client.
AnswerFitsRequest ==
  /\ answer.status = "200" =>
       LET throttles == [k \in DOMAIN answer.goals |-> answer.goals[k].throttle]
       IN  /\ Searchable
           /\ throttles \in Genomes /\ Score(throttles) = best.score
           /\ \A k \in DOMAIN answer.goals :
                answer.goals[k].coordinate = TargetUnit.coordinate
  /\ answer.status = "400" => ~Searchable

=============================================================================
