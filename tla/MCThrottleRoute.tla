-------------------------- MODULE MCThrottleRoute --------------------------
(***************************************************************************)
(* ThrottleRoute for TLC.                                                  *)
(***************************************************************************)
EXTENDS ThrottleRoute

CONSTANTS p, q, far   \* places, the last one far from the others

Unit(place) == [coordinate |-> place, massless |-> FALSE]

Massless(place) == [coordinate |-> place, massless |-> TRUE]

GameState(players, enemies) == [player_units |-> players, enemy_units |-> enemies]

MCTooFar == ({p, q} \X {far}) \cup ({far} \X {p, q})

\* One that can be answered, with further units that must not matter, and four that
\* cannot.
MCRequests ==
  {GameState(<<Unit(q), Massless(far)>>, <<Massless(p), Unit(far)>>),
   GameState(<<Massless(p), Unit(p)>>, <<Unit(q)>>),
   GameState(<<Unit(p)>>, <<Unit(far), Unit(q)>>),
   GameState(<<>>, <<Unit(q)>>),
   GameState(<<Unit(p)>>, <<>>)}

Configuration(generations, bestParents, worstParents) ==
  [num_generations |-> generations, num_best_parents |-> bestParents,
   num_worst_parents |-> worstParents]

\* Two that breed, the second from more best parents than there are; one without a
\* generation; and two whose samples are too large.
MCConfigurations ==
  {Configuration(2, 1, 1), Configuration(1, 3, 0), Configuration(0, 1, 1),
   Configuration(1, 1, 0), Configuration(1, 1, 3)}

=============================================================================
