--------------------------- MODULE GeneticFitness ---------------------------
(***************************************************************************)
(* The score of a throttle sequence: how far from the target it ends, how  *)
(* fast, and how long it is.                                               *)
(*                                                                         *)
(* Friction is a fraction and a sequence has at most MaxLength throttles,  *)
(* so that every distance, speed and score is an integer number of units   *)
(* of 1 / Scale; the weights, which have two decimals, count hundredths.   *)
(***************************************************************************)
EXTENDS Integers, Sequences

CONSTANTS MaxLength,        \* max_sequence_length
          V0, Mass, Target, \* of the unit, and the distance to its target
          FrictionNum, FrictionDen,
          SpeedThreshold

ASSUME MaxLengthAssumption == MaxLength \in Nat \ {0}

Full  == FrictionDen ^ MaxLength
Scale == Mass * Full

\* calculate_velocity: (v + throttle / m) * (1 - f).
NextVelocity(v, throttle) ==
  ((v + throttle * Full) * (FrictionDen - FrictionNum)) \div FrictionDen

\* calculate_total_distance after each prefix of the sequence.
Path(throttles) ==
  LET path[k \in 0..Len(throttles)] ==
        IF k = 0 THEN [distance |-> 0, velocity |-> V0 * Scale]
        ELSE LET v == NextVelocity(path[k - 1].velocity, throttles[k])
             IN  [distance |-> path[k - 1].distance + v, velocity |-> v]
  IN  path

Abs(x) == IF x < 0 THEN -x ELSE x

SpeedPenalty(speed) ==
  IF 0 <= speed /\ speed <= SpeedThreshold * Scale THEN 0
  ELSE Abs(speed - SpeedThreshold * Scale)

\* fitness, with the weights of GeneticConfiguration; lower is better.
Score(throttles) ==
  LET end     == Path(throttles)[Len(throttles)]
      nonzero == Len(SelectSeq(throttles, LAMBDA t : t # 0))
  IN  100 * Abs(Target * Scale - end.distance) + 50 * SpeedPenalty(end.velocity)
      + (Len(throttles) + nonzero) * Scale

=============================================================================
