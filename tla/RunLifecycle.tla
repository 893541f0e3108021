---------------------------- MODULE RunLifecycle ----------------------------
(***************************************************************************)
(* What a client of the run API may rely on, without workers, leases,      *)
(* signals or executions: the status of every run, how many times it was   *)
(* taken back from a worker, and whether it was asked to stop.             *)
(***************************************************************************)
EXTENDS Naturals, Sequences

VARIABLES phase,      \* phase[r]: what GET /runs/{r} reports
          retries,    \* attempts that were given up
          stopping    \* runs asked to stop

lifecycle == <<phase, retries, stopping>>

Phases == {"ENQUEUED", "RUNNING", "SUCCEEDED", "FAILED", "CANCELLED"}
Final == {"SUCCEEDED", "FAILED", "CANCELLED"}

Runs == DOMAIN phase
In(p) == {r \in Runs : phase[r] = p}

Init == phase = <<>> /\ retries = <<>> /\ stopping = {}

Submit ==
  /\ phase' = Append(phase, "ENQUEUED")
  /\ retries' = Append(retries, 0)
  /\ UNCHANGED stopping

AskToStop(r) ==
  /\ phase[r] \notin Final
  /\ stopping' = stopping \cup {r}
  /\ UNCHANGED <<phase, retries>>

\* Only a run nobody asked to stop succeeds; a run that is still in the queue
\* does not end otherwise than by a cancellation.
Finish(r, p) ==
  /\ phase[r] \notin Final
  /\ p = "SUCCEEDED" => phase[r] = "RUNNING" /\ r \notin stopping
  /\ p = "FAILED" => phase[r] = "RUNNING"
  /\ phase' = [phase EXCEPT ![r] = p]
  /\ UNCHANGED <<retries, stopping>>

\* A worker looks at the queue: it takes the runs in lost back from their
\* workers, cancels those in dropped, and starts at most one.
Poll(lost, dropped, started) ==
  LET queued == In("ENQUEUED") \cup lost
  IN  /\ dropped \subseteq queued \cap stopping
      /\ started \subseteq queued \ stopping
      /\ \A p, q \in started : p = q
      /\ phase' = [r \in Runs |-> IF r \in started THEN "RUNNING"
                                  ELSE IF r \in dropped THEN "CANCELLED"
                                  ELSE IF r \in lost THEN "ENQUEUED"
                                  ELSE phase[r]]
      /\ retries' = [r \in Runs |-> IF r \in lost THEN retries[r] + 1 ELSE retries[r]]
      /\ UNCHANGED stopping

Next ==
  \/ Submit
  \/ \E r \in Runs : AskToStop(r) \/ \E p \in Final : Finish(r, p)
  \/ \E lost \in SUBSET In("RUNNING"), dropped \in SUBSET stopping :
       \E started \in SUBSET Runs : Poll(lost, dropped, started)

Spec == Init /\ [][Next]_lifecycle

=============================================================================
