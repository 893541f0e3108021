--------------------------- MODULE RunTransitions ---------------------------
(***************************************************************************)
(* The status codes of an agent run and the transition policy that the     *)
(* intake store and the processing store share.                            *)
(***************************************************************************)

\* RunStatusCode.
Statuses == {"CREATED", "ENQUEUED", "RUNNING", "SUCCEEDED", "FAILED",
             "CANCELLED", "TIMED_OUT", "RETRYING"}

\* TERMINAL_RUN_STATUSES.
TerminalStatuses == {"SUCCEEDED", "FAILED", "CANCELLED"}

\* A finished run may still be cancelled.
TransitionRules_LateCancel ==
  {<<"CREATED", "ENQUEUED">>,  <<"CREATED", "CANCELLED">>,
   <<"ENQUEUED", "RUNNING">>,  <<"ENQUEUED", "CANCELLED">>,
   <<"RUNNING", "SUCCEEDED">>, <<"RUNNING", "FAILED">>,
   <<"RUNNING", "CANCELLED">>, <<"RUNNING", "TIMED_OUT">>,
   <<"FAILED", "CANCELLED">>,  <<"SUCCEEDED", "CANCELLED">>,
   <<"TIMED_OUT", "RETRYING">>, <<"RETRYING", "ENQUEUED">>}

\* RUNNING does not lead to FAILED.
TransitionRules_NoFailure ==
  {<<"CREATED", "ENQUEUED">>,  <<"CREATED", "CANCELLED">>,
   <<"ENQUEUED", "RUNNING">>,  <<"ENQUEUED", "CANCELLED">>,
   <<"RUNNING", "SUCCEEDED">>, <<"RUNNING", "CANCELLED">>,
   <<"RUNNING", "TIMED_OUT">>,
   <<"TIMED_OUT", "RETRYING">>, <<"RETRYING", "ENQUEUED">>}

\* DEFAULT_TRANSITION_RULES, as the set of allowed <<from, to>> pairs.
TransitionRules ==
  {<<"CREATED", "ENQUEUED">>,  <<"CREATED", "CANCELLED">>,
   <<"ENQUEUED", "RUNNING">>,  <<"ENQUEUED", "CANCELLED">>,
   <<"RUNNING", "SUCCEEDED">>, <<"RUNNING", "FAILED">>,
   <<"RUNNING", "CANCELLED">>, <<"RUNNING", "TIMED_OUT">>,
   <<"TIMED_OUT", "RETRYING">>, <<"RETRYING", "ENQUEUED">>}

\* RunTransitionPolicy.validate returns instead of raising ValueError.
Validates(from, to) == <<from, to>> \in TransitionRules

=============================================================================
