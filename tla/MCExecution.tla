----------------------------- MODULE MCExecution ------------------------------
(* AggregateExecution on small instances: values for its structured constants. *)
EXTENDS AggregateExecution

\* Two replays, two faults, one late total, one expired key.
MCRacing == [x \in Budget |-> IF x \in {"fault", "resubmit"} THEN 2 ELSE 1]
\* One replay and one fault.
MCReplay == [x \in Budget |-> IF x \in {"resubmit", "fault"} THEN 1 ELSE 0]
===============================================================================
