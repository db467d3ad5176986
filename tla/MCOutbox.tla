------------------------------- MODULE MCOutbox -------------------------------
(* Outbox on small instances. *)
EXTENDS Outbox

\* Three entries, of which the first is never accepted.
MCEntry == 1..3
MCRejected == {1}
===============================================================================
