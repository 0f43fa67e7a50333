----------------------------- MODULE MCSnapshot -----------------------------
(* Instances of Snapshot for TLC. *)
EXTENDS Snapshot

CONSTANTS p1, p2

MCProcess == {p1, p2}
MCOneAndTwo == <<1, 2>>
MCTwo == <<2>>
\* One process with a worker at a time, and one whose workers overlap.
MCConcurrency == [p \in Process |-> IF p = p1 THEN 1 ELSE 0]
=============================================================================
