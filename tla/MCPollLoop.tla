----------------------------- MODULE MCPollLoop -----------------------------
(* Three clients, which are interchangeable.  The unit of time is 20 ms. *)
EXTENDS PollLoop, TLC

CONSTANTS c1, c2, c3

Clients == {c1, c2, c3}
Symmetry == Permutations(Clients)

=============================================================================
