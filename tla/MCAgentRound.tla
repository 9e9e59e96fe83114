---------------------------- MODULE MCAgentRound ----------------------------
(* One round for TLC: a line of four units goes each way of a long line, depending on
   the chunks; two attempts, two requests that may rotate the key; over the Docker API,
   two disturbances besides the expiry of the lease, the second with lines within the
   limit on their way. *)
EXTENDS AgentRound, TLC

CONSTANTS c1, c2

MCSizes == {1, 4}
MCCallers == {c1, c2}
MCSymmetry == Permutations(MCCallers)
MCDisturbances == [t \in Transports |-> IF t = "api" THEN 2 ELSE 1]
MCShortLines == disturbances = 2 => \A k \in DOMAIN pipe : pipe[k].first /\ pipe[k].last
=============================================================================
