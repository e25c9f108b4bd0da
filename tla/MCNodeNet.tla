----------------------------- MODULE MCNodeNet -----------------------------
(* Instances of NodeNet for TLC.  A budget left out of one is zero. *)
EXTENDS NodeNet, TLC

Allow(given) == [b \in Budget |-> IF b \in DOMAIN given THEN given[b] ELSE 0]

IdSymmetry == Permutations(Ids)

\* A sandbox put away and brought back while slots are handed on.
Tiers == Allow([tier |-> 1])

\* A step that fails, or a sandbox that dies.
Faults == Allow([fault |-> 1, egress |-> 1])

\* A node that restarts.
Restarts == Allow([crash |-> 1])

LimitsNet == {Tiers, Faults, Restarts}

=============================================================================
