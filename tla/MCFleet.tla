------------------------------ MODULE MCFleet ------------------------------
(* Instances of Fleet for TLC.  A budget left out of one is zero. *)
EXTENDS Fleet, TLC

Allow(given) == [b \in Budget |-> IF b \in DOMAIN given THEN given[b] ELSE 0]

Interchangeable == Permutations(Nodes) \cup Permutations(Tokens) \cup Permutations(Sandboxes)

\* Nodes that join and are upgraded one after the other.
Upgrades == Allow([join |-> 2, upgrade |-> 2])

\* A node that is revoked and joins again.
Rejoins == Allow([join |-> 3, revoke |-> 1])

\* Sandboxes come and go until slots and ports run out.
Placing == Allow([join |-> 1, create |-> 3, delete |-> 1])

\* A switch against creates and deletes on the same node.
Switches == Allow([join |-> 1, create |-> 2, delete |-> 1, switch |-> 1])

\* A switch against a branch on its way, whose sandbox may be deleted meanwhile.
Bakes == Allow([join |-> 1, create |-> 1, delete |-> 1, bake |-> 1, switch |-> 1])

\* A fork of a tag.
Forks == Allow([join |-> 1, create |-> 2, bake |-> 1])

\* A master that restarts between any two steps of a join or a create.
Restarts == Allow([join |-> 2, create |-> 1, restart |-> 1])

\* A master that restarts in the middle of a switch, or of a second one.
Forgets == Allow([join |-> 1, create |-> 1, switch |-> 2, restart |-> 1])

\* An id that is deleted and used again on another node.
Reuses == Allow([join |-> 2, create |-> 2, delete |-> 1])

LimitsFleet == {Upgrades, Rejoins, Placing, Switches, Bakes, Forks, Restarts, Forgets, Reuses}

=============================================================================
