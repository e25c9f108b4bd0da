--------------------------- MODULE MCSandboxDisk ---------------------------
(* Instances of SandboxDisk for TLC: the Limit of each run. *)
EXTENDS SandboxDisk, TLC

Allow(given) ==
  [b \in Budget |-> IF b \in DOMAIN given THEN given[b] ELSE 0]

\* Several tier changes, with one of each fault.
LimitDisk == Allow([ask |-> 2, work |-> 2, gate |-> 2, death |-> 1,
                    restart |-> 1, error |-> 2])
=============================================================================
