---------------------------- MODULE MCReconcile ----------------------------
(***************************************************************************)
(* Instances of Reconcile for TLC.  A budget left out of one is zero.      *)
(***************************************************************************)
EXTENDS Reconcile, TLC

Allow(given) ==
  [b \in Budget |-> IF b \in DOMAIN given THEN given[b] ELSE 0]

SandboxSymmetry == Permutations(Sandboxes)

\* Two sandboxes sharing one poll, against a node whose commands fail, are held
\* back or put off.
Commands == Allow([create |-> 2, api |-> 1, wait |-> 1, error |-> 1])

\* The gateway and the room it makes, against one caller.
Traffic == Allow([create |-> 1, api |-> 1, request |-> 1, room |-> 1])

\* A poll, an answer or an early report that never arrives.
Losses == Allow([create |-> 1, api |-> 1, idle |-> 1, request |-> 1, lost |-> 1])

\* Restarts, deaths, failed destroys and a row in quarantine.
Crashes == Allow([create |-> 1, api |-> 1, restart |-> 1, death |-> 1, error |-> 2])

\* An eviction that loses what it was to put away.
Evictions == Allow([create |-> 1, room |-> 1, death |-> 1])

LimitsFaults == {Commands, Traffic, Losses, Crashes, Evictions}

\* What can delay convergence, a few at a time: restarts of either side with a
\* death, a failing command and a lost message; room made; idle time and traffic;
\* a quarantine that a hold-back is part of; a request that wakes what a caller
\* put away.
LimitsLive ==
  {Allow([create |-> 1, api |-> 1, restart |-> 2, error |-> 1, death |-> 1, lost |-> 1]),
   Allow([create |-> 1, api |-> 1, room |-> 1, restart |-> 1]),
   Allow([create |-> 1, request |-> 1, room |-> 1]),
   Allow([create |-> 1, idle |-> 1, request |-> 1, restart |-> 1, error |-> 1]),
   Allow([create |-> 1, api |-> 1, wait |-> 1, error |-> 1, lost |-> 1]),
   Allow([create |-> 1, api |-> 1, request |-> 1, lost |-> 1])}
=============================================================================
