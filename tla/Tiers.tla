------------------------------- MODULE Tiers -------------------------------
(***************************************************************************)
(* The four tiers of crates/sandstorm-core/src/tier.rs, in the order its   *)
(* derived Ord gives them: a larger number is a colder tier, so the Rust   *)
(* comparison `Frozen < Snapshot' reads the same here.  Every other module *)
(* takes its tiers from this one.                                          *)
(***************************************************************************)
EXTENDS Integers

Hot      == 0   \* running, serving requests
Frozen   == 1   \* cgroup.freeze, memory untouched
Snapshot == 2   \* a checkpoint on the node's disk, no process
Detached == 3   \* nothing on any node, the layer packed on the volume

Tier == Hot .. Detached

\* Tier::colder, used only where the tier has a colder one.
Colder(t) == t + 1

IsServing(t) == t = Hot

\* What the node can hold of a sandbox: Detached is the tier of one that is
\* on no node, so observe() never lists it.
HeldTier == Hot .. Snapshot

(***************************************************************************)
(* Runtime::set_tier walks a demotion one leg at a time and promotes       *)
(* straight to Hot.  A leg can fail, so an attempt may end in any tier it  *)
(* passed on the way.  Frozen -> Snapshot thaws before it checkpoints, so  *)
(* a checkpoint that fails leaves the sandbox running.                     *)
(***************************************************************************)
StoppedAt(have, want) ==
  IF want > have
  THEN (have .. want - 1)
         \cup (IF have <= Frozen /\ want >= Snapshot THEN {Hot} ELSE {})
  ELSE {have} \cup (IF want < have /\ want # Hot THEN {Hot} ELSE {})
=============================================================================
