----------------------------- MODULE Reconcile -----------------------------
(***************************************************************************)
(* Desired state at the master against what one polling node holds.        *)
(*                                                                         *)
(* The master keeps a row per sandbox.  The node reports what it observes, *)
(* the master applies the report, diffs desired state against it, and      *)
(* answers with commands, or parks the request until something changes.    *)
(* The node's gateway meanwhile wakes sandboxes on its own, and a second   *)
(* task tells the master of a wake without waiting for the next poll.      *)
(*                                                                         *)
(* Times are abstracted to what they decide: a grace period, a backoff or  *)
(* a hold is a flag that an action of its own clears at any later moment.  *)
(***************************************************************************)
EXTENDS Tiers, FiniteSets

CONSTANTS
  Sandboxes,    \* ids the callers of the API use
  MaxFailures,  \* MAX_FAILURES: attempts after which a row is quarantined
  Limits        \* how much of each Budget the environment may spend: any one of these

(***************************************************************************)
(* What the environment may do only so often, so that TLC's runs end:      *)
(*   "create"   rows created through the API                               *)
(*   "api"      tier, touch, pause, delete and retry calls                 *)
(*   "idle"     time that passes for a row, in thresholds of the policy    *)
(*   "request"  requests at the gateway                                    *)
(*   "lost"     polls, answers and early reports that never arrive         *)
(*   "restart"  restarts of the node's process or of the master            *)
(*   "death"    sandboxes that die, and checkpoints that fail              *)
(*   "error"    commands that fail on the node                             *)
(*   "wait"     commands held back, or waiting for an image                *)
(*   "room"     sandboxes put to disk to make room for another             *)
(***************************************************************************)
Budget == {"create", "api", "idle", "request", "lost", "restart", "death",
           "error", "wait", "room"}

ASSUME ReconcileAssumption ==
  /\ MaxFailures \in Nat \ {0}
  /\ Limits \subseteq [Budget -> Nat]

NoRow   == -1   \* no row for this id at the master
NotHeld == -1   \* observe() does not list it

VARIABLES
  \* The master: the store's rows, and what it keeps in memory.
  desired,      \* Sandbox.tier, or NoRow
  idle,         \* the tier tier_for_idle gives for the row's idle time
  attempts,     \* Sandbox.error_attempts
  pauseHeld,    \* explicit_tier: E2B pauses still inside their hold
  permit,       \* the node's Notify holds a permit
  owed,         \* a handler has changed the store and not yet called wake_node
  \* The poll: one request at a time.
  conn, rep, batch, asked,
  \* The early report of report_wakes.
  early, erep,
  \* The node's command loop and its runtime.
  have,         \* the tier observe() shows, or NotHeld
  dead,         \* bundles with nothing running in them, not yet reaped
  failing,      \* the failure book
  deferred,     \* what the node has put off: "no", "waiting" or "due"
  destroying,   \* DESTROYING: being torn down on a thread
  parting,      \* being put to disk for room: stopped, its image not in place
  doomed,       \* what reap_dead has listed and not yet come to
  \* The node's Wakeups.
  seen,         \* inside GRACE of a request
  busy,         \* a request in flight
  fresh,        \* inside JUST_STARTED
  unreported,   \* requests the master has not been told of
  evicted,      \* put to disk here to make room, inside GRACE
  woke,         \* the woke Notify holds a permit
  \* History: which create a row and a box stem from, attempts in a row that
  \* failed and that were held back, and what the last report missed because
  \* it was just being put to disk.
  gen, boxGen, tried, spared, raced,
  \* How much of each budget is spent.
  spent

master  == <<desired, idle, attempts, pauseHeld, permit, owed>>
rows    == <<desired, idle, attempts>>
poll    == <<conn, rep, batch, asked>>
report  == <<early, erep>>
node    == <<have, dead, failing, deferred, destroying, parting, doomed>>
wakeups == <<seen, busy, fresh, unreported, evicted, woke>>
history == <<gen, boxGen, tried, spared, raced>>
vars    == <<master, poll, report, node, wakeups, history, spent>>

-----------------------------------------------------------------------------
(* Commands, reports and the failure book as values. *)

NoCmd == [op |-> "none", tier |-> Hot, gen |-> 0]
CreateCmd(g)  == [op |-> "create", tier |-> Hot, gen |-> g]
SetTierCmd(t) == [op |-> "tier", tier |-> t, gen |-> 0]
DestroyCmd    == [op |-> "destroy", tier |-> Hot, gen |-> 0]

Command == [op : {"none", "create", "tier", "destroy"}, tier : Tier, gen : Nat]
NoBatch == [s \in Sandboxes |-> NoCmd]

Failing == [attempts : Nat, heldBack : BOOLEAN, backoff : BOOLEAN]
NotFailing == [attempts |-> 0, heldBack |-> FALSE, backoff |-> FALSE]

Nothing == [s \in Sandboxes |-> NotHeld]
NoReport ==
  [observed |-> Nothing, failures |-> [s \in Sandboxes |-> NotFailing],
   deferred |-> {}, traffic |-> {}, evicted |-> {}]
NoEarly == [observed |-> Nothing, traffic |-> {}, evicted |-> {}]

Init ==
  /\ desired = [s \in Sandboxes |-> NoRow]
  /\ idle = [s \in Sandboxes |-> Hot]
  /\ attempts = [s \in Sandboxes |-> 0]
  /\ pauseHeld = {}
  /\ permit = FALSE /\ owed = FALSE
  /\ conn = "idle" /\ rep = NoReport /\ batch = NoBatch /\ asked = {}
  /\ early = "idle" /\ erep = NoEarly
  /\ have = Nothing
  /\ dead = {}
  /\ failing = [s \in Sandboxes |-> NotFailing]
  /\ deferred = [s \in Sandboxes |-> "no"]
  /\ destroying = {} /\ parting = {} /\ doomed = {}
  /\ seen = {} /\ busy = {} /\ fresh = {} /\ unreported = {} /\ evicted = {}
  /\ woke = FALSE
  /\ gen = [s \in Sandboxes |-> 0]
  /\ boxGen = [s \in Sandboxes |-> 0]
  /\ tried = [s \in Sandboxes |-> 0] /\ spared = [s \in Sandboxes |-> 0]
  /\ raced = {}
  /\ spent = [b \in Budget |-> 0]

Row(s)  == desired[s] # NoRow
Held(s) == have[s] # NotHeld

Spend(b) ==
  /\ spent' = [spent EXCEPT ![b] = @ + 1]
  /\ \E limit \in Limits : \A x \in Budget : spent'[x] <= limit[x]

-----------------------------------------------------------------------------
(* The master's API and its idle sweep. *)

\* create_sandbox: a Hot row with a clean failure count; the node is woken.
\* The caller may choose the id, so an id can come back after a delete.
CreateSandbox(s) ==
  /\ ~Row(s)
  /\ Spend("create")
  /\ desired' = [desired EXCEPT ![s] = Hot]
  /\ idle' = [idle EXCEPT ![s] = Hot]
  /\ attempts' = [attempts EXCEPT ![s] = 0]
  /\ owed' = TRUE
  /\ gen' = [gen EXCEPT ![s] = @ + 1]
  /\ UNCHANGED <<permit, pauseHeld, poll, report, node, wakeups, boxGen, tried,
                 spared, raced>>

\* set_tier: any tier may be asked for; asking for Hot is also a touch.
SetTier(s, t) ==
  /\ Row(s)
  /\ Spend("api")
  /\ desired' = [desired EXCEPT ![s] = t]
  /\ idle' = IF t = Hot THEN [idle EXCEPT ![s] = Hot] ELSE idle
  /\ owed' = TRUE
  /\ UNCHANGED <<permit, attempts, pauseHeld, poll, report, node, wakeups,
                 history>>

\* touch_sandbox: resets the idle clock, and wakes one that is not Hot.
Touch(s) ==
  /\ Row(s)
  /\ Spend("api")
  /\ idle' = [idle EXCEPT ![s] = Hot]
  /\ desired' = [desired EXCEPT ![s] = Hot]
  /\ permit' = (permit \/ desired[s] # Hot)
  /\ UNCHANGED <<attempts, pauseHeld, owed, poll, report, node, wakeups,
                 history>>

\* E2B's pause: Snapshot, held against traffic already on its way.  Refused
\* when the row is already Snapshot or colder.
Pause(s) ==
  /\ Row(s) /\ desired[s] < Snapshot
  /\ Spend("api")
  /\ pauseHeld' = pauseHeld \cup {s}
  /\ desired' = [desired EXCEPT ![s] = Snapshot]
  /\ owed' = TRUE
  /\ UNCHANGED <<permit, idle, attempts, poll, report, node, wakeups, history>>

\* E2B's connect and resume of a paused sandbox: the hold is released, and
\* the sandbox touched.
Resume(s) ==
  /\ Row(s) /\ desired[s] >= Snapshot
  /\ Spend("api")
  /\ pauseHeld' = pauseHeld \ {s}
  /\ idle' = [idle EXCEPT ![s] = Hot]
  /\ desired' = [desired EXCEPT ![s] = Hot]
  /\ permit' = TRUE
  /\ UNCHANGED <<attempts, owed, poll, report, node, wakeups, history>>

\* EXPLICIT_TIER_HOLD has passed.
PauseHoldOver(s) ==
  /\ s \in pauseHeld
  /\ pauseHeld' = pauseHeld \ {s}
  /\ UNCHANGED <<rows, permit, owed, poll, report, node, wakeups, history,
                 spent>>

\* retry_sandbox: clears the failure, so the next diff asks again.
Retry(s) ==
  /\ Row(s)
  /\ Spend("api")
  /\ attempts' = [attempts EXCEPT ![s] = 0]
  /\ owed' = TRUE
  /\ UNCHANGED <<permit, desired, idle, pauseHeld, poll, report, node, wakeups,
                 history>>

\* delete_sandbox: the row goes; the node learns of it from the next diff.
Delete(s) ==
  /\ Row(s)
  /\ Spend("api")
  /\ desired' = [desired EXCEPT ![s] = NoRow]
  /\ idle' = [idle EXCEPT ![s] = Hot]
  /\ attempts' = [attempts EXCEPT ![s] = 0]
  /\ owed' = TRUE
  /\ UNCHANGED <<permit, pauseHeld, poll, report, node, wakeups, history>>

\* wake_node, called once the store's lock is let go: notify_one leaves a
\* permit, which the parked poll, or the next to park, takes.
WakeNode ==
  /\ owed
  /\ owed' = FALSE
  /\ permit' = TRUE
  /\ UNCHANGED <<rows, pauseHeld, poll, report, node, wakeups, history, spent>>

\* Time passes for a row nothing touches: the idle policy asks for colder.
IdleTime(s) ==
  /\ Row(s) /\ idle[s] < Detached
  /\ Spend("idle")
  /\ idle' = [idle EXCEPT ![s] = Colder(@)]
  /\ UNCHANGED <<desired, attempts, pauseHeld, permit, owed, poll, report, node,
                 wakeups, history>>

\* Rows the sweep moves: idle long enough for the next colder tier.
Demotable == {s \in Sandboxes : Row(s) /\ desired[s] < Detached
                                 /\ idle[s] >= Colder(desired[s])}

\* demote.rs sweep: every such row, one step each, then the node is woken.
Sweep ==
  /\ Demotable # {}
  /\ desired' = [s \in Sandboxes |->
                   IF s \in Demotable THEN Colder(desired[s]) ELSE desired[s]]
  /\ owed' = TRUE
  /\ UNCHANGED <<permit, idle, attempts, pauseHeld, poll, report, node, wakeups,
                 history, spent>>

-----------------------------------------------------------------------------
(* What the master does with a report. *)

\* Mutant: each report of a failure adds to the count.
RecordFailuresAdds(r) ==
  [s \in Sandboxes |->
     IF ~Row(s) THEN attempts[s]
     ELSE IF r.failures[s].attempts > 0
          THEN IF r.failures[s].heldBack THEN 0
               ELSE attempts[s] + r.failures[s].attempts
          ELSE IF r.observed[s] # NotHeld THEN 0 ELSE attempts[s]]

\* record_failures: an observed sandbox with nothing against it has its error
\* cleared; a held-back command counts as no attempts.
RecordFailures(r) ==
  [s \in Sandboxes |->
     IF ~Row(s) THEN attempts[s]
     ELSE IF r.failures[s].attempts > 0
          THEN IF r.failures[s].heldBack THEN 0 ELSE r.failures[s].attempts
          ELSE IF r.observed[s] # NotHeld THEN 0 ELSE attempts[s]]

\* apply_traffic: traffic makes a row Hot only when the same report shows it
\* serving, and never against a pause inside its hold.
ApplyTraffic(r) ==
  [s \in Sandboxes |->
     IF Row(s) /\ s \in r.traffic /\ r.observed[s] = Hot /\ s \notin pauseHeld
     THEN Hot ELSE desired[s]]

\* The touch in apply_traffic: every reported row's idle clock restarts.
TouchTraffic(r) ==
  [s \in Sandboxes |-> IF Row(s) /\ s \in r.traffic THEN Hot ELSE idle[s]]

\* apply_evictions: desired state follows what the report observes, colder only.
ApplyEvictions(d, r) ==
  [s \in Sandboxes |->
     IF d[s] # NoRow /\ s \in r.evicted /\ r.observed[s] > d[s]
     THEN r.observed[s] ELSE d[s]]

\* Mutant: a quarantined row is left out of desired state altogether, so what
\* the node holds of it is destroyed.
DiffDropsQuarantined(d, a, g, observed) ==
  [s \in Sandboxes |->
     IF d[s] = NoRow \/ a[s] >= MaxFailures
     THEN IF observed[s] # NotHeld THEN DestroyCmd ELSE NoCmd
     ELSE IF observed[s] = NotHeld
          THEN IF d[s] = Detached THEN NoCmd ELSE CreateCmd(g[s])
          ELSE IF observed[s] # d[s] THEN SetTierCmd(d[s]) ELSE NoCmd]

\* Mutant: Detached is taken for one that is missing.
DiffRevivesDetached(d, a, g, observed) ==
  [s \in Sandboxes |->
     IF d[s] = NoRow
     THEN IF observed[s] # NotHeld THEN DestroyCmd ELSE NoCmd
     ELSE IF a[s] >= MaxFailures THEN NoCmd
     ELSE IF observed[s] = NotHeld THEN CreateCmd(g[s])
          ELSE IF observed[s] # d[s] THEN SetTierCmd(d[s]) ELSE NoCmd]

\* diff: what would bring the observation to desired state.  A quarantined
\* row is asked for nothing; Detached is met by holding nothing; whatever is
\* observed without a row is destroyed.
Diff(d, a, g, observed) ==
  [s \in Sandboxes |->
     IF d[s] = NoRow
     THEN IF observed[s] # NotHeld THEN DestroyCmd ELSE NoCmd
     ELSE IF a[s] >= MaxFailures THEN NoCmd
     ELSE IF observed[s] = NotHeld
          THEN IF d[s] = Detached THEN NoCmd ELSE CreateCmd(g[s])
          ELSE IF observed[s] # d[s] THEN SetTierCmd(d[s]) ELSE NoCmd]

\* leave_out_deferred: what the node has said it is putting off.
LeaveOut(cmds, off) ==
  [s \in Sandboxes |-> IF s \in off THEN NoCmd ELSE cmds[s]]

\* What a parked request still needs of the report it came with.
Parked(r) == [NoReport EXCEPT !.observed = r.observed, !.deferred = r.deferred]

\* Mutant: a report that puts anything off is parked, whatever else there is.
PollArrivesParksDeferral ==
  /\ conn = "sent"
  /\ attempts' = RecordFailures(rep)
  /\ idle' = TouchTraffic(rep)
  /\ desired' = ApplyEvictions(ApplyTraffic(rep), rep)
  /\ LET cmds == LeaveOut(Diff(desired', attempts', gen, rep.observed),
                          rep.deferred)
     IN IF cmds # NoBatch /\ rep.deferred = {}
        THEN conn' = "answered" /\ batch' = cmds /\ rep' = NoReport
        ELSE conn' = "parked" /\ batch' = NoBatch /\ rep' = Parked(rep)
  /\ UNCHANGED <<pauseHeld, permit, owed, asked, report, node, wakeups, history,
                 spent>>

\* poll, up to the park: apply the report, diff, answer at once if there is
\* work.
PollArrives ==
  /\ conn = "sent"
  /\ attempts' = RecordFailures(rep)
  /\ idle' = TouchTraffic(rep)
  /\ desired' = ApplyEvictions(ApplyTraffic(rep), rep)
  /\ LET cmds == LeaveOut(Diff(desired', attempts', gen, rep.observed),
                          rep.deferred)
     IN IF cmds # NoBatch
        THEN conn' = "answered" /\ batch' = cmds /\ rep' = NoReport
        ELSE conn' = "parked" /\ batch' = NoBatch /\ rep' = Parked(rep)
  /\ UNCHANGED <<pauseHeld, permit, owed, asked, report, node, wakeups, history,
                 spent>>

\* Mutant: nothing is left out of the second diff.
ParkEndsOffersAll ==
  /\ conn = "parked"
  /\ permit' \in {FALSE, permit}
  /\ batch' = Diff(desired, attempts, gen, rep.observed)
  /\ conn' = "answered"
  /\ rep' = NoReport
  /\ UNCHANGED <<rows, pauseHeld, owed, asked, report, node, wakeups, history,
                 spent>>

\* poll, after the park, woken by a permit or by the end of the hold: the same
\* report is diffed again, against desired state as it is now.  A command the
\* node had put off is left out unless its time came while the poll waited.
\* A hold of zero (something already due) does not wait, and takes no permit.
ParkEnds ==
  /\ conn = "parked"
  /\ permit' \in {FALSE, permit}
  /\ batch' = LeaveOut(Diff(desired, attempts, gen, rep.observed),
                       {s \in rep.deferred : deferred[s] = "waiting"})
  /\ conn' = "answered"
  /\ rep' = NoReport
  /\ UNCHANGED <<rows, pauseHeld, owed, asked, report, node, wakeups, history,
                 spent>>

\* node_traffic: an early report is applied, and the parked poll is woken, as
\* it would diff against a report from before the wake.
EarlyArrives ==
  /\ early = "sent"
  /\ idle' = TouchTraffic(erep)
  /\ desired' = ApplyEvictions(ApplyTraffic(erep), erep)
  /\ owed' = TRUE
  /\ early' = "idle" /\ erep' = NoEarly
  /\ UNCHANGED <<permit, attempts, pauseHeld, poll, node, wakeups, history,
                 spent>>

-----------------------------------------------------------------------------
(* The node's poll loop: report, send, run the answer. *)

\* Wakeups::forget.
Forget(S) ==
  /\ seen' = seen \ S
  /\ fresh' = fresh \ S
  /\ evicted' = evicted \ S
  /\ unreported' = unreported \ S

\* reap_dead lists the bundles with nothing running and no image, long enough
\* after they were made.  One being put to disk just now looks the same.
ListDead ==
  /\ conn = "idle"
  /\ \E list \in SUBSET (dead \cup parting) \ {{}} : doomed' = list
  /\ conn' = "reaping"
  /\ UNCHANGED <<master, rep, batch, asked, report, have, dead, failing, deferred,
                 destroying, parting, wakeups, history, spent>>

\* Then each is removed, network and all, if its lock is to be had.  Nothing
\* is looked at again.
Reap(s) ==
  /\ s \in doomed
  /\ doomed' = doomed \ {s}
  /\ IF s \in parting
     THEN UNCHANGED <<have, dead, seen, fresh, evicted, unreported>>
     ELSE /\ have' = [have EXCEPT ![s] = NotHeld]
          /\ dead' = dead \ {s}
          /\ Forget({s})
  /\ UNCHANGED <<master, poll, report, failing, deferred, destroying, parting,
                 busy, woke, history, spent>>

\* Mutant: observe() lists only what runs.
ObserveRunning ==
  /\ conn \in {"idle", "reaping"} /\ doomed = {}
  /\ conn' = "observed"
  /\ rep' = [NoReport EXCEPT !.observed =
               [s \in Sandboxes |-> IF have[s] = Hot THEN Hot ELSE NotHeld]]
  /\ raced' = parting
  /\ UNCHANGED <<master, batch, asked, report, node, wakeups, gen, boxGen, tried,
                 spared, spent>>

\* report, first half: observe(), once reap_dead is through.
Observe ==
  /\ conn \in {"idle", "reaping"} /\ doomed = {}
  /\ conn' = "observed"
  /\ rep' = [NoReport EXCEPT !.observed = have]
  /\ raced' = parting
  /\ UNCHANGED <<master, batch, asked, report, node, wakeups, gen, boxGen, tried,
                 spared, spent>>

\* report, second half, still_deferred and the send: traffic is drained as it
\* is read, and so are the deferrals that have come due.
SendPoll ==
  /\ conn = "observed"
  /\ rep' = [rep EXCEPT !.failures = failing, !.traffic = unreported,
                        !.evicted = evicted,
                        !.deferred = {s \in Sandboxes : deferred[s] = "waiting"}]
  /\ unreported' = {}
  /\ deferred' = [s \in Sandboxes |->
                    IF deferred[s] = "due" THEN "no" ELSE deferred[s]]
  /\ conn' = "sent"
  /\ UNCHANGED <<master, batch, asked, report, have, dead, failing, destroying,
                 parting, doomed, seen, busy, fresh, evicted, woke, history,
                 spent>>

\* The poll fails: its report, or its answer, is lost with the connection.
PollLost ==
  /\ conn \in {"sent", "parked", "answered"}
  /\ Spend("lost")
  /\ conn' = "idle" /\ rep' = NoReport /\ batch' = NoBatch
  /\ UNCHANGED <<master, asked, report, node, wakeups, history>>

Receive ==
  /\ conn = "answered"
  /\ conn' = "running"
  /\ asked' = {s \in Sandboxes : batch[s] # NoCmd}
  /\ UNCHANGED <<master, rep, batch, report, node, wakeups, history, spent>>

-----------------------------------------------------------------------------
(* run_one, one outcome per action.  A command in the batch has one sandbox *)
(* and no command depends on another, so the order within a batch is left  *)
(* open.                                                                    *)

Offered(s, ops) == conn = "running" /\ batch[s].op \in ops

\* The command is done with; the loop goes on with the rest of the batch.
Answered(s) ==
  /\ batch' = [batch EXCEPT ![s] = NoCmd]
  /\ UNCHANGED <<conn, rep, asked>>

PutOff(s) == deferred' = [deferred EXCEPT ![s] = "waiting"]

\* SetTier below Snapshot on one this node put away: its restore waits until
\* the master has heard.
EvictedDefers(s) ==
  batch[s].op = "tier" /\ batch[s].tier < Snapshot /\ s \in evicted

\* A demotion of a sandbox in grace, with a request in flight, or just up.
Shielded(s) ==
  batch[s].op = "tier" /\ ~IsServing(batch[s].tier) /\ s \in seen \cup busy \cup fresh

\* Put off before the sandbox's lock is asked for.
TooEarly(s) == failing[s].backoff \/ EvictedDefers(s)

\* The command runs: not too early, its lock had, and not shielded.
Runs(s) == ~TooEarly(s) /\ s \notin parting /\ ~Shielded(s)

\* Step::Later without a new failure.
RunLater(s) ==
  /\ Offered(s, {"create", "tier", "destroy"})
  /\ TooEarly(s) \/ (s \notin parting /\ Shielded(s))
  /\ Answered(s) /\ PutOff(s)
  /\ UNCHANGED <<master, report, have, dead, failing, destroying, parting,
                 doomed, wakeups, history, spent>>

\* A fork whose image is still being fetched: offered again shortly.
RunFetchPending(s) ==
  /\ Offered(s, {"create"}) /\ Runs(s)
  /\ Spend("wait")
  /\ Answered(s) /\ PutOff(s)
  /\ UNCHANGED <<master, report, have, dead, failing, destroying, parting,
                 doomed, wakeups, history>>

\* The failure book after an attempt that did not succeed: held back or not,
\* the count goes up.
Failed(s, held) ==
  [failing EXCEPT ![s] = [attempts |-> @.attempts + 1, heldBack |-> held,
                          backoff |-> TRUE]]

\* Err(HeldBack): too little memory to create, or to bring one back to Hot.
RunHeldBack(s) ==
  /\ Offered(s, {"create", "tier"})
  /\ batch[s].op = "tier" => batch[s].tier = Hot /\ have[s] # Hot
  /\ Runs(s)
  /\ Spend("wait")
  /\ failing' = Failed(s, TRUE)
  /\ spared' = [spared EXCEPT ![s] = @ + 1]
  /\ Answered(s) /\ PutOff(s)
  /\ UNCHANGED <<master, report, have, dead, destroying, parting, doomed,
                 wakeups, gen, boxGen, tried, raced>>

\* Any other error.  A tier change may have got part of the way; one for a
\* sandbox that has gone from the node can only fail.
RunFails(s) ==
  /\ Offered(s, {"create", "tier"})
  /\ Runs(s)
  /\ IF batch[s].op = "tier" /\ ~Held(s) THEN UNCHANGED spent ELSE Spend("error")
  /\ IF batch[s].op = "tier" /\ Held(s)
     THEN \E t \in StoppedAt(have[s], batch[s].tier) :
            have' = [have EXCEPT ![s] = t]
     ELSE UNCHANGED have
  /\ failing' = Failed(s, FALSE)
  /\ tried' = [tried EXCEPT ![s] = @ + 1]
  /\ Answered(s) /\ PutOff(s)
  /\ UNCHANGED <<master, report, dead, destroying, parting, doomed, wakeups,
                 gen, boxGen, spared, raced>>

\* A create that comes up: Hot, of the row the command was made from.
RunCreate(s) ==
  /\ Offered(s, {"create"}) /\ Runs(s)
  /\ have' = [have EXCEPT ![s] = Hot]
  /\ boxGen' = [boxGen EXCEPT ![s] = batch[s].gen]
  /\ dead' = dead \ {s}
  /\ failing' = [failing EXCEPT ![s] = NotFailing]
  /\ tried' = [tried EXCEPT ![s] = 0] /\ spared' = [spared EXCEPT ![s] = 0]
  /\ fresh' = fresh \cup {s}
  /\ Answered(s)
  /\ UNCHANGED <<master, report, deferred, destroying, parting, doomed, seen,
                 busy, unreported, evicted, woke, gen, raced, spent>>

\* Mutant: a detached sandbox is still listed.
RunSetTierKeepsDetached(s) ==
  /\ Offered(s, {"tier"})
  /\ Held(s) /\ Runs(s)
  /\ have' = [have EXCEPT ![s] = batch[s].tier]
  /\ failing' = [failing EXCEPT ![s] = NotFailing]
  /\ tried' = [tried EXCEPT ![s] = 0] /\ spared' = [spared EXCEPT ![s] = 0]
  /\ fresh' = IF batch[s].tier = Hot THEN fresh \cup {s} ELSE fresh
  /\ Answered(s)
  /\ UNCHANGED <<master, report, dead, deferred, destroying, parting, doomed,
                 seen, busy, unreported, evicted, woke, gen, boxGen, raced,
                 spent>>

\* A tier change that gets there; Detached leaves nothing on the node.
RunSetTier(s) ==
  /\ Offered(s, {"tier"})
  /\ Held(s) /\ Runs(s)
  /\ have' = [have EXCEPT ![s] = IF batch[s].tier = Detached THEN NotHeld
                                 ELSE batch[s].tier]
  /\ failing' = [failing EXCEPT ![s] = NotFailing]
  /\ tried' = [tried EXCEPT ![s] = 0] /\ spared' = [spared EXCEPT ![s] = 0]
  /\ fresh' = IF batch[s].tier = Hot THEN fresh \cup {s} ELSE fresh
  /\ Answered(s)
  /\ UNCHANGED <<master, report, dead, deferred, destroying, parting, doomed,
                 seen, busy, unreported, evicted, woke, gen, boxGen, raced,
                 spent>>

\* A destroy is handed to a thread, unless one is already at it, and the
\* sandbox is forgotten at once.
RunDestroy(s) ==
  /\ Offered(s, {"destroy"}) /\ Runs(s)
  /\ destroying' = destroying \cup {s}
  /\ failing' = [failing EXCEPT ![s] = NotFailing]
  /\ Forget({s})
  /\ Answered(s)
  /\ UNCHANGED <<master, report, have, dead, deferred, parting, doomed, busy,
                 woke, history, spent>>

\* poll_once's last step: the failure book keeps what the master asked about
\* or what has been put off.
EndBatch ==
  /\ conn = "running" /\ batch = NoBatch
  /\ failing' = [s \in Sandboxes |->
                   IF s \in asked \/ deferred[s] # "no"
                   THEN failing[s] ELSE NotFailing]
  /\ conn' = "idle" /\ asked' = {}
  /\ UNCHANGED <<master, rep, batch, report, have, dead, deferred, destroying,
                 parting, doomed, wakeups, history, spent>>

-----------------------------------------------------------------------------
(* The rest of the node. *)

\* The destroy thread has killed what ran: observe() lists it no more.
DestroyKills(s) ==
  /\ s \in destroying \ parting /\ Held(s)
  /\ have' = [have EXCEPT ![s] = NotHeld]
  /\ dead' = dead \cup {s}
  /\ UNCHANGED <<master, poll, report, failing, deferred, destroying, parting,
                 doomed, wakeups, history, spent>>

\* The destroy thread is through: the bundle is gone, whoever it belonged to,
\* and whether or not its network could be taken down after it.
DestroyDone(s) ==
  /\ s \in destroying \ parting
  /\ destroying' = destroying \ {s}
  /\ have' = [have EXCEPT ![s] = NotHeld]
  /\ dead' = dead \ {s}
  /\ UNCHANGED <<master, poll, report, failing, deferred, parting, doomed,
                 wakeups, history, spent>>

\* A sandbox's process dies; its bundle stays until it is reaped.
Dies(s) ==
  /\ have[s] \in {Hot, Frozen}
  /\ Spend("death")
  /\ have' = [have EXCEPT ![s] = NotHeld]
  /\ dead' = dead \cup {s}
  /\ UNCHANGED <<master, poll, report, failing, deferred, destroying, parting,
                 doomed, wakeups, history>>

\* A request reaches the gateway's port of a sandbox held here: saw, hold.
Request(s) ==
  /\ Held(s) /\ s \notin busy
  /\ Spend("request")
  /\ seen' = seen \cup {s}
  /\ unreported' = unreported \cup {s}
  /\ busy' = busy \cup {s}
  /\ UNCHANGED <<master, poll, report, node, fresh, evicted, woke, history>>

\* The gateway wakes a cold sandbox for its request, and says so unless the
\* caller has gone in the meantime.
GatewayWakes(s) ==
  /\ s \in busy /\ have[s] \in {Frozen, Snapshot}
  /\ have' = [have EXCEPT ![s] = Hot]
  /\ seen' = seen \cup {s}
  /\ woke' \in {woke, TRUE}
  /\ UNCHANGED <<master, poll, report, dead, failing, deferred, destroying,
                 parting, doomed, busy, fresh, unreported, evicted, history,
                 spent>>

\* The request ends: answered by a sandbox that is up, else refused.
RequestEnds(s) ==
  /\ s \in busy
  /\ busy' = busy \ {s}
  /\ seen' = IF have[s] = Hot THEN seen \cup {s} ELSE seen
  /\ UNCHANGED <<master, poll, report, node, fresh, unreported, evicted, woke,
                 history, spent>>

\* evict_one: a wake of another sandbox puts this one to disk to make room.
\* Once it is stopped, and until its image is renamed into place, observe()
\* finds neither.
Evict(s) ==
  /\ have[s] \in {Hot, Frozen} /\ s \notin busy \cup fresh
  /\ Spend("room")
  /\ have' = [have EXCEPT ![s] = NotHeld]
  /\ parting' = parting \cup {s}
  /\ UNCHANGED <<master, poll, report, dead, failing, deferred, destroying, doomed,
                 wakeups, history>>

\* The image is in place.  The wake signals `woke' if it succeeds; a restore
\* for the master does not.
EvictDone(s) ==
  /\ s \in parting
  /\ parting' = parting \ {s}
  /\ have' = [have EXCEPT ![s] = Snapshot]
  /\ evicted' = evicted \cup {s}
  /\ woke' \in {woke, TRUE}
  /\ UNCHANGED <<master, poll, report, dead, failing, deferred, destroying, doomed,
                 seen, busy, fresh, unreported, history, spent>>

\* The checkpoint wrote no whole image, and the program is gone.
EvictFails(s) ==
  /\ s \in parting
  /\ Spend("death")
  /\ parting' = parting \ {s}
  /\ dead' = dead \cup {s}
  /\ UNCHANGED <<master, poll, report, have, failing, deferred, destroying, doomed,
                 wakeups, history>>

\* report_wakes: observe, then drain the traffic, then send; best effort.
EarlyObserves ==
  /\ early = "idle" /\ woke
  /\ woke' = FALSE
  /\ early' = "observed"
  /\ erep' = [NoEarly EXCEPT !.observed = have]
  /\ UNCHANGED <<master, poll, node, seen, busy, fresh, unreported, evicted,
                 history, spent>>

EarlySends ==
  /\ early = "observed"
  /\ early' = "sent"
  /\ erep' = [erep EXCEPT !.traffic = unreported, !.evicted = evicted]
  /\ unreported' = {}
  /\ UNCHANGED <<master, poll, node, seen, busy, fresh, evicted, woke, history,
                 spent>>

EarlyLost ==
  /\ early = "sent"
  /\ Spend("lost")
  /\ early' = "idle" /\ erep' = NoEarly
  /\ UNCHANGED <<master, poll, node, wakeups, history>>

-----------------------------------------------------------------------------
(* Time, and restarts. *)

\* A deferral comes due, and with it the backoff of the command it put off.
DeferralDue(s) ==
  /\ deferred[s] = "waiting"
  /\ deferred' = [deferred EXCEPT ![s] = "due"]
  /\ failing' = [failing EXCEPT ![s].backoff = FALSE]
  /\ UNCHANGED <<master, poll, report, have, dead, destroying, parting, doomed,
                 wakeups, history, spent>>

\* GRACE after the last request, JUST_STARTED after a start, GRACE after an
\* eviction.
GraceOver(s) ==
  /\ s \in seen
  /\ seen' = seen \ {s}
  /\ UNCHANGED <<master, poll, report, node, busy, fresh, unreported, evicted,
                 woke, history, spent>>

FreshOver(s) ==
  /\ s \in fresh
  /\ fresh' = fresh \ {s}
  /\ UNCHANGED <<master, poll, report, node, seen, busy, unreported, evicted,
                 woke, history, spent>>

EvictedOver(s) ==
  /\ s \in evicted
  /\ evicted' = evicted \ {s}
  /\ UNCHANGED <<master, poll, report, node, seen, busy, fresh, unreported,
                 woke, history, spent>>

\* The node's process restarts: sandboxes run on and are adopted from their
\* bundles, everything it kept in memory is gone, and so is a destroy thread.
NodeRestarts ==
  /\ Spend("restart")
  /\ conn' = "idle" /\ rep' = NoReport /\ batch' = NoBatch /\ asked' = {}
  /\ early' = "idle" /\ erep' = NoEarly
  /\ failing' = [s \in Sandboxes |-> NotFailing]
  /\ deferred' = [s \in Sandboxes |-> "no"]
  /\ destroying' = {} /\ parting' = {} /\ doomed' = {}
  /\ dead' = dead \cup parting
  /\ seen' = {} /\ busy' = {} /\ fresh' = {} /\ unreported' = {} /\ evicted' = {}
  /\ woke' = FALSE
  /\ UNCHANGED <<master, have, history>>

\* The master restarts on the same store: pauses and wakers are gone, and
\* every connection breaks.
MasterRestarts ==
  /\ Spend("restart")
  /\ pauseHeld' = {} /\ permit' = FALSE /\ owed' = FALSE
  /\ IF conn \in {"sent", "parked", "answered"}
     THEN conn' = "idle" /\ rep' = NoReport /\ batch' = NoBatch
     ELSE UNCHANGED <<conn, rep, batch>>
  /\ IF early = "sent" THEN early' = "idle" /\ erep' = NoEarly
                       ELSE UNCHANGED report
  /\ UNCHANGED <<rows, asked, node, wakeups, history>>

-----------------------------------------------------------------------------
(* The specification. *)

Api(s) ==
  \/ CreateSandbox(s) \/ Touch(s) \/ Pause(s) \/ Resume(s) \/ Retry(s) \/ Delete(s)
  \/ \E t \in Tier : SetTier(s, t)

\* A command that ends: done, or counted as failed, or put off.
Run(s) ==
  \/ RunLater(s) \/ RunFails(s) \/ RunCreate(s) \/ RunSetTier(s) \/ RunDestroy(s)

\* What the system does of itself, given time.
System ==
  \/ WakeNode \/ Sweep \/ PollArrives \/ ParkEnds
  \/ ListDead \/ Observe \/ SendPoll \/ Receive \/ EndBatch
  \/ EarlyObserves \/ EarlySends \/ EarlyArrives
  \/ \E s \in Sandboxes :
       \/ Reap(s) \/ Run(s) \/ DestroyKills(s) \/ DestroyDone(s) \/ EvictDone(s)
       \/ GatewayWakes(s) \/ RequestEnds(s)
       \/ DeferralDue(s) \/ GraceOver(s) \/ FreshOver(s) \/ EvictedOver(s)
       \/ PauseHoldOver(s)

Environment ==
  \/ PollLost \/ EarlyLost \/ NodeRestarts \/ MasterRestarts
  \/ \E s \in Sandboxes :
       \/ Api(s) \/ IdleTime(s) \/ Request(s) \/ Evict(s) \/ EvictFails(s) \/ Dies(s)
       \/ RunHeldBack(s) \/ RunFetchPending(s)

Next == System \/ Environment

Spec == Init /\ [][Next]_vars

\* The loops keep running: both report tasks, the sweep's timer, the handlers
\* at the master, the destroy thread, every timeout, and every request ends.
Fairness ==
  /\ WF_vars(WakeNode) /\ WF_vars(Sweep) /\ WF_vars(PollArrives) /\ WF_vars(ParkEnds)
  /\ WF_vars(Observe) /\ WF_vars(SendPoll) /\ WF_vars(Receive) /\ WF_vars(EndBatch)
  /\ WF_vars(EarlyObserves) /\ WF_vars(EarlySends) /\ WF_vars(EarlyArrives)
  /\ \A s \in Sandboxes :
       /\ WF_vars(Reap(s)) /\ WF_vars(Run(s)) /\ WF_vars(DestroyDone(s))
       /\ WF_vars(EvictDone(s)) /\ WF_vars(RequestEnds(s))
       /\ WF_vars(DeferralDue(s)) /\ WF_vars(GraceOver(s)) /\ WF_vars(FreshOver(s))
       /\ WF_vars(EvictedOver(s)) /\ WF_vars(PauseHoldOver(s))

FairSpec == Spec /\ Fairness

-----------------------------------------------------------------------------
(* Properties. *)

Observed == [Sandboxes -> HeldTier \cup {NotHeld}]

Report == [observed : Observed, failures : [Sandboxes -> Failing],
           deferred : SUBSET Sandboxes, traffic : SUBSET Sandboxes,
           evicted : SUBSET Sandboxes]
EarlyReport == [observed : Observed, traffic : SUBSET Sandboxes,
                evicted : SUBSET Sandboxes]

MasterType ==
  /\ desired \in [Sandboxes -> Tier \cup {NoRow}]
  /\ idle \in [Sandboxes -> Tier]
  /\ attempts \in [Sandboxes -> Nat]
  /\ pauseHeld \in SUBSET Sandboxes
  /\ permit \in BOOLEAN /\ owed \in BOOLEAN

PollType ==
  /\ conn \in {"idle", "reaping", "observed", "sent", "parked", "answered", "running"}
  /\ rep \in Report
  /\ batch \in [Sandboxes -> Command]
  /\ asked \in SUBSET Sandboxes

EarlyType ==
  /\ early \in {"idle", "observed", "sent"}
  /\ erep \in EarlyReport

NodeType ==
  /\ have \in Observed
  /\ dead \in SUBSET Sandboxes
  /\ failing \in [Sandboxes -> Failing]
  /\ deferred \in [Sandboxes -> {"no", "waiting", "due"}]
  /\ destroying \in SUBSET Sandboxes
  /\ parting \in SUBSET Sandboxes
  /\ doomed \in SUBSET Sandboxes

WakeupsType ==
  /\ seen \in SUBSET Sandboxes
  /\ busy \in SUBSET Sandboxes
  /\ fresh \in SUBSET Sandboxes
  /\ unreported \in SUBSET Sandboxes
  /\ evicted \in SUBSET Sandboxes
  /\ woke \in BOOLEAN

HistoryType ==
  /\ gen \in [Sandboxes -> Nat]
  /\ boxGen \in [Sandboxes -> Nat]
  /\ tried \in [Sandboxes -> Nat] /\ spared \in [Sandboxes -> Nat]
  /\ raced \in SUBSET Sandboxes
  /\ spent \in [Budget -> Nat]

\* Every variable has its type: in particular no tier outside the four, no
\* sandbox observed as Detached, and no command that run_one does not know.
TypeOK ==
  /\ MasterType /\ PollType /\ EarlyType /\ NodeType /\ WakeupsType /\ HistoryType

\* wake_node: a poll is never left parked on work.  If desired state has come
\* to ask something of the report it is parked with, the waker holds a permit
\* or is about to be given one, so the poll returns at once rather than at the
\* end of its hold.
NoLostWake ==
  conn = "parked" /\ ~permit /\ ~owed =>
    LeaveOut(Diff(desired, attempts, gen, rep.observed), rep.deferred) = NoBatch

\* leave_out_deferred and still_deferred: the master never offers a command
\* the node is still backing off from, so the two cannot spin on it.
NeverOfferedEarly ==
  conn \in {"answered", "running"} =>
    \A s \in Sandboxes : batch[s] # NoCmd => ~failing[s].backoff

\* The node has nothing of it: neither held, nor on its way to disk.
Missing(s) == ~Held(s) /\ s \notin parting

\* diff works from a report that may be a whole hold old, and still a Create
\* only ever reaches a node that has nothing of the sandbox, unless observe()
\* was made just while the sandbox was being put to disk for room.
CreatesUnlessRaced ==
  \A s \in Sandboxes : batch[s].op = "create" => Missing(s) \/ s \in raced

(* The facts that make the invariants above inductive. *)

\* Commands exist only between an answer and the end of its batch.
BatchWhenAnswered == conn \notin {"answered", "running"} => batch = NoBatch

\* However long a report is parked, the node has not come to hold a sandbox
\* the report does not list: only an answer could have created it.
MissingStaysMissing ==
  conn \in {"observed", "sent", "parked"} =>
    \A s \in Sandboxes : rep.observed[s] = NotHeld => Missing(s) \/ s \in raced

\* One being put to disk is held at no tier.
PartingAway == \A s \in parting : ~Held(s)

\* A command backing off is one the node has put off,
BackoffPutOff ==
  \A s \in Sandboxes : failing[s].backoff => deferred[s] = "waiting"

\* and what is put off while a poll is out, that poll says so.
PutOffReported ==
  conn \in {"sent", "parked"} =>
    \A s \in Sandboxes : deferred[s] = "waiting" => s \in rep.deferred

\* The inductive invariant of the poll, and what it is for: no lost wake-up,
\* no spinning on a backoff, no create of what the node already holds.
PollInv ==
  /\ BatchWhenAnswered /\ MissingStaysMissing /\ PartingAway
  /\ BackoffPutOff /\ PutOffReported
  /\ NoLostWake /\ NeverOfferedEarly /\ CreatesUnlessRaced

\* diff: "we only ever destroy what desired state has actually dropped".  No
\* report, old or partial, has the sandbox of a live row destroyed, whatever is
\* lost, fails or restarts, as long as its id has not been used before.
DestroysUnlessReused ==
  \A s \in destroying : Held(s) /\ Row(s) => boxGen[s] # gen[s] \/ gen[s] > 1

Quarantined(s) == Row(s) /\ attempts[s] >= MaxFailures

\* record_failures, MAX_FAILURES: failures are reported with every poll for as
\* long as they last, and still a row is quarantined only after that many
\* attempts in a row that did not succeed, and never for want of memory alone:
\* one of them at least has failed outright.  (The comment there says those held
\* back count for nothing; the node's own count has them in it, so they do once
\* one has failed.)
QuarantineEarned ==
  \A s \in Sandboxes :
    Quarantined(s) => tried[s] > 0 /\ tried[s] + spared[s] >= MaxFailures

Settled(s) ==
  IF Row(s) /\ desired[s] # Detached THEN have[s] = desired[s] ELSE ~Held(s)

\* Once callers, traffic and faults let up, the node comes to hold every
\* sandbox at the tier its row asks for, and nothing else, for good, whatever
\* was lost, restarted, died, failed, held back or put to disk on the way.  Quarantined rows are
\* excepted: nothing is asked of them.
Converges == <>[](\A s \in Sandboxes : Settled(s) \/ Quarantined(s))
=============================================================================
