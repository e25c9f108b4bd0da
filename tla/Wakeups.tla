------------------------------ MODULE Wakeups ------------------------------
(***************************************************************************)
(* Who may change a sandbox's tier on a node, and when: the locks, permits *)
(* and request counts of node/wake.rs, under the gateway's handlers, the   *)
(* wakes they start, the loop that reaps the dead and runs the master's    *)
(* commands, and the threads that destroy.                                 *)
(*                                                                         *)
(* A handler can be dropped at any moment (its client disconnects); the    *)
(* wake it started goes on.  Grace periods are left out, which lets        *)
(* demotions and evictions happen in strictly more states than the code    *)
(* allows.                                                                 *)
(***************************************************************************)
EXTENDS Tiers, FiniteSets

CONSTANTS
  Sandboxes,
  Requests,     \* requests at the gateway, each with the wake it may start
  Loop,         \* the loop that reports and runs the master's commands
  Parallel,     \* restore permits
  Waitings,     \* what an operator may set max_waiting to
  MaxTasks,     \* bound: commands the loop is given, and ids it is to reap or settle
  MaxRoom       \* bound: times the node is found short of memory

ASSUME WakeupsAssumption ==
  /\ Parallel \in Nat \ {0}
  /\ Waitings \subseteq Nat /\ MaxTasks \in Nat /\ MaxRoom \in Nat
  /\ Sandboxes \cap Requests = {} /\ Loop \notin Sandboxes \cup Requests

Gone == -1        \* nothing of the sandbox on this node
Dead == -2        \* a bundle with nothing running in it, and no image

\* Whoever runs runsc on a sandbox: a wake's thread (named by its request),
\* the loop, and a destroy thread (named by its sandbox).
Actor == Requests \cup {Loop} \cup Sandboxes

VARIABLES
  tier,       \* what observe() shows, or Gone or Dead, which it does not list
  mutex,      \* which mutex `locks' maps the id to: forget() makes it another
  job,        \* each actor's work
  handler,    \* each gateway handler
  inFlight,   \* in_flight: requests enrolled and not yet answered
  permits,    \* free permits of `restores'
  maxWaiting, \* max_waiting: wakes that may queue for a permit; set once
  destroying, \* DESTROYING
  tasks, room

bounds == <<tasks, room>>
vars == <<maxWaiting, tier, mutex, job, handler, inFlight, permits, destroying, bounds>>

Idle  == [pc |-> "none", op |-> "none", of |-> Loop, key |-> 0, to |-> Hot,
          victim |-> Loop, vkey |-> 0]
Away  == [pc |-> "away", of |-> Loop, key |-> 0]

Init ==
  /\ tier \in [Sandboxes -> HeldTier \cup {Gone, Dead}]
  /\ mutex = [s \in Sandboxes |-> 0]
  /\ job = [a \in Actor |-> Idle]
  /\ handler = [r \in Requests |-> Away]
  /\ inFlight = [s \in Sandboxes |-> 0]
  /\ permits = Parallel /\ maxWaiting \in Waitings
  /\ destroying = {}
  /\ tasks = 0 /\ room = 0

Present(s) == tier[s] \in HeldTier

AtWork == {"work", "listed", "evict"}

\* An actor holds its sandbox's mutex while it works, and its victim's while it
\* puts that one away.
Holds(a, s, k) ==
  \/ job[a].pc \in AtWork /\ job[a].of = s /\ job[a].key = k
  \/ job[a].pc = "evict" /\ job[a].victim = s /\ job[a].vkey = k

Free(s, k) == \A a \in Actor : ~Holds(a, s, k)

\* The guard that counts a request in flight exists.
InLine(r) == handler[r].pc \in {"connect", "queued", "waking", "woken", "serving"}

Queued == {r \in Requests : handler[r].pc = "queued"}

-----------------------------------------------------------------------------
(* The gateway's handler: proxy in gateway.rs. *)

\* A request arrives, and hold() looks its sandbox's mutex up.  The port stays
\* open until the next report, so the sandbox may be gone by now.
Arrive(r, s) ==
  /\ handler[r].pc = "away"
  /\ handler' = [handler EXCEPT ![r] = [pc |-> "hold", of |-> s, key |-> mutex[s]]]
  /\ UNCHANGED <<maxWaiting, tier, mutex, job, inFlight, permits, destroying, bounds>>

\* Mutant: enrolled without the mutex.
EnrollUnlocked(r) ==
  LET s == handler[r].of IN
  /\ handler[r].pc = "hold"
  /\ inFlight' = [inFlight EXCEPT ![s] = @ + 1]
  /\ handler' = [handler EXCEPT ![r].pc = "connect"]
  /\ UNCHANGED <<maxWaiting, tier, mutex, job, permits, destroying, bounds>>

\* hold(): enrolled under the mutex, which is let go at once.
Enroll(r) ==
  LET s == handler[r].of IN
  /\ handler[r].pc = "hold" /\ Free(s, handler[r].key)
  /\ inFlight' = [inFlight EXCEPT ![s] = @ + 1]
  /\ handler' = [handler EXCEPT ![r].pc = "connect"]
  /\ UNCHANGED <<maxWaiting, tier, mutex, job, permits, destroying, bounds>>

\* The request leaves, whichever way: its guard takes it out of flight.
Leave(r) ==
  /\ handler' = [handler EXCEPT ![r] = [Away EXCEPT !.pc = "done"]]
  /\ inFlight' = [inFlight EXCEPT ![handler[r].of] = @ - 1]

\* Connected: the sandbox answers.
Serve(r) ==
  /\ handler[r].pc \in {"connect", "woken"} /\ tier[handler[r].of] = Hot
  /\ handler' = [handler EXCEPT ![r].pc = "serving"]
  /\ UNCHANGED <<maxWaiting, tier, mutex, job, inFlight, permits, destroying, bounds>>

\* wake(), when a permit is to be had and nobody is queued for it: the permit
\* goes with the wake's thread, which looks the mutex up.
Start(r) ==
  /\ permits' = permits - 1
  /\ job' = [job EXCEPT ![r] = [Idle EXCEPT !.pc = "lock", !.op = "wake",
                                  !.of = handler[r].of, !.key = mutex[handler[r].of]]]
  /\ handler' = [handler EXCEPT ![r].pc = "waking"]

\* The connection is refused: the sandbox is cold, or up with nothing listening
\* in it yet, which looks the same from here.
Cold(r) == handler[r].pc = "connect"

WakeNow(r) ==
  /\ Cold(r) /\ permits > 0 /\ Queued = {}
  /\ Start(r)
  /\ UNCHANGED <<maxWaiting, tier, mutex, inFlight, destroying, bounds>>

\* No permit: queue, unless maxWaiting already do.
WakeQueues(r) ==
  /\ Cold(r) /\ (permits = 0 \/ Queued # {})
  /\ Cardinality(Queued) < maxWaiting
  /\ handler' = [handler EXCEPT ![r].pc = "queued"]
  /\ UNCHANGED <<maxWaiting, tier, mutex, job, inFlight, permits, destroying, bounds>>

WakeRefused(r) ==
  /\ Cold(r) /\ (permits = 0 \/ Queued # {})
  /\ Cardinality(Queued) >= maxWaiting
  /\ Leave(r)
  /\ UNCHANGED <<maxWaiting, tier, mutex, job, permits, destroying, bounds>>

WakeDequeued(r) ==
  /\ handler[r].pc = "queued" /\ permits > 0
  /\ Start(r)
  /\ UNCHANGED <<maxWaiting, tier, mutex, inFlight, destroying, bounds>>

\* Mutant: the permit is the caller's, and comes back when the caller goes.
HandlerEndsWithPermit(r) ==
  /\ InLine(r)
  /\ Leave(r)
  /\ permits' = IF handler[r].pc = "waking" THEN permits + 1 ELSE permits
  /\ UNCHANGED <<maxWaiting, tier, mutex, job, destroying, bounds>>

\* The answer is through, a connect failed for good, the budget ran out in the
\* queue, or the client has gone: nothing the wake's thread holds is touched.
HandlerEnds(r) ==
  /\ InLine(r)
  /\ Leave(r)
  /\ UNCHANGED <<maxWaiting, tier, mutex, job, permits, destroying, bounds>>

-----------------------------------------------------------------------------
(* The loop's commands: run_one in mod.rs. *)

\* The loop takes a task up and looks the sandbox's mutex up.
TakeUp(s, op, to) ==
  /\ job[Loop].pc = "none" /\ tasks < MaxTasks
  /\ tasks' = tasks + 1
  /\ job' = [job EXCEPT ![Loop] = [Idle EXCEPT !.pc = "lock", !.op = op, !.of = s,
                                     !.key = mutex[s], !.to = to]]
  /\ UNCHANGED <<maxWaiting, tier, mutex, handler, inFlight, permits, destroying, room>>

Command(s) ==
  \/ Present(s) /\ \E to \in Tier : TakeUp(s, "tier", to)
  \/ ~Present(s) /\ TakeUp(s, "create", Hot)
  \/ Present(s) /\ TakeUp(s, "destroy", Hot)

PuttingAway(a) == job[a].op = "tier" /\ job[a].to # Hot

\* A demotion of a sandbox with a request in flight is put off, once the mutex
\* is had.
LoopPutsOff ==
  LET s == job[Loop].of IN
  /\ job[Loop].pc = "lock" /\ Free(s, job[Loop].key)
  /\ PuttingAway(Loop) /\ inFlight[s] > 0
  /\ job' = [job EXCEPT ![Loop] = Idle]
  /\ UNCHANGED <<maxWaiting, tier, mutex, handler, inFlight, permits, destroying, bounds>>

\* Destroy: handed to a thread that has the mutex, unless one is at it.
LoopDestroys ==
  LET s == job[Loop].of IN
  /\ job[Loop].pc = "lock" /\ job[Loop].op = "destroy" /\ Free(s, job[Loop].key)
  /\ destroying' = destroying \cup {s}
  /\ job' = [job EXCEPT
       ![Loop].pc = "forget",
       ![s] = IF s \in destroying THEN @
              ELSE [Idle EXCEPT !.pc = "lock", !.op = "kill", !.of = s,
                                !.key = job[Loop].key]]
  /\ UNCHANGED <<maxWaiting, tier, mutex, handler, inFlight, permits, bounds>>

\* forget(): the next to ask for this id's lock is given a new one.
LoopForgets ==
  LET s == job[Loop].of IN
  /\ job[Loop].pc = "forget"
  /\ mutex' = [mutex EXCEPT ![s] = @ + 1]
  /\ job' = [job EXCEPT ![Loop] = Idle]
  /\ UNCHANGED <<maxWaiting, tier, handler, inFlight, permits, destroying, bounds>>

BeingPutAway(s) ==
  \E a \in Actor :
    \/ job[a].pc = "work" /\ PuttingAway(a) /\ job[a].of = s
    \/ job[a].pc = "evict" /\ job[a].victim = s

\* Before it reports, the loop takes up the ids that dead() and
\* survived_restores() have listed, one after the other.  One that is just
\* being put to disk looks dead as well.
Swept(s) ==
  \/ (tier[s] = Dead \/ BeingPutAway(s)) /\ TakeUp(s, "reap", Hot)
  \/ tier[s] \in {Hot, Frozen} /\ TakeUp(s, "settle", Hot)

Sweeping == job[Loop].op \in {"reap", "settle"}

\* reap_dead and settle_restores try the mutex and never wait for it.
LoopSkips ==
  /\ job[Loop].pc = "lock" /\ Sweeping /\ ~Free(job[Loop].of, job[Loop].key)
  /\ job' = [job EXCEPT ![Loop] = Idle]
  /\ UNCHANGED <<maxWaiting, tier, mutex, handler, inFlight, permits, destroying, bounds>>

-----------------------------------------------------------------------------
(* Work on a sandbox, under its mutex. *)

\* Mutant: a dead sandbox is reaped without its mutex.
BeginReapsUnlocked(a) ==
  LET s == job[a].of IN
  /\ job[a].pc = "lock" /\ job[a].op # "destroy"
  /\ job[a].op = "reap" \/ Free(s, job[a].key)
  /\ ~(PuttingAway(a) /\ inFlight[s] > 0)
  /\ job' = [job EXCEPT ![a].pc = "work"]
  /\ UNCHANGED <<maxWaiting, tier, mutex, handler, inFlight, permits, destroying, bounds>>

\* The mutex is had, and the work may start.
Begin(a) ==
  LET s == job[a].of IN
  /\ job[a].pc = "lock" /\ job[a].op # "destroy" /\ Free(s, job[a].key)
  /\ ~(PuttingAway(a) /\ inFlight[s] > 0)
  /\ job' = [job EXCEPT ![a].pc = "work"]
  /\ UNCHANGED <<maxWaiting, tier, mutex, handler, inFlight, permits, destroying, bounds>>

Promoting(a) ==
  /\ job[a].pc = "work" /\ tier[job[a].of] \in {Frozen, Snapshot}
  /\ job[a].op = "wake" \/ (job[a].op = "tier" /\ job[a].to = Hot)

\* promote finds too little memory, and evict_one lists whom it could put away:
\* not itself, nothing cold, nothing with a request in flight.
ListVictim(a, v) ==
  /\ Promoting(a) /\ room < MaxRoom
  /\ v # job[a].of /\ tier[v] \in {Hot, Frozen} /\ inFlight[v] = 0
  /\ room' = room + 1
  /\ job' = [job EXCEPT ![a].pc = "listed", ![a].victim = v, ![a].vkey = mutex[v]]
  /\ UNCHANGED <<maxWaiting, tier, mutex, handler, inFlight, permits, destroying, tasks>>

\* Mutant: a victim's mutex is waited for.
SkipVictimWaits(a) ==
  LET v == job[a].victim IN
  /\ job[a].pc = "listed"
  /\ Free(v, job[a].vkey) /\ inFlight[v] > 0
  /\ job' = [job EXCEPT ![a].pc = "work"]
  /\ UNCHANGED <<maxWaiting, tier, mutex, handler, inFlight, permits, destroying, bounds>>

\* Its mutex is tried, never waited for; what the list said is checked again.
SkipVictim(a) ==
  LET v == job[a].victim IN
  /\ job[a].pc = "listed"
  /\ ~Free(v, job[a].vkey) \/ inFlight[v] > 0
  /\ job' = [job EXCEPT ![a].pc = "work"]
  /\ UNCHANGED <<maxWaiting, tier, mutex, handler, inFlight, permits, destroying, bounds>>

TryVictim(a) ==
  LET v == job[a].victim IN
  /\ job[a].pc = "listed"
  /\ Free(v, job[a].vkey) /\ inFlight[v] = 0
  /\ job' = [job EXCEPT ![a].pc = "evict"]
  /\ UNCHANGED <<maxWaiting, tier, mutex, handler, inFlight, permits, destroying, bounds>>

\* Where a tier change may end that does not get there.  A checkpoint that fails
\* once the program is stopped leaves nothing running.
EndsAt(have, want) ==
  StoppedAt(have, want) \cup {t \in {Dead} : have <= Frozen /\ want >= Snapshot}

\* The victim is on disk (or could not be put there), and its mutex let go.
Evicted(a) ==
  LET v == job[a].victim IN
  /\ job[a].pc = "evict"
  /\ IF tier[v] \in {Hot, Frozen}
     THEN \E t \in {Snapshot} \cup EndsAt(tier[v], Snapshot) :
            tier' = [tier EXCEPT ![v] = t]
     ELSE UNCHANGED tier
  /\ job' = [job EXCEPT ![a].pc = "work"]
  /\ UNCHANGED <<maxWaiting, mutex, handler, inFlight, permits, destroying, bounds>>

\* The mutex is let go, a wake's permit with it.  reap_dead goes on to forget
\* the id, whether or not the destroy went through.
Finish(a) ==
  /\ job' = [job EXCEPT ![a] = IF @.op = "reap" THEN [@ EXCEPT !.pc = "forget"] ELSE Idle]
  /\ permits' = IF a \in Requests THEN permits + 1 ELSE permits

\* A wake's handler, if it is still there, connects again or gives up.
Tell(a, ok) ==
  IF a \in Requests /\ handler[a].pc = "waking"
  THEN IF ok THEN handler' = [handler EXCEPT ![a].pc = "woken"] /\ UNCHANGED inFlight
             ELSE Leave(a)
  ELSE UNCHANGED <<maxWaiting, handler, inFlight>>

Destroying(a) == job[a].op \in {"kill", "reap"}

\* The work is done: a sandbox that was there to work on is in its new tier.
\* forget_restore changes no tier.
WorkDone(a) ==
  LET s == job[a].of
      result == CASE Destroying(a) -> Gone
                  [] job[a].op = "tier" /\ job[a].to = Detached -> Gone
                  [] job[a].op = "settle" -> tier[s]
                  [] OTHER -> job[a].to
  IN /\ job[a].pc = "work"
     /\ Present(s) \/ Destroying(a) \/ job[a].op \in {"create", "settle"}
     /\ tier' = [tier EXCEPT ![s] = result]
     /\ destroying' = IF job[a].op = "kill" THEN destroying \ {s} ELSE destroying
     /\ Finish(a) /\ Tell(a, TRUE)
     /\ UNCHANGED <<maxWaiting, mutex, bounds>>

\* The work fails, or is held back for want of memory.  A destroy that fails
\* may have killed what ran.
WorkFails(a) ==
  LET s == job[a].of IN
  /\ job[a].pc = "work" /\ job[a].op # "settle"
  /\ CASE job[a].op \in {"tier", "wake"} /\ Present(s) ->
            \E t \in EndsAt(tier[s], job[a].to) : tier' = [tier EXCEPT ![s] = t]
       [] Destroying(a) /\ Present(s) -> \E t \in {tier[s], Dead} : tier' = [tier EXCEPT ![s] = t]
       [] OTHER -> UNCHANGED tier
  /\ destroying' = IF job[a].op = "kill" THEN destroying \ {s} ELSE destroying
  /\ Finish(a) /\ Tell(a, FALSE)
  /\ UNCHANGED <<maxWaiting, mutex, bounds>>

-----------------------------------------------------------------------------
Handle(r) ==
  \/ Enroll(r) \/ Serve(r) \/ WakeNow(r) \/ WakeQueues(r) \/ WakeRefused(r)
  \/ WakeDequeued(r) \/ HandlerEnds(r)

Work(a) ==
  \/ Begin(a) \/ SkipVictim(a) \/ TryVictim(a) \/ Evicted(a) \/ WorkDone(a)
  \/ WorkFails(a)

Manage == LoopPutsOff \/ LoopSkips \/ LoopDestroys \/ LoopForgets

\* Every request answered, every job done: the node is at rest.
Resting ==
  /\ \A r \in Requests : handler[r].pc \in {"away", "done"}
  /\ \A a \in Actor : job[a].pc = "none"

AtRest == Resting /\ UNCHANGED vars

Next ==
  \/ \E r \in Requests : Handle(r) \/ \E s \in Sandboxes : Arrive(r, s)
  \/ \E a \in Actor : Work(a) \/ \E v \in Sandboxes : ListVictim(a, v)
  \/ \E s \in Sandboxes : Command(s) \/ Swept(s)
  \/ Manage \/ AtRest

Spec == Init /\ [][Next]_vars

\* Threads run, a held mutex is let go, and every request ends in the end.
Fairness ==
  /\ \A r \in Requests : WF_vars(Handle(r))
  /\ \A a \in Actor : WF_vars(Work(a))
  /\ WF_vars(Manage)

FairSpec == Spec /\ Fairness

-----------------------------------------------------------------------------
(* Properties. *)

\* Who has runsc running on a sandbox.
Working(s) ==
  {a \in Actor : \/ job[a].pc \in AtWork /\ job[a].of = s
                 \/ job[a].pc = "evict" /\ job[a].victim = s}

\* Wakeups::locks: one lock per sandbox, held across any tier change -- a wake, a
\* command, an eviction, a destroy or a reap -- so no two ever run runsc on one
\* sandbox at once.  forget() drops the lock of an id that a destroy's thread, or
\* another that had asked for it, may yet come to hold: only while one of those is
\* at work, under a lock that `locks' no longer has, can there be a second.
ExclusiveWhileKnown ==
  \A s \in Sandboxes :
    \/ Cardinality(Working(s)) <= 1
    \/ \E a \in Working(s) : ~Holds(a, s, mutex[s])

\* hold and protected: a sandbox with a request in flight is never put away,
\* by the master's demotion or to make room, however the request's enrolment
\* and the tier change interleave, unless a forget() has given the two different
\* locks.
NeverPutAwayInFlight ==
  \A a \in Actor, r \in Requests :
    InLine(r) =>
      /\ job[a].pc = "work" /\ PuttingAway(a)
           => <<job[a].of, job[a].key>> # <<handler[r].of, handler[r].key>>
      /\ job[a].pc = "evict"
           => <<job[a].victim, job[a].vkey>> # <<handler[r].of, handler[r].key>>

\* A permit belongs to the wake, not to the caller, so never more than
\* Parallel wakes are under way however many callers give up.
RestoresBounded ==
  Cardinality({r \in Requests : job[r].pc # "none"}) <= Parallel

\* Nothing waits for ever: every request ends, every job is done and every
\* permit is back, though wakes hold one sandbox's lock while they reach for
\* another's, and callers leave in the middle.
ComesToRest == <>[](Resting /\ permits = Parallel)
=============================================================================
