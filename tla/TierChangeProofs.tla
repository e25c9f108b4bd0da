-------------------------- MODULE TierChangeProofs --------------------------
(***************************************************************************)
(* Theorems about tier changes on a node: about Wakeups, who may change a  *)
(* sandbox's tier and when, for any sets of sandboxes and requests, any    *)
(* number of permits and all bounds; and about SandboxDisk, what the       *)
(* holder of one sandbox's lock does to its files and its process, for all *)
(* bounds on what is asked, written and goes wrong.  What a node holds of  *)
(* a sandbox survives every tier change, failure and restart.              *)
(***************************************************************************)
EXTENDS Wakeups, SandboxDisk, FiniteSetTheorems, TLAPS

-----------------------------------------------------------------------------
(***************************************************************************)
(* Wakeups.                                                                *)
(***************************************************************************)

(***************************************************************************)
(* Types.                                                                  *)
(***************************************************************************)
Line == {"connect", "queued", "waking", "woken", "serving"}

Job ==
  [pc : {"none", "lock", "forget"} \cup AtWork,
   op : {"none", "wake", "tier", "create", "destroy", "kill", "reap", "settle"},
   of : Sandboxes \cup {Loop}, key : Nat, to : Tier,
   victim : Sandboxes \cup {Loop}, vkey : Nat]

Handler ==
  [pc : {"away", "hold", "done"} \cup Line, of : Sandboxes \cup {Loop}, key : Nat]

TypeInv ==
  /\ mutex \in [Sandboxes -> Nat]
  /\ job \in [Actor -> Job]
  /\ handler \in [Requests -> Handler]
  /\ inFlight \in [Sandboxes -> Int]
  /\ permits \in Int

(***************************************************************************)
(* What each actor and each handler works with.  The threads named by a    *)
(* request are those of wakes.                                             *)
(***************************************************************************)
JobOK(a) ==
  /\ job[a].pc # "none" => job[a].of \in Sandboxes
  /\ job[a].pc \in {"listed", "evict"} =>
       job[a].victim \in Sandboxes \ {job[a].of} /\ ~PuttingAway(a)
  /\ a \in Requests /\ job[a].pc # "none" => job[a].op = "wake"

JobInv == \A a \in Actor : JobOK(a)

\* A handler that has not started its wake has none, and one in line is at a
\* sandbox.
HandlerOK(r) ==
  /\ handler[r].pc \in {"hold"} \cup Line => handler[r].of \in Sandboxes
  /\ handler[r].pc \in {"away", "hold", "connect", "queued"} => job[r].pc = "none"

HandlerInv == \A r \in Requests : HandlerOK(r)

\* No two hold one mutex.
Apart == \A a, b \in Actor : \A s \in Sandboxes, k \in Nat :
           Holds(a, s, k) /\ Holds(b, s, k) => a = b

(***************************************************************************)
(* What is counted.                                                        *)
(***************************************************************************)
Enrolled(s) == {r \in Requests : handler[r].pc \in Line /\ handler[r].of = s}

CountInv ==
  \A s \in Sandboxes :
    IsFiniteSet(Enrolled(s)) /\ inFlight[s] = Cardinality(Enrolled(s))

Waking == {r \in Requests : job[r].pc # "none"}

PermitInv ==
  /\ IsFiniteSet(Waking)
  /\ permits \in Nat /\ permits + Cardinality(Waking) = Parallel

LockInv == JobInv /\ HandlerInv /\ Apart

WakeInv == LockInv /\ CountInv /\ PermitInv /\ NeverPutAwayInFlight

(***************************************************************************)
(* Type correctness.                                                       *)
(***************************************************************************)
\* A job of nothing, and a handler nobody has come to, are well typed.
LEMMA Blanks ==
  /\ Idle \in Job /\ Idle.pc = "none"
  /\ Away \in Handler /\ Away.pc = "away"
  /\ [Away EXCEPT !.pc = "done"] \in Handler
<1>1. Idle \in Job /\ Idle.pc = "none"
  BY DEF Idle, Job, AtWork, Tier, Hot, Detached
<1>2. Away \in Handler /\ Away.pc = "away" /\ [Away EXCEPT !.pc = "done"] \in Handler
  BY DEF Away, Handler, Line
<1>3. QED
  BY <1>1, <1>2

\* The initial state is well typed.
LEMMA InitType == Init => TypeInv
<1> SUFFICES ASSUME Init PROVE TypeInv
  OBVIOUS
<1>1. /\ mutex = [s \in Sandboxes |-> 0] /\ inFlight = [s \in Sandboxes |-> 0]
      /\ permits = Parallel /\ Parallel \in Nat
  BY WakeupsAssumption DEF Init
<1>2. job \in [Actor -> Job] /\ handler \in [Requests -> Handler]
  BY Blanks DEF Init
<1>3. QED
  BY <1>1, <1>2 DEF TypeInv

\* A step that gives one actor another job.
LEMMA OneJob ==
  ASSUME TypeInv, NEW a \in Actor, NEW j \in Job, job' = [job EXCEPT ![a] = j]
  PROVE  job' \in [Actor -> Job] /\ job'[a] = j /\ \A b \in Actor \ {a} : job'[b] = job[b]
  BY DEF TypeInv

Same(a) == /\ job'[a].op = job[a].op /\ job'[a].of = job[a].of
           /\ job'[a].key = job[a].key /\ job'[a].to = job[a].to

\* A step that takes one actor's job further.
LEMMA JobFurther ==
  ASSUME TypeInv, NEW a \in Actor, NEW at \in {"forget", "work", "evict"},
         job' = [job EXCEPT ![a].pc = at]
  PROVE  /\ job' \in [Actor -> Job] /\ \A b \in Actor \ {a} : job'[b] = job[b]
         /\ job'[a].pc = at /\ Same(a)
         /\ job'[a].victim = job[a].victim /\ job'[a].vkey = job[a].vkey
<1>1. [job[a] EXCEPT !.pc = at] \in Job
  BY DEF TypeInv, Job, AtWork
<1>2. job' = [job EXCEPT ![a] = [job[a] EXCEPT !.pc = at]]
  BY DEF TypeInv
<1>3. job[a] \in Job
  BY DEF TypeInv
<1>4. QED
  <2>1. /\ job' \in [Actor -> Job] /\ job'[a] = [job[a] EXCEPT !.pc = at]
        /\ \A b \in Actor \ {a} : job'[b] = job[b]
    BY <1>1, <1>2, OneJob
  <2>2. /\ job'[a].pc = at /\ Same(a)
        /\ job'[a].victim = job[a].victim /\ job'[a].vkey = job[a].vkey
    BY <1>3, <2>1 DEF Job, Same
  <2>3. QED
    BY <2>1, <2>2

(***************************************************************************)
(* The ways in which an actor's job changes, each with what the code has   *)
(* looked at by then.                                                      *)
(***************************************************************************)
Ended(a)  == job'[a] = Idle /\ job[a].pc # "none"
Taken(a)  == /\ job'[a].pc = "lock" /\ job'[a].of \in Sandboxes
             /\ \/ job'[a].key = mutex[job'[a].of]
                \/ /\ job[Loop].pc = "lock" /\ job'[a].of = job[Loop].of
                   /\ job'[a].key = job[Loop].key
             /\ a \in Requests => handler'[a].pc = "waking" /\ job'[a].op = "wake"
ToForget(a) == job[a].pc \in {"lock", "work"} /\ job'[a].pc = "forget" /\ Same(a)
Begun(a)  == /\ job[a].pc = "lock" /\ job'[a].pc = "work" /\ Same(a)
             /\ Free(job[a].of, job[a].key)
             /\ PuttingAway(a) => ~(inFlight[job[a].of] > 0)
             /\ UNCHANGED <<handler, inFlight>>
Listed(a) == /\ job[a].pc = "work" /\ job'[a].pc = "listed" /\ Same(a)
             /\ ~PuttingAway(a)
             /\ job'[a].victim \in Sandboxes \ {job[a].of}
             /\ job'[a].vkey = mutex[job'[a].victim]
Back(a)   == job[a].pc \in {"listed", "evict"} /\ job'[a].pc = "work" /\ Same(a)
Tried(a)  == /\ job[a].pc = "listed" /\ job'[a].pc = "evict" /\ Same(a)
             /\ job'[a].victim = job[a].victim /\ job'[a].vkey = job[a].vkey
             /\ Free(job[a].victim, job[a].vkey)
             /\ inFlight[job[a].victim] = 0 /\ UNCHANGED <<handler, inFlight>>

JobStep(a) ==
  \/ job'[a] = job[a]
  \/ Ended(a) \/ Taken(a) \/ ToForget(a) \/ Begun(a) \/ Listed(a) \/ Back(a) \/ Tried(a)

\* The loop and the threads take their jobs further in one of these ways.
LEMMA WorkJobs ==
  ASSUME TypeInv, JobInv, NEW a \in Actor, Work(a) \/ \E v \in Sandboxes : ListVictim(a, v)
  PROVE  /\ job' \in [Actor -> Job] /\ JobStep(a)
         /\ \A b \in Actor \ {a} : job'[b] = job[b]
<1>0. job \in [Actor -> Job] /\ job[a] \in Job /\ mutex \in [Sandboxes -> Nat]
  BY DEF TypeInv
<1>1. CASE Begin(a)
  <2>1. job' = [job EXCEPT ![a].pc = "work"]
    BY <1>1 DEF Begin
  <2>2. Begun(a)
    BY <1>1, <2>1, JobFurther DEF Begin, Begun
  <2>3. QED
    BY <2>1, <2>2, JobFurther DEF JobStep
<1>2. ASSUME NEW v \in Sandboxes, ListVictim(a, v)
      PROVE  /\ job' \in [Actor -> Job] /\ JobStep(a)
             /\ \A b \in Actor \ {a} : job'[b] = job[b]
  <2> DEFINE j == [job[a] EXCEPT !.pc = "listed", !.victim = v, !.vkey = mutex[v]]
  <2>1. j \in Job
    BY <1>0 DEF Job, AtWork
  <2>2. /\ j.pc = "listed" /\ j.victim = v /\ j.vkey = mutex[v]
        /\ j.op = job[a].op /\ j.of = job[a].of /\ j.key = job[a].key /\ j.to = job[a].to
    BY <1>0 DEF Job
  <2>3. job' = [job EXCEPT ![a] = j]
    BY <1>0, <1>2 DEF ListVictim
  <2> HIDE DEF j
  <2>4. job'[a] = j
    BY <2>1, <2>3, OneJob
  <2>5. ~PuttingAway(a)
    BY <1>2 DEF ListVictim, Promoting, PuttingAway
  <2>6. Listed(a)
    BY <1>2, <2>2, <2>4, <2>5 DEF ListVictim, Promoting, Listed, Same
  <2>7. QED
    BY <2>1, <2>3, <2>6, OneJob DEF JobStep
<1>3. CASE SkipVictim(a) \/ Evicted(a)
  <2>1. job' = [job EXCEPT ![a].pc = "work"] /\ job[a].pc \in {"listed", "evict"}
    BY <1>3 DEF SkipVictim, Evicted
  <2>2. Back(a)
    BY <2>1, JobFurther DEF Back
  <2>3. QED
    BY <2>1, <2>2, JobFurther DEF JobStep
<1>4. CASE TryVictim(a)
  <2>1. job' = [job EXCEPT ![a].pc = "evict"]
    BY <1>4 DEF TryVictim
  <2>2. Tried(a)
    BY <1>4, <2>1, JobFurther DEF TryVictim, Tried
  <2>3. QED
    BY <2>1, <2>2, JobFurther DEF JobStep
<1>5. CASE WorkDone(a) \/ WorkFails(a)
  <2>1. job[a].pc = "work" /\ Finish(a)
    BY <1>5 DEF WorkDone, WorkFails
  <2>2. CASE job[a].op = "reap"
    <3>1. job' = [job EXCEPT ![a].pc = "forget"]
      BY <1>0, <2>1, <2>2 DEF Finish
    <3>2. ToForget(a)
      BY <2>1, <3>1, JobFurther DEF ToForget
    <3>3. QED
      BY <3>1, <3>2, JobFurther DEF JobStep
  <2>3. CASE job[a].op # "reap"
    <3>1. job' = [job EXCEPT ![a] = Idle]
      BY <1>0, <2>1, <2>3 DEF Finish
    <3>2. QED
      BY <2>1, <3>1, OneJob, Blanks DEF JobStep, Ended
  <2>4. QED
    BY <2>2, <2>3
<1>6. QED
  BY <1>1, <1>2, <1>3, <1>4, <1>5 DEF Work

\* A wake that starts is taken up by its own thread.
LEMMA StartType ==
  ASSUME TypeInv, NEW r \in Requests, handler[r].of \in Sandboxes, Start(r)
  PROVE  /\ handler' \in [Requests -> Handler] /\ permits' \in Int
         /\ job' \in [Actor -> Job] /\ JobStep(r)
         /\ \A b \in Actor \ {r} : job'[b] = job[b]
<1> DEFINE k == mutex[handler[r].of]
           j == [Idle EXCEPT !.pc = "lock", !.op = "wake", !.of = handler[r].of, !.key = k]
<1>1. k \in Nat /\ Hot \in Tier /\ r \in Actor
  BY DEF TypeInv, Tier, Hot, Detached, Actor
<1>2. job' = [job EXCEPT ![r] = j]
  BY DEF Start
<1> HIDE DEF k
<1>3. j \in Job /\ j.pc = "lock" /\ j.op = "wake" /\ j.of = handler[r].of /\ j.key = k
  BY <1>1 DEF Idle, Job, AtWork
<1> HIDE DEF j
<1>4. handler' \in [Requests -> Handler] /\ handler'[r].pc = "waking"
  BY DEF Start, TypeInv, Handler, Line
<1>5. /\ job' \in [Actor -> Job] /\ job'[r] = j
      /\ \A b \in Actor \ {r} : job'[b] = job[b]
  BY <1>1, <1>2, <1>3, OneJob
<1>6. Taken(r)
  BY <1>3, <1>4, <1>5 DEF Taken, k
<1>7. QED
  BY <1>4, <1>5, <1>6 DEF Start, TypeInv, JobStep

LoopStep(a) == job'[a] = job[a] \/ Ended(a) \/ Taken(a) \/ ToForget(a)

\* The loop's commands, and the thread a destroy is handed to.
LEMMA LoopJobs ==
  ASSUME TypeInv, JobInv, Manage \/ \E s \in Sandboxes : Command(s) \/ Swept(s)
  PROVE  job' \in [Actor -> Job] /\ \A b \in Actor : LoopStep(b)
<1>0. /\ job \in [Actor -> Job] /\ job[Loop] \in Job /\ mutex \in [Sandboxes -> Nat]
      /\ Loop \in Actor /\ Loop \notin Requests
  BY WakeupsAssumption DEF TypeInv, Actor
<1>1. ASSUME NEW s \in Sandboxes, NEW op \in {"tier", "create", "destroy", "reap", "settle"}, NEW to \in Tier,
             TakeUp(s, op, to)
      PROVE  job' \in [Actor -> Job] /\ \A b \in Actor : LoopStep(b)
  <2> DEFINE k == mutex[s]
             j == [Idle EXCEPT !.pc = "lock", !.op = op, !.of = s, !.key = k, !.to = to]
  <2>1. job' = [job EXCEPT ![Loop] = j]
    BY <1>1 DEF TakeUp
  <2>2. k \in Nat
    BY <1>0
  <2> HIDE DEF k
  <2>3. j \in Job /\ j.pc = "lock" /\ j.of = s /\ j.key = k
    BY <2>2 DEF Idle, Job, AtWork
  <2> HIDE DEF j
  <2>4. job' \in [Actor -> Job] /\ job'[Loop] = j /\ \A b \in Actor \ {Loop} : job'[b] = job[b]
    BY <1>0, <2>1, <2>3, OneJob
  <2>5. Taken(Loop)
    BY <1>0, <2>3, <2>4 DEF Taken, k
  <2>6. QED
    BY <2>4, <2>5 DEF LoopStep
<1>2. ASSUME NEW s \in Sandboxes, Command(s) \/ Swept(s)
      PROVE  job' \in [Actor -> Job] /\ \A b \in Actor : LoopStep(b)
  <2>1. Hot \in Tier
    BY DEF Hot, Tier, Detached
  <2>2. QED
    BY <1>1, <1>2, <2>1 DEF Command, Swept
<1>3. CASE LoopPutsOff \/ LoopSkips \/ LoopForgets
  <2>1. job' = [job EXCEPT ![Loop] = Idle] /\ job[Loop].pc # "none"
    BY <1>3 DEF LoopPutsOff, LoopSkips, LoopForgets
  <2>2. QED
    BY <1>0, <2>1, OneJob, Blanks DEF LoopStep, Ended
<1>4. CASE LoopDestroys
  <2> DEFINE s == job[Loop].of
             k == job[Loop].key
             j == [job[Loop] EXCEPT !.pc = "forget"]
             new == [Idle EXCEPT !.pc = "lock", !.op = "kill", !.of = s, !.key = k]
             u == IF s \in destroying THEN job[s] ELSE new
  <2>1. job[Loop].pc = "lock" /\ s \in Sandboxes /\ s # Loop /\ s \notin Requests
    BY <1>0, <1>4, WakeupsAssumption DEF LoopDestroys, JobInv, JobOK
  <2>2. job' = [job EXCEPT ![Loop].pc = "forget", ![s] = IF s \in destroying THEN @ ELSE new]
    BY <1>4 DEF LoopDestroys
  <2>3. k \in Nat /\ s \in Actor
    BY <1>0, <2>1 DEF Job, Actor
  <2>4. /\ j \in Job /\ j.pc = "forget" /\ j.op = job[Loop].op /\ j.of = job[Loop].of
        /\ j.key = job[Loop].key /\ j.to = job[Loop].to
    BY <1>0 DEF Job, AtWork
  <2> HIDE DEF s, k
  <2>5. new \in Job /\ new.pc = "lock" /\ new.of = s /\ new.key = k
    <3>1. Hot \in Tier
      BY DEF Hot, Tier, Detached
    <3>2. QED
      BY <2>1, <2>3, <3>1 DEF Idle, Job, AtWork
  <2> HIDE DEF j, new
  <2>6. /\ job' \in [Actor -> Job] /\ job'[Loop] = j
        /\ job'[s] = job[s] \/ job'[s] = new
        /\ \A b \in Actor \ {Loop, s} : job'[b] = job[b]
    BY <1>0, <2>1, <2>2, <2>3, <2>4, <2>5 DEF j
  <2>7. ToForget(Loop)
    BY <2>1, <2>4, <2>6 DEF ToForget, Same
  <2>8. job'[s] = job[s] \/ Taken(s)
    BY <2>1, <2>5, <2>6 DEF Taken, s, k
  <2>9. QED
    BY <2>6, <2>7, <2>8 DEF LoopStep
<1>5. QED
  BY <1>2, <1>3, <1>4 DEF Manage

(***************************************************************************)
(* The ways in which a handler changes, and the requests in flight with    *)
(* it.                                                                     *)
(***************************************************************************)
Arrived(r) == /\ handler[r].pc = "away" /\ handler'[r].pc = "hold"
              /\ handler'[r].of \in Sandboxes /\ handler'[r].key = mutex[handler'[r].of]
Further(r) == /\ handler[r].pc \in Line /\ handler'[r].pc \in Line \ {"connect"}
              /\ handler'[r].of = handler[r].of /\ handler'[r].key = handler[r].key
              /\ handler'[r].pc = "queued" => handler[r].pc = "connect"
Others(r)  == \A q \in Requests \ {r} : handler'[q] = handler[q]

\* Hold::new, and the drop of the guard it returns.
Joins(r)   == /\ handler[r].pc = "hold" /\ Free(handler[r].of, handler[r].key)
              /\ handler'[r].pc = "connect" /\ handler'[r].of = handler[r].of
              /\ handler'[r].key = handler[r].key
              /\ inFlight' = [inFlight EXCEPT ![handler[r].of] = @ + 1]
Leaves(r)  == /\ handler[r].pc \in Line /\ handler'[r].pc = "done"
              /\ inFlight' = [inFlight EXCEPT ![handler[r].of] = @ - 1]

HandStep(r) == /\ Others(r)
               /\ \/ inFlight' = inFlight /\ (Arrived(r) \/ Further(r))
                  \/ Joins(r) \/ Leaves(r)

\* One field of a handler changes.
LEMMA HandlerFurther ==
  ASSUME TypeInv, NEW r \in Requests, NEW at \in Line,
         handler' = [handler EXCEPT ![r].pc = at]
  PROVE  /\ handler' \in [Requests -> Handler] /\ Others(r)
         /\ handler'[r].pc = at /\ handler'[r].of = handler[r].of
         /\ handler'[r].key = handler[r].key
  BY DEF TypeInv, Handler, Others

\* A request that leaves.
LEMMA LeaveHands ==
  ASSUME TypeInv, NEW r \in Requests, handler[r].pc \in Line, Leave(r)
  PROVE  handler' \in [Requests -> Handler] /\ HandStep(r)
<1> DEFINE h == [Away EXCEPT !.pc = "done"]
<1>1. h \in Handler /\ h.pc = "done"
  BY DEF Away, Handler, Line
<1> HIDE DEF h
<1>2. handler' = [handler EXCEPT ![r] = h]
  BY DEF Leave, h
<1>3. handler' \in [Requests -> Handler] /\ handler'[r] = h /\ Others(r)
  BY <1>1, <1>2 DEF TypeInv, Others
<1>4. Leaves(r)
  BY <1>1, <1>3 DEF Leave, Leaves
<1>5. QED
  BY <1>3, <1>4 DEF HandStep

\* A handler's own steps.
LEMMA HandleHands ==
  ASSUME TypeInv, NEW r \in Requests, Handle(r) \/ \E s \in Sandboxes : Arrive(r, s)
  PROVE  handler' \in [Requests -> Handler] /\ HandStep(r)
<1>0. handler \in [Requests -> Handler] /\ mutex \in [Sandboxes -> Nat]
  BY DEF TypeInv
<1>1. ASSUME NEW s \in Sandboxes, Arrive(r, s)
      PROVE  handler' \in [Requests -> Handler] /\ HandStep(r)
  <2> DEFINE h == [pc |-> "hold", of |-> s, key |-> mutex[s]]
  <2>1. h \in Handler /\ h.pc = "hold" /\ h.of = s /\ h.key = mutex[s]
    BY <1>0 DEF Handler, Line
  <2>2. handler' = [handler EXCEPT ![r] = h] /\ inFlight' = inFlight /\ handler[r].pc = "away"
    BY <1>1 DEF Arrive
  <2> HIDE DEF h
  <2>3. handler' \in [Requests -> Handler] /\ handler'[r] = h /\ Others(r)
    BY <1>0, <2>1, <2>2 DEF Others
  <2>4. QED
    BY <2>1, <2>2, <2>3 DEF HandStep, Arrived
<1>2. CASE Enroll(r)
  <2>1. "connect" \in Line /\ handler' = [handler EXCEPT ![r].pc = "connect"]
    BY <1>2 DEF Enroll, Line
  <2>2. QED
    BY <1>2, <2>1, HandlerFurther DEF Enroll, HandStep, Joins
<1>3. ASSUME NEW at \in Line \ {"connect"}, handler[r].pc \in Line,
             at = "queued" => handler[r].pc = "connect",
             handler' = [handler EXCEPT ![r].pc = at], inFlight' = inFlight
      PROVE  handler' \in [Requests -> Handler] /\ HandStep(r)
  BY <1>3, HandlerFurther DEF HandStep, Further
<1>4. CASE Serve(r) \/ WakeNow(r) \/ WakeQueues(r) \/ WakeDequeued(r)
  BY <1>3, <1>4 DEF Serve, WakeNow, WakeQueues, WakeDequeued, Start, Cold, Line
<1>5. CASE WakeRefused(r) \/ HandlerEnds(r)
  BY <1>5, LeaveHands DEF WakeRefused, HandlerEnds, Cold, InLine, Line
<1>6. QED
  BY <1>1, <1>2, <1>4, <1>5 DEF Handle

\* The end of a wake is told to its handler, if that is still there.
LEMMA WorkHands ==
  ASSUME TypeInv, NEW a \in Actor, Work(a) \/ \E v \in Sandboxes : ListVictim(a, v)
  PROVE  \/ UNCHANGED <<handler, inFlight>>
         \/ a \in Requests /\ handler' \in [Requests -> Handler] /\ HandStep(a)
<1>1. CASE Begin(a) \/ SkipVictim(a) \/ TryVictim(a) \/ Evicted(a)
           \/ \E v \in Sandboxes : ListVictim(a, v)
  BY <1>1 DEF Begin, SkipVictim, TryVictim, Evicted, ListVictim
<1>2. ASSUME NEW ok \in BOOLEAN, Tell(a, ok)
      PROVE  \/ UNCHANGED <<handler, inFlight>>
             \/ a \in Requests /\ handler' \in [Requests -> Handler] /\ HandStep(a)
  <2>1. CASE ~(a \in Requests /\ handler[a].pc = "waking")
    BY <1>2, <2>1 DEF Tell
  <2>2. CASE a \in Requests /\ handler[a].pc = "waking"
    <3>0. "woken" \in Line /\ "waking" \in Line
      BY DEF Line
    <3>1. CASE Leave(a)
      BY <2>2, <3>0, <3>1, LeaveHands
    <3>2. CASE ~Leave(a)
      <4>1. handler' = [handler EXCEPT ![a].pc = "woken"] /\ inFlight' = inFlight
        BY <1>2, <2>2, <3>2 DEF Tell
      <4>2. QED
        BY <2>2, <3>0, <4>1, HandlerFurther DEF HandStep, Further
    <3>3. QED
      BY <3>1, <3>2
  <2>3. QED
    BY <2>1, <2>2
<1>3. CASE WorkDone(a) \/ WorkFails(a)
  BY <1>2, <1>3 DEF WorkDone, WorkFails
<1>4. QED
  BY <1>1, <1>3 DEF Work

(***************************************************************************)
(* So every step is one of these, for each actor and for the handlers.     *)
(***************************************************************************)
HandsStep == \/ UNCHANGED <<handler, inFlight>>
             \/ \E r \in Requests : HandStep(r)

\* The threads that work on sandboxes, and the loop's other steps.
WorkStep == \E a \in Actor : JobStep(a) /\ \A b \in Actor \ {a} : job'[b] = job[b]
JobsStep == WorkStep \/ \A b \in Actor : LoopStep(b)

\* Every step moves jobs and handlers in the ways above.
LEMMA NextSteps ==
  ASSUME TypeInv, JobInv, HandlerInv, [Next]_vars
  PROVE  /\ job' \in [Actor -> Job] /\ JobsStep
         /\ handler' \in [Requests -> Handler] /\ HandsStep
<1> DEFINE Goal == /\ job' \in [Actor -> Job] /\ JobsStep
                   /\ handler' \in [Requests -> Handler] /\ HandsStep
<1>0. job \in [Actor -> Job] /\ handler \in [Requests -> Handler] /\ Requests \subseteq Actor
  BY DEF TypeInv, Actor
<1>1. ASSUME NEW r \in Requests, Handle(r) \/ \E s \in Sandboxes : Arrive(r, s)
      PROVE  Goal
  <2>1. handler' \in [Requests -> Handler] /\ HandsStep
    BY <1>1, HandleHands DEF HandsStep
  <2>2. CASE job' = job
    BY <1>0, <2>1, <2>2 DEF JobsStep, LoopStep
  <2>3. CASE Start(r) /\ handler[r].pc \in {"connect", "queued"}
    <3>1. handler[r].of \in Sandboxes
      BY <2>3 DEF HandlerInv, HandlerOK, Line
    <3>2. job' \in [Actor -> Job] /\ JobsStep
      BY <1>0, <2>3, <3>1, StartType DEF JobsStep, WorkStep
    <3>3. QED
      BY <2>1, <3>2
  <2>4. job' = job \/ (Start(r) /\ handler[r].pc \in {"connect", "queued"})
    BY <1>1 DEF Handle, Arrive, Enroll, Serve, WakeNow, WakeQueues, WakeRefused, WakeDequeued,
       HandlerEnds, Cold
  <2>5. QED
    BY <2>2, <2>3, <2>4
<1>2. ASSUME NEW a \in Actor, Work(a) \/ \E v \in Sandboxes : ListVictim(a, v)
      PROVE  Goal
  <2>1. handler' \in [Requests -> Handler] /\ HandsStep
    BY <1>0, <1>2, WorkHands DEF HandsStep
  <2>2. job' \in [Actor -> Job] /\ JobsStep
    BY <1>2, WorkJobs DEF JobsStep, WorkStep
  <2>3. QED
    BY <2>1, <2>2
<1>3. CASE Manage \/ \E s \in Sandboxes : Command(s) \/ Swept(s)
  <2>1. UNCHANGED <<handler, inFlight>>
    BY <1>3 DEF Manage, LoopPutsOff, LoopSkips, LoopDestroys, LoopForgets, Command, Swept, TakeUp
  <2>2. QED
    BY <1>0, <1>3, <2>1, LoopJobs DEF HandsStep, JobsStep
<1>4. CASE UNCHANGED vars
  <2>1. UNCHANGED <<job, handler, inFlight>>
    BY <1>4 DEF vars
  <2>2. QED
    BY <1>0, <2>1 DEF JobsStep, LoopStep, HandsStep
<1>5. QED
  BY <1>1, <1>2, <1>3, <1>4 DEF Next, AtRest

\* So each actor's job moves in one of those ways.
LEMMA EachJob == JobsStep => \A a \in Actor : JobStep(a)
  BY DEF JobsStep, WorkStep, LoopStep, JobStep

\* The jobs and the handlers keep what is said of them.
LEMMA NextOK ==
  ASSUME TypeInv, JobInv, HandlerInv, [Next]_vars
  PROVE  JobInv' /\ HandlerInv'
<1>0. (\A a \in Actor : JobStep(a)) /\ HandsStep
  BY NextSteps, EachJob
<1>1. ASSUME NEW a \in Actor PROVE JobOK(a)'
  <2>1. JobStep(a) /\ JobOK(a) /\ Idle.pc = "none"
    BY <1>0, Blanks DEF JobInv
  <2>2. CASE job'[a] = job[a]
    BY <2>1, <2>2 DEF JobOK, PuttingAway
  <2>3. CASE Ended(a) \/ Taken(a) \/ ToForget(a) \/ Begun(a) \/ Back(a)
    BY <2>1, <2>3 DEF JobOK, Ended, Taken, ToForget, Begun, Back, Same
  <2>4. CASE Listed(a) \/ Tried(a)
    BY <2>1, <2>4 DEF JobOK, Listed, Tried, Same, PuttingAway
  <2>5. QED
    BY <2>1, <2>2, <2>3, <2>4 DEF JobStep
<1>2. ASSUME NEW r \in Requests PROVE HandlerOK(r)'
  <2>0. r \in Actor
    BY DEF Actor
  <2>1. HandlerOK(r) /\ JobStep(r)
    BY <1>0, <2>0 DEF HandlerInv
  <2>2. job[r].pc = "none" => job'[r].pc = "none" \/ handler'[r].pc = "waking"
    BY <2>0, <2>1, Blanks DEF JobStep, Ended, Taken, ToForget, Begun, Listed, Back, Tried
  <2>3. CASE handler'[r] = handler[r]
    BY <2>1, <2>2, <2>3 DEF HandlerOK, Line
  <2>4. CASE Arrived(r)
    BY <2>1, <2>2, <2>4 DEF HandlerOK, Arrived, Line
  <2>5. CASE Further(r)
    BY <2>1, <2>2, <2>5 DEF HandlerOK, Further, Line
  <2>6. CASE Joins(r) \/ Leaves(r)
    BY <2>1, <2>2, <2>6 DEF HandlerOK, Joins, Leaves, Line
  <2>7. QED
    BY <1>0, <2>3, <2>4, <2>5, <2>6 DEF HandsStep, HandStep, Others
<1>3. QED
  BY <1>1, <1>2 DEF JobInv, HandlerInv

\* Every step leaves every variable well typed.
LEMMA NextType ==
  ASSUME TypeInv, JobInv, HandlerInv, [Next]_vars
  PROVE  TypeInv'
<1>0. /\ job' \in [Actor -> Job] /\ handler' \in [Requests -> Handler] /\ HandsStep
      /\ inFlight \in [Sandboxes -> Int] /\ permits \in Int /\ mutex \in [Sandboxes -> Nat]
  BY NextSteps DEF TypeInv
<1>1. inFlight' \in [Sandboxes -> Int]
  BY <1>0 DEF HandsStep, HandStep, Joins, Leaves
<1>2. permits' \in {permits, permits - 1, permits + 1} /\ (mutex' = mutex \/ LoopForgets)
  <2>1. ASSUME NEW a \in Actor, Work(a) \/ \E v \in Sandboxes : ListVictim(a, v)
        PROVE  permits' \in {permits, permits - 1, permits + 1} /\ mutex' = mutex
    BY <2>1 DEF Work, Begin, SkipVictim, TryVictim, Evicted, WorkDone, WorkFails, ListVictim,
       Finish
  <2>2. ASSUME NEW r \in Requests, Handle(r) \/ \E s \in Sandboxes : Arrive(r, s)
        PROVE  permits' \in {permits, permits - 1, permits + 1} /\ mutex' = mutex
    BY <2>2 DEF Handle, Arrive, Enroll, Serve, WakeNow, WakeQueues, WakeRefused, WakeDequeued,
       HandlerEnds, Start
  <2>3. CASE Manage \/ (\E s \in Sandboxes : Command(s) \/ Swept(s)) \/ UNCHANGED vars
    BY <2>3 DEF Manage, LoopPutsOff, LoopSkips, LoopDestroys, LoopForgets, Command, Swept, TakeUp,
       vars
  <2>4. QED
    BY <2>1, <2>2, <2>3 DEF Next, AtRest
<1>3. mutex' \in [Sandboxes -> Nat]
  BY <1>0, <1>2 DEF LoopForgets
<1>4. QED
  BY <1>0, <1>1, <1>2, <1>3 DEF TypeInv

(***************************************************************************)
(* One lock, one actor.                                                    *)
(***************************************************************************)
\* A lock that is newly held was free, and nobody else moved.
LEMMA NewlyHeld ==
  ASSUME JobsStep, NEW a \in Actor, NEW s \in Sandboxes, NEW k \in Nat,
         Holds(a, s, k)', ~Holds(a, s, k)
  PROVE  Free(s, k) /\ \A b \in Actor \ {a} : job'[b] = job[b]
<1>0. JobStep(a) /\ Idle.pc = "none"
  BY EachJob, Blanks
<1>1. Begun(a) \/ Tried(a)
  BY <1>0 DEF JobStep, Holds, AtWork, Ended, Taken, ToForget, Listed, Back, Same
<1>2. Free(s, k)
  BY <1>1 DEF Holds, AtWork, Begun, Tried, Same
<1>3. ~LoopStep(a) /\ job'[a] # job[a]
  BY <1>0, <1>1 DEF LoopStep, Begun, Tried, Ended, Taken, ToForget
<1>4. QED
  BY <1>2, <1>3 DEF JobsStep, WorkStep

\* Nobody takes a lock another holds.
LEMMA NextApart ==
  ASSUME TypeInv, JobInv, HandlerInv, Apart, [Next]_vars
  PROVE  Apart'
<1> SUFFICES ASSUME NEW a \in Actor, NEW b \in Actor, NEW s \in Sandboxes, NEW k \in Nat,
                    Holds(a, s, k)', Holds(b, s, k)', a # b
             PROVE  FALSE
  BY DEF Apart
<1>1. JobsStep
  BY NextSteps
<1>2. ASSUME NEW x \in Actor, NEW y \in Actor, x # y, Holds(x, s, k)', Holds(y, s, k)'
      PROVE  Holds(x, s, k)
  <2> SUFFICES ASSUME ~Holds(x, s, k) PROVE FALSE
    OBVIOUS
  <2>1. Free(s, k) /\ job'[y] = job[y]
    BY <1>1, <1>2, NewlyHeld
  <2>2. Holds(y, s, k)
    BY <1>2, <2>1 DEF Holds
  <2>3. QED
    BY <2>1, <2>2 DEF Free
<1>3. Holds(a, s, k) /\ Holds(b, s, k)
  BY <1>2
<1>4. QED
  BY <1>3 DEF Apart

\* One actor at a time: they would all hold the lock the id has.
LEMMA OneAtATime == TypeInv /\ Apart => ExclusiveWhileKnown
<1> SUFFICES ASSUME TypeInv, Apart, NEW s \in Sandboxes,
                    \A a \in Working(s) : Holds(a, s, mutex[s])
             PROVE  Cardinality(Working(s)) <= 1
  BY DEF ExclusiveWhileKnown
<1>1. \A a, b \in Working(s) : a = b
  BY DEF Apart, Working, TypeInv
<1>2. CASE Working(s) = {}
  BY <1>2, FS_EmptySet
<1>3. CASE Working(s) # {}
  <2>1. PICK a : Working(s) = {a}
    BY <1>1, <1>3
  <2>2. QED
    BY <2>1, FS_Singleton
<1>4. QED
  BY <1>2, <1>3

(***************************************************************************)
(* Requests in flight.                                                     *)
(***************************************************************************)
\* in_flight counts the requests that are in line at the sandbox.
LEMMA NextCount ==
  ASSUME TypeInv, JobInv, HandlerInv, CountInv, [Next]_vars
  PROVE  CountInv'
<1> SUFFICES ASSUME NEW s \in Sandboxes
             PROVE  IsFiniteSet(Enrolled(s)') /\ inFlight'[s] = Cardinality(Enrolled(s)')
  BY DEF CountInv
<1>0. /\ inFlight \in [Sandboxes -> Int] /\ HandsStep
      /\ IsFiniteSet(Enrolled(s)) /\ inFlight[s] = Cardinality(Enrolled(s))
      /\ \A r \in Requests : HandlerOK(r)
  BY NextSteps DEF TypeInv, CountInv, HandlerInv
<1>1. CASE Enrolled(s)' = Enrolled(s) /\ inFlight'[s] = inFlight[s]
  BY <1>0, <1>1
<1>2. CASE UNCHANGED <<handler, inFlight>>
  BY <1>1, <1>2 DEF Enrolled
<1>3. ASSUME NEW r \in Requests, Others(r), inFlight' = inFlight, Arrived(r) \/ Further(r)
      PROVE  IsFiniteSet(Enrolled(s)') /\ inFlight'[s] = Cardinality(Enrolled(s)')
  <2>1. Enrolled(s)' = Enrolled(s)
    BY <1>3 DEF Enrolled, Others, Arrived, Further, Line
  <2>2. QED
    BY <1>1, <1>3, <2>1
<1>4. ASSUME NEW r \in Requests, Others(r), Joins(r)
      PROVE  IsFiniteSet(Enrolled(s)') /\ inFlight'[s] = Cardinality(Enrolled(s)')
  <2>1. r \notin Enrolled(s) /\ "connect" \in Line
    BY <1>4 DEF Enrolled, Joins, Line
  <2>2. CASE handler[r].of = s
    <3>1. Enrolled(s)' = Enrolled(s) \cup {r}
      BY <1>4, <2>1, <2>2 DEF Enrolled, Others, Joins
    <3>2. inFlight'[s] = inFlight[s] + 1
      BY <1>0, <1>4, <2>2 DEF Joins
    <3>3. QED
      BY <1>0, <2>1, <3>1, <3>2, FS_AddElement
  <2>3. CASE handler[r].of # s
    <3>1. Enrolled(s)' = Enrolled(s)
      BY <1>4, <2>1, <2>3 DEF Enrolled, Others, Joins
    <3>2. inFlight'[s] = inFlight[s]
      BY <1>0, <1>4, <2>3 DEF Joins
    <3>3. QED
      BY <1>1, <3>1, <3>2
  <2>4. QED
    BY <2>2, <2>3
<1>5. ASSUME NEW r \in Requests, Others(r), Leaves(r)
      PROVE  IsFiniteSet(Enrolled(s)') /\ inFlight'[s] = Cardinality(Enrolled(s)')
  <2>1. "done" \notin Line
    BY DEF Line
  <2>2. CASE handler[r].of = s
    <3>1. r \in Enrolled(s) /\ Enrolled(s)' = Enrolled(s) \ {r}
      BY <1>5, <2>1, <2>2 DEF Enrolled, Others, Leaves
    <3>2. inFlight'[s] = inFlight[s] - 1
      BY <1>0, <1>5, <2>2 DEF Leaves
    <3>3. QED
      BY <1>0, <3>1, <3>2, FS_RemoveElement
  <2>3. CASE handler[r].of # s
    <3>1. Enrolled(s)' = Enrolled(s)
      BY <1>5, <2>1, <2>3 DEF Enrolled, Others, Leaves
    <3>2. inFlight'[s] = inFlight[s]
      BY <1>0, <1>5, <2>3 DEF Leaves
    <3>3. QED
      BY <1>1, <3>1, <3>2
  <2>4. QED
    BY <2>2, <2>3
<1>6. QED
  BY <1>0, <1>2, <1>3, <1>4, <1>5 DEF HandsStep, HandStep

\* Who is putting a sandbox away, under which of its locks.
Putting(a, s, k) ==
  \/ job[a].pc = "work" /\ PuttingAway(a) /\ job[a].of = s /\ job[a].key = k
  \/ job[a].pc = "evict" /\ job[a].victim = s /\ job[a].vkey = k

\* Only who finds nobody in flight starts to put a sandbox away.
LEMMA StartsPutting ==
  ASSUME JobInv, CountInv, NEW a \in Actor, JobStep(a),
         NEW s \in Sandboxes, NEW k \in Nat, Putting(a, s, k)'
  PROVE  \/ Putting(a, s, k) /\ job'[a] = job[a]
         \/ inFlight[s] = 0 /\ UNCHANGED <<handler, inFlight>>
<1>0. Idle.pc = "none" /\ JobOK(a) /\ inFlight[s] \in Nat
  BY Blanks, FS_CardinalityType DEF JobInv, CountInv
<1>1. job'[a] = job[a] \/ Begun(a) \/ Tried(a)
  <2>1. ~Ended(a) /\ ~Taken(a) /\ ~ToForget(a) /\ ~Listed(a)
    BY <1>0 DEF Putting, Ended, Taken, ToForget, Listed
  <2>2. ~Back(a)
    BY <1>0 DEF Putting, Back, Same, JobOK, PuttingAway
  <2>3. QED
    BY <2>1, <2>2 DEF JobStep
<1>2. CASE job'[a] = job[a]
  BY <1>2 DEF Putting, PuttingAway
<1>3. CASE Begun(a)
  BY <1>0, <1>3 DEF Putting, PuttingAway, Begun, Same
<1>4. CASE Tried(a)
  BY <1>4 DEF Putting, Tried
<1>5. QED
  BY <1>1, <1>2, <1>3, <1>4

\* While a sandbox is being put away its lock is held, so no request joins.
LEMMA NextPutAway ==
  ASSUME TypeInv, LockInv, CountInv, NeverPutAwayInFlight, [Next]_vars
  PROVE  NeverPutAwayInFlight'
<1> SUFFICES ASSUME NEW a \in Actor, NEW r \in Requests, InLine(r)', NEW s, NEW k,
                    s = handler'[r].of, k = handler'[r].key, Putting(a, s, k)'
             PROVE  FALSE
  BY DEF NeverPutAwayInFlight, Putting
<1>0. /\ JobStep(a) /\ HandsStep /\ JobInv /\ HandlerOK(r) /\ HandlerOK(r)'
      /\ handler' \in [Requests -> Handler]
  BY NextSteps, NextOK, EachJob DEF LockInv, HandlerInv
<1>1. s \in Sandboxes /\ k \in Nat
  BY <1>0 DEF HandlerOK, InLine, Line, Handler
<1>2. /\ handler'[r].pc \in Line
      /\ \A q \in Requests : InLine(q) <=> handler[q].pc \in Line
  BY DEF InLine, Line
<1>3. CASE inFlight[s] = 0 /\ UNCHANGED <<handler, inFlight>>
  <2>1. r \in Enrolled(s)
    BY <1>2, <1>3 DEF Enrolled
  <2>2. IsFiniteSet(Enrolled(s)) /\ Cardinality(Enrolled(s)) = 0
    BY <1>1, <1>3 DEF CountInv
  <2>3. QED
    BY <2>1, <2>2, FS_EmptySet
<1>4. CASE Putting(a, s, k) /\ job'[a] = job[a]
  <2>1. Holds(a, s, k)
    BY <1>4 DEF Putting, Holds, AtWork
  <2>2. handler[r].of = s /\ handler[r].key = k /\ (InLine(r) \/ Joins(r))
    <3>1. handler'[r] = handler[r] \/ Further(r) \/ Joins(r)
      BY <1>0, <1>2 DEF HandsStep, HandStep, Others, Arrived, Leaves, Line
    <3>2. QED
      BY <1>2, <3>1 DEF Further, Joins
  <2>3. ~InLine(r)
    BY <1>4, <2>2 DEF NeverPutAwayInFlight, Putting
  <2>4. ~Joins(r)
    BY <2>1, <2>2 DEF Joins, Free
  <2>5. QED
    BY <2>2, <2>3, <2>4
<1>5. QED
  BY <1>0, <1>1, <1>3, <1>4, StartsPutting

(***************************************************************************)
(* Permits.                                                                *)
(***************************************************************************)
\* A permit is either free or with one wake, whatever becomes of the caller.
LEMMA NextPermit ==
  ASSUME TypeInv, JobInv, HandlerInv, PermitInv, [Next]_vars
  PROVE  PermitInv'
<1>0. /\ IsFiniteSet(Waking) /\ permits \in Nat /\ permits + Cardinality(Waking) = Parallel
      /\ Requests \subseteq Actor /\ Idle.pc = "none" /\ Cardinality(Waking) \in Nat
  BY Blanks, FS_CardinalityType DEF PermitInv, Actor
<1>1. CASE Waking' = Waking /\ permits' = permits
  BY <1>0, <1>1 DEF PermitInv
<1>2. ASSUME NEW r \in Requests, Start(r), permits > 0,
             handler[r].pc \in {"connect", "queued"}
      PROVE  PermitInv'
  <2>1. handler[r].of \in Sandboxes /\ job[r].pc = "none"
    BY <1>2 DEF HandlerInv, HandlerOK, Line
  <2>2. JobStep(r) /\ (\A b \in Actor \ {r} : job'[b] = job[b]) /\ permits' = permits - 1
    BY <1>2, <2>1, StartType DEF Start
  <2>3. job'[r].pc = "lock"
    <3>1. job'[r] = [Idle EXCEPT !.pc = "lock", !.op = "wake", !.of = handler[r].of,
                                 !.key = mutex[handler[r].of]]
      BY <1>2 DEF Start, TypeInv, Actor
    <3>2. QED
      BY <3>1 DEF Idle
  <2>4. r \notin Waking /\ Waking' = Waking \cup {r}
    BY <1>0, <2>1, <2>2, <2>3 DEF Waking
  <2>5. IsFiniteSet(Waking') /\ Cardinality(Waking') = Cardinality(Waking) + 1
    BY <1>0, <2>4, FS_AddElement
  <2>6. permits' \in Nat /\ permits' + Cardinality(Waking') = Parallel
    BY <1>0, <1>2, <2>2, <2>5
  <2>7. QED
    BY <2>5, <2>6 DEF PermitInv
<1>3. ASSUME NEW r \in Requests, Handle(r) \/ \E s \in Sandboxes : Arrive(r, s)
      PROVE  PermitInv'
  <2>1. \/ UNCHANGED <<job, permits>>
        \/ Start(r) /\ permits > 0 /\ handler[r].pc \in {"connect", "queued"}
    BY <1>3 DEF Handle, Arrive, Enroll, Serve, WakeNow, WakeQueues, WakeRefused, WakeDequeued,
       HandlerEnds, Cold
  <2>2. QED
    BY <1>1, <1>2, <2>1 DEF Waking
<1>4. ASSUME NEW a \in Actor, WorkDone(a) \/ WorkFails(a) PROVE PermitInv'
  <2>1. /\ job[a].pc = "work" /\ Finish(a)
        /\ permits' = IF a \in Requests THEN permits + 1 ELSE permits
    BY <1>4 DEF WorkDone, WorkFails, Finish
  <2>2. /\ a \in Requests => job'[a] = Idle
        /\ \A b \in Actor \ {a} : job'[b] = job[b]
    BY <1>4, <2>1, WorkJobs DEF Work, Finish, TypeInv, JobInv, JobOK
  <2>3. CASE a \in Requests
    <3>1. a \in Waking /\ Waking' = Waking \ {a}
      BY <1>0, <2>1, <2>2, <2>3 DEF Waking
    <3>2. IsFiniteSet(Waking') /\ Cardinality(Waking') = Cardinality(Waking) - 1
      BY <1>0, <3>1, FS_RemoveElement
    <3>3. permits' \in Nat /\ permits' + Cardinality(Waking') = Parallel
      BY <1>0, <2>1, <2>3, <3>2
    <3>4. QED
      BY <3>2, <3>3 DEF PermitInv
  <2>4. CASE a \notin Requests
    <3>1. Waking' = Waking
      BY <1>0, <2>2, <2>4 DEF Waking
    <3>2. QED
      BY <1>1, <2>1, <2>4, <3>1
  <2>5. QED
    BY <2>3, <2>4
<1>5. ASSUME NEW a \in Actor, \/ Begin(a) \/ SkipVictim(a) \/ TryVictim(a) \/ Evicted(a)
                              \/ \E v \in Sandboxes : ListVictim(a, v)
      PROVE  PermitInv'
  <2>1. permits' = permits /\ job[a].pc # "none"
    <3>1. CASE Begin(a) \/ SkipVictim(a) \/ TryVictim(a) \/ Evicted(a)
      BY <3>1 DEF Begin, SkipVictim, TryVictim, Evicted
    <3>2. ASSUME NEW v \in Sandboxes, ListVictim(a, v)
          PROVE  permits' = permits /\ job[a].pc # "none"
      BY <3>2 DEF ListVictim, Promoting
    <3>3. QED
      BY <1>5, <3>1, <3>2
  <2>2. job'[a].pc # "none"
    <3>1. CASE Begin(a) \/ SkipVictim(a) \/ TryVictim(a) \/ Evicted(a)
      BY <3>1, JobFurther DEF Begin, SkipVictim, TryVictim, Evicted
    <3>2. ASSUME NEW v \in Sandboxes, ListVictim(a, v) PROVE job'[a].pc # "none"
      BY <3>2 DEF ListVictim, TypeInv, Job
    <3>3. QED
      BY <1>5, <3>1, <3>2
  <2>3. \A b \in Actor \ {a} : job'[b] = job[b]
    BY <1>5, WorkJobs DEF Work
  <2>4. Waking' = Waking
    BY <1>0, <2>1, <2>2, <2>3 DEF Waking
  <2>5. QED
    BY <1>1, <2>1, <2>4
<1>6. CASE Manage \/ \E s \in Sandboxes : Command(s) \/ Swept(s)
  <2>1. permits' = permits
    BY <1>6 DEF Manage, LoopPutsOff, LoopSkips, LoopDestroys, LoopForgets, Command, Swept, TakeUp
  <2>2. \A r \in Requests : job'[r] = job[r]
    <3>1. ASSUME NEW r \in Requests PROVE r # Loop /\ r \notin Sandboxes
      BY WakeupsAssumption
    <3>2. job \in [Actor -> Job] /\ (job[Loop].pc # "none" => job[Loop].of \in Sandboxes)
      BY DEF TypeInv, JobInv, JobOK, Actor
    <3>3. CASE LoopDestroys
      BY <1>0, <3>1, <3>2, <3>3 DEF LoopDestroys
    <3>4. CASE ~LoopDestroys
      BY <1>0, <1>6, <3>1, <3>2, <3>4
      DEF Manage, LoopPutsOff, LoopSkips, LoopForgets, Command, Swept, TakeUp
    <3>5. QED
      BY <3>3, <3>4
  <2>3. QED
    BY <1>1, <2>1, <2>2 DEF Waking
<1>7. CASE UNCHANGED vars
  BY <1>1, <1>7 DEF vars, Waking
<1>8. QED
  BY <1>3, <1>4, <1>5, <1>6, <1>7 DEF Next, Work, AtRest

(***************************************************************************)
(* The theorems.                                                           *)
(***************************************************************************)
\* The inductive invariant of wake.rs: no two hold one lock, in_flight counts the
\* requests in line, every permit is free or with a wake, and nobody puts a
\* sandbox away under a lock with which a request in line was enrolled.
THEOREM WakeSafety == Spec => [](TypeInv /\ WakeInv)
<1>1. Init => TypeInv /\ WakeInv
  <2> SUFFICES ASSUME Init PROVE WakeInv
    BY InitType
  <2>1. /\ job = [a \in Actor |-> Idle] /\ handler = [r \in Requests |-> Away]
        /\ mutex = [s \in Sandboxes |-> 0] /\ inFlight = [s \in Sandboxes |-> 0]
        /\ permits = Parallel /\ Parallel \in Nat
    BY WakeupsAssumption DEF Init
  <2>2. /\ \A a \in Actor : job[a].pc = "none"
        /\ \A r \in Requests : handler[r].pc = "away" /\ job[r].pc = "none"
    BY <2>1, Blanks DEF Actor
  <2>3. LockInv
    <3>1. JobInv
      BY <2>2 DEF JobInv, JobOK
    <3>2. HandlerInv
      BY <2>2 DEF HandlerInv, HandlerOK, Line
    <3>3. Apart
      BY <2>2 DEF Apart, Holds, AtWork
    <3>4. QED
      BY <3>1, <3>2, <3>3 DEF LockInv
  <2>4. CountInv
    <3>1. \A s \in Sandboxes : Enrolled(s) = {}
      BY <2>2 DEF Enrolled, Line
    <3>2. QED
      BY <2>1, <3>1, FS_EmptySet DEF CountInv
  <2>5. PermitInv
    <3>1. Waking = {}
      BY <2>2 DEF Waking
    <3>2. QED
      BY <2>1, <3>1, FS_EmptySet DEF PermitInv
  <2>6. NeverPutAwayInFlight
    BY <2>2 DEF NeverPutAwayInFlight, InLine
  <2>7. QED
    BY <2>3, <2>4, <2>5, <2>6 DEF WakeInv
<1>2. TypeInv /\ WakeInv /\ [Next]_vars => TypeInv' /\ WakeInv'
  <2> SUFFICES ASSUME TypeInv, WakeInv, [Next]_vars PROVE TypeInv' /\ WakeInv'
    OBVIOUS
  <2> USE DEF WakeInv, LockInv
  <2>1. TypeInv'
    BY NextType
  <2>2. JobInv' /\ HandlerInv'
    BY NextOK
  <2>3. Apart'
    BY NextApart
  <2>4. CountInv' /\ PermitInv' /\ NeverPutAwayInFlight'
    BY NextCount, NextPermit, NextPutAway
  <2>5. QED
    BY <2>1, <2>2, <2>3, <2>4
<1>3. QED
  BY <1>1, <1>2, PTL DEF Spec

\* Wakeups::locks: however requests, commands, evictions, reaps and destroys
\* interleave, two actors run runsc on one sandbox only when one of them works
\* under a lock that forget() has dropped.
THEOREM OneActor == Spec => []ExclusiveWhileKnown
<1>1. TypeInv /\ WakeInv => ExclusiveWhileKnown
  BY OneAtATime DEF WakeInv, LockInv
<1>2. QED
  BY <1>1, WakeSafety, PTL

\* hold and protected: no sandbox is put away with a request in flight that was
\* enrolled under the lock it is put away with.
THEOREM NotFromUnder == Spec => []NeverPutAwayInFlight
<1>1. WakeInv => NeverPutAwayInFlight
  BY DEF WakeInv
<1>2. QED
  BY <1>1, WakeSafety, PTL

\* restores: at most as many wakes as there are permits, with any number of
\* requests and any of their callers gone.
THEOREM PermitsBound == Spec => []RestoresBounded
<1>1. WakeInv => RestoresBounded
  <2> SUFFICES ASSUME PermitInv PROVE Cardinality(Waking) <= Parallel
    BY DEF WakeInv, RestoresBounded, Waking
  <2>1. Cardinality(Waking) \in Nat /\ Parallel \in Nat
    BY FS_CardinalityType, WakeupsAssumption DEF PermitInv
  <2>2. QED
    BY <2>1 DEF PermitInv
<1>2. QED
  BY <1>1, WakeSafety, PTL

-----------------------------------------------------------------------------
(***************************************************************************)
(* SandboxDisk.                                                            *)
(***************************************************************************)

(***************************************************************************)
(* Types.                                                                  *)
(***************************************************************************)
Contents == Nat \cup {None}
Ages     == {"none", "young", "old"}

Walking   == {"walk", "forget", "stale", "stop", "publish", "note",
              "archive", "drop", "teardown"}
Creating  == {"prepare", "boot"}
Removing  == {"kill", "rmimage", "rmlayer", "rmarchive"}

FileType ==
  /\ row \in Tier \cup {NoRow} /\ want \in Tier
  /\ proc \in {"none", "up", "frozen"}
  /\ memory \in Contents /\ layer \in Contents /\ image \in Contents
  /\ attempt \in Contents /\ archive \in Contents /\ promised \in Contents
  /\ done \in Nat
  /\ bundle \in Ages /\ marker \in Ages
  /\ pc \in {"free", "unkeep"} \cup Walking \cup Creating \cup Removing
  /\ lockedBy \in {"loop", "thread"} /\ loop \in {"idle", "reap", "settle"}

FlagType == mounted \in BOOLEAN /\ alive \in BOOLEAN /\ mishaps \subseteq Mishap

DiskTypeInv == FileType /\ FlagType

(***************************************************************************)
(* Who has the lock, and what for.                                         *)
(***************************************************************************)
\* The loop draws no list while it has the lock itself; only it creates, and
\* only it walks to Detached.
DiskLockInv ==
  /\ lockedBy = "loop" /\ pc # "free" => loop = "idle"
  /\ pc \in Creating => lockedBy = "loop"
  /\ pc \in Walking /\ want = Detached => lockedBy = "loop"
  /\ pc \in {"archive", "drop", "teardown"} => want = Detached

(***************************************************************************)
(* Where the program may be at each step.                                  *)
(***************************************************************************)
LayerInv ==
  /\ mounted => layer # None
  /\ mishaps \cap {"bared", "unkilled"} = {} /\ proc # "none" => mounted
  /\ pc = "boot" => mounted
  /\ pc \in {"publish", "archive", "drop", "teardown"} => proc = "none"
  /\ pc \in {"rmimage", "rmlayer", "rmarchive"} /\ "unkilled" \notin mishaps => proc = "none"

\* What is listed has a bundle.
BundleInv ==
  /\ image # None \/ pc \in Walking \/ pc = "boot" => bundle # "none"
  /\ pc \in {"teardown", "rmlayer", "rmarchive"} => image = None

\* The state is owed: the program was started and nothing has lost it.
Owed == alive /\ mishaps \subseteq {"unnoted"}

\* While it is owed, a stopped program is in its image, or in the attempt about
\* to be published, and no restore of it is still to be settled.
StoppedInv ==
  /\ Owed => layer = done /\ bundle # "none"
  /\ Owed /\ proc # "none" => memory = done
  /\ Owed /\ proc = "none" =>
       /\ marker = "none"
       /\ IF pc = "publish" THEN attempt = done ELSE image = done

\* Steps that are not taken on a stopped program whose state is owed.
StepInv ==
  /\ pc \in {"forget", "stale", "stop", "note", "unkeep"} /\ Owed => proc # "none"
  /\ pc \in Creating => ~Owed /\ image = None
  /\ pc \in {"teardown", "rmimage", "rmlayer", "rmarchive"} => ~Owed
  /\ pc \in {"stale", "stop", "publish"} => marker = "none"
  /\ pc \in {"stop", "publish"} => image = None

\* From a detach to the next start there is the archive and nothing else that
\* would be taken for a sandbox.
PromiseInv ==
  promised # None =>
    /\ archive = promised /\ image = None /\ proc = "none" /\ loop = "idle"
    /\ pc \in {"free", "teardown"} \cup Creating
    /\ pc \in {"free", "prepare"} => bundle = "none" /\ ~mounted

DiskInv == DiskLockInv /\ LayerInv /\ BundleInv /\ StoppedInv /\ StepInv /\ ImageAccounted /\ PromiseInv

(***************************************************************************)
(* The invariant is kept, operation by operation.                          *)
(***************************************************************************)
\* A new row: nothing is on the node yet.
LEMMA InitDisk == DiskInit => DiskTypeInv /\ DiskInv
<1> SUFFICES ASSUME DiskInit PROVE DiskTypeInv /\ DiskInv
  OBVIOUS
<1>1. DiskTypeInv
  <2>1. /\ row \in Tier /\ want \in Tier /\ None \in Contents /\ done \in Nat
    BY DEF DiskInit, Tier, Hot, Detached, None, Contents
  <2>2. QED
    BY <2>1 DEF DiskInit, DiskTypeInv, FileType, FlagType, Ages
<1>2. DiskInv
  BY DEF DiskInit, DiskInv, DiskLockInv, LayerInv, BundleInv, StoppedInv, Owed, StepInv, ImageAccounted, PromiseInv,
         None, Walking, Creating
<1>3. QED
  BY <1>1, <1>2

\* What the master, the gateway and the program do.
LEMMA AskedKeeps ==
  ASSUME DiskTypeInv, DiskInv,
         \/ \E t \in Tier : Ask(t)
         \/ Delete \/ Progress \/ Commands \/ GateMoves(Hot) \/ GateMoves(Snapshot)
  PROVE  DiskTypeInv' /\ DiskInv'
<1> USE DEF files, process, history, task, Observed, Hot, Frozen, Snapshot, Detached, None, NoRow,
            Tier, Contents, Ages, Walking, Creating, Removing, FileType, FlagType, DiskTypeInv,
            DiskInv, DiskLockInv, LayerInv, BundleInv, StoppedInv, Owed, StepInv, ImageAccounted,
            PromiseInv, Mishap
<1>1. ASSUME NEW t \in Tier, Ask(t) PROVE DiskTypeInv' /\ DiskInv'
  BY <1>1 DEF Ask, Spend
<1>2. CASE Delete
  BY <1>2 DEF Delete, Spend
<1>3. CASE Progress
  BY <1>3 DEF Progress, Spend
<1>4. CASE StartCreate
  BY <1>4 DEF StartCreate, Commanded
<1>5. CASE StartSetTier
  BY <1>5 DEF StartSetTier, Commanded
<1>6. CASE StartDestroy
  BY <1>6 DEF StartDestroy, Commanded
<1>7. CASE GateMoves(Hot)
  BY <1>7 DEF GateMoves, Spend
<1>8. CASE GateMoves(Snapshot)
  BY <1>8 DEF GateMoves, Spend
<1>9. QED
  BY <1>1, <1>2, <1>3, <1>4, <1>5, <1>6, <1>7, <1>8 DEF Commands

\* set_tier, leg by leg.
LEMMA WalkKeeps ==
  ASSUME DiskTypeInv, DiskInv,
         \/ WalkEnds \/ WalkFreezes \/ WalkThaws \/ WalkCheckpoints \/ WalkRestores
         \/ WalkRefused \/ WalkDetaches \/ WalkFails
  PROVE  DiskTypeInv' /\ DiskInv'
<1> USE DEF files, process, history, task, Observed, Hot, Frozen, Snapshot, Detached, None, NoRow,
            Tier, Contents, Ages, Walking, Creating, Removing, FileType, FlagType, DiskTypeInv,
            DiskInv, DiskLockInv, LayerInv, BundleInv, StoppedInv, Owed, StepInv, ImageAccounted,
            PromiseInv, Mishap
<1>1. CASE WalkEnds
  BY <1>1 DEF WalkEnds
<1>2. CASE WalkFreezes
  BY <1>2 DEF WalkFreezes
<1>3. CASE WalkThaws
  BY <1>3 DEF WalkThaws
<1>4. CASE WalkCheckpoints
  BY <1>4 DEF WalkCheckpoints
<1>5. CASE WalkRestores
  BY <1>5 DEF WalkRestores, MayRestore
<1>6. CASE WalkRefused
  BY <1>6 DEF WalkRefused, MayRestore
<1>7. CASE WalkDetaches
  <2>1. FileType'
    BY <1>7 DEF WalkDetaches
  <2>2. FlagType'
    BY <1>7 DEF WalkDetaches
  <2>3. DiskLockInv'
    BY <1>7 DEF WalkDetaches
  <2>4. LayerInv'
    BY <1>7 DEF WalkDetaches
  <2>5. BundleInv'
    BY <1>7 DEF WalkDetaches
  <2>6. StoppedInv'
    BY <1>7 DEF WalkDetaches
  <2>7. StepInv'
    BY <1>7 DEF WalkDetaches
  <2>8. ImageAccounted'
    BY <1>7 DEF WalkDetaches
  <2>9. PromiseInv'
    BY <1>7 DEF WalkDetaches
  <2>10. QED
    BY <2>1, <2>2, <2>3, <2>4, <2>5, <2>6, <2>7, <2>8, <2>9
<1>8. CASE WalkFails
  BY <1>8 DEF WalkFails, Spend
<1>9. QED
  BY <1>1, <1>2, <1>3, <1>4, <1>5, <1>6, <1>7, <1>8

\* checkpoint, step by step, and where it fails.
LEMMA CheckpointKeeps ==
  ASSUME DiskTypeInv, DiskInv,
         Forget \/ ClearStale \/ ClearStaleFails \/ Stop \/ StopFails \/ Publish \/ PublishFails
  PROVE  DiskTypeInv' /\ DiskInv'
<1> USE DEF files, process, history, task, Observed, Hot, Frozen, Snapshot, Detached, None, NoRow,
            Tier, Contents, Ages, Walking, Creating, Removing, FileType, FlagType, DiskTypeInv,
            DiskInv, DiskLockInv, LayerInv, BundleInv, StoppedInv, Owed, StepInv, ImageAccounted,
            PromiseInv, Mishap
<1>1. CASE Forget
  BY <1>1 DEF Forget
<1>2. CASE ClearStale
  BY <1>2 DEF ClearStale
<1>3. CASE Stop
  BY <1>3 DEF Stop
<1>4. CASE StopFails
  <2>1. FileType'
    BY <1>4 DEF StopFails, Spend
  <2>2. FlagType'
    BY <1>4 DEF StopFails, Spend
  <2>3. DiskLockInv'
    BY <1>4 DEF StopFails, Spend
  <2>4. LayerInv'
    BY <1>4 DEF StopFails, Spend
  <2>5. BundleInv'
    BY <1>4 DEF StopFails, Spend
  <2>6. StoppedInv'
    BY <1>4 DEF StopFails, Spend
  <2>7. StepInv'
    BY <1>4 DEF StopFails, Spend
  <2>8. ImageAccounted'
    BY <1>4 DEF StopFails, Spend
  <2>9. PromiseInv'
    BY <1>4 DEF StopFails, Spend
  <2>10. QED
    BY <2>1, <2>2, <2>3, <2>4, <2>5, <2>6, <2>7, <2>8, <2>9
<1>5. CASE Publish
  BY <1>5 DEF Publish
<1>6. CASE PublishFails
  BY <1>6 DEF PublishFails, Spend
<1>7. CASE ClearStaleFails
  BY <1>7 DEF ClearStaleFails, Spend
<1>8. QED
  BY <1>1, <1>2, <1>3, <1>4, <1>5, <1>6, <1>7

\* The end of a restore, and settle_restores.
LEMMA SettleKeeps ==
  ASSUME DiskTypeInv, DiskInv,
         NoteRestored \/ NoteFails \/ ListLasted \/ Settle \/ Unkeep
  PROVE  DiskTypeInv' /\ DiskInv'
<1> USE DEF files, process, history, task, Observed, Hot, Frozen, Snapshot, Detached, None, NoRow,
            Tier, Contents, Ages, Walking, Creating, Removing, FileType, FlagType, DiskTypeInv,
            DiskInv, DiskLockInv, LayerInv, BundleInv, StoppedInv, Owed, StepInv, ImageAccounted,
            PromiseInv, Mishap
<1>1. CASE NoteRestored
  BY <1>1 DEF NoteRestored
<1>2. CASE ListLasted
  BY <1>2 DEF ListLasted, Listing
<1>3. CASE Settle
  BY <1>3 DEF Settle
<1>4. CASE Unkeep
  BY <1>4 DEF Unkeep
<1>5. CASE NoteFails
  BY <1>5 DEF NoteFails, Spend
<1>6. QED
  BY <1>1, <1>2, <1>3, <1>4, <1>5

\* detach, and where it fails.
LEMMA DetachKeeps ==
  ASSUME DiskTypeInv, DiskInv,
         Archive \/ ArchiveFails \/ DropImage \/ Teardown
  PROVE  DiskTypeInv' /\ DiskInv'
<1> USE DEF files, process, history, task, Observed, Hot, Frozen, Snapshot, Detached, None, NoRow,
            Tier, Contents, Ages, Walking, Creating, Removing, FileType, FlagType, DiskTypeInv,
            DiskInv, DiskLockInv, LayerInv, BundleInv, StoppedInv, Owed, StepInv, ImageAccounted,
            PromiseInv, Mishap
<1>1. CASE Archive
  BY <1>1 DEF Archive
<1>2. CASE ArchiveFails
  BY <1>2 DEF ArchiveFails, Spend
<1>3. CASE DropImage
  <2>1. FileType'
    BY <1>3 DEF DropImage
  <2>2. FlagType'
    BY <1>3 DEF DropImage
  <2>3. DiskLockInv'
    BY <1>3 DEF DropImage
  <2>4. LayerInv'
    BY <1>3 DEF DropImage
  <2>5. BundleInv'
    BY <1>3 DEF DropImage
  <2>6. StoppedInv'
    BY <1>3 DEF DropImage
  <2>7. StepInv'
    BY <1>3 DEF DropImage
  <2>8. ImageAccounted'
    BY <1>3 DEF DropImage
  <2>9. PromiseInv'
    BY <1>3 DEF DropImage
  <2>10. QED
    BY <2>1, <2>2, <2>3, <2>4, <2>5, <2>6, <2>7, <2>8, <2>9
<1>4. CASE Teardown
  <2>1. FileType'
    BY <1>4 DEF Teardown
  <2>2. FlagType'
    BY <1>4 DEF Teardown
  <2>3. DiskLockInv'
    BY <1>4 DEF Teardown
  <2>4. LayerInv'
    BY <1>4 DEF Teardown
  <2>5. BundleInv'
    BY <1>4 DEF Teardown
  <2>6. StoppedInv'
    BY <1>4 DEF Teardown
  <2>7. StepInv'
    BY <1>4 DEF Teardown
  <2>8. ImageAccounted'
    BY <1>4 DEF Teardown
  <2>9. PromiseInv'
    BY <1>4 DEF Teardown
  <2>10. QED
    BY <2>1, <2>2, <2>3, <2>4, <2>5, <2>6, <2>7, <2>8, <2>9
<1>5. QED
  BY <1>1, <1>2, <1>3, <1>4

\* create, and where it fails.
LEMMA CreateKeeps ==
  ASSUME DiskTypeInv, DiskInv,
         Prepare \/ Boot \/ BootFails
  PROVE  DiskTypeInv' /\ DiskInv'
<1> USE DEF files, process, history, task, Observed, Hot, Frozen, Snapshot, Detached, None, NoRow,
            Tier, Contents, Ages, Walking, Creating, Removing, FileType, FlagType, DiskTypeInv,
            DiskInv, DiskLockInv, LayerInv, BundleInv, StoppedInv, Owed, StepInv, ImageAccounted,
            PromiseInv, Mishap
<1>1. CASE Prepare
  BY <1>1 DEF Prepare
<1>2. CASE Boot
  BY <1>2 DEF Boot
<1>3. CASE BootFails
  BY <1>3 DEF BootFails, Spend
<1>4. QED
  BY <1>1, <1>2, <1>3

\* destroy, and reap_dead, which lists without the lock.
LEMMA DestroyKeeps ==
  ASSUME DiskTypeInv, DiskInv,
         ListDead \/ Reap \/ Kill \/ KillFails \/ RemoveImage \/ RemoveLayer \/ RemoveArchive
  PROVE  DiskTypeInv' /\ DiskInv'
<1> USE DEF files, process, history, task, Observed, Hot, Frozen, Snapshot, Detached, None, NoRow,
            Tier, Contents, Ages, Walking, Creating, Removing, FileType, FlagType, DiskTypeInv,
            DiskInv, DiskLockInv, LayerInv, BundleInv, StoppedInv, Owed, StepInv, ImageAccounted,
            PromiseInv, Mishap
<1>1. CASE ListDead
  BY <1>1 DEF ListDead, Listing
<1>2. CASE Reap
  BY <1>2 DEF Reap
<1>3. CASE Kill
  <2>0. ~Owed'
    <3>1. CASE Observed = None
      <4>1. Owed => proc = "none" /\ image = None
        BY <3>1
      <4>2. Owed => image \in Nat
        BY <1>3, <4>1 DEF Kill
      <4>3. ~Owed
        BY <4>1, <4>2
      <4>4. QED
        BY <1>3, <3>1, <4>3 DEF Kill, GivenUp
    <3>2. CASE Observed # None
      BY <1>3, <3>2 DEF Kill, GivenUp
    <3>3. QED
      BY <3>1, <3>2
  <2>1. FileType'
    BY <1>3 DEF Kill, GivenUp
  <2>2. FlagType'
    BY <1>3 DEF Kill, GivenUp
  <2>3. DiskLockInv'
    BY <1>3 DEF Kill, GivenUp
  <2>4. LayerInv'
    BY <1>3 DEF Kill, GivenUp
  <2>5. BundleInv'
    BY <1>3 DEF Kill, GivenUp
  <2>6. StoppedInv'
    BY <1>3, <2>0 DEF Kill, GivenUp
  <2>7. StepInv'
    BY <1>3, <2>0 DEF Kill, GivenUp
  <2>8. ImageAccounted'
    BY <1>3 DEF Kill, GivenUp
  <2>9. PromiseInv'
    BY <1>3 DEF Kill, GivenUp
  <2>10. QED
    BY <2>1, <2>2, <2>3, <2>4, <2>5, <2>6, <2>7, <2>8, <2>9
<1>4. CASE RemoveImage
  BY <1>4 DEF RemoveImage
<1>5. CASE RemoveLayer
  <2>1. FileType'
    BY <1>5 DEF RemoveLayer
  <2>2. FlagType'
    BY <1>5 DEF RemoveLayer
  <2>3. DiskLockInv'
    BY <1>5 DEF RemoveLayer
  <2>4. LayerInv'
    BY <1>5 DEF RemoveLayer
  <2>5. BundleInv'
    BY <1>5 DEF RemoveLayer
  <2>6. StoppedInv'
    BY <1>5 DEF RemoveLayer
  <2>7. StepInv'
    BY <1>5 DEF RemoveLayer
  <2>8. ImageAccounted'
    BY <1>5 DEF RemoveLayer
  <2>9. PromiseInv'
    BY <1>5 DEF RemoveLayer
  <2>10. QED
    BY <2>1, <2>2, <2>3, <2>4, <2>5, <2>6, <2>7, <2>8, <2>9
<1>6. CASE RemoveArchive
  BY <1>6 DEF RemoveArchive
<1>7. CASE KillFails
  <2>1. FileType'
    BY <1>7 DEF KillFails, Spend
  <2>2. FlagType'
    BY <1>7 DEF KillFails, Spend
  <2>3. DiskLockInv'
    BY <1>7 DEF KillFails, Spend
  <2>4. LayerInv'
    BY <1>7 DEF KillFails, Spend
  <2>5. BundleInv'
    BY <1>7 DEF KillFails, Spend
  <2>6. StoppedInv'
    BY <1>7 DEF KillFails, Spend
  <2>7. StepInv'
    BY <1>7 DEF KillFails, Spend
  <2>8. ImageAccounted'
    BY <1>7 DEF KillFails, Spend
  <2>9. PromiseInv'
    BY <1>7 DEF KillFails, Spend
  <2>10. QED
    BY <2>1, <2>2, <2>3, <2>4, <2>5, <2>6, <2>7, <2>8, <2>9
<1>8. QED
  BY <1>1, <1>2, <1>3, <1>4, <1>5, <1>6, <1>7

\* Time, deaths and restarts.
LEMMA FaultKeeps ==
  ASSUME DiskTypeInv, DiskInv,
         BundleAges \/ MarkerAges \/ Dies \/ NodeRestarts \/ DiskAtRest
  PROVE  DiskTypeInv' /\ DiskInv'
<1> USE DEF files, process, history, task, Observed, Hot, Frozen, Snapshot, Detached, None, NoRow,
            Tier, Contents, Ages, Walking, Creating, Removing, FileType, FlagType, DiskTypeInv,
            DiskInv, DiskLockInv, LayerInv, BundleInv, StoppedInv, Owed, StepInv, ImageAccounted,
            PromiseInv, Mishap
<1>1. CASE BundleAges
  BY <1>1 DEF BundleAges
<1>2. CASE MarkerAges
  BY <1>2 DEF MarkerAges
<1>3. CASE Dies
  BY <1>3 DEF Dies, Spend
<1>4. CASE NodeRestarts
  <2>1. FileType'
    BY <1>4 DEF NodeRestarts, Spend
  <2>2. FlagType'
    BY <1>4 DEF NodeRestarts, Spend
  <2>3. DiskLockInv'
    BY <1>4 DEF NodeRestarts, Spend
  <2>4. LayerInv'
    BY <1>4 DEF NodeRestarts, Spend
  <2>5. BundleInv'
    BY <1>4 DEF NodeRestarts, Spend
  <2>6. StoppedInv'
    BY <1>4 DEF NodeRestarts, Spend
  <2>7. StepInv'
    BY <1>4 DEF NodeRestarts, Spend
  <2>8. ImageAccounted'
    BY <1>4 DEF NodeRestarts, Spend
  <2>9. PromiseInv'
    BY <1>4 DEF NodeRestarts, Spend
  <2>10. QED
    BY <2>1, <2>2, <2>3, <2>4, <2>5, <2>6, <2>7, <2>8, <2>9
<1>5. CASE DiskAtRest
  BY <1>5 DEF DiskAtRest, diskVars
<1>6. QED
  BY <1>1, <1>2, <1>3, <1>4, <1>5

\* Every step.
LEMMA NextDisk ==
  ASSUME DiskTypeInv, DiskInv, [DiskNext]_diskVars
  PROVE  DiskTypeInv' /\ DiskInv'
<1>1. CASE DiskNext
  BY <1>1, AskedKeeps, WalkKeeps, CheckpointKeeps, SettleKeeps, DetachKeeps, CreateKeeps,
     DestroyKeeps, FaultKeeps
  DEF DiskNext, Step, Lists
<1>2. CASE UNCHANGED diskVars
  BY <1>2 DEF diskVars, files, process, history, task, DiskTypeInv, FileType, FlagType, DiskInv, DiskLockInv,
              LayerInv, BundleInv, StoppedInv, Owed, StepInv, ImageAccounted, PromiseInv
<1>3. QED
  BY <1>1, <1>2

(***************************************************************************)
(* Theorems.                                                               *)
(***************************************************************************)
\* Through every step of create, set_tier and destroy, and whatever dies, fails
\* or restarts between two of them, the files and the process agree.
THEOREM DiskSafety == DiskSpec => [](DiskTypeInv /\ DiskInv)
<1>1. DiskInit => DiskTypeInv /\ DiskInv
  BY InitDisk
<1>2. DiskTypeInv /\ DiskInv /\ [DiskNext]_diskVars => (DiskTypeInv /\ DiskInv)'
  BY NextDisk
<1>3. QED
  BY <1>1, <1>2, PTL DEF DiskSpec

\* A running program has its own layer mounted under it, unless a destroy has
\* failed to kill it or it was restored after a detach that failed: detach
\* unmounts, and destroy removes, only with the program stopped otherwise.
THEOREM OnItsLayer == DiskSpec => []RunsOnItsLayer
<1>1. DiskInv => RunsOnItsLayer
  BY DEF DiskInv, LayerInv, RunsOnItsLayer
<1>2. QED
  BY <1>1, DiskSafety, PTL

\* No tier change loses what the program has done, or brings back an older
\* state of it: checkpoint clears the stale image before it stops the program,
\* and settle_restores, which lists without the lock, removes the image of no
\* program that has been stopped since.  What does lose it is in MemoryKept.
THEOREM NothingForgotten == DiskSpec => []MemoryKept
<1>1. DiskInv => MemoryKept
  BY DEF DiskInv, StoppedInv, Owed, MemoryKept
<1>2. QED
  BY <1>1, DiskSafety, PTL

\* An image beside a running program is one whose restore is noted, so that it
\* will be removed, unless the note could not be written, the image could not be
\* removed once its note was, or a restart came between the two.
THEOREM ImagesNoted == DiskSpec => []ImageAccounted
<1>1. DiskInv => ImageAccounted
  BY DEF DiskInv
<1>2. QED
  BY <1>1, DiskSafety, PTL

\* What detach has put on the volume stays there until the sandbox comes back:
\* reap_dead, whose list may be old when it takes the lock, does not take a
\* detached sandbox for a dead one.
THEOREM ArchiveStays == DiskSpec => []DetachedKept
<1>1. DiskInv => DetachedKept
  BY DEF DiskInv, PromiseInv, DetachedKept
<1>2. QED
  BY <1>1, DiskSafety, PTL
=============================================================================
