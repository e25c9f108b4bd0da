------------------------------- MODULE Driver -------------------------------
(***************************************************************************)
(* The channel between the master and one node, in both of its modes: the  *)
(* node polls the master, or the master's driver syncs a node that listens.*)
(* Over it go the commands diff asks for, which are issued again until     *)
(* they are done, and execs, which are taken from a queue once.  Back come *)
(* results, failures and the traffic of the node's gateway.                *)
(*                                                                         *)
(* A sandbox is hot or cold; what a tier change does is SandboxDisk's, and *)
(* quarantines, evictions and rows that come and go are Reconcile's.  A    *)
(* wait ends by its timeout whether or not a waker cut it short, so the    *)
(* waker is left out here.                                                 *)
(***************************************************************************)
EXTENDS Naturals, Sequences, SequencesExt, FiniteSets

CONSTANTS
  Sandboxes, Execs,
  Modes,        \* the modes this instance looks at
  MaxFailures,  \* attempts before the master stops asking
  Limits        \* how often each thing of Budget may happen

\* Bounds: tier changes asked for; requests at the gateway; commands that
\* fail; messages lost, and driver or master restarts; early reports lost.
Budget == {"ask", "request", "fail", "fault", "early"}

ASSUME DriverAssumption ==
  /\ IsFiniteSet(Sandboxes)
  /\ Modes \subseteq {"poll", "drive"} /\ Modes # {}
  /\ MaxFailures \in Nat \ {0}
  /\ Limits \in [Budget -> Nat]

VARIABLES
  mode,
  \* The master.
  goal,       \* the tier each row asks for
  attempts,   \* the failures recorded on each row
  queue,      \* exec_queue of this node
  call,       \* the callers: open is an entry of pending_exec
  driver,     \* the driver's loop
  \* The connection: a request, a parked poll or an answer.
  wire,
  early,      \* the early report under way
  \* The node.
  have,       \* the tier each sandbox is at
  book,       \* failing: attempts in a row
  backing,    \* the sandboxes whose retry_at is still to come
  deferred,   \* what the poll loop is putting off
  job,        \* the batch under way
  unreported, \* the sandboxes with traffic to report
  woke,       \* the notification report_wakes waits for
  \* History.
  ran,        \* how often the node has run each exec
  streak,     \* failures in a row of what the row asks for
  owed,       \* requests no report has told of, but for those in a report that was lost
  lost,       \* execs that were in a message that was lost
  skipped,    \* execs passed over because their sandbox was backing off
  spent

master  == <<goal, attempts, queue, call>>
link    == <<driver, wire>>
node    == <<have, book, backing, deferred, job>>
traffic == <<unreported, woke, early, owed>>
history == <<ran, streak, lost, skipped>>
vars    == <<mode, master, link, node, traffic, history, spent>>

Within(b) == spent[b] < Limits[b]
Spend(b)  == spent' = [spent EXCEPT ![b] = @ + 1]

NoWire == [k |-> "none"]
NoEarly == [ids |-> {}]
NoJob  == [on |-> FALSE]
Fresh  == [at |-> "ready", some |-> FALSE, cmds |-> <<>>]

Exec(e, s) == [k |-> "exec", id |-> s, e |-> e]

IdsIn(cmds)   == {c.id : c \in Range(cmds)}
ExecsIn(cmds) == {c.e : c \in {d \in Range(cmds) : d.k = "exec"}}

\* Every exec somewhere in a message or a batch, on either side.
ExecsCarried ==
  UNION {IF wire.k \in {"reply", "sync"} THEN ExecsIn(wire.cmds) ELSE {},
         IF wire.k = "answer" THEN wire.res ELSE {},
         IF driver.at = "ready" THEN ExecsIn(driver.cmds) ELSE {},
         IF job.on THEN ExecsIn(job.rest) \cup job.res ELSE {}}

\* The traffic in a report on its way to be applied.
TrafficCarried == IF wire.k \in {"poll", "answer"} THEN wire.rep.traffic ELSE {}

Init ==
  /\ mode \in Modes
  /\ goal = [s \in Sandboxes |-> "hot"] /\ have = goal
  /\ attempts = [s \in Sandboxes |-> 0] /\ book = attempts /\ streak = attempts
  /\ queue = <<>> /\ call = [e \in Execs |-> "idle"]
  /\ driver = Fresh /\ wire = NoWire /\ job = NoJob
  /\ backing = {} /\ deferred = {}
  /\ unreported = {} /\ woke = FALSE /\ early = NoEarly /\ owed = {}
  /\ ran = [e \in Execs |-> 0] /\ lost = {} /\ skipped = {}
  /\ spent = [b \in Budget |-> 0]

-----------------------------------------------------------------------------
(* Callers of the API.                                                     *)

\* set_tier, for what diff then asks of the node.
AskTier(s) ==
  /\ Within("ask") /\ Spend("ask")
  /\ goal' = [goal EXCEPT ![s] = IF @ = "hot" THEN "cold" ELSE "hot"]
  /\ streak' = [streak EXCEPT ![s] = 0]
  /\ UNCHANGED <<mode, attempts, queue, call, link, node, traffic, ran, lost, skipped>>

\* run_exec: refused unless desired state says hot; else the caller is noted,
\* and then the command queued.
RunExec(e, s) ==
  /\ call[e] = "idle" /\ goal[s] = "hot"
  /\ call' = [call EXCEPT ![e] = "open"]
  /\ queue' = Append(queue, Exec(e, s))
  /\ UNCHANGED <<mode, goal, attempts, link, node, traffic, history, spent>>

\* run_exec's budget runs out.  The command stays wherever it is.
ExecGivesUp(e) ==
  /\ call[e] = "open"
  /\ call' = [call EXCEPT ![e] = "gone"]
  /\ UNCHANGED <<mode, goal, attempts, queue, link, node, traffic, history, spent>>

\* deliver_result, for each of es: nobody waiting is nobody told.
Deliver(es) ==
  call' = [e \in Execs |-> IF e \in es /\ call[e] = "open" THEN "answered" ELSE call[e]]

-----------------------------------------------------------------------------
(* What the master does with a report, in either mode.                     *)

\* record_failures: a row keeps the node's count, and loses it when the node
\* no longer lists it.
RecordFailures(rep) == attempts' = rep.fails

\* Mutant: traffic of a sandbox the report shows cold is passed over.
ApplyTrafficServing(ids, at) ==
  /\ goal' = [s \in Sandboxes |->
                IF s \in ids /\ at[s] = "hot" THEN "hot" ELSE goal[s]]
  /\ owed' = owed \ {s \in ids : at[s] = "hot"}

\* apply_traffic: a request moves the idle clock, and makes Hot the desired
\* tier of a sandbox the same report shows serving.
ApplyTraffic(ids, at) ==
  /\ goal' = [s \in Sandboxes |->
                IF s \in ids /\ at[s] = "hot" THEN "hot" ELSE goal[s]]
  /\ owed' = owed \ ids

\* History: a new count starts for a row that is quarantined, or that traffic
\* has made ask for something else.
StreakAfter(g, att) ==
  [s \in Sandboxes |->
     IF g[s] # goal[s] \/ att[s] >= MaxFailures THEN 0 ELSE streak[s]]

\* diff: a command for every row that has not converged and is not
\* quarantined, against what the report shows.
Diff(g, att, at) ==
  {[k |-> "set", id |-> s, to |-> g[s]] :
     s \in {t \in Sandboxes : g[t] # at[t] /\ att[t] < MaxFailures}}

\* leave_out_deferred: what the node said it is putting off, but for what has
\* come due while the poll was parked.
LeaveOut(cmds, off) == {c \in cmds : c.id \notin off}

\* take_execs: every exec queued goes out after what diff asked for.
WithExecs(cmds) == SetToSeq(cmds) \o queue

\* next_batch: diff, and then every exec queued.
NextBatch(g, att, at) == WithExecs(Diff(g, att, at))

-----------------------------------------------------------------------------
(* The node runs a batch: poll_once and sync share run_group and run_one.  *)

StartJob(cmds, some) ==
  job' = [on |-> TRUE, some |-> some, rest |-> cmds, asked |-> IdsIn(cmds),
          res |-> {}, heard |-> TRUE]

Rest == [job EXCEPT !.rest = Tail(@)]

\* run_one: a sandbox whose retry is still to come is passed over, whatever
\* the command.  The poll loop notes it as put off.
PassOver ==
  /\ job.on /\ job.rest # <<>> /\ Head(job.rest).id \in backing
  /\ job' = Rest
  /\ deferred' = IF mode = "poll" THEN deferred \cup {Head(job.rest).id} ELSE deferred
  /\ skipped' = skipped \cup ExecsIn(<<Head(job.rest)>>)
  /\ UNCHANGED <<mode, master, link, have, book, backing, traffic, ran, streak,
                 lost, spent>>

\* run_one: a tier change that works leaves the failure book.
RunSet ==
  /\ job.on /\ job.rest # <<>>
  /\ LET c == Head(job.rest)
     IN /\ c.k = "set" /\ c.id \notin backing
        /\ have' = [have EXCEPT ![c.id] = c.to]
        /\ book' = [book EXCEPT ![c.id] = 0]
        /\ streak' = [streak EXCEPT ![c.id] = 0]
  /\ job' = Rest
  /\ UNCHANGED <<mode, master, link, backing, deferred, traffic, ran, lost,
                 skipped, spent>>

\* run_one: one that fails is counted, and retried no sooner than its backoff.
FailSet ==
  /\ job.on /\ job.rest # <<>> /\ Within("fail") /\ Spend("fail")
  /\ LET c == Head(job.rest)
     IN /\ c.k = "set" /\ c.id \notin backing
        /\ book' = [book EXCEPT ![c.id] = @ + 1]
        /\ streak' = [streak EXCEPT ![c.id] =
                        IF c.to = goal[c.id] /\ have[c.id] # c.to THEN @ + 1 ELSE @]
        /\ backing' = backing \cup {c.id}
        /\ deferred' = IF mode = "poll" THEN deferred \cup {c.id} ELSE deferred
  /\ job' = Rest
  /\ UNCHANGED <<mode, master, link, have, traffic, ran, lost, skipped>>

\* A retry_at passes.
RetryDue(s) ==
  /\ s \in backing
  /\ backing' = backing \ {s}
  /\ UNCHANGED <<mode, master, link, have, book, deferred, job, traffic, history,
                 spent>>

\* run_one's Exec: run, or an error for a sandbox with no process, and a
\* result either way.  The poll loop posts it at once, and one that cannot be
\* posted is not tried again; a sync answers with all of them at its end.
RunOneExec ==
  /\ job.on /\ job.rest # <<>>
  /\ LET c == Head(job.rest)
     IN /\ c.k = "exec" /\ c.id \notin backing
        /\ ran' = [ran EXCEPT ![c.e] = @ + 1]
        /\ IF mode = "drive"
           THEN /\ job' = [Rest EXCEPT !.res = @ \cup {c.e}]
                /\ UNCHANGED <<call, lost, spent>>
           ELSE /\ job' = Rest
                /\ \/ Deliver({c.e}) /\ UNCHANGED <<lost, spent>>
                   \/ /\ Within("fault") /\ Spend("fault")
                      /\ lost' = lost \cup {c.e}
                      /\ UNCHANGED call
  /\ UNCHANGED <<mode, goal, attempts, queue, link, have, book, backing, deferred,
                 traffic, streak, skipped>>

-----------------------------------------------------------------------------
(* Polling.                                                                *)

Report == [have |-> have, fails |-> book, traffic |-> unreported,
           deferred |-> deferred \cap backing]

\* poll_once: the report is made, which takes the traffic, and sent with what
\* is still deferred.
SendPoll ==
  /\ mode = "poll" /\ ~job.on /\ wire.k = "none"
  /\ wire' = [k |-> "poll", rep |-> Report]
  /\ deferred' = deferred \cap backing
  /\ unreported' = {}
  /\ UNCHANGED <<mode, master, driver, have, book, backing, job, woke, early, owed,
                 history, spent>>

\* poll: a report is applied and answered at once when there is anything to
\* do, and is parked when there is not.
PollArrives ==
  /\ wire.k = "poll"
  /\ RecordFailures(wire.rep)
  /\ ApplyTraffic(wire.rep.traffic, wire.rep.have)
  /\ streak' = StreakAfter(goal', attempts')
  /\ LET cmds == WithExecs(LeaveOut(Diff(goal', attempts', wire.rep.have),
                                    wire.rep.deferred))
     IN wire' = IF cmds = <<>> THEN [wire EXCEPT !.k = "parked"]
                ELSE [k |-> "reply", cmds |-> cmds]
  /\ queue' = <<>>
  /\ UNCHANGED <<mode, call, driver, node, unreported, woke, early, ran, lost,
                 skipped, spent>>

\* poll: the hold is over or something happened.  What came due while it was
\* parked is no longer left out.
ParkEnds ==
  /\ wire.k = "parked"
  /\ wire' = [k |-> "reply",
              cmds |-> WithExecs(LeaveOut(Diff(goal, attempts, wire.rep.have),
                                          wire.rep.deferred \cap backing))]
  /\ queue' = <<>>
  /\ UNCHANGED <<mode, goal, attempts, call, driver, node, traffic, history, spent>>

ReplyArrives ==
  /\ wire.k = "reply" /\ ~job.on
  /\ StartJob(wire.cmds, TRUE)
  /\ wire' = NoWire
  /\ UNCHANGED <<mode, master, driver, have, book, backing, deferred, traffic,
                 history, spent>>

\* The end of poll_once: sandboxes the master has stopped asking about are
\* forgotten, and one it left out because it was put off is not.
PollEnds ==
  /\ mode = "poll" /\ job.on /\ job.rest = <<>>
  /\ book' = [s \in Sandboxes |-> IF s \in job.asked \cup deferred THEN book[s] ELSE 0]
  /\ backing' = {s \in backing : book'[s] > 0}
  /\ job' = NoJob
  /\ UNCHANGED <<mode, master, link, have, deferred, traffic, history, spent>>

\* The poll, its parked request or its answer is lost, and the node polls
\* again after its backoff.  The traffic in it and the execs are not sent
\* again.
LosePoll ==
  /\ mode = "poll" /\ wire.k # "none" /\ Within("fault") /\ Spend("fault")
  /\ wire' = NoWire
  /\ lost' = IF wire.k = "reply" THEN lost \cup ExecsIn(wire.cmds) ELSE lost
  /\ owed' = owed \ TrafficCarried
  /\ UNCHANGED <<mode, master, driver, node, unreported, woke, early, ran, streak,
                 skipped>>

-----------------------------------------------------------------------------
(* The gateway's traffic, and report_wakes.                                *)

\* A request reaches the gateway, which wakes a cold sandbox for it.
Request(s) ==
  /\ Within("request") /\ Spend("request")
  /\ have' = [have EXCEPT ![s] = "hot"]
  /\ woke' = (woke \/ (have[s] = "cold" /\ mode = "poll"))
  /\ unreported' = unreported \cup {s}
  /\ owed' = owed \cup {s}
  /\ streak' = [streak EXCEPT ![s] = IF goal[s] = "hot" THEN 0 ELSE @]
  /\ UNCHANGED <<mode, master, link, book, backing, deferred, job, early, ran,
                 lost, skipped>>

\* report_wakes: the tiers are observed, the traffic is taken, and both posted.
EarlyReport ==
  /\ woke /\ early.ids = {}
  /\ woke' = FALSE
  /\ early' = [ids |-> unreported, have |-> have]
  /\ unreported' = {}
  /\ UNCHANGED <<mode, master, link, node, owed, history, spent>>

\* node_traffic: the early report is applied, and nothing is answered.
EarlyArrives ==
  /\ early.ids # {}
  /\ ApplyTraffic(early.ids, early.have)
  /\ streak' = StreakAfter(goal', attempts)
  /\ early' = NoEarly
  /\ UNCHANGED <<mode, attempts, queue, call, link, node, unreported, woke, ran,
                 lost, skipped, spent>>

\* The post fails.  Nothing puts the traffic back.
EarlyLost ==
  /\ early.ids # {} /\ Within("early") /\ Spend("early")
  /\ early' = NoEarly /\ owed' = owed \ early.ids
  /\ UNCHANGED <<mode, master, link, node, unreported, woke, history>>

-----------------------------------------------------------------------------
(* Driving.                                                                *)

\* sync_once: the batch goes out, or a report-only refresh.
DriverSyncs ==
  /\ mode = "drive" /\ driver.at = "ready" /\ wire.k = "none"
  /\ wire' = [k |-> "sync", some |-> driver.some, cmds |-> driver.cmds]
  /\ driver' = [driver EXCEPT !.at = "sent"]
  /\ UNCHANGED <<mode, master, node, traffic, history, spent>>

\* sync: the lock on the node's inner state is taken for the whole of it.
SyncArrives ==
  /\ wire.k = "sync" /\ ~job.on
  /\ StartJob(wire.cmds, wire.some)
  /\ wire' = NoWire
  /\ UNCHANGED <<mode, master, driver, have, book, backing, deferred, traffic,
                 history, spent>>

\* Mutant: a report-only refresh is taken for a batch that asks for nothing.
SyncEndsForgets ==
  /\ mode = "drive" /\ job.on /\ job.rest = <<>>
  /\ book' = [s \in Sandboxes |-> IF s \in job.asked THEN book[s] ELSE 0]
  /\ backing' = {s \in backing : book'[s] > 0}
  /\ unreported' = {}
  /\ owed' = IF job.heard THEN owed ELSE owed \ unreported
  /\ wire' = IF job.heard
             THEN [k |-> "answer", rep |-> [Report EXCEPT !.fails = book'], res |-> job.res]
             ELSE wire
  /\ job' = NoJob
  /\ UNCHANGED <<mode, master, driver, have, deferred, woke, early, history,
                 spent>>

\* The end of sync: a batch prunes the failure book, a refresh leaves it
\* alone; the report is made after either.  A driver that has hung up does
\* not get it.
SyncEnds ==
  /\ mode = "drive" /\ job.on /\ job.rest = <<>>
  /\ book' = [s \in Sandboxes |-> IF job.some => s \in job.asked THEN book[s] ELSE 0]
  /\ backing' = {s \in backing : book'[s] > 0}
  /\ unreported' = {}
  /\ owed' = IF job.heard THEN owed ELSE owed \ unreported
  /\ wire' = IF job.heard
             THEN [k |-> "answer", rep |-> [Report EXCEPT !.fails = book'], res |-> job.res]
             ELSE wire
  /\ job' = NoJob
  /\ UNCHANGED <<mode, master, driver, have, deferred, woke, early, history,
                 spent>>

\* Mutant: only the lengths are compared.
SameBatchByLength(a, b) == Len(a) = Len(b)

\* same_batch: the ids of execs are random, so batches with execs differ.
SameBatch(a, b) == a = b

\* drive: the answer is worked through, and the next batch made.  It waits
\* when there is nothing to do but what was just sent.
DriverHears ==
  /\ driver.at = "sent" /\ wire.k = "answer"
  /\ Deliver(wire.res)
  /\ RecordFailures(wire.rep)
  /\ ApplyTraffic(wire.rep.traffic, wire.rep.have)
  /\ streak' = StreakAfter(goal', attempts')
  /\ LET next == NextBatch(goal', attempts', wire.rep.have)
     IN driver' = IF \/ next = <<>>
                     \/ driver.some /\ SameBatch(driver.cmds, next)
                  THEN [at |-> "wait", have |-> wire.rep.have]
                  ELSE [at |-> "ready", some |-> TRUE, cmds |-> next]
  /\ queue' = <<>>
  /\ wire' = NoWire
  /\ UNCHANGED <<mode, node, unreported, woke, early, ran, lost, skipped, spent>>

\* drive: the wait is over, and the batch is made again from the same report.
DriverWaited ==
  /\ driver.at = "wait"
  /\ LET next == NextBatch(goal, attempts, driver.have)
     IN driver' = [at |-> "ready", some |-> next # <<>>, cmds |-> next]
  /\ queue' = <<>>
  /\ UNCHANGED <<mode, goal, attempts, call, wire, node, traffic, history, spent>>

\* The connection a sync was on is closed, with what was in flight.  A node
\* that is at work goes on, and has nobody to answer.
HangUp ==
  /\ wire' = NoWire
  /\ job' = IF job.on THEN [job EXCEPT !.heard = FALSE] ELSE job
  /\ lost' = lost \cup ExecsCarried
  /\ owed' = owed \ TrafficCarried

\* Mutant: the batch is kept, to be sent again.
DriverFailsKeepsBatch ==
  /\ driver.at = "sent" /\ Within("fault") /\ Spend("fault")
  /\ HangUp
  /\ driver' = [driver EXCEPT !.at = "backoff"]
  /\ UNCHANGED <<mode, master, have, book, backing, deferred, unreported, woke, early,
                 ran, streak, skipped>>

\* drive: a sync that fails or takes too long.  The batch is dropped.
DriverFails ==
  /\ driver.at = "sent" /\ Within("fault") /\ Spend("fault")
  /\ HangUp
  /\ driver' = [Fresh EXCEPT !.at = "backoff"]
  /\ UNCHANGED <<mode, master, have, book, backing, deferred, unreported, woke, early,
                 ran, streak, skipped>>

\* drive: the loop comes round after its backoff, which is capped.
BackoffOver ==
  /\ driver.at = "backoff"
  /\ driver' = [driver EXCEPT !.at = "ready"]
  /\ UNCHANGED <<mode, master, wire, node, traffic, history, spent>>

\* A handler whose driver has hung up may be dropped at an await, between two
\* groups: the rest of its batch is not run, and no report is made.
HandlerDropped ==
  /\ mode = "drive" /\ job.on /\ ~job.heard
  /\ job' = NoJob
  /\ UNCHANGED <<mode, master, link, have, book, backing, deferred, traffic,
                 history, spent>>

\* set_driver: the node is added again, and its earlier driver is aborted
\* wherever it is.
ReplaceDriver ==
  /\ mode = "drive" /\ Within("fault") /\ Spend("fault")
  /\ HangUp
  /\ driver' = Fresh
  /\ UNCHANGED <<mode, master, have, book, backing, deferred, unreported, woke, early,
                 ran, streak, skipped>>

\* The master restarts: drivers, queue and callers are in its memory only.
MasterRestarts ==
  /\ Within("fault") /\ Spend("fault")
  /\ HangUp
  /\ driver' = Fresh /\ queue' = <<>>
  /\ call' = [e \in Execs |-> IF call[e] = "open" THEN "gone" ELSE call[e]]
  /\ UNCHANGED <<mode, goal, attempts, have, book, backing, deferred, unreported,
                 woke, early, ran, streak, skipped>>

-----------------------------------------------------------------------------
RunCommand == PassOver \/ RunSet \/ RunOneExec
NodeStep   == SendPoll \/ ReplyArrives \/ PollEnds \/ SyncArrives \/ SyncEnds
MasterStep == PollArrives \/ ParkEnds
DriverStep == DriverSyncs \/ DriverHears \/ DriverWaited \/ BackoffOver

Next ==
  \/ \E s \in Sandboxes : AskTier(s) \/ Request(s) \/ RetryDue(s)
  \/ \E e \in Execs : ExecGivesUp(e) \/ \E s \in Sandboxes : RunExec(e, s)
  \/ RunCommand \/ FailSet \/ NodeStep \/ MasterStep \/ DriverStep
  \/ EarlyReport \/ EarlyArrives \/ EarlyLost
  \/ LosePoll \/ DriverFails \/ HandlerDropped \/ ReplaceDriver \/ MasterRestarts

Spec == Init /\ [][Next]_vars

-----------------------------------------------------------------------------
(* What must hold.                                                         *)

\* run_exec, take_execs and drive together keep the promise of ExecCall: an
\* exec is run at most once, over lost answers, syncs that time out while the
\* node is at work, drivers replaced and masters restarted, and a caller is
\* answered only with what its own command did.
ExecCalls == INSTANCE ExecCall WITH Execs <- Execs, call <- call, ran <- ran
ExecPromise == ExecCalls!Spec

\* An exec taken from the queue is on its way, or at the node, for as long as
\* its caller waits, unless a message was lost or run_one passed it over:
\* drive, which makes its next batch twice, never drops one between the two.
NeverDropped ==
  \A e \in Execs :
    call[e] = "open" => e \in ExecsIn(queue) \cup ExecsCarried \cup lost \cup skipped

\* The failure book of run_one forgets no failure of what desired state still
\* asks for, so that MAX_FAILURES is reached: not while the master leaves a
\* command out because it was put off, nor over report-only refreshes.
FailuresCounted == \A s \in Sandboxes : streak[s] <= book[s]

\* run_one says of exec and branch that they do not go through the backoff of
\* declarative commands: an exec that reaches the node is run.
NeverPutOff == skipped = {}

\* Every request the gateway has noted moves the idle clock of its row, in
\* whichever of the two reports it goes out, unless that report is lost:
\* take_traffic hands each to one of them, and apply_traffic counts it even
\* for a sandbox that has gone cold since.
TrafficKept == owed \subseteq unreported \cup early.ids \cup TrafficCarried
=============================================================================
