---------------------------- MODULE DriverProofs ----------------------------
(***************************************************************************)
(* Theorems about Driver, for any finite set of sandboxes, any set of      *)
(* execs and all bounds: in both modes an exec is run at most once and     *)
(* answered with what it did, and neither it nor a request's traffic is    *)
(* dropped but with a lost message.                                        *)
(***************************************************************************)
EXTENDS Driver, FiniteSetTheorems, SequenceTheorems, TLAPS

(***************************************************************************)
(* Types.                                                                  *)
(***************************************************************************)
Levels  == {"hot", "cold"}
SetCmd  == [k : {"set"}, id : Sandboxes, to : Levels]
ExecCmd == [k : {"exec"}, id : Sandboxes, e : Execs]
Cmd     == SetCmd \cup ExecCmd
Tiers   == [Sandboxes -> Levels]
Reports == [have : Tiers, fails : [Sandboxes -> Nat], traffic : SUBSET Sandboxes,
            deferred : SUBSET Sandboxes]

Polls   == [k : {"poll", "parked"}, rep : Reports]
Replies == [k : {"reply"}, cmds : Seq(Cmd)]
Syncs   == [k : {"sync"}, some : BOOLEAN, cmds : Seq(Cmd)]
Answers == [k : {"answer"}, rep : Reports, res : SUBSET Execs]
Wires   == {NoWire} \cup Polls \cup Replies \cup Syncs \cup Answers

Acting  == [at : {"ready", "sent", "backoff"}, some : BOOLEAN, cmds : Seq(Cmd)]
Waiting == [at : {"wait"}, have : Tiers]
Drivers == Acting \cup Waiting

Works   == [on : {TRUE}, some : BOOLEAN, rest : Seq(Cmd), asked : SUBSET Sandboxes,
            res : SUBSET Execs, heard : BOOLEAN]
Jobs    == {NoJob} \cup Works

Early   == {NoEarly} \cup [ids : SUBSET Sandboxes, have : Tiers]

MasterType ==
  /\ goal \in Tiers /\ attempts \in [Sandboxes -> Nat]
  /\ queue \in Seq(ExecCmd)
  /\ call \in [Execs -> {"idle", "open", "answered", "gone"}]
  /\ driver \in Drivers

NodeType ==
  /\ have \in Tiers /\ book \in [Sandboxes -> Nat]
  /\ backing \subseteq Sandboxes /\ deferred \subseteq Sandboxes
  /\ job \in Jobs
  /\ unreported \subseteq Sandboxes
  /\ ran \in [Execs -> Nat]

TypeInv == /\ mode \in {"poll", "drive"} /\ wire \in Wires /\ early \in Early
           /\ MasterType /\ NodeType

(***************************************************************************)
(* Where an exec may be before it is run.                                  *)
(***************************************************************************)
InWire   == IF wire.k \in {"reply", "sync"} THEN wire.cmds ELSE <<>>
InDriver == IF driver.at = "ready" THEN driver.cmds ELSE <<>>
InJob    == IF job.on THEN job.rest ELSE <<>>
Results  == (IF wire.k = "answer" THEN wire.res ELSE {}) \cup (IF job.on THEN job.res ELSE {})

\* A batch names no exec twice.
Once(cmds) ==
  \A i, j \in 1..Len(cmds) :
    cmds[i].k = "exec" /\ cmds[j].k = "exec" /\ cmds[i].e = cmds[j].e => i = j

OnceInv == Once(queue) /\ Once(InWire) /\ Once(InDriver) /\ Once(InJob)

\* An exec is in one place at a time.
Apart ==
  /\ ExecsIn(queue) \cap ExecsIn(InWire) = {}
  /\ ExecsIn(queue) \cap ExecsIn(InDriver) = {}
  /\ ExecsIn(queue) \cap ExecsIn(InJob) = {}
  /\ ExecsIn(InWire) \cap ExecsIn(InDriver) = {}
  /\ ExecsIn(InWire) \cap ExecsIn(InJob) = {}
  /\ ExecsIn(InDriver) \cap ExecsIn(InJob) = {}

Places == ExecsIn(queue) \cup ExecsIn(InWire) \cup ExecsIn(InDriver) \cup ExecsIn(InJob)

NotYetRun == \A e \in Places : call[e] # "idle" /\ ran[e] = 0
RunOnce   == \A e \in Results : call[e] # "idle" /\ ran[e] = 1
NotAsked  == \A e \in Execs : call[e] = "idle" => ran[e] = 0

\* What drive compares its next batch with has no exec of the queue, and after
\* a failure it has nothing left of the batch.
SentInv ==
  /\ driver.at = "sent" => /\ ExecsIn(driver.cmds) \cap ExecsIn(queue) = {}
                           /\ \A e \in ExecsIn(driver.cmds) : call[e] # "idle"
  /\ driver.at = "backoff" => driver.cmds = <<>>

ExecInv == OnceInv /\ Apart /\ NotYetRun /\ RunOnce /\ NotAsked /\ SentInv

(***************************************************************************)
(* Whose turn it is.                                                       *)
(***************************************************************************)
TurnInv ==
  /\ mode = "poll" =>
       /\ driver = Fresh /\ wire.k \in {"none", "poll", "parked", "reply"}
       /\ job.on => wire.k = "none" /\ job.res = {}
  /\ mode = "drive" =>
       /\ wire.k \in {"none", "sync", "answer"}
       /\ wire.k # "none" => driver.at = "sent"
       /\ job.on /\ job.heard => wire.k = "none" /\ driver.at = "sent"

\* What a handler nobody listens to still works on is already down as lost.
DeafInv == job.on /\ ~job.heard => ExecsIn(job.rest) \cup job.res \subseteq lost

ChannelInv == ExecInv /\ TurnInv /\ DeafInv /\ NeverDropped /\ TrafficKept

(***************************************************************************)
(* Batches.                                                                *)
(***************************************************************************)
\* A command is what its first field says.
LEMMA CmdKinds ==
  ASSUME NEW c \in Cmd
  PROVE  /\ c.k = "set" => c \in SetCmd
         /\ c.k = "exec" => c \in ExecCmd
         /\ c.k \in {"set", "exec"} /\ c.id \in Sandboxes
  BY DEF Cmd, SetCmd, ExecCmd

\* The execs of a batch, by their places.
LEMMA ExecsAt ==
  ASSUME NEW cmds \in Seq(Cmd), NEW e
  PROVE  e \in ExecsIn(cmds) <=> \E i \in 1..Len(cmds) : cmds[i].k = "exec" /\ cmds[i].e = e
<1>1. Range(cmds) = {cmds[i] : i \in 1..Len(cmds)}
  BY LenProperties DEF Range
<1>2. QED
  BY <1>1 DEF ExecsIn

\* They are execs of callers.
LEMMA ExecsType ==
  ASSUME NEW cmds \in Seq(Cmd)
  PROVE  ExecsIn(cmds) \subseteq Execs
<1> SUFFICES ASSUME NEW e \in ExecsIn(cmds) PROVE e \in Execs
  OBVIOUS
<1>1. PICK i \in 1..Len(cmds) : cmds[i].k = "exec" /\ cmds[i].e = e
  BY ExecsAt
<1>2. cmds[i] \in Cmd
  BY ElementOfSeq
<1>3. QED
  BY <1>1, <1>2, CmdKinds DEF ExecCmd

\* Nothing is asked for by an empty batch.
LEMMA EmptyBatch ==
  /\ <<>> \in Seq(Cmd) /\ <<>> \in Seq(ExecCmd)
  /\ ExecsIn(<<>>) = {} /\ IdsIn(<<>>) = {} /\ Once(<<>>)
<1>1. <<>> \in Seq(Cmd) /\ <<>> \in Seq(ExecCmd) /\ Len(<<>>) = 0
  BY EmptySeq
<1>2. Range(<<>>) = {}
  BY DEF Range
<1>3. QED
  BY <1>1, <1>2 DEF ExecsIn, IdsIn, Once

\* The sandboxes of a batch are sandboxes.
LEMMA IdsType ==
  ASSUME NEW cmds \in Seq(Cmd)
  PROVE  IdsIn(cmds) \subseteq Sandboxes
<1>1. \A c \in Range(cmds) : c \in Cmd
  BY RangeOfSeq
<1>2. QED
  BY <1>1, CmdKinds DEF IdsIn

\* The exec queue holds commands.
LEMMA QueueIsBatch == Seq(ExecCmd) \subseteq Seq(Cmd)
<1>1. ExecCmd \subseteq Cmd
  BY DEF Cmd
<1>2. QED
  BY <1>1, SeqMonotonic

\* One more exec in the queue.
LEMMA OneMore ==
  ASSUME NEW q \in Seq(ExecCmd), NEW e \in Execs, NEW s \in Sandboxes
  PROVE  /\ Append(q, Exec(e, s)) \in Seq(ExecCmd)
         /\ ExecsIn(Append(q, Exec(e, s))) = ExecsIn(q) \cup {e}
         /\ Once(q) /\ e \notin ExecsIn(q) => Once(Append(q, Exec(e, s)))
<1> DEFINE c == Exec(e, s)
           p == Append(q, c)
<1>1. c \in ExecCmd /\ c.k = "exec" /\ c.e = e
  BY DEF Exec, ExecCmd
<1> HIDE DEF c
<1>2. /\ p \in Seq(ExecCmd) /\ Len(p) = Len(q) + 1 /\ Len(q) \in Nat
      /\ \A i \in 1..Len(q) : p[i] = q[i]
      /\ p[Len(q) + 1] = c
  BY <1>1, AppendProperties, LenProperties
<1>3. p \in Seq(Cmd) /\ q \in Seq(Cmd)
  BY <1>2, QueueIsBatch
<1> HIDE DEF p
<1>4. \A d : d \in ExecsIn(p) <=> d \in ExecsIn(q) \/ d = e
  <2> TAKE d
  <2>1. d \in ExecsIn(p) <=> \E i \in 1..Len(p) : p[i].k = "exec" /\ p[i].e = d
    BY <1>3, ExecsAt
  <2>2. d \in ExecsIn(q) <=> \E i \in 1..Len(q) : q[i].k = "exec" /\ q[i].e = d
    BY <1>3, ExecsAt
  <2>3. \A i \in 1..Len(p) : i \in 1..Len(q) \/ i = Len(q) + 1
    BY <1>2
  <2>4. 1..Len(q) \subseteq 1..Len(p) /\ Len(q) + 1 \in 1..Len(p)
    BY <1>2
  <2>5. QED
    BY <1>1, <1>2, <2>1, <2>2, <2>3, <2>4
<1>5. ASSUME Once(q), e \notin ExecsIn(q) PROVE Once(p)
  <2> SUFFICES ASSUME NEW i \in 1..Len(p), NEW j \in 1..Len(p),
                      p[i].k = "exec", p[j].k = "exec", p[i].e = p[j].e
               PROVE  i = j
    BY DEF Once
  <2>1. \A h \in 1..Len(q) : q[h].k = "exec" => q[h].e # e
    BY <1>3, <1>5, ExecsAt
  <2>2. (i \in 1..Len(q) \/ i = Len(q) + 1) /\ (j \in 1..Len(q) \/ j = Len(q) + 1)
    BY <1>2
  <2>3. CASE i \in 1..Len(q) /\ j \in 1..Len(q)
    BY <1>2, <1>5, <2>3 DEF Once
  <2>4. CASE i \in 1..Len(q) /\ j = Len(q) + 1
    BY <1>1, <1>2, <2>1, <2>4
  <2>5. CASE j \in 1..Len(q) /\ i = Len(q) + 1
    BY <1>1, <1>2, <2>1, <2>5
  <2>6. QED
    BY <2>2, <2>3, <2>4, <2>5
<1>6. QED
  BY <1>2, <1>4, <1>5 DEF p, c

\* The first command of a batch is run, or passed over.
LEMMA OneLess ==
  ASSUME NEW cmds \in Seq(Cmd), cmds # <<>>, Once(cmds)
  PROVE  /\ Head(cmds) \in Cmd /\ Tail(cmds) \in Seq(Cmd) /\ Once(Tail(cmds))
         /\ ExecsIn(Tail(cmds)) \subseteq ExecsIn(cmds)
         /\ Head(cmds).k = "set" => ExecsIn(Tail(cmds)) = ExecsIn(cmds)
         /\ Head(cmds).k = "exec" =>
              /\ ExecsIn(cmds) = ExecsIn(Tail(cmds)) \cup {Head(cmds).e}
              /\ Head(cmds).e \notin ExecsIn(Tail(cmds))
<1> DEFINE t == Tail(cmds)
<1>1. /\ Head(cmds) \in Cmd /\ t \in Seq(Cmd) /\ Len(t) = Len(cmds) - 1
      /\ Len(cmds) \in Nat \ {0}
      /\ \A i \in 1..Len(t) : t[i] = cmds[i + 1]
  BY HeadTailProperties, EmptySeq
<1>2. Head(cmds) = cmds[1]
  OBVIOUS
<1> HIDE DEF t
<1>3. \A i \in 1..Len(t) : i + 1 \in 1..Len(cmds)
  BY <1>1
<1>4. \A i \in 1..Len(cmds) : i # 1 => i - 1 \in 1..Len(t) /\ cmds[i] = t[i - 1]
  BY <1>1
<1>5. 1 \in 1..Len(cmds)
  BY <1>1
<1>6. \A e : e \in ExecsIn(t) <=> \E i \in 1..Len(t) : t[i].k = "exec" /\ t[i].e = e
  BY <1>1, ExecsAt
<1>7. \A e : e \in ExecsIn(cmds) <=> \E i \in 1..Len(cmds) : cmds[i].k = "exec" /\ cmds[i].e = e
  BY ExecsAt
<1>8. Once(t)
  BY <1>1, <1>3 DEF Once
<1>9. ExecsIn(t) \subseteq ExecsIn(cmds)
  BY <1>1, <1>3, <1>6, <1>7
<1>10. \A e \in ExecsIn(cmds) : e \in ExecsIn(t) \/ (cmds[1].k = "exec" /\ cmds[1].e = e)
  BY <1>4, <1>6, <1>7
<1>11. ASSUME cmds[1].k = "exec"
       PROVE  cmds[1].e \in ExecsIn(cmds) /\ cmds[1].e \notin ExecsIn(t)
  <2>1. cmds[1].e \in ExecsIn(cmds)
    BY <1>5, <1>7, <1>11
  <2>2. ASSUME NEW i \in 1..Len(t), t[i].k = "exec", t[i].e = cmds[1].e PROVE FALSE
    BY <1>1, <1>3, <1>5, <1>11, <2>2 DEF Once
  <2>3. QED
    BY <1>6, <2>1, <2>2
<1>12. QED
  BY <1>1, <1>2, <1>8, <1>9, <1>10, <1>11 DEF t

\* What diff asks for is a finite set of tier changes.
LEMMA DiffType ==
  ASSUME NEW g \in Tiers, NEW att, NEW at
  PROVE  Diff(g, att, at) \subseteq SetCmd /\ IsFiniteSet(Diff(g, att, at))
<1> DEFINE ids == {t \in Sandboxes : g[t] # at[t] /\ att[t] < MaxFailures}
           f == [s \in ids |-> [k |-> "set", id |-> s, to |-> g[s]]]
<1>1. Diff(g, att, at) = {[k |-> "set", id |-> s, to |-> g[s]] : s \in ids}
  BY DEF Diff
<1>2. Diff(g, att, at) \subseteq SetCmd
  BY <1>1 DEF SetCmd, Tiers
<1>3. IsFiniteSet(ids)
  BY FS_Subset, DriverAssumption
<1>4. f \in Surjection(ids, Diff(g, att, at))
  <2>1. f \in [ids -> Diff(g, att, at)]
    BY <1>1
  <2>2. \A c \in Diff(g, att, at) : \E s \in ids : f[s] = c
    BY <1>1
  <2> HIDE DEF f, ids
  <2>3. QED
    BY <2>1, <2>2 DEF Surjection
<1> HIDE DEF f, ids
<1>5. IsFiniteSet(Diff(g, att, at))
  BY <1>3, <1>4, FS_Surjection
<1>6. QED
  BY <1>2, <1>5

\* Put in some order, they are a list.
LEMMA Ordered ==
  ASSUME NEW S, IsFiniteSet(S)
  PROVE  SetToSeq(S) \in Seq(S)
<1>1. Cardinality(S) \in Nat /\ ExistsBijection(1..Cardinality(S), S)
  BY FS_CardinalityType
<1>2. \E f \in [1..Cardinality(S) -> S] : IsInjective(f)
  BY <1>1 DEF ExistsBijection, Bijection, Injection
<1>3. SetToSeq(S) \in [1..Cardinality(S) -> S]
  BY <1>2, Zenon DEF SetToSeq
<1>4. QED
  BY <1>1, <1>3, SeqDef

\* A batch is well typed, and its execs are those of the queue.
LEMMA BatchOf ==
  ASSUME NEW S, S \subseteq SetCmd, IsFiniteSet(S), queue \in Seq(ExecCmd)
  PROVE  /\ WithExecs(S) \in Seq(Cmd)
         /\ ExecsIn(WithExecs(S)) = ExecsIn(queue)
         /\ Once(queue) => Once(WithExecs(S))
<1> DEFINE a == SetToSeq(S)
           b == WithExecs(S)
<1>1. a \in Seq(SetCmd) /\ a \in Seq(Cmd) /\ queue \in Seq(Cmd)
  <2>1. a \in Seq(S)
    BY Ordered
  <2>2. SetCmd \subseteq Cmd
    BY DEF Cmd
  <2>3. QED
    BY <2>1, <2>2, SeqMonotonic, QueueIsBatch
<1>2. /\ b \in Seq(Cmd) /\ Len(b) = Len(a) + Len(queue)
      /\ Len(a) \in Nat /\ Len(queue) \in Nat
      /\ \A i \in 1..Len(b) : b[i] = IF i <= Len(a) THEN a[i] ELSE queue[i - Len(a)]
  BY <1>1, ConcatProperties, LenProperties DEF WithExecs
<1>3. \A i \in 1..Len(a) : a[i].k # "exec"
  <2> TAKE i \in 1..Len(a)
  <2>1. a[i] \in SetCmd
    BY <1>1, ElementOfSeq
  <2>2. QED
    BY <2>1 DEF SetCmd
<1> HIDE DEF a, b
<1>4. \A i \in 1..Len(b) : b[i].k = "exec" => i - Len(a) \in 1..Len(queue) /\ b[i] = queue[i - Len(a)]
  BY <1>2, <1>3
<1>5. \A i \in 1..Len(queue) : i + Len(a) \in 1..Len(b) /\ b[i + Len(a)] = queue[i]
  BY <1>2
<1>6. ExecsIn(b) = ExecsIn(queue)
  <2>1. \A e : e \in ExecsIn(b) <=> \E i \in 1..Len(b) : b[i].k = "exec" /\ b[i].e = e
    BY <1>2, ExecsAt
  <2>2. \A e : e \in ExecsIn(queue)
                 <=> \E i \in 1..Len(queue) : queue[i].k = "exec" /\ queue[i].e = e
    BY <1>1, ExecsAt
  <2>3. ASSUME NEW e \in ExecsIn(b) PROVE e \in ExecsIn(queue)
    <3>1. PICK i \in 1..Len(b) : b[i].k = "exec" /\ b[i].e = e
      BY <2>1
    <3>2. i - Len(a) \in 1..Len(queue) /\ b[i] = queue[i - Len(a)]
      BY <1>4, <3>1
    <3>3. QED
      BY <2>2, <3>1, <3>2
  <2>4. ASSUME NEW e \in ExecsIn(queue) PROVE e \in ExecsIn(b)
    <3>1. PICK i \in 1..Len(queue) : queue[i].k = "exec" /\ queue[i].e = e
      BY <2>2
    <3>2. i + Len(a) \in 1..Len(b) /\ b[i + Len(a)] = queue[i]
      BY <1>5
    <3>3. QED
      BY <2>1, <3>1, <3>2
  <2>5. QED
    BY <2>3, <2>4
<1>7. ASSUME Once(queue) PROVE Once(b)
  <2> SUFFICES ASSUME NEW i \in 1..Len(b), NEW j \in 1..Len(b),
                      b[i].k = "exec", b[j].k = "exec", b[i].e = b[j].e
               PROVE  i = j
    BY DEF Once
  <2>1. i - Len(a) = j - Len(a)
    BY <1>4, <1>7 DEF Once
  <2>2. QED
    BY <1>2, <2>1
<1>8. QED
  BY <1>2, <1>6, <1>7 DEF b

(***************************************************************************)
(* Type correctness.                                                       *)
(***************************************************************************)
\* A message, the driver and the node's work are what their first field says.
LEMMA WireKinds ==
  ASSUME NEW w \in Wires
  PROVE  /\ w.k = "none" => w = NoWire
         /\ w.k \in {"poll", "parked"} => w \in Polls
         /\ w.k = "reply" => w \in Replies
         /\ w.k = "sync" => w \in Syncs
         /\ w.k = "answer" => w \in Answers
         /\ w.k \in {"none", "poll", "parked", "reply", "sync", "answer"}
  BY DEF Wires, NoWire, Polls, Replies, Syncs, Answers

\* The driver is in a loop or waits with a report.
LEMMA DriverKinds ==
  ASSUME NEW d \in Drivers
  PROVE  /\ d.at = "wait" => d \in Waiting
         /\ d.at # "wait" => d \in Acting
         /\ d.at \in {"ready", "sent", "backoff", "wait"}
  BY DEF Drivers, Acting, Waiting

\* The node is at work or is not.
LEMMA JobKinds ==
  ASSUME NEW j \in Jobs
  PROVE  /\ j.on => j \in Works
         /\ ~j.on => j = NoJob
<1>1. NoJob.on = FALSE /\ \A w \in Works : w.on = TRUE
  BY DEF NoJob, Works
<1>2. QED
  BY <1>1, Zenon DEF Jobs

\* An early report with anything in it has the tiers with it.
LEMMA EarlyKinds ==
  ASSUME NEW x \in Early
  PROVE  x.ids \subseteq Sandboxes /\ (x.ids # {} => x \in [ids : SUBSET Sandboxes, have : Tiers])
  BY DEF Early, NoEarly

\* The values everything starts from are well typed.
LEMMA Blanks ==
  /\ NoWire \in Wires /\ NoWire.k = "none"
  /\ NoJob \in Jobs /\ NoJob.on = FALSE
  /\ Fresh \in Drivers /\ Fresh.at = "ready" /\ Fresh.cmds = <<>>
  /\ [Fresh EXCEPT !.at = "backoff"] \in Drivers
  /\ [Fresh EXCEPT !.at = "backoff"].at = "backoff"
  /\ [Fresh EXCEPT !.at = "backoff"].cmds = <<>>
  /\ NoEarly \in Early
<1>1. <<>> \in Seq(Cmd)
  BY EmptyBatch
<1>2. NoWire \in Wires /\ NoWire.k = "none"
  BY DEF Wires, NoWire
<1>3. NoJob \in Jobs /\ NoJob.on = FALSE
  BY DEF Jobs, NoJob
<1>4. /\ Fresh \in Acting /\ Fresh.at = "ready" /\ Fresh.cmds = <<>>
      /\ [Fresh EXCEPT !.at = "backoff"] \in Acting
      /\ [Fresh EXCEPT !.at = "backoff"].at = "backoff"
      /\ [Fresh EXCEPT !.at = "backoff"].cmds = <<>>
  BY <1>1 DEF Acting, Fresh
<1>5. NoEarly \in Early
  BY DEF Early
<1>6. QED
  BY <1>2, <1>3, <1>4, <1>5 DEF Drivers

\* The initial state is well typed.
LEMMA InitType == Init => TypeInv
<1> SUFFICES ASSUME Init PROVE TypeInv
  OBVIOUS
<1>1. mode \in {"poll", "drive"}
  BY DriverAssumption DEF Init
<1>2. MasterType
  BY Blanks, EmptyBatch DEF Init, MasterType, Tiers, Levels
<1>3. NodeType
  BY Blanks DEF Init, NodeType, Tiers, Levels
<1>4. wire \in Wires /\ early \in Early
  BY Blanks DEF Init
<1>5. QED
  BY <1>1, <1>2, <1>3, <1>4 DEF TypeInv

\* A report is well typed.
LEMMA ReportType ==
  ASSUME TypeInv
  PROVE  /\ Report \in Reports
         /\ \A b \in [Sandboxes -> Nat] : [Report EXCEPT !.fails = b] \in Reports
         /\ \A b : [Report EXCEPT !.fails = b].traffic = unreported
         /\ Report.traffic = unreported
  BY DEF TypeInv, NodeType, Report, Reports

\* What is left of the work after its first command.
LEMMA RestType ==
  ASSUME job \in Jobs, job.on, job.rest # <<>>
  PROVE  /\ Rest \in Works /\ Rest.rest = Tail(job.rest) /\ Rest.res = job.res
         /\ Rest.heard = job.heard /\ Rest.on
         /\ \A e \in Execs : /\ [Rest EXCEPT !.res = @ \cup {e}] \in Works
                             /\ [Rest EXCEPT !.res = @ \cup {e}].rest = Tail(job.rest)
                             /\ [Rest EXCEPT !.res = @ \cup {e}].res = job.res \cup {e}
                             /\ [Rest EXCEPT !.res = @ \cup {e}].heard = job.heard
                             /\ [Rest EXCEPT !.res = @ \cup {e}].on
<1>1. job \in Works /\ job.rest \in Seq(Cmd)
  BY JobKinds DEF Works
<1>2. Tail(job.rest) \in Seq(Cmd)
  BY <1>1, HeadTailProperties
<1>3. QED
  BY <1>1, <1>2 DEF Works, Rest

\* The first command of the work.
LEMMA HeadType ==
  ASSUME job \in Jobs, job.on, job.rest # <<>>
  PROVE  Head(job.rest) \in Cmd
<1>1. job.rest \in Seq(Cmd)
  BY JobKinds DEF Works
<1>2. QED
  BY <1>1, HeadTailProperties

\* Callers and the gateway leave everything well typed.
LEMMA CallerType ==
  ASSUME TypeInv,
         \/ \E s \in Sandboxes : AskTier(s) \/ Request(s) \/ RetryDue(s)
         \/ \E e \in Execs : ExecGivesUp(e) \/ \E s \in Sandboxes : RunExec(e, s)
         \/ EarlyReport \/ EarlyArrives \/ EarlyLost
  PROVE  TypeInv'
<1> USE DEF TypeInv, MasterType, NodeType
<1>1. ASSUME NEW s \in Sandboxes, AskTier(s) PROVE TypeInv'
  <2>1. goal' \in Tiers
    BY <1>1 DEF AskTier, Tiers, Levels
  <2>2. QED
    BY <1>1, <2>1 DEF AskTier, link, node, traffic
<1>2. ASSUME NEW s \in Sandboxes, Request(s) PROVE TypeInv'
  <2>1. have' \in Tiers
    BY <1>2 DEF Request, Tiers, Levels
  <2>2. QED
    BY <1>2, <2>1 DEF Request, link, master
<1>3. ASSUME NEW s \in Sandboxes, RetryDue(s) PROVE TypeInv'
  BY <1>3 DEF RetryDue, link, master, traffic, history
<1>4. ASSUME NEW e \in Execs, ExecGivesUp(e) PROVE TypeInv'
  BY <1>4 DEF ExecGivesUp, link, node, traffic, history
<1>5. ASSUME NEW e \in Execs, NEW s \in Sandboxes, RunExec(e, s) PROVE TypeInv'
  <2>1. queue' \in Seq(ExecCmd)
    BY <1>5, OneMore DEF RunExec
  <2>2. QED
    BY <1>5, <2>1 DEF RunExec, link, node, traffic, history
<1>6. CASE EarlyReport
  <2>1. early' \in Early
    BY <1>6 DEF EarlyReport, Early
  <2>2. QED
    BY <1>6, <2>1 DEF EarlyReport, link, node, master, history
<1>7. CASE EarlyArrives
  <2>1. goal' \in Tiers
    BY <1>7 DEF EarlyArrives, ApplyTraffic, Tiers, Levels
  <2>2. QED
    BY <1>7, <2>1, Blanks DEF EarlyArrives, link, node
<1>8. CASE EarlyLost
  BY <1>8, Blanks DEF EarlyLost, link, node, master, history
<1>9. QED
  BY <1>1, <1>2, <1>3, <1>4, <1>5, <1>6, <1>7, <1>8

\* So does a node at work.
LEMMA CommandType ==
  ASSUME TypeInv, RunCommand \/ FailSet
  PROVE  TypeInv'
<1> USE DEF TypeInv, MasterType, NodeType
<1>0. /\ job.on /\ job.rest # <<>> /\ Rest \in Jobs
      /\ Head(job.rest) \in Cmd /\ Head(job.rest).id \in Sandboxes
  <2>1. job.on /\ job.rest # <<>>
    BY DEF RunCommand, PassOver, RunSet, RunOneExec, FailSet
  <2>2. QED
    BY <2>1, RestType, HeadType, CmdKinds DEF Jobs
<1>1. CASE PassOver
  BY <1>0, <1>1 DEF PassOver, link, master, traffic
<1>2. CASE RunSet
  <2>1. Head(job.rest).to \in Levels
    BY <1>0, <1>2, CmdKinds DEF RunSet, SetCmd
  <2>2. have' \in Tiers /\ book' \in [Sandboxes -> Nat]
    BY <1>0, <1>2, <2>1 DEF RunSet, Tiers
  <2>3. QED
    BY <1>0, <1>2, <2>2 DEF RunSet, link, master, traffic
<1>3. CASE FailSet
  BY <1>0, <1>3 DEF FailSet, link, master, traffic
<1>4. CASE RunOneExec
  <2>1. Head(job.rest).e \in Execs
    BY <1>0, <1>4, CmdKinds DEF RunOneExec, ExecCmd
  <2>2. job' \in Jobs
    <3>1. job' \in {Rest, [Rest EXCEPT !.res = @ \cup {Head(job.rest).e}]}
      BY <1>4 DEF RunOneExec
    <3>2. QED
      BY <1>0, <2>1, <3>1, RestType DEF Jobs
  <2>3. ran' \in [Execs -> Nat]
    BY <1>4, <2>1 DEF RunOneExec
  <2>4. call' \in [Execs -> {"idle", "open", "answered", "gone"}]
    <3>1. call' = call \/ Deliver({Head(job.rest).e})
      BY <1>4 DEF RunOneExec
    <3>2. QED
      BY <3>1 DEF Deliver
  <2>5. QED
    BY <1>4, <2>2, <2>3, <2>4 DEF RunOneExec, link, traffic
<1>5. QED
  BY <1>1, <1>2, <1>3, <1>4 DEF RunCommand

\* What the master makes of a report.
LEMMA HeardType ==
  ASSUME TypeInv, NEW rep \in Reports, RecordFailures(rep), ApplyTraffic(rep.traffic, rep.have)
  PROVE  goal' \in Tiers /\ attempts' \in [Sandboxes -> Nat]
<1>1. goal' \in Tiers
  BY DEF ApplyTraffic, TypeInv, MasterType, Tiers, Levels
<1>2. QED
  BY <1>1 DEF RecordFailures, Reports

\* Some of what diff asks for is left out.
LEMMA LeftOut ==
  ASSUME NEW S, S \subseteq SetCmd, IsFiniteSet(S), NEW off
  PROVE  LeaveOut(S, off) \subseteq SetCmd /\ IsFiniteSet(LeaveOut(S, off))
  BY FS_Subset DEF LeaveOut

\* The batch a poll is answered with: tier changes, and the execs queued.
LEMMA PollBatch ==
  ASSUME TypeInv, NEW g \in Tiers, NEW att, NEW at, NEW off
  PROVE  LET cmds == WithExecs(LeaveOut(Diff(g, att, at), off))
         IN  /\ cmds \in Seq(Cmd) /\ ExecsIn(cmds) = ExecsIn(queue)
             /\ Once(queue) => Once(cmds)
<1>1. /\ LeaveOut(Diff(g, att, at), off) \subseteq SetCmd
      /\ IsFiniteSet(LeaveOut(Diff(g, att, at), off))
  BY DiffType, LeftOut
<1>2. QED
  BY <1>1, BatchOf DEF TypeInv, MasterType

\* The batch a driver goes on with.
LEMMA DriveBatch ==
  ASSUME TypeInv, NEW g \in Tiers, NEW att, NEW at
  PROVE  LET cmds == NextBatch(g, att, at)
         IN  /\ cmds \in Seq(Cmd) /\ ExecsIn(cmds) = ExecsIn(queue)
             /\ Once(queue) => Once(cmds)
  BY DiffType, BatchOf DEF NextBatch, TypeInv, MasterType

(***************************************************************************)
(* How batches move.                                                       *)
(***************************************************************************)
\* poll's answer takes the queue with it, at once or when the hold is over.
LEMMA QueueToWire ==
  ASSUME TypeInv, PollArrives \/ ParkEnds
  PROVE  /\ wire' \in Wires /\ wire'.k \in {"parked", "reply"}
         /\ ExecsIn(InWire') = ExecsIn(queue) /\ (Once(queue) => Once(InWire'))
         /\ InWire = <<>> /\ queue' = <<>> /\ goal' \in Tiers /\ attempts' \in [Sandboxes -> Nat]
         /\ UNCHANGED <<mode, driver, job, call, ran, lost, skipped>>
<1>1. wire \in Polls /\ wire.k \in {"poll", "parked"} /\ wire.rep \in Reports
  <2>1. wire.k \in {"poll", "parked"}
    BY DEF PollArrives, ParkEnds
  <2>2. QED
    BY <2>1, WireKinds DEF TypeInv, Polls
<1>2. InWire = <<>>
  BY <1>1 DEF InWire
<1>3. goal' \in Tiers /\ attempts' \in [Sandboxes -> Nat]
  <2>1. CASE PollArrives
    BY <1>1, <2>1, HeardType DEF PollArrives
  <2>2. CASE ParkEnds
    BY <2>2 DEF ParkEnds, TypeInv, MasterType
  <2>3. QED
    BY <2>1, <2>2
<1>4. ASSUME NEW cmds \in Seq(Cmd), ExecsIn(cmds) = ExecsIn(queue),
             Once(queue) => Once(cmds), wire' = [k |-> "reply", cmds |-> cmds]
      PROVE  /\ wire' \in Wires /\ wire'.k = "reply"
             /\ ExecsIn(InWire') = ExecsIn(queue) /\ (Once(queue) => Once(InWire'))
  <2>1. wire' \in Replies /\ wire'.k = "reply" /\ wire'.cmds = cmds
    BY <1>4 DEF Replies
  <2>2. InWire' = cmds
    BY <2>1 DEF InWire
  <2>3. QED
    BY <1>4, <2>1, <2>2 DEF Wires
<1>5. CASE PollArrives
  <2> DEFINE cmds == WithExecs(LeaveOut(Diff(goal', attempts', wire.rep.have),
                                        wire.rep.deferred))
  <2>1. cmds \in Seq(Cmd) /\ ExecsIn(cmds) = ExecsIn(queue) /\ (Once(queue) => Once(cmds))
    BY <1>3, PollBatch
  <2>2. wire' = IF cmds = <<>> THEN [wire EXCEPT !.k = "parked"]
                ELSE [k |-> "reply", cmds |-> cmds]
    BY <1>5 DEF PollArrives
  <2>3. CASE cmds = <<>>
    <3>1. wire' \in Polls /\ wire'.k = "parked"
      BY <1>1, <2>2, <2>3 DEF Polls
    <3>2. InWire' = <<>> /\ ExecsIn(queue) = {}
      BY <2>1, <2>3, <3>1, EmptyBatch DEF InWire
    <3>3. QED
      BY <1>2, <1>3, <1>5, <3>1, <3>2, EmptyBatch DEF PollArrives, node, Wires
  <2>4. CASE cmds # <<>>
    <3> HIDE DEF cmds
    <3>1. wire' = [k |-> "reply", cmds |-> cmds]
      BY <2>2, <2>4
    <3>2. QED
      BY <1>2, <1>3, <1>4, <1>5, <2>1, <3>1 DEF PollArrives, node
  <2>5. QED
    BY <2>3, <2>4
<1>6. CASE ParkEnds
  <2> DEFINE cmds == WithExecs(LeaveOut(Diff(goal, attempts, wire.rep.have),
                                        wire.rep.deferred \cap backing))
  <2>1. cmds \in Seq(Cmd) /\ ExecsIn(cmds) = ExecsIn(queue) /\ (Once(queue) => Once(cmds))
    BY PollBatch DEF TypeInv, MasterType
  <2>2. wire' = [k |-> "reply", cmds |-> cmds]
    BY <1>6 DEF ParkEnds
  <2> HIDE DEF cmds
  <2>3. QED
    BY <1>2, <1>3, <1>4, <1>6, <2>1, <2>2 DEF ParkEnds, node, history
<1>7. QED
  BY <1>5, <1>6

\* The node takes a batch up.
LEMMA WireToJob ==
  ASSUME TypeInv, ReplyArrives \/ SyncArrives
  PROVE  /\ job' \in Jobs /\ job'.on /\ job'.heard /\ job'.res = {} /\ job'.rest = InWire
         /\ InJob' = InWire /\ ~job.on /\ wire.k \in {"reply", "sync"} /\ wire' = NoWire
         /\ UNCHANGED <<mode, queue, driver, call, ran, lost, skipped>>
<1>1. ~job.on /\ wire.k \in {"reply", "sync"} /\ wire' = NoWire
  BY DEF ReplyArrives, SyncArrives
<1>2. InWire = wire.cmds /\ wire.cmds \in Seq(Cmd)
  BY <1>1, WireKinds DEF InWire, TypeInv, Replies, Syncs
<1>3. PICK some \in BOOLEAN : StartJob(wire.cmds, some)
  BY WireKinds DEF ReplyArrives, SyncArrives, TypeInv, Syncs
<1>4. IdsIn(wire.cmds) \in SUBSET Sandboxes
  BY <1>2, IdsType
<1>5. /\ job' \in Works /\ job'.on /\ job'.heard /\ job'.res = {} /\ job'.rest = wire.cmds
  BY <1>2, <1>3, <1>4 DEF StartJob, Works
<1>6. InJob' = InWire
  BY <1>2, <1>5 DEF InJob
<1>7. UNCHANGED <<mode, queue, driver, call, ran, lost, skipped>>
  BY DEF ReplyArrives, SyncArrives, master, history
<1>8. QED
  BY <1>1, <1>2, <1>5, <1>6, <1>7 DEF Jobs

\* drive makes its next batch, and may find it is the one it has just sent.
LEMMA QueueToDriver ==
  ASSUME TypeInv, DriverHears \/ DriverWaited
  PROVE  /\ driver' \in Drivers /\ queue' = <<>> /\ goal' \in Tiers
         /\ attempts' \in [Sandboxes -> Nat]
         /\ \/ /\ driver'.at = "ready" /\ ExecsIn(driver'.cmds) = ExecsIn(queue)
               /\ Once(queue) => Once(driver'.cmds)
            \/ /\ driver'.at = "wait"
               /\ \/ ExecsIn(queue) = {}
                  \/ driver.at = "sent" /\ ExecsIn(queue) = ExecsIn(driver.cmds)
         /\ UNCHANGED <<mode, job, ran, lost, skipped>>
<1>1. CASE DriverHears
  <2>1. wire \in Answers /\ wire.rep \in Reports
    BY <1>1, WireKinds DEF DriverHears, TypeInv, Answers
  <2>2. goal' \in Tiers /\ attempts' \in [Sandboxes -> Nat]
    BY <1>1, <2>1, HeardType DEF DriverHears
  <2> DEFINE next == NextBatch(goal', attempts', wire.rep.have)
  <2>3. next \in Seq(Cmd) /\ ExecsIn(next) = ExecsIn(queue) /\ (Once(queue) => Once(next))
    BY <2>2, DriveBatch
  <2>4. driver' = IF next = <<>> \/ (driver.some /\ SameBatch(driver.cmds, next))
                  THEN [at |-> "wait", have |-> wire.rep.have]
                  ELSE [at |-> "ready", some |-> TRUE, cmds |-> next]
    BY <1>1 DEF DriverHears
  <2>5. queue' = <<>> /\ driver.at = "sent" /\ UNCHANGED <<mode, job, ran, lost, skipped>>
    BY <1>1 DEF DriverHears, node
  <2>6. CASE next = <<>> \/ (driver.some /\ SameBatch(driver.cmds, next))
    <3>1. driver' \in Waiting /\ driver'.at = "wait"
      BY <2>1, <2>4, <2>6 DEF Waiting, Reports
    <3>2. ExecsIn(queue) = {} \/ ExecsIn(queue) = ExecsIn(driver.cmds)
      BY <2>3, <2>6, EmptyBatch DEF SameBatch
    <3>3. QED
      BY <2>2, <2>5, <3>1, <3>2 DEF Drivers
  <2>7. CASE ~(next = <<>> \/ (driver.some /\ SameBatch(driver.cmds, next)))
    <3> HIDE DEF next
    <3>1. driver' \in Acting /\ driver'.at = "ready" /\ driver'.cmds = next
      BY <2>3, <2>4, <2>7 DEF Acting
    <3>2. QED
      BY <2>2, <2>3, <2>5, <3>1 DEF Drivers
  <2>8. QED
    BY <2>6, <2>7
<1>2. CASE DriverWaited
  <2> DEFINE next == NextBatch(goal, attempts, driver.have)
  <2>1. next \in Seq(Cmd) /\ ExecsIn(next) = ExecsIn(queue) /\ (Once(queue) => Once(next))
    BY DriveBatch DEF TypeInv, MasterType
  <2>2. driver' = [at |-> "ready", some |-> next # <<>>, cmds |-> next]
    BY <1>2 DEF DriverWaited
  <2>3. /\ queue' = <<>> /\ UNCHANGED <<mode, job, ran, lost, skipped>>
        /\ goal' \in Tiers /\ attempts' \in [Sandboxes -> Nat]
    BY <1>2 DEF DriverWaited, node, history, TypeInv, MasterType
  <2> HIDE DEF next
  <2>4. driver' \in Acting /\ driver'.at = "ready" /\ driver'.cmds = next
    BY <2>1, <2>2 DEF Acting
  <2>5. QED
    BY <2>1, <2>3, <2>4 DEF Drivers
<1>3. QED
  BY <1>1, <1>2

\* drive sends its batch.
LEMMA DriverToWire ==
  ASSUME TypeInv, DriverSyncs
  PROVE  /\ wire' \in Wires /\ wire'.k = "sync" /\ InWire' = driver.cmds
         /\ driver' \in Drivers /\ driver'.at = "sent" /\ driver'.cmds = driver.cmds
         /\ wire.k = "none" /\ driver.at = "ready"
         /\ UNCHANGED <<mode, queue, job, call, ran, lost, skipped>>
<1>1. driver \in Acting /\ driver.at = "ready" /\ wire.k = "none"
  BY DriverKinds DEF DriverSyncs, TypeInv, MasterType
<1>2. wire' \in Syncs /\ wire'.k = "sync" /\ wire'.cmds = driver.cmds
  BY <1>1 DEF DriverSyncs, Syncs, Acting
<1>3. driver' \in Acting /\ driver'.at = "sent" /\ driver'.cmds = driver.cmds
  BY <1>1 DEF DriverSyncs, Acting
<1>4. InWire' = driver.cmds
  BY <1>2 DEF InWire
<1>5. UNCHANGED <<mode, queue, job, call, ran, lost, skipped>>
  BY DEF DriverSyncs, master, node, history
<1>6. QED
  BY <1>1, <1>2, <1>3, <1>4, <1>5 DEF Wires, Drivers

\* A sync ends, with its answer if there is anyone to hear it.
LEMMA JobToWire ==
  ASSUME TypeInv, SyncEnds
  PROVE  /\ job.on /\ job' = NoJob /\ job.rest = <<>> /\ book' \in [Sandboxes -> Nat]
         /\ wire' \in Wires
         /\ job.heard => wire'.k = "answer" /\ wire'.res = job.res
                           /\ wire'.rep.traffic = unreported
         /\ ~job.heard => wire' = wire
         /\ UNCHANGED <<mode, queue, driver, call, ran, lost, skipped>>
<1>1. job \in Works /\ job.on /\ job.rest = <<>> /\ job' = NoJob
  BY JobKinds DEF SyncEnds, TypeInv, NodeType
<1>2. book' \in [Sandboxes -> Nat]
  BY DEF SyncEnds, TypeInv, NodeType
<1>3. PICK rep : rep = [Report EXCEPT !.fails = book']
  OBVIOUS
<1>4. rep \in Reports /\ rep.traffic = unreported
  BY <1>2, <1>3, ReportType
<1>5. ASSUME job.heard
      PROVE  wire' \in Answers /\ wire'.k = "answer" /\ wire'.res = job.res
               /\ wire'.rep.traffic = unreported
  <2>1. wire' = [k |-> "answer", rep |-> rep, res |-> job.res]
    BY <1>3, <1>5 DEF SyncEnds
  <2>2. QED
    BY <1>1, <1>4, <2>1 DEF Answers, Works
<1>6. ~job.heard => wire' = wire
  BY DEF SyncEnds
<1>7. UNCHANGED <<mode, queue, driver, call, ran, lost, skipped>>
  BY DEF SyncEnds, master, history
<1>8. QED
  BY <1>1, <1>2, <1>5, <1>6, <1>7 DEF Wires, TypeInv

\* The connection of a sync is closed: nothing is on it, and whoever is at work
\* has nobody to answer.
LEMMA HungUp ==
  ASSUME TypeInv, HangUp
  PROVE  /\ wire' = NoWire /\ job' \in Jobs /\ InJob' = InJob
         /\ job'.on = job.on /\ (job.on => job'.res = job.res /\ job'.rest = job.rest
                                            /\ ~job'.heard)
         /\ lost' = lost \cup ExecsCarried
<1>1. CASE job.on
  <2>1. job \in Works /\ job' = [job EXCEPT !.heard = FALSE]
    BY <1>1, JobKinds DEF HangUp, TypeInv, NodeType
  <2>2. /\ job' \in Works /\ job'.on /\ job'.res = job.res /\ job'.rest = job.rest
        /\ ~job'.heard
    BY <2>1 DEF Works
  <2>3. job'.on = job.on
    BY <2>1 DEF Works
  <2>4. QED
    BY <1>1, <2>2, <2>3 DEF HangUp, Jobs, InJob
<1>2. CASE ~job.on
  BY <1>2 DEF HangUp, TypeInv, NodeType, InJob
<1>3. QED
  BY <1>1, <1>2
\* The channel leaves everything well typed.
LEMMA ChannelType ==
  ASSUME TypeInv, NodeStep \/ MasterStep \/ DriverStep
  PROVE  TypeInv'
<1> USE DEF TypeInv, MasterType, NodeType
<1>1. CASE SendPoll
  <2>1. wire' \in Polls
    BY <1>1, ReportType DEF SendPoll, Polls
  <2>2. QED
    BY <1>1, <2>1 DEF SendPoll, Wires, master, history
<1>2. CASE PollArrives \/ ParkEnds
  <2>1. queue' \in Seq(ExecCmd)
    BY <1>2, QueueToWire, EmptyBatch
  <2>2. UNCHANGED <<early, have, book, backing, deferred, unreported>>
    BY <1>2 DEF PollArrives, ParkEnds, node, traffic
  <2>3. QED
    BY <1>2, <2>1, <2>2, QueueToWire
<1>3. CASE ReplyArrives \/ SyncArrives
  <2>1. UNCHANGED <<goal, attempts, early, have, book, backing, deferred, unreported>>
    BY <1>3 DEF ReplyArrives, SyncArrives, master, traffic
  <2>2. QED
    BY <1>3, <2>1, WireToJob, Blanks
<1>4. CASE PollEnds
  <2>1. book' \in [Sandboxes -> Nat] /\ backing' \subseteq Sandboxes
    BY <1>4 DEF PollEnds
  <2>2. QED
    BY <1>4, <2>1, Blanks DEF PollEnds, master, link, traffic, history
<1>5. CASE SyncEnds
  <2>1. backing' \subseteq Sandboxes /\ unreported' = {}
    BY <1>5 DEF SyncEnds
  <2>2. UNCHANGED <<goal, attempts, early, have, deferred>>
    BY <1>5 DEF SyncEnds, master
  <2>3. QED
    BY <1>5, <2>1, <2>2, JobToWire, Blanks
<1>6. CASE DriverSyncs
  <2>1. UNCHANGED <<goal, attempts, early, have, book, backing, deferred, unreported>>
    BY <1>6 DEF DriverSyncs, master, node, traffic
  <2>2. QED
    BY <1>6, <2>1, DriverToWire
<1>7. CASE DriverHears \/ DriverWaited
  <2>1. queue' \in Seq(ExecCmd)
    BY <1>7, QueueToDriver, EmptyBatch
  <2>2. UNCHANGED <<early, have, book, backing, deferred, unreported>>
    BY <1>7 DEF DriverHears, DriverWaited, node, traffic
  <2>3. call' \in [Execs -> {"idle", "open", "answered", "gone"}]
    <3>1. CASE DriverHears
      BY <3>1 DEF DriverHears, Deliver
    <3>2. CASE DriverWaited
      BY <3>2 DEF DriverWaited
    <3>3. QED
      BY <1>7, <3>1, <3>2
  <2>4. wire' \in Wires
    BY <1>7, Blanks DEF DriverHears, DriverWaited
  <2>5. QED
    BY <1>7, <2>1, <2>2, <2>3, <2>4, QueueToDriver
<1>8. CASE BackoffOver
  <2>1. driver' \in Drivers
    BY <1>8, DriverKinds DEF BackoffOver, Drivers, Acting
  <2>2. QED
    BY <1>8, <2>1 DEF BackoffOver, master, node, traffic, history
<1>9. QED
  BY <1>1, <1>2, <1>3, <1>4, <1>5, <1>6, <1>7, <1>8 DEF NodeStep, MasterStep, DriverStep

\* So does what goes wrong on it.
LEMMA FaultType ==
  ASSUME TypeInv,
         LosePoll \/ DriverFails \/ HandlerDropped \/ ReplaceDriver \/ MasterRestarts
  PROVE  TypeInv'
<1> USE DEF TypeInv, MasterType, NodeType
<1>1. CASE LosePoll
  BY <1>1, Blanks DEF LosePoll, master, node, history
<1>2. CASE HandlerDropped
  BY <1>2, Blanks DEF HandlerDropped, master, link, traffic, history
<1>3. CASE DriverFails \/ ReplaceDriver
  <2>1. HangUp /\ driver' \in Drivers
    BY <1>3, Blanks DEF DriverFails, ReplaceDriver
  <2>2. wire' \in Wires /\ job' \in Jobs
    BY <2>1, HungUp, Blanks
  <2>3. QED
    BY <1>3, <2>1, <2>2 DEF DriverFails, ReplaceDriver, master
<1>4. CASE MasterRestarts
  <2>1. HangUp /\ driver' \in Drivers
    BY <1>4, Blanks DEF MasterRestarts
  <2>2. wire' \in Wires /\ job' \in Jobs /\ queue' \in Seq(ExecCmd)
    BY <1>4, <2>1, HungUp, Blanks, EmptyBatch DEF MasterRestarts
  <2>3. call' \in [Execs -> {"idle", "open", "answered", "gone"}]
    BY <1>4 DEF MasterRestarts
  <2>4. QED
    BY <1>4, <2>1, <2>2, <2>3 DEF MasterRestarts
<1>5. QED
  BY <1>1, <1>2, <1>3, <1>4

\* Types are kept by every step.
LEMMA NextType ==
  ASSUME TypeInv, [Next]_vars
  PROVE  TypeInv'
<1>1. CASE Next
  BY <1>1, CallerType, CommandType, ChannelType, FaultType DEF Next
<1>2. CASE UNCHANGED vars
  BY <1>2 DEF TypeInv, MasterType, NodeType, vars, master, link, node, traffic, history
<1>3. QED
  BY <1>1, <1>2

\* Commands, reports, batches and answers are what both sides take them for, in
\* whichever order messages, faults and callers come.
THEOREM TypesHold == Spec => []TypeInv
<1>1. Init => TypeInv
  BY InitType
<1>2. TypeInv /\ [Next]_vars => TypeInv'
  BY NextType
<1>3. QED
  BY <1>1, <1>2, PTL DEF Spec
(***************************************************************************)
(* What a step does to the execs under way.                                *)
(***************************************************************************)
\* Every step but run_exec, and run_one's on an exec: execs are moved, and one
\* that is not, and whose caller still waits, was lost or passed over.
Onward ==
  /\ OnceInv' /\ Apart' /\ SentInv' /\ DeafInv'
  /\ Places' \subseteq Places /\ Results' \subseteq Results
  /\ lost \subseteq lost' /\ skipped \subseteq skipped'
  /\ \A e \in (Places \cup Results) \ (Places' \cup Results' \cup lost' \cup skipped') :
       call'[e] # "open"

\* What is carried is what is in a batch, or a result.
LEMMA Carried ==
  ExecsCarried = ExecsIn(InWire) \cup ExecsIn(InDriver) \cup ExecsIn(InJob) \cup Results
<1>1. ExecsIn(InWire) = IF wire.k \in {"reply", "sync"} THEN ExecsIn(wire.cmds) ELSE {}
  BY EmptyBatch DEF InWire
<1>2. ExecsIn(InDriver) = IF driver.at = "ready" THEN ExecsIn(driver.cmds) ELSE {}
  BY EmptyBatch DEF InDriver
<1>3. ExecsIn(InJob) = IF job.on THEN ExecsIn(job.rest) ELSE {}
  BY EmptyBatch DEF InJob
<1>4. QED
  BY <1>1, <1>2, <1>3 DEF ExecsCarried, Results

\* The messages and the work that hold no batch.
LEMMA NoBatch ==
  /\ wire.k \notin {"reply", "sync"} => InWire = <<>>
  /\ driver.at # "ready" => InDriver = <<>>
  /\ ~job.on => InJob = <<>>
  BY DEF InWire, InDriver, InJob

\* The queue goes out in the answer to a poll.
LEMMA QueueToWireOn ==
  ASSUME TypeInv, ExecInv, DeafInv, PollArrives \/ ParkEnds
  PROVE  Onward
<1> DEFINE w == ExecsIn(InWire')
<1>1. /\ w = ExecsIn(queue) /\ ExecsIn(InWire) = {} /\ ExecsIn(queue') = {}
      /\ Once(queue') /\ Once(InWire')
      /\ UNCHANGED <<mode, driver, job, call, ran, lost, skipped>>
      /\ wire'.k \in {"parked", "reply"} /\ wire.k \in {"poll", "parked"}
  BY QueueToWire, EmptyBatch DEF ExecInv, OnceInv, PollArrives, ParkEnds
<1>2. InDriver' = InDriver /\ InJob' = InJob
  BY <1>1 DEF InDriver, InJob
<1>3. Results' = Results
  BY <1>1 DEF Results
<1>4. OnceInv' /\ Apart'
  BY <1>1, <1>2 DEF ExecInv, OnceInv, Apart
<1>5. SentInv' /\ DeafInv'
  BY <1>1 DEF ExecInv, SentInv, DeafInv
<1>6. Places' = Places
  BY <1>1, <1>2 DEF Places
<1>7. QED
  BY <1>1, <1>3, <1>4, <1>5, <1>6 DEF Onward

\* The node takes a batch up.
LEMMA WireToJobOn ==
  ASSUME TypeInv, ExecInv, ReplyArrives \/ SyncArrives
  PROVE  Onward
<1>1. /\ job'.on /\ job'.heard /\ job'.res = {} /\ InJob' = InWire /\ ~job.on
      /\ wire.k \in {"reply", "sync"} /\ wire' = NoWire /\ wire'.k = "none"
      /\ UNCHANGED <<mode, queue, driver, call, ran, lost, skipped>>
  BY WireToJob, Blanks
<1>2. /\ InDriver' = InDriver /\ InWire' = <<>> /\ InJob = <<>>
  BY <1>1 DEF InDriver, InWire, InJob
<1>3. Results' = {}
  BY <1>1 DEF Results
<1>4. Results = {}
  BY <1>1 DEF Results
<1>5. OnceInv' /\ Apart'
  BY <1>1, <1>2, EmptyBatch DEF ExecInv, OnceInv, Apart
<1>6. SentInv' /\ DeafInv'
  BY <1>1 DEF ExecInv, SentInv, DeafInv
<1>7. Places' = Places
  BY <1>1, <1>2, EmptyBatch DEF Places
<1>8. QED
  BY <1>1, <1>3, <1>4, <1>5, <1>6, <1>7 DEF Onward

\* drive makes its next batch: what the queue holds is in it, for a batch that
\* is the one just sent has no exec of the queue.
LEMMA QueueToDriverOn ==
  ASSUME TypeInv, ExecInv, TurnInv, DeafInv, DriverHears \/ DriverWaited
  PROVE  Onward
<1>1. /\ queue' = <<>> /\ UNCHANGED <<mode, job, ran, lost, skipped>>
      /\ driver.at \in {"sent", "wait"}
  BY QueueToDriver DEF DriverHears, DriverWaited
<1>2. InDriver = <<>> /\ InJob' = InJob
  BY <1>1 DEF InDriver, InJob
<1>3. /\ driver'.at \in {"ready", "wait"}
      /\ ExecsIn(InDriver') = ExecsIn(queue) /\ Once(InDriver')
  <2>1. CASE /\ driver'.at = "ready" /\ ExecsIn(driver'.cmds) = ExecsIn(queue)
             /\ Once(queue) => Once(driver'.cmds)
    BY <2>1 DEF InDriver, ExecInv, OnceInv
  <2>2. CASE /\ driver'.at = "wait"
             /\ \/ ExecsIn(queue) = {}
                \/ driver.at = "sent" /\ ExecsIn(queue) = ExecsIn(driver.cmds)
    <3>1. ExecsIn(queue) = {}
      BY <2>2 DEF ExecInv, SentInv
    <3>2. InDriver' = <<>>
      BY <2>2 DEF InDriver
    <3>3. QED
      BY <2>2, <3>1, <3>2, EmptyBatch
  <2>3. QED
    BY <2>1, <2>2, QueueToDriver
<1>4. /\ InWire' = InWire \/ InWire' = <<>>
      /\ Results' \subseteq Results
      /\ \A e \in Results \ Results' : call'[e] # "open"
      /\ ExecsIn(InWire) = ExecsIn(InWire')
  <2>1. CASE DriverHears
    <3>1. wire' = NoWire /\ wire'.k = "none" /\ wire.k = "answer" /\ wire.res \subseteq Execs
      BY <2>1, WireKinds, Blanks DEF DriverHears, TypeInv, Answers
    <3>2. InWire' = <<>> /\ InWire = <<>>
      BY <3>1 DEF InWire
    <3>3. \A e \in wire.res : call'[e] # "open"
      BY <2>1, <3>1 DEF DriverHears, Deliver
    <3>4. Results = wire.res \cup Results'
      BY <1>1, <3>1 DEF Results
    <3>5. QED
      BY <3>2, <3>3, <3>4
  <2>2. CASE DriverWaited
    <3>1. wire' = wire
      BY <2>2 DEF DriverWaited
    <3>2. QED
      BY <1>1, <3>1 DEF InWire, Results
  <2>3. QED
    BY <2>1, <2>2
<1>5. OnceInv' /\ Apart'
  BY <1>1, <1>2, <1>3, <1>4, EmptyBatch DEF ExecInv, OnceInv, Apart
<1>6. SentInv'
  BY <1>3 DEF SentInv
<1>7. DeafInv'
  BY <1>1 DEF DeafInv
<1>8. Places' = Places
  BY <1>1, <1>2, <1>3, <1>4, EmptyBatch DEF Places
<1>9. QED
  BY <1>1, <1>4, <1>5, <1>6, <1>7, <1>8 DEF Onward

\* drive sends its batch.
LEMMA DriverToWireOn ==
  ASSUME TypeInv, ExecInv, DeafInv, DriverSyncs
  PROVE  Onward
<1>1. /\ wire'.k = "sync" /\ InWire' = driver.cmds /\ driver'.at = "sent"
      /\ driver'.cmds = driver.cmds /\ wire.k = "none" /\ driver.at = "ready"
      /\ UNCHANGED <<mode, queue, job, call, ran, lost, skipped>>
  BY DriverToWire
<1>2. /\ InWire = <<>> /\ InDriver = driver.cmds /\ InDriver' = <<>> /\ InJob' = InJob
  BY <1>1 DEF InWire, InDriver, InJob
<1>3. Results' = Results
  BY <1>1 DEF Results
<1>4. OnceInv' /\ Apart'
  BY <1>1, <1>2, EmptyBatch DEF ExecInv, OnceInv, Apart
<1>5. DeafInv'
  BY <1>1 DEF DeafInv
<1>6. Places' = Places
  BY <1>1, <1>2, EmptyBatch DEF Places
<1>7. SentInv'
  BY <1>1, <1>2 DEF SentInv, ExecInv, Apart, NotYetRun, Places
<1>8. QED
  BY <1>1, <1>3, <1>4, <1>5, <1>6, <1>7 DEF Onward
\* A step that touches no batch and answers nobody.
LEMMA AsideOn ==
  ASSUME TypeInv, ExecInv, DeafInv, UNCHANGED <<queue, link, job, lost, skipped>>,
         \A e \in Execs : call[e] # "idle" => call'[e] # "idle"
  PROVE  Onward
<1>1. UNCHANGED <<queue, wire, driver, job, lost, skipped>>
  BY DEF link
<1>2. InWire' = InWire /\ InDriver' = InDriver /\ InJob' = InJob /\ Results' = Results
  BY <1>1 DEF InWire, InDriver, InJob, Results
<1>3. OnceInv' /\ Apart' /\ Places' = Places
  BY <1>1, <1>2 DEF ExecInv, OnceInv, Apart, Places
<1>4. SentInv'
  <2>1. driver.at = "sent" => ExecsIn(driver.cmds) \subseteq Execs
    BY DriverKinds, ExecsType DEF TypeInv, MasterType, Acting
  <2>2. QED
    BY <1>1, <2>1 DEF ExecInv, SentInv
<1>5. DeafInv'
  BY <1>1 DEF DeafInv
<1>6. QED
  BY <1>1, <1>2, <1>3, <1>4, <1>5 DEF Onward

\* A poll goes out with no batch in it.
LEMMA SendPollOn ==
  ASSUME ExecInv, DeafInv, SendPoll
  PROVE  Onward
<1>1. /\ wire.k = "none" /\ wire'.k = "poll"
      /\ UNCHANGED <<queue, driver, job, lost, skipped, call>>
  BY DEF SendPoll, master, history
<1>2. InWire' = InWire /\ InDriver' = InDriver /\ InJob' = InJob /\ Results' = Results
  BY <1>1 DEF InWire, InDriver, InJob, Results
<1>3. OnceInv' /\ Apart' /\ Places' = Places
  BY <1>1, <1>2 DEF ExecInv, OnceInv, Apart, Places
<1>4. SentInv' /\ DeafInv'
  BY <1>1 DEF ExecInv, SentInv, DeafInv
<1>5. QED
  BY <1>1, <1>2, <1>3, <1>4 DEF Onward

\* poll_once ends with nothing left to run, and the results are posted.
LEMMA PollEndsOn ==
  ASSUME ExecInv, TurnInv, PollEnds
  PROVE  Onward
<1>1. /\ job.on /\ job.rest = <<>> /\ job.res = {} /\ job' = NoJob /\ job'.on = FALSE
      /\ UNCHANGED <<queue, wire, driver, lost, skipped, call>>
  BY Blanks DEF PollEnds, TurnInv, master, link, history
<1>2. InWire' = InWire /\ InDriver' = InDriver /\ InJob = <<>> /\ InJob' = <<>>
  BY <1>1 DEF InWire, InDriver, InJob
<1>3. Results' = Results
  BY <1>1 DEF Results
<1>4. OnceInv' /\ Apart' /\ Places' = Places
  BY <1>1, <1>2 DEF ExecInv, OnceInv, Apart, Places
<1>5. SentInv' /\ DeafInv'
  BY <1>1 DEF ExecInv, SentInv, DeafInv
<1>6. QED
  BY <1>1, <1>3, <1>4, <1>5 DEF Onward

\* A sync ends: its results are in its answer, or were lost with the driver.
LEMMA SyncEndsOn ==
  ASSUME TypeInv, ExecInv, TurnInv, DeafInv, SyncEnds
  PROVE  Onward
<1>1. /\ job.on /\ job.rest = <<>> /\ job' = NoJob /\ job'.on = FALSE
      /\ UNCHANGED <<queue, driver, lost, skipped, call>>
  BY JobToWire, Blanks
<1>2. InDriver' = InDriver /\ InJob = <<>> /\ InJob' = <<>>
  BY <1>1 DEF InDriver, InJob
<1>3. /\ ExecsIn(InWire') = ExecsIn(InWire) /\ Once(InWire')
      /\ Results' \subseteq Results /\ Results \ Results' \subseteq lost
  <2>1. CASE job.heard
    <3>1. wire.k = "none" /\ wire'.k = "answer" /\ wire'.res = job.res
      BY <1>1, <2>1, JobToWire DEF TurnInv, SyncEnds
    <3>2. InWire = <<>> /\ InWire' = <<>> /\ Results = job.res /\ Results' = job.res
      BY <1>1, <3>1 DEF InWire, Results
    <3>3. QED
      BY <3>2, EmptyBatch
  <2>2. CASE ~job.heard
    <3>1. wire' = wire /\ InWire' = InWire
      BY <2>2, JobToWire DEF InWire
    <3>2. Results = Results' \cup job.res
      BY <1>1, <3>1 DEF Results
    <3>3. job.res \subseteq lost
      BY <1>1, <2>2 DEF DeafInv
    <3>4. QED
      BY <3>1, <3>2, <3>3 DEF ExecInv, OnceInv
  <2>3. QED
    BY <2>1, <2>2
<1>4. OnceInv' /\ Apart' /\ Places' = Places
  BY <1>1, <1>2, <1>3 DEF ExecInv, OnceInv, Apart, Places
<1>5. SentInv' /\ DeafInv'
  BY <1>1 DEF ExecInv, SentInv, DeafInv
<1>6. QED
  BY <1>1, <1>3, <1>4, <1>5 DEF Onward

\* A lost answer takes its execs with it.
LEMMA LosePollOn ==
  ASSUME ExecInv, TurnInv, DeafInv, LosePoll
  PROVE  Onward
<1>1. /\ wire' = NoWire /\ wire'.k = "none" /\ wire.k \in {"poll", "parked", "reply"}
      /\ UNCHANGED <<queue, driver, job, skipped, call>>
      /\ lost' = IF wire.k = "reply" THEN lost \cup ExecsIn(wire.cmds) ELSE lost
  BY Blanks DEF LosePoll, TurnInv, master, node
<1>2. InWire' = <<>> /\ InDriver' = InDriver /\ InJob' = InJob
  BY <1>1 DEF InWire, InDriver, InJob
<1>3. ExecsIn(InWire) \subseteq lost' /\ lost \subseteq lost'
  BY <1>1, EmptyBatch DEF InWire
<1>4. Results' = Results
  BY <1>1 DEF Results
<1>5. OnceInv' /\ Apart'
  BY <1>1, <1>2, EmptyBatch DEF ExecInv, OnceInv, Apart
<1>6. Places' \cup ExecsIn(InWire) = Places
  BY <1>1, <1>2, EmptyBatch DEF Places
<1>7. SentInv' /\ DeafInv'
  BY <1>1, <1>3 DEF ExecInv, SentInv, DeafInv
<1>8. QED
  BY <1>1, <1>3, <1>4, <1>5, <1>6, <1>7 DEF Onward

\* A closed connection takes with it all that is on it and all that the node is
\* still at, and the driver starts afresh.
LEMMA HangUpOn ==
  ASSUME TypeInv, ExecInv, DriverFails \/ ReplaceDriver \/ MasterRestarts
  PROVE  Onward
<1>1. HangUp /\ driver' \in {Fresh, [Fresh EXCEPT !.at = "backoff"]} /\ skipped' = skipped
  BY DEF DriverFails, ReplaceDriver, MasterRestarts
<1>2. /\ wire' = NoWire /\ wire'.k = "none" /\ InJob' = InJob /\ job'.on = job.on
      /\ job.on => job'.res = job.res /\ job'.rest = job.rest /\ ~job'.heard
      /\ lost' = lost \cup ExecsCarried
  BY <1>1, HungUp, Blanks
<1>3. driver'.cmds = <<>> /\ InWire' = <<>> /\ InDriver' = <<>>
  BY <1>1, <1>2, Blanks DEF InWire, InDriver
<1>4. /\ queue' = queue \/ queue' = <<>>
      /\ ExecsIn(queue') \subseteq ExecsIn(queue) /\ Once(queue')
      /\ \A e \in ExecsIn(queue) \ ExecsIn(queue') : call'[e] # "open"
  <2>1. CASE DriverFails \/ ReplaceDriver
    BY <2>1 DEF DriverFails, ReplaceDriver, master, ExecInv, OnceInv
  <2>2. CASE MasterRestarts
    <3>1. queue' = <<>> /\ \A e \in Execs : call'[e] # "open"
      BY <2>2 DEF MasterRestarts
    <3>2. ExecsIn(queue) \subseteq Execs
      BY ExecsType, QueueIsBatch DEF TypeInv, MasterType
    <3>3. QED
      BY <3>1, <3>2, EmptyBatch
  <2>3. QED
    BY <2>1, <2>2
<1>5. Results' \subseteq Results
  BY <1>2 DEF Results
<1>6. OnceInv' /\ Apart'
  BY <1>2, <1>3, <1>4, EmptyBatch DEF ExecInv, OnceInv, Apart
<1>7. /\ Places' \subseteq Places
      /\ Places \cup Results \subseteq Places' \cup lost' \cup (ExecsIn(queue) \ ExecsIn(queue'))
  BY <1>2, <1>3, <1>4, EmptyBatch, Carried DEF Places
<1>8. SentInv'
  BY <1>3, EmptyBatch DEF SentInv
<1>9. DeafInv'
  <2>1. job.on => ExecsIn(job.rest) \cup job.res \subseteq ExecsCarried
    BY Carried DEF InJob, Results
  <2>2. QED
    BY <1>2, <2>1 DEF DeafInv
<1>10. QED
  BY <1>1, <1>2, <1>4, <1>5, <1>6, <1>7, <1>8, <1>9 DEF Onward

\* The loop comes round with nothing to send again.
LEMMA BackoffOverOn ==
  ASSUME TypeInv, ExecInv, DeafInv, BackoffOver
  PROVE  Onward
<1>1. /\ driver.cmds = <<>> /\ driver.at = "backoff"
      /\ UNCHANGED <<queue, wire, job, lost, skipped, call>>
  BY DEF BackoffOver, ExecInv, SentInv, master, node, history
<1>2. driver' \in Acting /\ driver'.at = "ready" /\ driver'.cmds = <<>>
  BY <1>1, DriverKinds DEF BackoffOver, TypeInv, MasterType, Acting
<1>3. InWire' = InWire /\ InDriver' = InDriver /\ InJob' = InJob /\ Results' = Results
  BY <1>1, <1>2 DEF InWire, InDriver, InJob, Results
<1>4. OnceInv' /\ Apart' /\ Places' = Places
  BY <1>1, <1>3 DEF ExecInv, OnceInv, Apart, Places
<1>5. SentInv' /\ DeafInv'
  BY <1>1, <1>2 DEF SentInv, DeafInv
<1>6. QED
  BY <1>1, <1>3, <1>4, <1>5 DEF Onward

\* A handler that is dropped worked on what was already lost.
LEMMA HandlerDroppedOn ==
  ASSUME ExecInv, DeafInv, HandlerDropped
  PROVE  Onward
<1>1. /\ job.on /\ job' = NoJob /\ job'.on = FALSE
      /\ ExecsIn(job.rest) \cup job.res \subseteq lost
      /\ UNCHANGED <<queue, wire, driver, lost, skipped, call>>
  BY Blanks DEF HandlerDropped, DeafInv, master, link, history
<1>2. InWire' = InWire /\ InDriver' = InDriver /\ InJob = job.rest /\ InJob' = <<>>
  BY <1>1 DEF InWire, InDriver, InJob
<1>3. Results = Results' \cup job.res
  BY <1>1 DEF Results
<1>4. OnceInv' /\ Apart'
  BY <1>1, <1>2, EmptyBatch DEF ExecInv, OnceInv, Apart
<1>5. Places = Places' \cup ExecsIn(job.rest)
  BY <1>1, <1>2, EmptyBatch DEF Places
<1>6. SentInv' /\ DeafInv'
  BY <1>1 DEF ExecInv, SentInv, DeafInv
<1>7. QED
  BY <1>1, <1>3, <1>4, <1>5, <1>6 DEF Onward

\* A tier change, or a command passed over, leaves the work one command shorter.
LEMMA ShorterOn ==
  ASSUME TypeInv, ExecInv, DeafInv, PassOver \/ RunSet \/ FailSet
  PROVE  Onward
<1>1. /\ job.on /\ job.rest # <<>> /\ job' = Rest /\ lost' = lost
      /\ UNCHANGED <<queue, wire, driver, call>>
  BY DEF PassOver, RunSet, FailSet, link, master
<1>2. /\ job'.rest = Tail(job.rest) /\ job'.res = job.res /\ job'.heard = job.heard /\ job'.on
      /\ job.rest \in Seq(Cmd)
  BY <1>1, RestType, JobKinds DEF TypeInv, NodeType, Works
<1>3. InWire' = InWire /\ InDriver' = InDriver /\ InJob = job.rest /\ InJob' = Tail(job.rest)
  BY <1>1, <1>2 DEF InWire, InDriver, InJob
<1>4. Results' = Results
  BY <1>1, <1>2 DEF Results
<1>5. Once(job.rest)
  BY <1>3 DEF ExecInv, OnceInv
<1>6. /\ Once(Tail(job.rest)) /\ ExecsIn(Tail(job.rest)) \subseteq ExecsIn(job.rest)
  BY <1>1, <1>2, <1>5, OneLess
<1>7. skipped \subseteq skipped' /\ ExecsIn(job.rest) \subseteq ExecsIn(Tail(job.rest)) \cup skipped'
  <2>1. CASE RunSet \/ FailSet
    <3>1. Head(job.rest).k = "set" /\ skipped' = skipped
      BY <2>1 DEF RunSet, FailSet
    <3>2. QED
      BY <1>1, <1>2, <1>5, <3>1, OneLess
  <2>2. CASE PassOver
    <3>1. skipped' = skipped \cup ExecsIn(<<Head(job.rest)>>)
      BY <2>2 DEF PassOver
    <3>2. Head(job.rest) \in Cmd /\ Head(job.rest).k \in {"set", "exec"}
      BY <1>1, <1>2, HeadType, CmdKinds DEF TypeInv, NodeType
    <3>3. Head(job.rest).k = "exec" => Head(job.rest).e \in ExecsIn(<<Head(job.rest)>>)
      <4>1. Range(<<Head(job.rest)>>) = {Head(job.rest)}
        BY DEF Range
      <4>2. QED
        BY <4>1 DEF ExecsIn
    <3>4. QED
      BY <1>1, <1>2, <1>5, <3>1, <3>2, <3>3, OneLess
  <2>3. QED
    BY <2>1, <2>2
<1>8. OnceInv' /\ Apart'
  BY <1>1, <1>3, <1>6 DEF ExecInv, OnceInv, Apart
<1>9. Places' \subseteq Places /\ Places \subseteq Places' \cup skipped'
  BY <1>1, <1>3, <1>6, <1>7 DEF Places
<1>10. SentInv' /\ DeafInv'
  BY <1>1, <1>2, <1>6 DEF ExecInv, SentInv, DeafInv
<1>11. QED
  BY <1>1, <1>4, <1>7, <1>8, <1>9, <1>10 DEF Onward
\* Every exec somewhere on its way is a caller's.
LEMMA PlacesType ==
  ASSUME TypeInv
  PROVE  Places \subseteq Execs /\ Results \subseteq Execs
<1>1. ExecsIn(queue) \subseteq Execs
  BY ExecsType, QueueIsBatch DEF TypeInv, MasterType
<1>2. InWire \in Seq(Cmd)
  BY WireKinds, EmptyBatch DEF InWire, TypeInv, Replies, Syncs
<1>3. InDriver \in Seq(Cmd)
  BY DriverKinds, EmptyBatch DEF InDriver, TypeInv, MasterType, Acting
<1>4. InJob \in Seq(Cmd)
  BY JobKinds, EmptyBatch DEF InJob, TypeInv, NodeType, Works
<1>5. Results \subseteq Execs
  <2>1. wire.k = "answer" => wire.res \subseteq Execs
    BY WireKinds DEF TypeInv, Answers
  <2>2. job.on => job.res \subseteq Execs
    BY JobKinds DEF TypeInv, NodeType, Works
  <2>3. QED
    BY <2>1, <2>2 DEF Results
<1>6. QED
  BY <1>1, <1>2, <1>3, <1>4, <1>5, ExecsType DEF Places

\* Where an exec whose caller waits may be.
Somewhere ==
  \A e \in Execs : call[e] = "open" => e \in Places \cup Results \cup lost \cup skipped

\* NeverDropped in terms of the places.
LEMMA DroppedNowhere == NeverDropped <=> Somewhere
  BY Carried DEF NeverDropped, Somewhere, Places

\* The same of the state a step leads to.
LEMMA DroppedNowhereNext == NeverDropped' <=> Somewhere'
  BY DroppedNowhere, PTL

\* What a step that moves execs and runs none leaves standing.
LEMMA OnwardKeeps ==
  ASSUME TypeInv, ChannelInv, Onward, ran' = ran,
         \A e \in Execs : /\ call[e] # "idle" => call'[e] # "idle"
                          /\ call'[e] = "open" => call[e] = "open"
  PROVE  ExecInv' /\ DeafInv' /\ NeverDropped'
<1>1. Places \subseteq Execs /\ Results \subseteq Execs
  BY PlacesType
<1>2. OnceInv' /\ Apart' /\ SentInv' /\ DeafInv'
  BY DEF Onward
<1>3. NotYetRun'
  BY <1>1 DEF Onward, ChannelInv, ExecInv, NotYetRun
<1>4. RunOnce'
  BY <1>1 DEF Onward, ChannelInv, ExecInv, RunOnce
<1>5. NotAsked'
  BY DEF ChannelInv, ExecInv, NotAsked
<1>6. \A e \in Execs : call'[e] = "open" => e \in Places' \cup Results' \cup lost' \cup skipped'
  <2> SUFFICES ASSUME NEW e \in Execs, call'[e] = "open"
               PROVE  e \in Places' \cup Results' \cup lost' \cup skipped'
    OBVIOUS
  <2>1. e \in Places \cup Results \cup lost \cup skipped
    BY DroppedNowhere DEF Somewhere, ChannelInv
  <2>2. QED
    BY <2>1 DEF Onward
<1>7. NeverDropped'
  BY <1>6, DroppedNowhereNext DEF Somewhere
<1>8. QED
  BY <1>2, <1>3, <1>4, <1>5, <1>7 DEF ExecInv

\* run_exec queues an exec that was nowhere.
LEMMA RunExecKeeps ==
  ASSUME TypeInv, ChannelInv, NEW e \in Execs, NEW s \in Sandboxes, RunExec(e, s)
  PROVE  ExecInv' /\ DeafInv' /\ NeverDropped'
<1>1. /\ call[e] = "idle" /\ call' = [call EXCEPT ![e] = "open"]
      /\ queue' = Append(queue, Exec(e, s))
      /\ UNCHANGED <<wire, driver, job, ran, lost, skipped>>
  BY DEF RunExec, link, node, history
<1>2. e \notin Places /\ e \notin Results
  BY <1>1 DEF ChannelInv, ExecInv, NotYetRun, RunOnce
<1>3. ExecsIn(queue') = ExecsIn(queue) \cup {e} /\ Once(queue')
  <2>1. Once(queue) /\ e \notin ExecsIn(queue)
    BY <1>2 DEF Places, ChannelInv, ExecInv, OnceInv
  <2>2. QED
    BY <1>1, <2>1, OneMore DEF TypeInv, MasterType
<1>4. InWire' = InWire /\ InDriver' = InDriver /\ InJob' = InJob /\ Results' = Results
  BY <1>1 DEF InWire, InDriver, InJob, Results
<1>5. Places' = Places \cup {e}
  BY <1>3, <1>4 DEF Places
<1>6. OnceInv' /\ Apart'
  BY <1>2, <1>3, <1>4 DEF ChannelInv, ExecInv, OnceInv, Apart, Places
<1>7. \A d \in Execs : (d # e => call'[d] = call[d]) /\ call'[e] = "open"
  BY <1>1 DEF TypeInv, MasterType
<1>8. Places \subseteq Execs /\ Results \subseteq Execs
  BY PlacesType
<1>9. NotYetRun' /\ RunOnce' /\ NotAsked'
  <2>1. ran[e] = 0
    BY <1>1 DEF ChannelInv, ExecInv, NotAsked
  <2>2. NotYetRun'
    BY <1>1, <1>5, <1>7, <1>8, <2>1 DEF ChannelInv, ExecInv, NotYetRun
  <2>3. RunOnce'
    BY <1>1, <1>4, <1>7, <1>8 DEF ChannelInv, ExecInv, RunOnce
  <2>4. NotAsked'
    BY <1>1, <1>7 DEF ChannelInv, ExecInv, NotAsked
  <2>5. QED
    BY <2>2, <2>3, <2>4
<1>10. SentInv'
  <2>1. driver.at = "sent" =>
          /\ ExecsIn(driver.cmds) \subseteq Execs /\ e \notin ExecsIn(driver.cmds)
          /\ ExecsIn(driver.cmds) \cap ExecsIn(queue) = {}
          /\ \A d \in ExecsIn(driver.cmds) : call[d] # "idle"
    BY <1>1, DriverKinds, ExecsType DEF TypeInv, MasterType, Acting, ChannelInv, ExecInv, SentInv
  <2>2. QED
    BY <1>1, <1>3, <1>7, <2>1 DEF SentInv, ChannelInv, ExecInv
<1>11. DeafInv'
  BY <1>1 DEF ChannelInv, DeafInv
<1>12. NeverDropped'
  <2>1. \A d \in Execs : call'[d] = "open" => d \in Places' \cup Results' \cup lost' \cup skipped'
    BY <1>1, <1>4, <1>5, <1>7, DroppedNowhere DEF Somewhere, ChannelInv
  <2>2. QED
    BY <2>1, DroppedNowhereNext DEF Somewhere
<1>13. QED
  BY <1>6, <1>9, <1>10, <1>11, <1>12 DEF ExecInv

\* run_one runs an exec that was nowhere else, and what it did is a result, is
\* told, or is lost.
LEMMA RunOneKeeps ==
  ASSUME TypeInv, ChannelInv, RunOneExec
  PROVE  ExecInv' /\ DeafInv' /\ NeverDropped'
<1> DEFINE x == Head(job.rest).e
<1>1. /\ job.on /\ job.rest # <<>> /\ Head(job.rest).k = "exec"
      /\ ran' = [ran EXCEPT ![x] = @ + 1]
      /\ UNCHANGED <<queue, wire, driver, skipped>>
  BY DEF RunOneExec, link
<1>2. job.rest \in Seq(Cmd) /\ x \in Execs
  BY <1>1, JobKinds, HeadType, CmdKinds DEF TypeInv, NodeType, Works, ExecCmd
<1>3. Once(job.rest) /\ InJob = job.rest
  BY <1>1 DEF InJob, ChannelInv, ExecInv, OnceInv
<1>4. /\ Once(Tail(job.rest)) /\ ExecsIn(job.rest) = ExecsIn(Tail(job.rest)) \cup {x}
      /\ x \notin ExecsIn(Tail(job.rest))
  BY <1>1, <1>2, <1>3, OneLess
<1>5. /\ job'.on /\ job'.rest = Tail(job.rest) /\ job'.heard = job.heard
      /\ \/ /\ mode = "drive" /\ job'.res = job.res \cup {x} /\ UNCHANGED <<call, lost>>
         \/ /\ job'.res = job.res
            /\ (Deliver({x}) /\ lost' = lost) \/ (lost' = lost \cup {x} /\ call' = call)
  <2>1. CASE mode = "drive"
    <3>1. job' = [Rest EXCEPT !.res = @ \cup {x}] /\ UNCHANGED <<call, lost>>
      BY <2>1 DEF RunOneExec
    <3>2. QED
      BY <1>1, <1>2, <2>1, <3>1, RestType DEF TypeInv, NodeType
  <2>2. CASE mode # "drive"
    <3>1. /\ job' = Rest
          /\ (Deliver({x}) /\ lost' = lost) \/ (lost' = lost \cup {x} /\ call' = call)
      BY <2>2 DEF RunOneExec
    <3>2. QED
      BY <1>1, <3>1, RestType DEF TypeInv, NodeType
  <2>3. QED
    BY <2>1, <2>2
<1> HIDE DEF x
<1>6. InWire' = InWire /\ InDriver' = InDriver /\ InJob' = Tail(job.rest)
  BY <1>1, <1>5 DEF InWire, InDriver, InJob
<1>7. OnceInv' /\ Apart'
  BY <1>1, <1>3, <1>4, <1>6 DEF ChannelInv, ExecInv, OnceInv, Apart
<1>8. Places = Places' \cup {x} /\ x \notin Places'
  BY <1>1, <1>3, <1>4, <1>6 DEF ChannelInv, ExecInv, Apart, Places
<1>9. Results \subseteq Results' /\ Results' \subseteq Results \cup {x}
  BY <1>1, <1>5 DEF Results
<1>10. Places \subseteq Execs /\ Results \subseteq Execs
  BY PlacesType
<1>11. \A d \in Execs : /\ call[d] # "idle" <=> call'[d] # "idle"
                        /\ call'[d] = "open" => call[d] = "open"
  BY <1>5 DEF Deliver
<1>12. call[x] # "idle" /\ ran[x] = 0
  BY <1>8 DEF ChannelInv, ExecInv, NotYetRun
<1>13. ran'[x] = 1 /\ \A d \in Execs : d # x => ran'[d] = ran[d]
  BY <1>1, <1>2, <1>12 DEF TypeInv, NodeType
<1>14. NotYetRun'
  BY <1>8, <1>10, <1>11, <1>13 DEF ChannelInv, ExecInv, NotYetRun
<1>15. RunOnce'
  BY <1>2, <1>9, <1>10, <1>11, <1>12, <1>13 DEF ChannelInv, ExecInv, RunOnce
<1>16. NotAsked'
  BY <1>2, <1>11, <1>12, <1>13 DEF ChannelInv, ExecInv, NotAsked
<1>17. SentInv'
  <2>1. driver.at = "sent" => ExecsIn(driver.cmds) \subseteq Execs
    BY DriverKinds, ExecsType DEF TypeInv, MasterType, Acting
  <2>2. QED
    BY <1>1, <1>11, <2>1 DEF ChannelInv, ExecInv, SentInv
<1>18. DeafInv'
  BY <1>1, <1>4, <1>5 DEF ChannelInv, DeafInv
<1>19. ASSUME NEW d \in Execs, call'[d] = "open"
       PROVE  d \in Places' \cup Results' \cup lost' \cup skipped'
  <2>1. d \in Places \cup Results \cup lost \cup skipped
    BY <1>11, <1>19, DroppedNowhere DEF Somewhere, ChannelInv
  <2>2. lost \subseteq lost'
    BY <1>5
  <2>3. x \in Results' \cup lost' \/ call'[x] # "open"
    BY <1>2, <1>5 DEF Results, Deliver
  <2>4. QED
    BY <1>1, <1>8, <1>9, <1>19, <2>1, <2>2, <2>3
<1>20. NeverDropped'
  BY <1>19, DroppedNowhereNext DEF Somewhere
<1>21. QED
  BY <1>7, <1>14, <1>15, <1>16, <1>17, <1>18, <1>20 DEF ExecInv
(***************************************************************************)
(* Turns and traffic.                                                      *)
(***************************************************************************)
\* The two sides take turns on a connection, in both modes.
LEMMA NextTurn ==
  ASSUME TypeInv, TurnInv, Next
  PROVE  TurnInv'
<1> USE DEF TurnInv
<1>1. CASE UNCHANGED <<mode, driver, wire, job>>
  BY <1>1
<1>2. CASE PassOver \/ RunSet \/ FailSet
  <2>1. job.on /\ job.rest # <<>> /\ job' = Rest /\ UNCHANGED <<mode, driver, wire>>
    BY <1>2 DEF PassOver, RunSet, FailSet, link
  <2>2. job'.on /\ job'.res = job.res /\ job'.heard = job.heard
    BY <2>1, RestType DEF TypeInv, NodeType
  <2>3. QED
    BY <2>1, <2>2
<1>3. CASE RunOneExec
  <2>1. job.on /\ job.rest # <<>> /\ UNCHANGED <<mode, driver, wire>>
    BY <1>3 DEF RunOneExec, link
  <2>2. Head(job.rest).e \in Execs
    BY <1>3, <2>1, HeadType, CmdKinds DEF TypeInv, NodeType, ExecCmd, RunOneExec
  <2>3. job'.on /\ job'.heard = job.heard /\ (mode # "drive" => job'.res = job.res)
    <3>1. CASE mode = "drive"
      <4>1. job' = [Rest EXCEPT !.res = @ \cup {Head(job.rest).e}]
        BY <1>3, <3>1 DEF RunOneExec
      <4>2. QED
        BY <2>1, <2>2, <3>1, <4>1, RestType DEF TypeInv, NodeType
    <3>2. CASE mode # "drive"
      <4>1. job' = Rest
        BY <1>3, <3>2 DEF RunOneExec
      <4>2. QED
        BY <2>1, <4>1, RestType DEF TypeInv, NodeType
    <3>3. QED
      BY <3>1, <3>2
  <2>4. QED
    BY <2>1, <2>3
<1>4. CASE SendPoll
  <2>1. /\ mode = "poll" /\ ~job.on /\ wire'.k = "poll" /\ UNCHANGED <<mode, driver, job>>
    BY <1>4 DEF SendPoll
  <2>2. QED
    BY <2>1
<1>5. CASE PollArrives \/ ParkEnds
  <2>1. wire.k \in {"poll", "parked"}
    BY <1>5 DEF PollArrives, ParkEnds
  <2>2. wire'.k \in {"parked", "reply"} /\ UNCHANGED <<mode, driver, job>>
    BY <1>5, QueueToWire
  <2>3. QED
    BY <2>1, <2>2 DEF TypeInv
<1>6. CASE ReplyArrives \/ SyncArrives
  <2>1. /\ job'.on /\ job'.res = {} /\ wire.k \in {"reply", "sync"} /\ wire'.k = "none"
        /\ UNCHANGED <<mode, driver>>
    BY <1>6, WireToJob, Blanks
  <2>2. QED
    BY <2>1
<1>7. CASE PollEnds \/ HandlerDropped
  <2>1. job'.on = FALSE /\ UNCHANGED <<mode, driver, wire>>
    BY <1>7, Blanks DEF PollEnds, HandlerDropped, link
  <2>2. QED
    BY <2>1
<1>8. CASE SyncEnds
  <2>1. mode = "drive" /\ job.on /\ job'.on = FALSE /\ UNCHANGED <<mode, driver>>
    BY <1>8, JobToWire, Blanks DEF SyncEnds
  <2>2. \/ wire'.k = "answer" /\ driver.at = "sent"
        \/ wire' = wire
    BY <1>8, <2>1, JobToWire
  <2>3. QED
    BY <2>1, <2>2
<1>9. CASE DriverSyncs
  <2>1. mode = "drive" /\ wire'.k = "sync" /\ driver.at = "ready" /\ driver'.at = "sent"
          /\ UNCHANGED <<mode, job>>
    BY <1>9, DriverToWire DEF DriverSyncs
  <2>2. QED
    BY <2>1
<1>10. CASE DriverHears \/ DriverWaited
  <2>1. driver.at \in {"sent", "wait"} /\ mode = "drive" /\ UNCHANGED <<mode, job>>
    <3>1. driver.at \in {"sent", "wait"} /\ UNCHANGED <<mode, job>>
      BY <1>10 DEF DriverHears, DriverWaited, node
    <3>2. QED
      BY <3>1, Blanks DEF TypeInv
  <2>2. wire'.k = "none"
    BY <1>10, <2>1, Blanks DEF DriverHears, DriverWaited
  <2>3. ~(job.on /\ job.heard)
    BY <1>10, <2>1 DEF DriverHears, DriverWaited
  <2>4. QED
    BY <2>1, <2>2, <2>3
<1>11. CASE BackoffOver
  <2>1. driver.at = "backoff" /\ mode = "drive" /\ UNCHANGED <<mode, wire, job>>
    BY <1>11, Blanks DEF BackoffOver, TypeInv, node
  <2>2. QED
    BY <2>1
<1>12. CASE LosePoll
  <2>1. mode = "poll" /\ wire'.k = "none" /\ UNCHANGED <<mode, driver, job>>
    BY <1>12, Blanks DEF LosePoll, node
  <2>2. QED
    BY <2>1
<1>13. CASE DriverFails \/ ReplaceDriver \/ MasterRestarts
  <2>1. HangUp /\ mode' = mode
    BY <1>13 DEF DriverFails, ReplaceDriver, MasterRestarts
  <2>2. /\ wire'.k = "none" /\ job'.on = job.on
        /\ job.on => job'.res = job.res /\ ~job'.heard
    BY <2>1, HungUp, Blanks
  <2>3. mode = "poll" => driver' = Fresh
    BY <1>13, Blanks DEF DriverFails, ReplaceDriver, MasterRestarts
  <2>4. QED
    BY <2>1, <2>2, <2>3
<1>14. ASSUME NEW s \in Sandboxes, AskTier(s) \/ Request(s) \/ RetryDue(s)
       PROVE  UNCHANGED <<mode, driver, wire, job>>
  BY <1>14 DEF AskTier, Request, RetryDue, link, node
<1>15. ASSUME NEW e \in Execs, ExecGivesUp(e) \/ \E s \in Sandboxes : RunExec(e, s)
       PROVE  UNCHANGED <<mode, driver, wire, job>>
  BY <1>15 DEF ExecGivesUp, RunExec, link, node
<1>16. CASE EarlyReport \/ EarlyArrives \/ EarlyLost
  BY <1>1, <1>16 DEF EarlyReport, EarlyArrives, EarlyLost, link, node
<1>17. QED
  BY <1>1, <1>2, <1>3, <1>4, <1>5, <1>6, <1>7, <1>8, <1>9, <1>10, <1>11, <1>12, <1>13,
     <1>14, <1>15, <1>16
  DEF Next, RunCommand, NodeStep, MasterStep, DriverStep

\* What the gateway has noted goes out in one report or the other.
LEMMA NextTraffic ==
  ASSUME TypeInv, TurnInv, TrafficKept, Next
  PROVE  TrafficKept'
<1>1. CASE UNCHANGED <<wire, unreported, early, owed>>
  BY <1>1 DEF TrafficKept, TrafficCarried
<1>2. CASE SendPoll
  <2>1. /\ wire.k = "none" /\ wire'.k = "poll" /\ wire'.rep = Report
        /\ UNCHANGED <<early, owed>>
    BY <1>2 DEF SendPoll
  <2>2. TrafficCarried = {} /\ TrafficCarried' = unreported
    BY <2>1, ReportType DEF TrafficCarried
  <2>3. QED
    BY <2>1, <2>2 DEF TrafficKept
<1>3. CASE PollArrives \/ DriverHears
  <2>1. /\ wire.k \in {"poll", "answer"} /\ owed' = owed \ wire.rep.traffic
        /\ UNCHANGED <<unreported, early>>
    BY <1>3 DEF PollArrives, DriverHears, ApplyTraffic
  <2>2. QED
    BY <2>1 DEF TrafficKept, TrafficCarried
<1>4. CASE ParkEnds \/ ReplyArrives \/ SyncArrives \/ DriverSyncs
  <2>1. wire.k \notin {"poll", "answer"} /\ UNCHANGED <<unreported, early, owed>>
    BY <1>4 DEF ParkEnds, ReplyArrives, SyncArrives, DriverSyncs, traffic
  <2>2. QED
    BY <2>1 DEF TrafficKept, TrafficCarried
<1>5. CASE SyncEnds
  <2>1. unreported' = {} /\ early' = early /\ mode = "drive" /\ job.on
    BY <1>5 DEF SyncEnds
  <2>2. CASE job.heard
    <3>1. /\ wire.k = "none" /\ wire'.k = "answer" /\ wire'.rep.traffic = unreported
          /\ owed' = owed
      BY <1>5, <2>1, <2>2, JobToWire DEF TurnInv, SyncEnds
    <3>2. QED
      BY <2>1, <3>1 DEF TrafficKept, TrafficCarried
  <2>3. CASE ~job.heard
    <3>1. wire' = wire /\ owed' = owed \ unreported
      BY <1>5, <2>3 DEF SyncEnds
    <3>2. QED
      BY <2>1, <3>1 DEF TrafficKept, TrafficCarried
  <2>4. QED
    BY <2>2, <2>3
<1>6. CASE LosePoll \/ DriverFails \/ ReplaceDriver \/ MasterRestarts
  <2>1. owed' = owed \ TrafficCarried /\ UNCHANGED <<unreported, early>>
    BY <1>6 DEF LosePoll, DriverFails, ReplaceDriver, MasterRestarts, HangUp
  <2>2. QED
    BY <2>1 DEF TrafficKept
<1>7. ASSUME NEW s \in Sandboxes, Request(s) PROVE TrafficKept'
  <2>1. /\ unreported' = unreported \cup {s} /\ owed' = owed \cup {s} /\ UNCHANGED <<early, wire>>
    BY <1>7 DEF Request, link
  <2>2. QED
    BY <2>1 DEF TrafficKept, TrafficCarried
<1>8. CASE EarlyReport
  <2>1. early.ids = {} /\ early'.ids = unreported /\ UNCHANGED <<wire, owed>>
    BY <1>8 DEF EarlyReport, link
  <2>2. QED
    BY <2>1 DEF TrafficKept, TrafficCarried
<1>9. CASE EarlyArrives \/ EarlyLost
  <2>1. owed' = owed \ early.ids /\ UNCHANGED <<wire, unreported>>
    BY <1>9 DEF EarlyArrives, EarlyLost, ApplyTraffic, link
  <2>2. QED
    BY <2>1 DEF TrafficKept, TrafficCarried
<1>10. ASSUME NEW s \in Sandboxes, AskTier(s) \/ RetryDue(s)
       PROVE  UNCHANGED <<wire, unreported, early, owed>>
  BY <1>10 DEF AskTier, RetryDue, link, traffic
<1>11. ASSUME NEW e \in Execs, ExecGivesUp(e) \/ \E s \in Sandboxes : RunExec(e, s)
       PROVE  UNCHANGED <<wire, unreported, early, owed>>
  BY <1>11 DEF ExecGivesUp, RunExec, link, traffic
<1>12. CASE RunCommand \/ FailSet \/ PollEnds \/ HandlerDropped
  <2>1. UNCHANGED <<wire, unreported, early, owed>>
    BY <1>12 DEF RunCommand, PassOver, RunSet, RunOneExec, FailSet, PollEnds, HandlerDropped,
                 link, traffic
  <2>2. QED
    BY <1>1, <2>1
<1>13. CASE DriverWaited \/ BackoffOver
  <2>1. UNCHANGED <<wire, unreported, early, owed>>
    BY <1>13 DEF DriverWaited, BackoffOver, traffic
  <2>2. QED
    BY <1>1, <2>1
<1>14. QED
  BY <1>1, <1>2, <1>3, <1>4, <1>5, <1>6, <1>7, <1>8, <1>9, <1>10, <1>11, <1>12, <1>13
  DEF Next, NodeStep, MasterStep, DriverStep
(***************************************************************************)
(* The channel as a whole.                                                 *)
(***************************************************************************)
\* An exec is asked, run and answered; each step is one of these.
CallStep ==
  \/ /\ Onward /\ ran' = ran
     /\ \/ call' = call
        \/ \E e \in Execs : ExecGivesUp(e)
        \/ DriverHears
        \/ MasterRestarts
  \/ \E e \in Execs, s \in Sandboxes : RunExec(e, s)
  \/ RunOneExec

\* Every step is one of those.
LEMMA NextCall ==
  ASSUME TypeInv, ChannelInv, Next
  PROVE  CallStep
<1> USE DEF ChannelInv
<1>1. ASSUME NEW s \in Sandboxes, AskTier(s) \/ Request(s) \/ RetryDue(s) PROVE CallStep
  <2>1. UNCHANGED <<queue, link, job, lost, skipped, call, ran>>
    BY <1>1 DEF AskTier, Request, RetryDue, master, node, history
  <2>2. QED
    BY <2>1, AsideOn DEF CallStep
<1>2. ASSUME NEW e \in Execs, ExecGivesUp(e) PROVE CallStep
  <2>1. /\ UNCHANGED <<queue, link, job, lost, skipped, ran>>
        /\ \A d \in Execs : call[d] # "idle" => call'[d] # "idle"
    BY <1>2 DEF ExecGivesUp, node, history, TypeInv, MasterType
  <2>2. QED
    BY <1>2, <2>1, AsideOn DEF CallStep
<1>3. CASE EarlyReport \/ EarlyArrives \/ EarlyLost
  <2>1. UNCHANGED <<queue, link, job, lost, skipped, call, ran>>
    BY <1>3 DEF EarlyReport, EarlyArrives, EarlyLost, master, node, history
  <2>2. QED
    BY <2>1, AsideOn DEF CallStep
<1>4. CASE PassOver \/ RunSet \/ FailSet
  BY <1>4, ShorterOn DEF CallStep, PassOver, RunSet, FailSet, master
<1>5. CASE SendPoll
  BY <1>5, SendPollOn DEF CallStep, SendPoll, master, history
<1>6. CASE PollArrives \/ ParkEnds
  BY <1>6, QueueToWireOn, QueueToWire DEF CallStep
<1>7. CASE ReplyArrives \/ SyncArrives
  BY <1>7, WireToJobOn, WireToJob DEF CallStep
<1>8. CASE PollEnds
  BY <1>8, PollEndsOn DEF CallStep, PollEnds, master, history
<1>9. CASE SyncEnds
  BY <1>9, SyncEndsOn, JobToWire DEF CallStep
<1>10. CASE DriverSyncs
  BY <1>10, DriverToWireOn, DriverToWire DEF CallStep
<1>11. CASE DriverHears \/ DriverWaited
  BY <1>11, QueueToDriverOn, QueueToDriver DEF CallStep, DriverWaited
<1>12. CASE BackoffOver
  BY <1>12, BackoffOverOn DEF CallStep, BackoffOver, master, history
<1>13. CASE LosePoll
  BY <1>13, LosePollOn DEF CallStep, LosePoll, master
<1>14. CASE DriverFails \/ ReplaceDriver \/ MasterRestarts
  BY <1>14, HangUpOn DEF CallStep, DriverFails, ReplaceDriver, MasterRestarts, master
<1>15. CASE HandlerDropped
  BY <1>15, HandlerDroppedOn DEF CallStep, HandlerDropped, master, history
<1>16. ASSUME NEW e \in Execs, NEW s \in Sandboxes, RunExec(e, s) PROVE CallStep
  BY <1>16 DEF CallStep
<1>17. CASE RunOneExec
  BY <1>17 DEF CallStep
<1>18. QED
  BY <1>1, <1>2, <1>3, <1>4, <1>5, <1>6, <1>7, <1>8, <1>9, <1>10, <1>11, <1>12, <1>13,
     <1>14, <1>15, <1>16, <1>17
  DEF Next, RunCommand, NodeStep, MasterStep, DriverStep

\* The execs are kept by every step.
LEMMA NextExecs ==
  ASSUME TypeInv, ChannelInv, Next
  PROVE  ExecInv' /\ DeafInv' /\ NeverDropped'
<1>1. CASE \E e \in Execs, s \in Sandboxes : RunExec(e, s)
  BY <1>1, RunExecKeeps
<1>2. CASE RunOneExec
  BY <1>2, RunOneKeeps
<1>3. CASE /\ Onward /\ ran' = ran
           /\ \/ call' = call
              \/ \E e \in Execs : ExecGivesUp(e)
              \/ DriverHears
              \/ MasterRestarts
  <2>1. \A e \in Execs : /\ call[e] # "idle" => call'[e] # "idle"
                         /\ call'[e] = "open" => call[e] = "open"
    BY <1>3 DEF ExecGivesUp, DriverHears, MasterRestarts, Deliver, TypeInv, MasterType
  <2>2. QED
    BY <1>3, <2>1, OnwardKeeps
<1>4. QED
  BY <1>1, <1>2, <1>3, NextCall DEF CallStep

\* Nothing is under way at the start.
LEMMA InitChannel == Init => ChannelInv
<1> SUFFICES ASSUME Init PROVE ChannelInv
  OBVIOUS
<1>1. /\ queue = <<>> /\ wire.k = "none" /\ driver = Fresh /\ driver.at = "ready"
      /\ driver.cmds = <<>> /\ job.on = FALSE
      /\ \A e \in Execs : call[e] = "idle" /\ ran[e] = 0
  BY Blanks DEF Init
<1>2. InWire = <<>> /\ InDriver = <<>> /\ InJob = <<>> /\ Results = {}
  BY <1>1 DEF InWire, InDriver, InJob, Results
<1>3. OnceInv /\ Apart /\ Places = {}
  BY <1>1, <1>2, EmptyBatch DEF OnceInv, Apart, Places
<1>4. NotYetRun /\ RunOnce /\ NotAsked /\ SentInv
  BY <1>1, <1>2, <1>3 DEF NotYetRun, RunOnce, NotAsked, SentInv
<1>5. TurnInv /\ DeafInv
  BY <1>1 DEF TurnInv, DeafInv
<1>6. NeverDropped
  BY <1>1 DEF NeverDropped
<1>7. TrafficKept
  BY DEF TrafficKept, Init
<1>8. QED
  BY <1>3, <1>4, <1>5, <1>6, <1>7 DEF ChannelInv, ExecInv

\* Nothing changes when nothing happens.
LEMMA StillChannel ==
  ASSUME ChannelInv, UNCHANGED vars
  PROVE  ChannelInv'
<1>1. /\ UNCHANGED <<queue, wire, driver, job, call, ran, lost, skipped, mode>>
      /\ UNCHANGED <<unreported, early, owed>>
  BY DEF vars, master, link, node, traffic, history
<1>2. InWire' = InWire /\ InDriver' = InDriver /\ InJob' = InJob /\ Results' = Results
  BY <1>1 DEF InWire, InDriver, InJob, Results
<1>3. ExecInv'
  BY <1>1, <1>2 DEF ChannelInv, ExecInv, OnceInv, Apart, NotYetRun, Places, RunOnce, NotAsked,
                    SentInv
<1>4. TurnInv' /\ DeafInv'
  BY <1>1 DEF ChannelInv, TurnInv, DeafInv
<1>5. NeverDropped'
  BY <1>1 DEF ChannelInv, NeverDropped, ExecsCarried
<1>6. TrafficKept'
  BY <1>1 DEF ChannelInv, TrafficKept, TrafficCarried
<1>7. QED
  BY <1>3, <1>4, <1>5, <1>6 DEF ChannelInv

\* The two sides take turns, an exec is in one place and not run while it is
\* there, what a handler nobody hears works on counts as lost, and neither
\* execs nor traffic are dropped: over both modes, lost messages, hung-up syncs,
\* replaced drivers and restarted masters.
THEOREM ChannelSafety == Spec => [](TypeInv /\ ChannelInv)
<1>1. Init => TypeInv /\ ChannelInv
  BY InitType, InitChannel
<1>2. ASSUME TypeInv, ChannelInv, [Next]_vars PROVE (TypeInv /\ ChannelInv)'
  <2>1. TypeInv'
    BY <1>2, NextType
  <2>2. CASE Next
    <3>1. TurnInv' /\ TrafficKept'
      BY <1>2, <2>2, NextTurn, NextTraffic DEF ChannelInv
    <3>2. QED
      BY <1>2, <2>1, <2>2, <3>1, NextExecs DEF ChannelInv
  <2>3. CASE UNCHANGED vars
    BY <1>2, <2>1, <2>3, StillChannel
  <2>4. QED
    BY <1>2, <2>2, <2>3
<1>3. TypeInv /\ ChannelInv /\ [Next]_vars => (TypeInv /\ ChannelInv)'
  BY <1>2
<1>4. QED
  BY <1>1, <1>3, PTL DEF Spec

\* An exec whose caller waits is queued, on its way or at the node, unless a
\* message was lost or run_one passed it over: drive drops none between the
\* batch it has just sent and the one it makes next.
THEOREM NoneDropped == Spec => []NeverDropped
<1>1. ChannelInv => NeverDropped
  BY DEF ChannelInv
<1>2. QED
  BY <1>1, ChannelSafety, PTL

\* Each request the gateway noted reaches the idle clock of its row by one of
\* the two reports, unless that report is lost.
THEOREM TrafficTold == Spec => []TrafficKept
<1>1. ChannelInv => TrafficKept
  BY DEF ChannelInv
<1>2. QED
  BY <1>1, ChannelSafety, PTL

(***************************************************************************)
(* The promise to callers, as a refinement: each step of the channel is a  *)
(* step of ExecCall on the same call and ran, or changes neither.          *)
(***************************************************************************)
\* run_exec asks, run_one performs, deliver_result answers; a budget that runs
\* out, or a master that restarts, gives up.
LEMMA StepOfCall ==
  ASSUME TypeInv, ChannelInv, Next
  PROVE  [ExecCalls!Next]_<<call, ran>>
<1> USE DEF TypeInv, MasterType, NodeType
<1>1. ASSUME NEW e \in Execs, NEW s \in Sandboxes, RunExec(e, s) PROVE ExecCalls!Ask(e)
  BY <1>1 DEF RunExec, history, ExecCalls!Ask
<1>2. ASSUME NEW e \in Execs, ExecGivesUp(e) PROVE ExecCalls!GiveUp({e})
  BY <1>2 DEF ExecGivesUp, history, ExecCalls!GiveUp
<1>3. CASE RunOneExec
  <2> DEFINE x == Head(job.rest).e
  <2>1. x \in Execs /\ x \in ExecsIn(job.rest) /\ InJob = job.rest
    <3>1. /\ job.on /\ job.rest # <<>> /\ Head(job.rest).k = "exec" /\ job.rest \in Seq(Cmd)
      BY <1>3, JobKinds DEF RunOneExec, Works
    <3>2. InJob = job.rest /\ Once(job.rest)
      BY <3>1 DEF InJob, ChannelInv, ExecInv, OnceInv
    <3>3. x \in ExecsIn(job.rest)
      <4>1. ExecsIn(job.rest) = ExecsIn(Tail(job.rest)) \cup {Head(job.rest).e}
        BY <3>1, <3>2, OneLess
      <4>2. QED
        BY <4>1
    <3>4. QED
      BY <3>1, <3>2, <3>3, ExecsType
  <2>2. call[x] # "idle" /\ ran[x] = 0
    BY <2>1 DEF ChannelInv, ExecInv, NotYetRun, Places
  <2>3. ran' = [ran EXCEPT ![x] = 1]
    BY <1>3, <2>1, <2>2 DEF RunOneExec
  <2>4. call' = call \/ (call[x] = "open" /\ call' = [call EXCEPT ![x] = "answered"])
    <3>1. call' = call \/ Deliver({x})
      BY <1>3 DEF RunOneExec
    <3>2. QED
      BY <2>1, <3>1 DEF Deliver
  <2>5. ExecCalls!Perform(x)
    BY <2>2, <2>3, <2>4 DEF ExecCalls!Perform
  <2>6. QED
    BY <2>1, <2>5 DEF ExecCalls!Next
<1>4. CASE DriverHears
  <2> DEFINE es == {e \in wire.res : call[e] = "open"}
  <2>1. wire.k = "answer" /\ wire.res \subseteq Execs /\ Deliver(wire.res) /\ ran' = ran
    BY <1>4, WireKinds DEF DriverHears, Answers
  <2>2. \A e \in wire.res : ran[e] = 1
    BY <2>1 DEF ChannelInv, ExecInv, RunOnce, Results
  <2>3. ExecCalls!Answer(es)
    BY <2>1, <2>2 DEF ExecCalls!Answer, Deliver
  <2>4. QED
    BY <2>1, <2>3 DEF ExecCalls!Next
<1>5. CASE MasterRestarts
  <2> DEFINE es == {e \in Execs : call[e] = "open"}
  <2>1. ExecCalls!GiveUp(es)
    BY <1>5 DEF MasterRestarts, ExecCalls!GiveUp
  <2>2. QED
    BY <2>1 DEF ExecCalls!Next
<1>6. CASE UNCHANGED <<call, ran>>
  BY <1>6
<1>7. QED
  <2>1. CASE \E e \in Execs, s \in Sandboxes : RunExec(e, s)
    BY <1>1, <2>1 DEF ExecCalls!Next
  <2>2. CASE \E e \in Execs : ExecGivesUp(e)
    BY <1>2, <2>2 DEF ExecCalls!Next
  <2>3. QED
    BY <1>3, <1>4, <1>5, <1>6, <2>1, <2>2, NextCall DEF CallStep

\* run_exec, take_execs, run_one and drive together implement ExecCall, for any
\* number of execs: each is run at most once, by a node that was asked, and a
\* caller is answered only once its own command was run.
THEOREM CallsKept == Spec => ExecPromise
<1>1. Init => ExecCalls!Init
  BY DEF Init, ExecCalls!Init
<1>2. TypeInv /\ ChannelInv /\ [Next]_vars => [ExecCalls!Next]_<<call, ran>>
  <2> SUFFICES ASSUME TypeInv, ChannelInv, [Next]_vars PROVE [ExecCalls!Next]_<<call, ran>>
    OBVIOUS
  <2>1. CASE Next
    BY <2>1, StepOfCall
  <2>2. CASE UNCHANGED vars
    BY <2>2 DEF vars, master, history
  <2>3. QED
    BY <2>1, <2>2
<1>3. QED
  BY <1>1, <1>2, ChannelSafety, PTL DEF Spec, ExecPromise, ExecCalls!Spec
(***************************************************************************)
(* The failure book.  While the node has a streak of failures at something *)
(* that desired state still asks for, whatever is next to prune the book   *)
(* names the sandbox: the report shows it is not there yet, so the diff    *)
(* asks for it, or the node is putting it off.                             *)
(***************************************************************************)
Sought(s) ==
  /\ have[s] # goal[s]
  /\ wire.k \in {"poll", "parked", "answer"} => wire.rep.have[s] # goal[s]
  /\ wire.k = "parked" => attempts[s] < MaxFailures
  /\ wire.k = "reply" => s \in IdsIn(wire.cmds) \cup deferred
  /\ wire.k = "sync" /\ wire.some => s \in IdsIn(wire.cmds)
  /\ driver.at = "wait" => driver.have[s] # goal[s] /\ attempts[s] < MaxFailures
  /\ driver.at = "ready" /\ driver.some => s \in IdsIn(driver.cmds)
  /\ job.on /\ job.some => s \in job.asked \cup deferred

SoughtInv == \A s \in Sandboxes : streak[s] > 0 => Sought(s)

\* The batch under way names what it was sent for; the poll loop always has
\* one, and a driven node notes nothing as put off.
NamedInv ==
  /\ job.on => IdsIn(job.rest) \subseteq job.asked
  /\ wire.k \in {"poll", "parked"} => wire.rep.deferred \subseteq deferred
  /\ IF mode = "poll" THEN job.on => job.some ELSE deferred = {}

\* After a failure, and beside a handler nobody listens to, the driver has only
\* a refresh to send.
RefreshInv ==
  /\ wire.k = "sync" => wire.some = driver.some
  /\ driver.at = "backoff" => ~driver.some
  /\ job.on /\ ~job.heard => driver.at # "wait" /\ ~driver.some /\ wire.k # "answer"

BookInv ==
  /\ streak \in [Sandboxes -> Nat]
  /\ FailuresCounted /\ SoughtInv /\ NamedInv /\ RefreshInv

\* Diff's commands, in order, are all there: the batch names every sandbox that
\* is asked for something and not left out.
LEMMA BatchNames ==
  ASSUME TypeInv, NEW g \in Tiers, NEW att, NEW at, NEW off, NEW s \in Sandboxes \ off,
         g[s] # at[s], att[s] < MaxFailures
  PROVE  s \in IdsIn(WithExecs(LeaveOut(Diff(g, att, at), off)))
<1> DEFINE S == LeaveOut(Diff(g, att, at), off)
           a == SetToSeq(S)
           c == [k |-> "set", id |-> s, to |-> g[s]]
<1>1. c \in S /\ c.id = s
  BY DEF LeaveOut, Diff
<1>2. S \subseteq SetCmd /\ IsFiniteSet(S)
  BY DiffType, LeftOut
<1> HIDE DEF S, c
<1>3. Cardinality(S) \in Nat /\ ExistsBijection(1..Cardinality(S), S)
  BY <1>2, FS_CardinalityType
<1>4. \E f \in [1..Cardinality(S) -> S] : IsInjective(f)
  BY <1>3 DEF ExistsBijection, Bijection, Injection
<1>5. a \in [1..Cardinality(S) -> S] /\ IsInjective(a)
  BY <1>4, Zenon DEF SetToSeq
<1> HIDE DEF a
<1>6. a \in Surjection(1..Cardinality(S), S)
  <2>1. a \in Injection(1..Cardinality(S), S)
    BY <1>5 DEF Injection
  <2>2. Cardinality(1..Cardinality(S)) = Cardinality(S)
    BY <1>3, FS_Interval
  <2>3. QED
    BY <1>2, <2>1, <2>2, FS_Injection
<1>7. PICK i \in 1..Cardinality(S) : a[i] = c
  BY <1>1, <1>6 DEF Surjection
<1>8. a \in Seq(Cmd) /\ Len(a) = Cardinality(S) /\ queue \in Seq(Cmd)
  <2>1. SetCmd \subseteq Cmd
    BY DEF Cmd
  <2>2. a \in Seq(S)
    BY <1>3, <1>5, SeqDef
  <2>3. a \in Seq(Cmd) /\ queue \in Seq(Cmd)
    BY <1>2, <2>1, <2>2, SeqMonotonic, QueueIsBatch DEF TypeInv, MasterType
  <2>4. QED
    BY <1>3, <1>5, <2>3, LenProperties
<1>9. WithExecs(S) = a \o queue
  BY DEF WithExecs, a
<1>10. /\ a \o queue \in Seq(Cmd) /\ i \in 1..Len(a \o queue) /\ (a \o queue)[i] = c
  BY <1>3, <1>7, <1>8, ConcatProperties, LenProperties
<1>11. c \in Range(a \o queue)
  BY <1>10, RangeOfSeq, LenProperties DEF Range
<1>12. s \in IdsIn(a \o queue)
  BY <1>1, <1>11 DEF IdsIn
<1>13. QED
  BY <1>9, <1>12 DEF S

\* And nothing is left out of a driver's batch.
LEMMA DriverNames ==
  ASSUME TypeInv, NEW g \in Tiers, NEW att, NEW at, NEW s \in Sandboxes,
         g[s] # at[s], att[s] < MaxFailures
  PROVE  s \in IdsIn(NextBatch(g, att, at))
<1>1. LeaveOut(Diff(g, att, at), {}) = Diff(g, att, at)
  BY DEF LeaveOut
<1>2. QED
  BY <1>1, BatchNames DEF NextBatch

\* The history of a row that a report changes, or finds quarantined, is over.
LEMMA StreakOver ==
  ASSUME TypeInv, streak \in [Sandboxes -> Nat], NEW g, NEW att
  PROVE  /\ StreakAfter(g, att) \in [Sandboxes -> Nat]
         /\ \A s \in Sandboxes :
              /\ StreakAfter(g, att)[s] <= streak[s]
              /\ StreakAfter(g, att)[s] > 0 =>
                   streak[s] > 0 /\ g[s] = goal[s] /\ ~(att[s] >= MaxFailures)
  BY DEF StreakAfter
\* The first command of the work, and the sandbox it names.
LEMMA FirstNamed ==
  ASSUME TypeInv, NamedInv, job.on, job.rest # <<>>
  PROVE  /\ Head(job.rest).id \in job.asked /\ Head(job.rest).id \in Sandboxes
         /\ IdsIn(Rest.rest) \subseteq Rest.asked
         /\ Rest.on /\ Rest.asked = job.asked /\ Rest.some = job.some /\ Rest.heard = job.heard
<1>1. job \in Works /\ job.rest \in Seq(Cmd)
  BY JobKinds DEF TypeInv, NodeType, Works
<1>2. /\ Rest.on /\ Rest.asked = job.asked /\ Rest.some = job.some /\ Rest.heard = job.heard
      /\ Rest.rest = Tail(job.rest)
  BY <1>1 DEF Works, Rest
<1>3. /\ Head(job.rest) = job.rest[1] /\ 1 \in 1..Len(job.rest)
      /\ \A i \in 1..Len(Tail(job.rest)) :
           i + 1 \in 1..Len(job.rest) /\ Tail(job.rest)[i] = job.rest[i + 1]
      /\ Tail(job.rest) \in Seq(Cmd)
  BY <1>1, HeadTailProperties, LenProperties
<1>4. /\ Range(job.rest) = {job.rest[i] : i \in 1..Len(job.rest)}
      /\ Range(Tail(job.rest)) = {Tail(job.rest)[i] : i \in 1..Len(Tail(job.rest))}
  BY <1>1, <1>3, LenProperties DEF Range
<1>5. Head(job.rest).id \in IdsIn(job.rest)
  BY <1>3, <1>4 DEF IdsIn
<1>6. IdsIn(Tail(job.rest)) \subseteq IdsIn(job.rest)
  BY <1>3, <1>4 DEF IdsIn
<1>7. Head(job.rest).id \in Sandboxes
  BY <1>1, <1>5, IdsType
<1>8. QED
  BY <1>2, <1>5, <1>6, <1>7 DEF NamedInv

\* Every step but a failure: a streak that lasts is of what was asked before,
\* and it has still not been reached.
Lasting ==
  /\ streak' \in [Sandboxes -> Nat]
  /\ \A s \in Sandboxes :
       /\ streak'[s] <= streak[s]
       /\ streak'[s] > 0 => streak[s] > 0 /\ goal'[s] = goal[s] /\ have'[s] # goal'[s]

\* What a report or an early report moves.
LEMMA HeardLasting ==
  ASSUME TypeInv, BookInv, have' = have, NEW att, streak' = StreakAfter(goal', att)
  PROVE  Lasting
  BY StreakOver DEF BookInv, SoughtInv, Sought, Lasting

\* So it is for every step but a failure.
LEMMA NextLasting ==
  ASSUME TypeInv, BookInv, Next, ~FailSet
  PROVE  Lasting
<1> USE DEF BookInv
<1>0. /\ streak \in [Sandboxes -> Nat] /\ goal \in Tiers /\ have \in Tiers
      /\ \A s \in Sandboxes : streak[s] > 0 => have[s] # goal[s]
  BY DEF TypeInv, MasterType, NodeType, SoughtInv, Sought
<1>1. CASE UNCHANGED <<streak, goal, have>>
  BY <1>0, <1>1 DEF Lasting
<1>2. ASSUME NEW s \in Sandboxes, AskTier(s) PROVE Lasting
  <2>1. /\ have' = have /\ streak' = [streak EXCEPT ![s] = 0]
        /\ \A z \in Sandboxes \ {s} : goal'[z] = goal[z]
    BY <1>0, <1>2 DEF AskTier, node, Tiers
  <2>2. QED
    BY <1>0, <2>1 DEF Lasting
<1>3. ASSUME NEW s \in Sandboxes, Request(s) PROVE Lasting
  <2>1. /\ have' = [have EXCEPT ![s] = "hot"] /\ goal' = goal
        /\ streak' = [streak EXCEPT ![s] = IF goal[s] = "hot" THEN 0 ELSE @]
    BY <1>3 DEF Request, master
  <2>2. QED
    BY <1>0, <2>1 DEF Lasting, Tiers
<1>4. CASE RunSet
  <2>1. PICK id \in Sandboxes, to \in Levels :
          /\ have' = [have EXCEPT ![id] = to] /\ streak' = [streak EXCEPT ![id] = 0]
    BY <1>4, HeadType, CmdKinds DEF RunSet, SetCmd, TypeInv, NodeType
  <2>2. goal' = goal
    BY <1>4 DEF RunSet, master
  <2>3. QED
    BY <1>0, <2>1, <2>2 DEF Lasting, Tiers
<1>5. CASE PollArrives \/ DriverHears \/ EarlyArrives
  <2>1. have' = have
    BY <1>5 DEF PollArrives, DriverHears, EarlyArrives, node
  <2>2. \E att : streak' = StreakAfter(goal', att)
    BY <1>5 DEF PollArrives, DriverHears, EarlyArrives
  <2>3. QED
    BY <2>1, <2>2, HeardLasting
<1>6. ASSUME NEW s \in Sandboxes, RetryDue(s) PROVE UNCHANGED <<streak, goal, have>>
  BY <1>6 DEF RetryDue, master, history
<1>7. ASSUME NEW e \in Execs, ExecGivesUp(e) \/ \E s \in Sandboxes : RunExec(e, s)
      PROVE  UNCHANGED <<streak, goal, have>>
  BY <1>7 DEF ExecGivesUp, RunExec, node, history
<1>8. CASE \/ PassOver \/ RunOneExec \/ SendPoll \/ ReplyArrives \/ PollEnds \/ SyncArrives
           \/ SyncEnds \/ ParkEnds
  <2>1. UNCHANGED <<streak, goal, have>>
    BY <1>8 DEF PassOver, RunOneExec, SendPoll, ReplyArrives, PollEnds, SyncArrives, SyncEnds,
                ParkEnds, master, node, history
  <2>2. QED
    BY <1>1, <2>1
<1>9. CASE \/ DriverSyncs \/ DriverWaited \/ BackoffOver \/ EarlyReport \/ EarlyLost \/ LosePoll
           \/ DriverFails \/ HandlerDropped \/ ReplaceDriver \/ MasterRestarts
  <2>1. UNCHANGED <<streak, goal, have>>
    BY <1>9 DEF DriverSyncs, DriverWaited, BackoffOver, EarlyReport, EarlyLost, LosePoll,
                DriverFails, HandlerDropped, ReplaceDriver, MasterRestarts, master, node, history
  <2>2. QED
    BY <1>1, <2>1
<1>10. QED
  BY <1>1, <1>2, <1>3, <1>4, <1>5, <1>6, <1>7, <1>8, <1>9
  DEF Next, RunCommand, NodeStep, MasterStep, DriverStep

\* A failure adds one to the streak of what is still asked for, and to no other.
LEMMA FailSetStreak ==
  ASSUME TypeInv, BookInv, FailSet
  PROVE  LET c == Head(job.rest)
         IN /\ streak' \in [Sandboxes -> Nat] /\ FailuresCounted'
            /\ \A s \in Sandboxes \ {c.id} : streak'[s] = streak[s]
            /\ streak'[c.id] > 0 => streak[c.id] > 0 \/ have[c.id] # goal[c.id]
            /\ c.id \in Sandboxes
<1> USE DEF BookInv
<1>1. PICK c \in SetCmd :
        /\ c = Head(job.rest)
        /\ book' = [book EXCEPT ![c.id] = @ + 1]
        /\ streak' = [streak EXCEPT ![c.id] =
                        IF c.to = goal[c.id] /\ have[c.id] # c.to THEN @ + 1 ELSE @]
  BY HeadType, CmdKinds DEF FailSet, TypeInv, NodeType
<1>2. c.id \in Sandboxes
  BY DEF SetCmd
<1>3. book \in [Sandboxes -> Nat] /\ streak \in [Sandboxes -> Nat]
  BY DEF TypeInv, NodeType
<1>4. streak' \in [Sandboxes -> Nat] /\ FailuresCounted'
  BY <1>1, <1>2, <1>3 DEF FailuresCounted
<1>5. QED
  BY <1>1, <1>2, <1>3, <1>4
\* The book keeps every count that desired state still asks about: what prunes
\* it has been asked for it, or puts it off.
LEMMA NextCounted ==
  ASSUME TypeInv, BookInv, Next
  PROVE  streak' \in [Sandboxes -> Nat] /\ FailuresCounted'
<1>0. /\ book \in [Sandboxes -> Nat] /\ streak \in [Sandboxes -> Nat] /\ FailuresCounted
      /\ ~FailSet => Lasting
  BY NextLasting DEF TypeInv, NodeType, BookInv
<1>1. CASE FailSet
  BY <1>1, FailSetStreak
<1>2. CASE ~FailSet /\ book' = book
  BY <1>0, <1>2 DEF Lasting, FailuresCounted
<1>3. CASE RunSet
  <2>1. PICK id \in Sandboxes :
          book' = [book EXCEPT ![id] = 0] /\ streak' = [streak EXCEPT ![id] = 0]
    BY <1>3, HeadType, CmdKinds DEF RunSet, SetCmd, TypeInv, NodeType
  <2>2. QED
    BY <1>0, <2>1 DEF FailuresCounted
<1>4. CASE PollEnds
  <2>1. /\ mode = "poll" /\ job.on /\ streak' = streak
        /\ book' = [s \in Sandboxes |-> IF s \in job.asked \cup deferred THEN book[s] ELSE 0]
    BY <1>4 DEF PollEnds, history
  <2>2. \A s \in Sandboxes : streak[s] > 0 => s \in job.asked \cup deferred
    BY <2>1 DEF BookInv, NamedInv, SoughtInv, Sought
  <2>3. QED
    BY <1>0, <2>1, <2>2 DEF FailuresCounted
<1>5. CASE SyncEnds
  <2>1. /\ mode = "drive" /\ job.on /\ streak' = streak
        /\ book' = [s \in Sandboxes |-> IF job.some => s \in job.asked THEN book[s] ELSE 0]
    BY <1>5 DEF SyncEnds, history
  <2>2. \A s \in Sandboxes : streak[s] > 0 => (job.some => s \in job.asked)
    BY <2>1 DEF BookInv, NamedInv, SoughtInv, Sought
  <2>3. QED
    BY <1>0, <2>1, <2>2 DEF FailuresCounted
<1>6. ASSUME NEW s \in Sandboxes, AskTier(s) \/ Request(s) \/ RetryDue(s) PROVE book' = book
  BY <1>6 DEF AskTier, Request, RetryDue, node
<1>7. ASSUME NEW e \in Execs, ExecGivesUp(e) \/ \E s \in Sandboxes : RunExec(e, s)
      PROVE  book' = book
  BY <1>7 DEF ExecGivesUp, RunExec, node
<1>8. PassOver \/ RunOneExec \/ SendPoll \/ ReplyArrives \/ SyncArrives \/ MasterStep => book' = book
  BY DEF PassOver, RunOneExec, SendPoll, ReplyArrives, SyncArrives, MasterStep, PollArrives,
         ParkEnds, node
<1>9. \/ DriverStep \/ EarlyReport \/ EarlyArrives \/ EarlyLost \/ LosePoll \/ DriverFails
      \/ HandlerDropped \/ ReplaceDriver \/ MasterRestarts
      => book' = book
  BY DEF DriverStep, DriverSyncs, DriverHears, DriverWaited, BackoffOver, EarlyReport,
         EarlyArrives, EarlyLost, LosePoll, DriverFails, HandlerDropped, ReplaceDriver,
         MasterRestarts, node
<1>10. QED
  BY <1>1, <1>2, <1>3, <1>4, <1>5, <1>6, <1>7, <1>8, <1>9
  DEF Next, RunCommand, NodeStep

(***************************************************************************)
(* One group of steps at a time: what they do to messages and batches, and *)
(* so to what is sought, named and refreshed.                              *)
(***************************************************************************)
PlaceInv == SoughtInv /\ NamedInv /\ RefreshInv

\* Steps that touch neither a message nor a batch.
LEMMA AsideSought ==
  ASSUME TypeInv, BookInv, Lasting,
         UNCHANGED <<mode, wire, driver, job, deferred, attempts>>
  PROVE  PlaceInv'
<1>1. SoughtInv'
  <2> SUFFICES ASSUME NEW s \in Sandboxes, streak'[s] > 0 PROVE Sought(s)'
    BY DEF SoughtInv
  <2>1. Sought(s) /\ goal'[s] = goal[s] /\ have'[s] # goal'[s]
    BY DEF Lasting, BookInv, SoughtInv
  <2>2. QED
    BY <2>1 DEF Sought
<1>2. NamedInv' /\ RefreshInv'
  BY DEF BookInv, NamedInv, RefreshInv
<1>3. QED
  BY <1>1, <1>2 DEF PlaceInv

\* The first command is done with, or put off.
LEMMA CommandSought ==
  ASSUME TypeInv, BookInv, Lasting, PassOver \/ RunSet \/ RunOneExec
  PROVE  PlaceInv'
<1>1. /\ job.on /\ job.rest # <<>> /\ UNCHANGED <<mode, wire, driver, attempts>>
      /\ deferred \subseteq deferred' /\ (mode = "drive" => deferred' = deferred)
  BY DEF PassOver, RunSet, RunOneExec, master, link
<1>2. /\ job'.on /\ job'.asked = job.asked /\ job'.some = job.some /\ job'.heard = job.heard
      /\ job'.rest = Rest.rest
  <2>1. CASE job' = Rest
    BY <1>1, <2>1, FirstNamed DEF BookInv
  <2>2. CASE RunOneExec /\ mode = "drive"
    <3>1. PICK e \in Execs : job' = [Rest EXCEPT !.res = @ \cup {e}]
      BY <1>1, <2>2, HeadType, CmdKinds DEF RunOneExec, ExecCmd, TypeInv, NodeType
    <3>2. Rest \in Works
      BY <1>1, RestType DEF TypeInv, NodeType
    <3>3. /\ job'.on = Rest.on /\ job'.asked = Rest.asked /\ job'.some = Rest.some
          /\ job'.heard = Rest.heard /\ job'.rest = Rest.rest
      BY <3>1, <3>2 DEF Works
    <3>4. QED
      BY <1>1, <3>3, FirstNamed DEF BookInv
  <2>3. QED
    BY <2>1, <2>2 DEF PassOver, RunSet, RunOneExec
<1>3. SoughtInv'
  <2> SUFFICES ASSUME NEW s \in Sandboxes, streak'[s] > 0 PROVE Sought(s)'
    BY DEF SoughtInv
  <2>1. Sought(s) /\ goal'[s] = goal[s] /\ have'[s] # goal'[s]
    BY DEF Lasting, BookInv, SoughtInv
  <2>2. QED
    BY <1>1, <1>2, <2>1 DEF Sought
<1>4. NamedInv'
  <2>1. IdsIn(job'.rest) \subseteq job'.asked
    BY <1>1, <1>2, FirstNamed DEF BookInv
  <2>2. wire'.k \in {"poll", "parked"} => wire'.rep.deferred \subseteq deferred'
    BY <1>1 DEF BookInv, NamedInv
  <2>3. IF mode' = "poll" THEN job'.on => job'.some ELSE deferred' = {}
    BY <1>1, <1>2 DEF BookInv, NamedInv, TypeInv
  <2>4. QED
    BY <2>1, <2>2, <2>3 DEF NamedInv
<1>5. RefreshInv'
  BY <1>1, <1>2 DEF BookInv, RefreshInv
<1>6. QED
  BY <1>3, <1>4, <1>5 DEF PlaceInv

\* A failure: its sandbox is in the batch, and nothing else is under way that
\* would prune the book.
LEMMA FailSetSought ==
  ASSUME TypeInv, TurnInv, BookInv, FailSet
  PROVE  PlaceInv'
<1> DEFINE id == Head(job.rest).id
<1>1. /\ job.on /\ job.rest # <<>> /\ UNCHANGED <<mode, wire, driver, attempts, goal, have>>
      /\ deferred \subseteq deferred' /\ (mode = "drive" => deferred' = deferred)
      /\ job' = Rest
  BY DEF FailSet, master, link
<1>2. /\ job'.on /\ job'.asked = job.asked /\ job'.some = job.some /\ job'.heard = job.heard
      /\ id \in job.asked /\ IdsIn(job'.rest) \subseteq job'.asked
  BY <1>1, FirstNamed DEF BookInv
<1>3. SoughtInv'
  <2> SUFFICES ASSUME NEW s \in Sandboxes, streak'[s] > 0 PROVE Sought(s)'
    BY DEF SoughtInv
  <2>1. CASE s # id
    <3>1. Sought(s)
      BY <2>1, FailSetStreak DEF BookInv, SoughtInv
    <3>2. QED
      BY <1>1, <1>2, <3>1 DEF Sought
  <2>2. CASE s = id
    <3>1. have[s] # goal[s]
      BY <2>2, FailSetStreak DEF BookInv, SoughtInv, Sought
    <3>2. /\ wire.k = "none" \/ (wire.k = "sync" /\ ~wire.some)
          /\ driver.at # "wait" /\ ~(driver.at = "ready" /\ driver.some)
      <4>1. CASE mode = "poll"
        BY <1>1, <4>1 DEF TurnInv, Fresh
      <4>2. CASE mode = "drive" /\ job.heard
        BY <1>1, <4>2 DEF TurnInv
      <4>3. CASE mode = "drive" /\ ~job.heard
        BY <1>1, <4>3 DEF TurnInv, BookInv, RefreshInv
      <4>4. QED
        BY <4>1, <4>2, <4>3 DEF TypeInv
    <3>3. QED
      BY <1>1, <1>2, <2>2, <3>1, <3>2 DEF Sought
  <2>3. QED
    BY <2>1, <2>2
<1>4. NamedInv'
  <2>1. wire'.k \in {"poll", "parked"} => wire'.rep.deferred \subseteq deferred'
    BY <1>1 DEF BookInv, NamedInv
  <2>2. IF mode' = "poll" THEN job'.on => job'.some ELSE deferred' = {}
    BY <1>1, <1>2 DEF BookInv, NamedInv, TypeInv
  <2>3. QED
    BY <1>2, <2>1, <2>2 DEF NamedInv
<1>5. RefreshInv'
  BY <1>1, <1>2 DEF BookInv, RefreshInv
<1>6. QED
  BY <1>3, <1>4, <1>5 DEF PlaceInv
\* The work is over, with a report for whoever listens.
LEMMA EndSought ==
  ASSUME TypeInv, TurnInv, BookInv, Lasting, PollEnds \/ SyncEnds \/ HandlerDropped
  PROVE  PlaceInv'
<1>1. /\ job' = NoJob /\ ~job'.on
      /\ UNCHANGED <<mode, driver, attempts, deferred, goal, have>>
  BY Blanks DEF PollEnds, SyncEnds, HandlerDropped, master, link
<1>2. \/ wire' = wire
      \/ wire.k = "none" /\ wire'.k = "answer" /\ wire'.rep.have = have /\ mode = "drive"
  <2>1. CASE SyncEnds /\ job.heard
    <3>1. wire'.k = "answer" /\ wire'.rep = [Report EXCEPT !.fails = book'] /\ mode = "drive"
      BY <2>1 DEF SyncEnds
    <3>2. [Report EXCEPT !.fails = book'].have = have
      BY DEF Report
    <3>3. wire.k = "none"
      BY <2>1, <3>1 DEF SyncEnds, TurnInv
    <3>4. QED
      BY <3>1, <3>2, <3>3
  <2>2. CASE ~(SyncEnds /\ job.heard)
    BY <2>2 DEF PollEnds, SyncEnds, HandlerDropped, link
  <2>3. QED
    BY <2>1, <2>2
<1>3. SoughtInv'
  <2> SUFFICES ASSUME NEW s \in Sandboxes, streak'[s] > 0 PROVE Sought(s)'
    BY DEF SoughtInv
  <2>1. Sought(s)
    BY DEF Lasting, BookInv, SoughtInv
  <2>2. QED
    BY <1>1, <1>2, <2>1 DEF Sought
<1>4. NamedInv'
  <2>1. wire'.k \in {"poll", "parked"} => wire'.rep.deferred \subseteq deferred'
    BY <1>1, <1>2 DEF BookInv, NamedInv
  <2>2. mode' # "poll" => deferred' = {}
    BY <1>1 DEF BookInv, NamedInv
  <2>3. QED
    BY <1>1, <2>1, <2>2 DEF NamedInv
<1>5. RefreshInv'
  BY <1>1, <1>2 DEF BookInv, RefreshInv
<1>6. QED
  BY <1>3, <1>4, <1>5 DEF PlaceInv

\* A report goes out with what is still put off, which is all that is kept.
LEMMA SendPollSought ==
  ASSUME TypeInv, TurnInv, BookInv, Lasting, SendPoll
  PROVE  PlaceInv'
<1>1. /\ mode = "poll" /\ ~job.on /\ UNCHANGED <<mode, driver, attempts, job, goal, have>>
      /\ wire'.k = "poll" /\ wire'.rep = Report /\ deferred' = deferred \cap backing
  BY DEF SendPoll, master
<1>2. Report.have = have /\ Report.deferred = deferred \cap backing
  BY DEF Report
<1>3. driver.at = "ready" /\ ~driver.some
  BY <1>1 DEF TurnInv, Fresh
<1>4. SoughtInv'
  <2> SUFFICES ASSUME NEW s \in Sandboxes, streak'[s] > 0 PROVE Sought(s)'
    BY DEF SoughtInv
  <2>1. Sought(s)
    BY DEF Lasting, BookInv, SoughtInv
  <2>2. QED
    BY <1>1, <1>2, <1>3, <2>1 DEF Sought
<1>5. NamedInv' /\ RefreshInv'
  BY <1>1, <1>2, <1>3 DEF NamedInv, RefreshInv
<1>6. QED
  BY <1>4, <1>5 DEF PlaceInv

\* The answer to a poll names what is sought, but for what the node puts off.
LEMMA AnswerSought ==
  ASSUME TypeInv, TurnInv, BookInv, Lasting, PollArrives \/ ParkEnds
  PROVE  PlaceInv'
<1>1. /\ UNCHANGED <<mode, driver, job, deferred, have>> /\ goal' \in Tiers
      /\ wire.k \in {"poll", "parked"} /\ wire'.k \in {"parked", "reply"}
      /\ mode = "poll" /\ ~job.on /\ driver = Fresh
  <2>1. wire.k \in {"poll", "parked"} /\ UNCHANGED <<mode, driver, job, deferred, have>>
    BY DEF PollArrives, ParkEnds, node
  <2>2. QED
    BY <2>1, QueueToWire DEF TurnInv, TypeInv
<1>2. driver.at = "ready" /\ ~driver.some
  BY <1>1 DEF Fresh
<1>3. wire.rep.deferred \subseteq deferred /\ wire \in Polls /\ wire.rep \in Reports
  BY <1>1, WireKinds DEF BookInv, NamedInv, TypeInv, Polls
<1>4. ASSUME NEW s \in Sandboxes, streak'[s] > 0
      PROVE  /\ have'[s] # goal'[s] /\ goal'[s] = goal[s]
             /\ wire.rep.have[s] # goal'[s] /\ attempts'[s] < MaxFailures
  <2>1. Sought(s) /\ goal'[s] = goal[s] /\ have'[s] # goal'[s]
    BY <1>4 DEF Lasting, BookInv, SoughtInv
  <2>2. attempts'[s] < MaxFailures
    <3>1. CASE PollArrives
      <4>1. streak' = StreakAfter(goal', attempts')
        BY <3>1 DEF PollArrives
      <4>2. ~(attempts'[s] >= MaxFailures)
        BY <1>4, <4>1, StreakOver DEF BookInv
      <4>3. attempts'[s] \in Nat
        BY QueueToWire
      <4>4. QED
        BY <4>2, <4>3, DriverAssumption
    <3>2. CASE ParkEnds
      BY <2>1, <3>2 DEF ParkEnds, Sought
    <3>3. QED
      BY <3>1, <3>2
  <2>3. QED
    BY <1>1, <2>1, <2>2 DEF Sought
<1>5. CASE PollArrives
  <2> DEFINE cmds == WithExecs(LeaveOut(Diff(goal', attempts', wire.rep.have),
                                        wire.rep.deferred))
  <2>1. wire' = IF cmds = <<>> THEN [wire EXCEPT !.k = "parked"]
                ELSE [k |-> "reply", cmds |-> cmds]
    BY <1>5 DEF PollArrives
  <2>2. \A s \in Sandboxes : streak'[s] > 0 => s \in IdsIn(cmds) \cup deferred
    BY <1>1, <1>3, <1>4, BatchNames
  <2> HIDE DEF cmds
  <2>3. /\ wire'.k = "parked" => wire'.rep = wire.rep
        /\ wire'.k = "reply" => wire'.cmds = cmds
    BY <1>3, <2>1 DEF Polls
  <2>4. SoughtInv'
    BY <1>1, <1>2, <1>4, <2>2, <2>3 DEF SoughtInv, Sought
  <2>5. NamedInv' /\ RefreshInv'
    BY <1>1, <1>2, <1>3, <2>3 DEF NamedInv, RefreshInv
  <2>6. QED
    BY <2>4, <2>5 DEF PlaceInv
<1>6. CASE ParkEnds
  <2> DEFINE cmds == WithExecs(LeaveOut(Diff(goal, attempts, wire.rep.have),
                                        wire.rep.deferred \cap backing))
  <2>1. wire' = [k |-> "reply", cmds |-> cmds] /\ UNCHANGED <<goal, attempts>>
    BY <1>6 DEF ParkEnds
  <2>2. \A s \in Sandboxes : streak'[s] > 0 => s \in IdsIn(cmds) \cup deferred
    BY <1>1, <1>3, <1>4, <2>1, BatchNames
  <2> HIDE DEF cmds
  <2>3. wire'.k = "reply" /\ wire'.cmds = cmds
    BY <2>1
  <2>4. SoughtInv'
    BY <1>1, <1>2, <1>4, <2>2, <2>3 DEF SoughtInv, Sought
  <2>5. NamedInv' /\ RefreshInv'
    BY <1>1, <1>2, <2>3 DEF NamedInv, RefreshInv
  <2>6. QED
    BY <2>4, <2>5 DEF PlaceInv
<1>7. QED
  BY <1>5, <1>6

\* A batch is taken up as it was sent.
LEMMA TakenSought ==
  ASSUME TypeInv, TurnInv, BookInv, Lasting, ReplyArrives \/ SyncArrives
  PROVE  PlaceInv'
<1>1. /\ wire.k \in {"reply", "sync"} /\ wire'.k = "none" /\ ~job.on
      /\ UNCHANGED <<mode, driver, attempts, deferred, goal, have>>
  BY Blanks DEF ReplyArrives, SyncArrives, master
<1>2. /\ job'.on /\ job'.rest = wire.cmds /\ job'.asked = IdsIn(wire.cmds) /\ job'.heard
      /\ wire.k = "reply" => job'.some
      /\ wire.k = "sync" => job'.some = wire.some
  BY DEF ReplyArrives, SyncArrives, StartJob
<1>3. SoughtInv'
  <2> SUFFICES ASSUME NEW s \in Sandboxes, streak'[s] > 0 PROVE Sought(s)'
    BY DEF SoughtInv
  <2>1. Sought(s)
    BY DEF Lasting, BookInv, SoughtInv
  <2>2. job'.some => s \in job'.asked \cup deferred
    BY <1>1, <1>2, <2>1 DEF Sought
  <2>3. QED
    BY <1>1, <2>1, <2>2 DEF Sought
<1>4. NamedInv'
  <2>1. mode = "poll" => wire.k = "reply"
    BY <1>1 DEF TurnInv
  <2>2. mode # "poll" => deferred = {}
    BY DEF BookInv, NamedInv
  <2>3. QED
    BY <1>1, <1>2, <2>1, <2>2 DEF NamedInv
<1>5. RefreshInv'
  BY <1>1, <1>2 DEF BookInv, RefreshInv
<1>6. QED
  BY <1>3, <1>4, <1>5 DEF PlaceInv
\* drive sends the batch it has.
LEMMA SyncSought ==
  ASSUME TypeInv, TurnInv, BookInv, Lasting, DriverSyncs
  PROVE  PlaceInv'
<1>1. /\ mode = "drive" /\ driver.at = "ready" /\ wire.k = "none"
      /\ UNCHANGED <<mode, attempts, job, deferred, goal, have>>
      /\ wire' = [k |-> "sync", some |-> driver.some, cmds |-> driver.cmds]
      /\ driver' = [driver EXCEPT !.at = "sent"] /\ driver \in Acting
  BY DriverKinds DEF DriverSyncs, master, node, TypeInv, MasterType
<1>2. /\ wire'.k = "sync" /\ wire'.some = driver.some /\ wire'.cmds = driver.cmds
      /\ driver'.at = "sent" /\ driver'.some = driver.some
  BY <1>1 DEF Acting
<1>3. SoughtInv'
  <2> SUFFICES ASSUME NEW s \in Sandboxes, streak'[s] > 0 PROVE Sought(s)'
    BY DEF SoughtInv
  <2>1. Sought(s)
    BY DEF Lasting, BookInv, SoughtInv
  <2>2. QED
    BY <1>1, <1>2, <2>1 DEF Sought
<1>4. NamedInv' /\ RefreshInv'
  BY <1>1, <1>2 DEF BookInv, NamedInv, RefreshInv
<1>5. QED
  BY <1>3, <1>4 DEF PlaceInv

\* drive's next batch names what is sought, at once or after the wait.
LEMMA DriveSought ==
  ASSUME TypeInv, TurnInv, BookInv, Lasting, DriverHears \/ DriverWaited
  PROVE  PlaceInv'
<1>1. /\ UNCHANGED <<mode, job, deferred, have>> /\ goal' \in Tiers
      /\ mode = "drive" /\ wire'.k = "none"
  <2>1. UNCHANGED <<mode, job, deferred, have>>
    BY DEF DriverHears, DriverWaited, node
  <2>2. driver.at \in {"sent", "wait"}
    BY DEF DriverHears, DriverWaited
  <2>3. mode = "drive"
    BY <2>2 DEF TurnInv, TypeInv, Fresh
  <2>4. wire'.k = "none"
    <3>1. CASE DriverHears
      BY <3>1, Blanks DEF DriverHears
    <3>2. CASE DriverWaited
      BY <2>3, <3>2 DEF DriverWaited, TurnInv
    <3>3. QED
      BY <3>1, <3>2
  <2>5. QED
    BY <2>1, <2>3, <2>4, QueueToDriver
<1>2. PICK at : at = IF wire.k = "answer" THEN wire.rep.have ELSE driver.have
  OBVIOUS
<1>2a. /\ DriverHears => wire.k = "answer" /\ at = wire.rep.have
       /\ DriverWaited => driver.at = "wait" /\ wire.k # "answer" /\ at = driver.have
  BY <1>2 DEF DriverHears, DriverWaited, TurnInv, TypeInv, Fresh
<1>3. ASSUME NEW s \in Sandboxes, streak'[s] > 0
      PROVE  have'[s] # goal'[s] /\ at[s] # goal'[s] /\ attempts'[s] < MaxFailures
  <2>1. Sought(s) /\ goal'[s] = goal[s] /\ have'[s] # goal'[s]
    BY <1>3 DEF Lasting, BookInv, SoughtInv
  <2>2. CASE DriverHears
    <3>1. streak' = StreakAfter(goal', attempts') /\ attempts'[s] \in Nat
      BY <2>2, QueueToDriver DEF DriverHears
    <3>2. ~(attempts'[s] >= MaxFailures)
      BY <1>3, <3>1, StreakOver DEF BookInv
    <3>3. QED
      BY <1>2a, <2>1, <2>2, <3>1, <3>2, DriverAssumption DEF Sought
  <2>3. CASE DriverWaited
    BY <1>2a, <2>1, <2>3 DEF Sought, DriverWaited
  <2>4. QED
    BY <2>2, <2>3
<1>4. PICK next : next = NextBatch(goal', attempts', at)
  OBVIOUS
<1>5. \A s \in Sandboxes : streak'[s] > 0 => s \in IdsIn(next)
  BY <1>1, <1>3, <1>4, DriverNames
<1>6. \/ driver'.at = "wait" /\ driver'.have = at
      \/ driver'.at = "ready" /\ driver'.cmds = next
  <2>1. CASE DriverHears
    <3>1. driver' = IF next = <<>> \/ (driver.some /\ SameBatch(driver.cmds, next))
                    THEN [at |-> "wait", have |-> at]
                    ELSE [at |-> "ready", some |-> TRUE, cmds |-> next]
      BY <1>2a, <1>4, <2>1 DEF DriverHears
    <3>2. QED
      BY <3>1
  <2>2. CASE DriverWaited
    <3>1. driver' = [at |-> "ready", some |-> next # <<>>, cmds |-> next]
      BY <1>2a, <1>4, <2>2 DEF DriverWaited
    <3>2. QED
      BY <3>1
  <2>3. QED
    BY <2>1, <2>2
<1>7. SoughtInv'
  <2> SUFFICES ASSUME NEW s \in Sandboxes, streak'[s] > 0 PROVE Sought(s)'
    BY DEF SoughtInv
  <2>1. job.on /\ job.some => s \in job.asked \cup deferred
    BY DEF Lasting, BookInv, SoughtInv, Sought
  <2>2. QED
    BY <1>1, <1>3, <1>5, <1>6, <2>1 DEF Sought
<1>8. NamedInv'
  BY <1>1 DEF BookInv, NamedInv
<1>9. RefreshInv'
  <2>1. ~(job.on /\ ~job.heard)
    BY <1>2a DEF BookInv, RefreshInv
  <2>2. QED
    BY <1>1, <1>6, <2>1 DEF RefreshInv
<1>10. QED
  BY <1>7, <1>8, <1>9 DEF PlaceInv

\* The loop comes round with a refresh.
LEMMA BackoffSought ==
  ASSUME TypeInv, TurnInv, BookInv, Lasting, BackoffOver
  PROVE  PlaceInv'
<1>1. /\ UNCHANGED <<mode, attempts, wire, job, deferred, goal, have>>
      /\ driver.at = "backoff" /\ driver' = [driver EXCEPT !.at = "ready"] /\ driver \in Acting
  BY DriverKinds DEF BackoffOver, master, node, TypeInv, MasterType
<1>2. driver'.at = "ready" /\ ~driver'.some
  <2>1. driver'.at = "ready" /\ driver'.some = driver.some
    BY <1>1 DEF Acting
  <2>2. QED
    BY <1>1, <2>1 DEF BookInv, RefreshInv
<1>3. wire.k \notin {"sync", "answer"}
  BY <1>1 DEF TurnInv, TypeInv
<1>4. SoughtInv'
  <2> SUFFICES ASSUME NEW s \in Sandboxes, streak'[s] > 0 PROVE Sought(s)'
    BY DEF SoughtInv
  <2>1. Sought(s)
    BY DEF Lasting, BookInv, SoughtInv
  <2>2. QED
    BY <1>1, <1>2, <2>1 DEF Sought
<1>5. NamedInv' /\ RefreshInv'
  BY <1>1, <1>2, <1>3 DEF BookInv, NamedInv, RefreshInv
<1>6. QED
  BY <1>4, <1>5 DEF PlaceInv
\* A poll that is lost leaves nothing to be taken up.
LEMMA LostSought ==
  ASSUME TypeInv, BookInv, Lasting, LosePoll
  PROVE  PlaceInv'
<1>1. /\ UNCHANGED <<mode, attempts, driver, job, deferred, goal, have>>
      /\ wire'.k = "none"
  BY Blanks DEF LosePoll, master, node
<1>2. SoughtInv'
  <2> SUFFICES ASSUME NEW s \in Sandboxes, streak'[s] > 0 PROVE Sought(s)'
    BY DEF SoughtInv
  <2>1. Sought(s)
    BY DEF Lasting, BookInv, SoughtInv
  <2>2. QED
    BY <1>1, <2>1 DEF Sought
<1>3. NamedInv' /\ RefreshInv'
  BY <1>1 DEF BookInv, NamedInv, RefreshInv
<1>4. QED
  BY <1>2, <1>3 DEF PlaceInv

\* A connection that is closed leaves its batch at the node, if it got there,
\* and a driver that starts with a refresh.
LEMMA HangUpSought ==
  ASSUME TypeInv, TurnInv, BookInv, Lasting, DriverFails \/ ReplaceDriver \/ MasterRestarts
  PROVE  PlaceInv'
<1>1. /\ UNCHANGED <<mode, attempts, deferred, goal, have>> /\ HangUp /\ wire'.k = "none"
      /\ driver' = Fresh \/ driver' = [Fresh EXCEPT !.at = "backoff"]
  BY Blanks DEF DriverFails, ReplaceDriver, MasterRestarts, HangUp, master
<1>2. driver'.at \in {"ready", "backoff"} /\ ~driver'.some
  BY <1>1 DEF Fresh
<1>3. /\ job'.on = job.on
      /\ job.on => job'.asked = job.asked /\ job'.some = job.some /\ job'.rest = job.rest
  <2>1. CASE job.on
    <3>1. job \in Works /\ job' = [job EXCEPT !.heard = FALSE]
      BY <1>1, <2>1, JobKinds DEF HangUp, TypeInv, NodeType
    <3>2. QED
      BY <3>1 DEF Works
  <2>2. CASE ~job.on
    BY <1>1, <2>2 DEF HangUp
  <2>3. QED
    BY <2>1, <2>2
<1>4. SoughtInv'
  <2> SUFFICES ASSUME NEW s \in Sandboxes, streak'[s] > 0 PROVE Sought(s)'
    BY DEF SoughtInv
  <2>1. Sought(s)
    BY DEF Lasting, BookInv, SoughtInv
  <2>2. QED
    BY <1>1, <1>2, <1>3, <2>1 DEF Sought
<1>5. NamedInv'
  BY <1>1, <1>3 DEF BookInv, NamedInv
<1>6. RefreshInv'
  BY <1>1, <1>2 DEF RefreshInv
<1>7. QED
  BY <1>4, <1>5, <1>6 DEF PlaceInv

\* Every step keeps what is sought, named and refreshed.
LEMMA NextPlaces ==
  ASSUME TypeInv, TurnInv, BookInv, Next
  PROVE  PlaceInv'
<1>1. CASE FailSet
  BY <1>1, FailSetSought
<1>2. CASE ~FailSet
  <2>0. Lasting
    BY <1>2, NextLasting
  <2>1. CASE UNCHANGED <<mode, wire, driver, job, deferred, attempts>>
    BY <2>0, <2>1, AsideSought
  <2>2. ASSUME NEW s \in Sandboxes, AskTier(s) \/ Request(s) \/ RetryDue(s)
        PROVE  UNCHANGED <<mode, wire, driver, job, deferred, attempts>>
    BY <2>2 DEF AskTier, Request, RetryDue, master, link, node
  <2>3. ASSUME NEW e \in Execs, ExecGivesUp(e) \/ \E s \in Sandboxes : RunExec(e, s)
        PROVE  UNCHANGED <<mode, wire, driver, job, deferred, attempts>>
    BY <2>3 DEF ExecGivesUp, RunExec, link, node
  <2>4. EarlyReport \/ EarlyArrives \/ EarlyLost
        => UNCHANGED <<mode, wire, driver, job, deferred, attempts>>
    BY DEF EarlyReport, EarlyArrives, EarlyLost, master, link, node
  <2>5. CASE RunCommand
    BY <2>0, <2>5, CommandSought DEF RunCommand
  <2>6. CASE NodeStep \/ HandlerDropped
    BY <2>0, <2>6, SendPollSought, TakenSought, EndSought DEF NodeStep
  <2>7. CASE MasterStep
    BY <2>0, <2>7, AnswerSought DEF MasterStep
  <2>8. CASE DriverStep
    BY <2>0, <2>8, SyncSought, DriveSought, BackoffSought DEF DriverStep
  <2>9. CASE LosePoll \/ DriverFails \/ ReplaceDriver \/ MasterRestarts
    BY <2>0, <2>9, LostSought, HangUpSought
  <2>10. QED
    BY <1>2, <2>1, <2>2, <2>3, <2>4, <2>5, <2>6, <2>7, <2>8, <2>9 DEF Next
<1>3. QED
  BY <1>1, <1>2

\* At the start no failure is counted and nothing is under way.
LEMMA InitBook == Init => BookInv
<1> SUFFICES ASSUME Init PROVE BookInv
  OBVIOUS
<1>1. /\ streak \in [Sandboxes -> Nat] /\ \A s \in Sandboxes : streak[s] = 0 /\ book[s] = 0
      /\ deferred = {} /\ wire.k = "none" /\ ~job.on
  BY Blanks DEF Init
<1>2. driver.at = "ready"
  BY Blanks DEF Init
<1>3. QED
  BY <1>1, <1>2 DEF BookInv, FailuresCounted, SoughtInv, NamedInv, RefreshInv

\* The failure book and what prunes it, in both modes and over every fault.
THEOREM BookSafety == Spec => []BookInv
<1>1. Init => BookInv
  BY InitBook
<1>2. TypeInv /\ ChannelInv /\ BookInv /\ [Next]_vars => BookInv'
  <2> SUFFICES ASSUME TypeInv, ChannelInv, BookInv, [Next]_vars PROVE BookInv'
    OBVIOUS
  <2>1. CASE Next
    BY <2>1, NextCounted, NextPlaces DEF BookInv, PlaceInv, ChannelInv
  <2>2. CASE UNCHANGED vars
    <3>1. UNCHANGED <<streak, book, goal, have, mode, wire, driver, job, deferred, attempts>>
      BY <2>2 DEF vars, master, link, node, history
    <3>2. Lasting
      BY <3>1 DEF BookInv, SoughtInv, Sought, Lasting
    <3>3. PlaceInv'
      BY <3>1, <3>2, AsideSought
    <3>4. QED
      BY <3>1, <3>3 DEF BookInv, PlaceInv, FailuresCounted
  <2>3. QED
    BY <2>1, <2>2
<1>3. QED
  BY <1>1, <1>2, ChannelSafety, PTL DEF Spec

\* run_one's failure book forgets no failure of what desired state still asks
\* for: not while a command is left out because it was put off, nor over a
\* refresh, nor in a handler whose driver has hung up.
THEOREM NoFailureForgotten == Spec => []FailuresCounted
<1>1. BookInv => FailuresCounted
  BY DEF BookInv
<1>2. QED
  BY <1>1, BookSafety, PTL
=============================================================================
