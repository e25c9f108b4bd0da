-------------------------- MODULE ReconcileProofs --------------------------
(***************************************************************************)
(* Theorems about Reconcile, for every set of sandboxes, every MaxFailures *)
(* and all Limits.                                                        *)
(***************************************************************************)
EXTENDS Reconcile, TLAPS

USE DEF master, rows, poll, report, node, wakeups, history

\* The values a report, a batch or the failure book start from are well typed.
LEMMA BlankTypes ==
  /\ NoCmd \in Command
  /\ NotFailing \in Failing
  /\ Nothing \in Observed
  /\ NoBatch \in [Sandboxes -> Command]
  /\ NoReport \in Report
  /\ NoEarly \in EarlyReport
<1>1. NoCmd \in Command
  BY DEF NoCmd, Command, Tier, Hot, Detached
<1>2. NotFailing \in Failing
  BY DEF NotFailing, Failing
<1>3. Nothing \in Observed
  BY DEF Nothing, Observed
<1>4. NoBatch \in [Sandboxes -> Command]
  BY <1>1 DEF NoBatch
<1>5. NoReport \in Report
  BY <1>2, <1>3 DEF NoReport, Report
<1>6. NoEarly \in EarlyReport
  BY <1>3 DEF NoEarly, EarlyReport
<1>7. QED
  BY <1>1, <1>2, <1>3, <1>4, <1>5, <1>6

\* The initial state is well typed.
LEMMA InitTypeOK == Init => TypeOK
<1> SUFFICES ASSUME Init PROVE TypeOK
  OBVIOUS
<1>1. desired \in [Sandboxes -> Tier \cup {NoRow}] /\ idle \in [Sandboxes -> Tier]
  BY DEF Init, Tier, Hot, Detached
<1>1a. MasterType
  BY <1>1 DEF Init, MasterType
<1>2. PollType /\ EarlyType
  BY BlankTypes DEF Init, PollType, EarlyType
<1>3. NodeType
  BY BlankTypes DEF Init, NodeType
<1>4. WakeupsType /\ HistoryType
  BY DEF Init, WakeupsType, HistoryType
<1>5. QED
  BY <1>1a, <1>2, <1>3, <1>4 DEF TypeOK

\* What the master computes from a well-typed report is well typed.
LEMMA ReportTypes ==
  ASSUME MasterType, HistoryType, NEW r, r.observed \in Observed,
         NEW d \in [Sandboxes -> Tier \cup {NoRow}], NEW a \in [Sandboxes -> Nat],
         NEW cmds \in [Sandboxes -> Command], NEW off
  PROVE  /\ ApplyTraffic(r) \in [Sandboxes -> Tier \cup {NoRow}]
         /\ TouchTraffic(r) \in [Sandboxes -> Tier]
         /\ ApplyEvictions(d, r) \in [Sandboxes -> Tier \cup {NoRow}]
         /\ Diff(d, a, gen, r.observed) \in [Sandboxes -> Command]
         /\ LeaveOut(cmds, off) \in [Sandboxes -> Command]
<1> USE DEF MasterType, Tier, HeldTier, Hot, Frozen, Snapshot, Detached, NoRow, NotHeld
<1>1. ApplyTraffic(r) \in [Sandboxes -> Tier \cup {NoRow}]
  BY DEF ApplyTraffic
<1>2. TouchTraffic(r) \in [Sandboxes -> Tier]
  BY DEF TouchTraffic
<1>3. ApplyEvictions(d, r) \in [Sandboxes -> Tier \cup {NoRow}]
  BY DEF ApplyEvictions, Observed
<1>4. Diff(d, a, gen, r.observed) \in [Sandboxes -> Command]
  BY DEF Diff, HistoryType, Command, NoCmd, CreateCmd, SetTierCmd, DestroyCmd
<1>5. LeaveOut(cmds, off) \in [Sandboxes -> Command]
  BY BlankTypes DEF LeaveOut
<1>6. QED
  BY <1>1, <1>2, <1>3, <1>4, <1>5

\* record_failures leaves every row with a natural number of attempts.
LEMMA RecordFailuresType ==
  ASSUME MasterType, NEW r \in Report
  PROVE  RecordFailures(r) \in [Sandboxes -> Nat]
  BY DEF MasterType, Report, Failing, RecordFailures

\* A tier change that stops on the way leaves a tier a node can hold.
LEMMA StoppedAtHeld ==
  ASSUME NEW h \in HeldTier, NEW w \in Tier
  PROVE  StoppedAt(h, w) \subseteq HeldTier
  BY DEF StoppedAt, HeldTier, Tier, Hot, Frozen, Snapshot, Detached


\* IdleTime keeps every variable's type.
LEMMA IdleTimeType ==
  ASSUME TypeOK, NEW s \in Sandboxes, IdleTime(s)
  PROVE  TypeOK'
<1> USE DEF TypeOK
<1>1. idle' \in [Sandboxes -> Tier]
  BY DEF IdleTime, MasterType, Colder, Tier, Hot, Detached
<1>2. HistoryType'
  BY DEF IdleTime, HistoryType, Spend, Budget
<1>3. QED
  BY <1>1, <1>2 DEF IdleTime, MasterType, PollType, EarlyType, NodeType, WakeupsType

\* EvictDone keeps every variable's type.
LEMMA EvictDoneType ==
  ASSUME TypeOK, NEW s \in Sandboxes, EvictDone(s)
  PROVE  TypeOK'
<1> USE DEF TypeOK
<1>1. woke' \in BOOLEAN
  BY Zenon DEF EvictDone, WakeupsType
<1>2. NodeType'
  BY DEF EvictDone, NodeType, Observed, HeldTier, Hot, Snapshot
<1>3. QED
  BY <1>1, <1>2 DEF EvictDone, MasterType, PollType, EarlyType, WakeupsType,
     HistoryType

\* GatewayWakes keeps every variable's type.
LEMMA GatewayWakesType ==
  ASSUME TypeOK, NEW s \in Sandboxes, GatewayWakes(s)
  PROVE  TypeOK'
<1> USE DEF TypeOK
<1>1. woke' \in BOOLEAN
  BY Zenon DEF GatewayWakes, WakeupsType
<1>2. NodeType'
  BY DEF GatewayWakes, NodeType, Observed, HeldTier, Hot, Snapshot
<1>3. QED
  BY <1>1, <1>2 DEF GatewayWakes, MasterType, PollType, EarlyType, WakeupsType,
     HistoryType

\* RunFails keeps every variable's type.
LEMMA RunFailsType ==
  ASSUME TypeOK, NEW s \in Sandboxes, RunFails(s)
  PROVE  TypeOK'
<1> USE DEF TypeOK
<1>1. have' \in Observed
  <2>1. CASE batch[s].op = "tier" /\ Held(s)
    <3>1. have[s] \in HeldTier /\ batch[s].tier \in Tier
      BY <2>1 DEF NodeType, PollType, Observed, Held, Command
    <3>2. PICK t \in HeldTier : have' = [have EXCEPT ![s] = t]
      BY <2>1, <3>1, StoppedAtHeld DEF RunFails
    <3>3. QED
      BY <3>2 DEF NodeType, Observed
  <2>2. CASE ~(batch[s].op = "tier" /\ Held(s))
    BY <2>2 DEF RunFails, NodeType
  <2>3. QED
    BY <2>1, <2>2
<1>2. NodeType'
  BY <1>1 DEF RunFails, Failed, PutOff, NodeType, Failing
<1>3. HistoryType'
  BY DEF RunFails, HistoryType, Spend, Budget
<1>4. PollType'
  BY BlankTypes DEF RunFails, PollType, Answered
<1>5. QED
  BY <1>2, <1>3, <1>4 DEF RunFails, MasterType, EarlyType, WakeupsType

\* PollArrives keeps every variable's type.
LEMMA PollArrivesType ==
  ASSUME TypeOK, PollArrives
  PROVE  TypeOK'
<1> USE DEF TypeOK
<1>0. rep \in Report /\ rep.observed \in Observed
  BY DEF PollType, Report
<1>1. attempts' \in [Sandboxes -> Nat]
  BY <1>0, RecordFailuresType DEF PollArrives
<1>2. ApplyTraffic(rep) \in [Sandboxes -> Tier \cup {NoRow}]
  BY <1>0, <1>1, ReportTypes, BlankTypes DEF MasterType
<1>2a. desired' \in [Sandboxes -> Tier \cup {NoRow}] /\ idle' \in [Sandboxes -> Tier]
  BY <1>0, <1>1, <1>2, ReportTypes, BlankTypes DEF PollArrives
<1>3. MasterType'
  BY <1>1, <1>2a DEF PollArrives, MasterType
<1>4. batch' \in [Sandboxes -> Command]
  <2>1. Diff(desired', attempts', gen, rep.observed) \in [Sandboxes -> Command]
    BY <1>0, <1>1, <1>2a, ReportTypes, BlankTypes
  <2>2. LeaveOut(Diff(desired', attempts', gen, rep.observed), rep.deferred)
          \in [Sandboxes -> Command]
    BY <1>0, <1>1, <1>2a, <2>1, ReportTypes
  <2>3. QED
    BY <2>2, BlankTypes DEF PollArrives
<1>5. rep' \in Report
  BY <1>0, BlankTypes DEF PollArrives, Parked, Report, NoReport
<1>6. PollType'
  BY <1>4, <1>5 DEF PollArrives, PollType
<1>7. QED
  BY <1>3, <1>6 DEF PollArrives, EarlyType, NodeType, WakeupsType, HistoryType

\* ParkEnds keeps every variable's type.
LEMMA ParkEndsType ==
  ASSUME TypeOK, ParkEnds
  PROVE  TypeOK'
<1> USE DEF TypeOK
<1>1. rep.observed \in Observed
  BY DEF PollType, Report
<1>2. batch' \in [Sandboxes -> Command]
  <2>1. Diff(desired, attempts, gen, rep.observed) \in [Sandboxes -> Command]
    BY <1>1, ReportTypes, BlankTypes DEF MasterType
  <2>2. QED
    BY <1>1, <2>1, ReportTypes DEF ParkEnds, MasterType
<1>3. PollType'
  BY <1>2, BlankTypes DEF ParkEnds, PollType
<1>4. permit' \in BOOLEAN
  BY Zenon DEF ParkEnds, MasterType
<1>5. QED
  BY <1>3, <1>4 DEF ParkEnds, MasterType, EarlyType, NodeType, WakeupsType,
     HistoryType

\* EarlyArrives keeps every variable's type.
LEMMA EarlyArrivesType ==
  ASSUME TypeOK, EarlyArrives
  PROVE  TypeOK'
<1> USE DEF TypeOK
<1>1. erep.observed \in Observed
  BY DEF EarlyType, EarlyReport
<1>2. ApplyTraffic(erep) \in [Sandboxes -> Tier \cup {NoRow}]
  BY <1>1, ReportTypes, BlankTypes DEF MasterType
<1>3. desired' \in [Sandboxes -> Tier \cup {NoRow}] /\ idle' \in [Sandboxes -> Tier]
  BY <1>1, <1>2, ReportTypes, BlankTypes DEF EarlyArrives, MasterType
<1>4. QED
  BY <1>3, BlankTypes DEF EarlyArrives, MasterType, PollType, EarlyType,
     NodeType, WakeupsType, HistoryType

\* NodeRestarts keeps every variable's type.
LEMMA NodeRestartsType ==
  ASSUME TypeOK, NodeRestarts
  PROVE  TypeOK'
<1> USE DEF TypeOK
<1>1. PollType' /\ EarlyType'
  BY BlankTypes DEF NodeRestarts, PollType, EarlyType
<1>2. NodeType'
  BY BlankTypes DEF NodeRestarts, NodeType
<1>3. HistoryType'
  BY DEF NodeRestarts, HistoryType, Spend, Budget
<1>4. WakeupsType'
  BY DEF NodeRestarts, WakeupsType
<1>5. QED
  BY <1>1, <1>2, <1>3, <1>4 DEF NodeRestarts, MasterType

\* MasterRestarts keeps every variable's type.
LEMMA MasterRestartsType ==
  ASSUME TypeOK, MasterRestarts
  PROVE  TypeOK'
<1> USE DEF TypeOK
<1>1. PollType' /\ EarlyType'
  BY BlankTypes DEF MasterRestarts, PollType, EarlyType
<1>2. HistoryType'
  BY DEF MasterRestarts, HistoryType, Spend, Budget
<1>3. QED
  BY <1>1, <1>2 DEF MasterRestarts, MasterType, NodeType, WakeupsType

\* Every step keeps every variable's type.
LEMMA NextTypeOK == TypeOK /\ [Next]_vars => TypeOK'
<1> SUFFICES ASSUME TypeOK, [Next]_vars PROVE TypeOK'
  OBVIOUS
<1> USE BlankTypes
    DEF TypeOK, MasterType, PollType, EarlyType, NodeType, WakeupsType, HistoryType,
        Spend, Budget
<1>1. ASSUME NEW s \in Sandboxes, Api(s) PROVE TypeOK'
  <2> USE DEF Tier, Hot, Snapshot, Detached, NoRow
  <2>1. CASE CreateSandbox(s)
    BY <2>1 DEF CreateSandbox
  <2>2. CASE Touch(s)
    BY <2>2 DEF Touch
  <2>3. CASE Pause(s)
    BY <2>3 DEF Pause
  <2>4. CASE Retry(s)
    BY <2>4 DEF Retry
  <2>5. CASE Delete(s)
    BY <2>5 DEF Delete
  <2>6. ASSUME NEW t \in Tier, SetTier(s, t) PROVE TypeOK'
    BY <2>6 DEF SetTier
  <2>7. CASE Resume(s)
    BY <2>7 DEF Resume
  <2>8. QED
    BY <1>1, <2>1, <2>2, <2>3, <2>4, <2>5, <2>6, <2>7 DEF Api
<1>2. ASSUME NEW s \in Sandboxes, Run(s) PROVE TypeOK'
  <2>1. CASE RunLater(s)
    BY <2>1 DEF RunLater, Answered, PutOff
  <2>2. CASE RunCreate(s)
    BY <2>2 DEF RunCreate, Answered, Observed, HeldTier, Tier, Hot, Snapshot,
       Detached, NotHeld, Command
  <2>3. CASE RunSetTier(s)
    BY <2>3 DEF RunSetTier, Answered, Observed, HeldTier, Tier, Hot, Snapshot,
       Detached, NotHeld, Command
  <2>4. CASE RunDestroy(s)
    BY <2>4 DEF RunDestroy, Answered, Forget
  <2>5. CASE RunFails(s)
    BY <2>5, RunFailsType
  <2>6. QED
    BY <1>2, <2>1, <2>2, <2>3, <2>4, <2>5 DEF Run
<1>3. ASSUME NEW s \in Sandboxes,
             \/ DestroyKills(s) \/ DestroyDone(s) \/ GatewayWakes(s) \/ RequestEnds(s)
             \/ DeferralDue(s) \/ GraceOver(s) \/ FreshOver(s) \/ EvictedOver(s)
             \/ PauseHoldOver(s) \/ Reap(s) \/ EvictDone(s)
      PROVE  TypeOK'
  <2>1. CASE DestroyKills(s)
    BY <2>1 DEF DestroyKills, Observed, HeldTier, Hot, Snapshot, NotHeld
  <2>2. CASE DestroyDone(s)
    BY <2>2 DEF DestroyDone, Observed, HeldTier, Hot, Snapshot, NotHeld
  <2>3. CASE GatewayWakes(s)
    BY <2>3, GatewayWakesType
  <2>4. CASE RequestEnds(s)
    BY <2>4 DEF RequestEnds
  <2>5. CASE DeferralDue(s)
    BY <2>5 DEF DeferralDue, Failing
  <2>6. CASE GraceOver(s)
    BY <2>6 DEF GraceOver
  <2>7. CASE FreshOver(s)
    BY <2>7 DEF FreshOver
  <2>8. CASE EvictedOver(s)
    BY <2>8 DEF EvictedOver
  <2>9. CASE PauseHoldOver(s)
    BY <2>9 DEF PauseHoldOver
  <2>10. CASE Reap(s)
    BY <2>10 DEF Reap, Forget, Observed
  <2>11. CASE EvictDone(s)
    BY <2>11, EvictDoneType
  <2>12. QED
    BY <1>3, <2>1, <2>2, <2>3, <2>4, <2>5, <2>6, <2>7, <2>8, <2>9, <2>10, <2>11
<1>4. ASSUME NEW s \in Sandboxes,
             \/ IdleTime(s) \/ Request(s) \/ Evict(s) \/ Dies(s)
             \/ RunHeldBack(s) \/ RunFetchPending(s) \/ EvictFails(s)
      PROVE  TypeOK'
  <2>1. CASE IdleTime(s)
    BY <2>1, IdleTimeType
  <2>2. CASE Request(s)
    BY <2>2 DEF Request
  <2>3. CASE Evict(s)
    BY <2>3 DEF Evict, Observed, NotHeld
  <2>4. CASE Dies(s)
    BY <2>4 DEF Dies, Observed, HeldTier, Hot, Snapshot, NotHeld
  <2>5. CASE RunHeldBack(s)
    BY <2>5 DEF RunHeldBack, Failed, Answered, PutOff, Failing
  <2>6. CASE RunFetchPending(s)
    BY <2>6 DEF RunFetchPending, Answered, PutOff
  <2>7. CASE EvictFails(s)
    BY <2>7 DEF EvictFails
  <2>8. QED
    BY <1>4, <2>1, <2>2, <2>3, <2>4, <2>5, <2>6, <2>7
<1>5. CASE Sweep
  BY <1>5 DEF Sweep, Demotable, Row, Colder, Tier, Hot, Detached, NoRow
<1>6. CASE Observe
  BY <1>6 DEF Observe, Forget, NoReport, Report
<1>7. CASE SendPoll
  BY <1>7 DEF SendPoll, Report
<1>8. CASE Receive
  BY <1>8 DEF Receive
<1>9. CASE EndBatch
  BY <1>9 DEF EndBatch
<1>10. CASE EarlyObserves
  BY <1>10 DEF EarlyObserves, NoEarly, EarlyReport
<1>11. CASE EarlySends
  BY <1>11 DEF EarlySends, EarlyReport
<1>12. CASE PollLost
  BY <1>12 DEF PollLost
<1>13. CASE EarlyLost
  BY <1>13 DEF EarlyLost
<1>14. CASE PollArrives
  BY <1>14, PollArrivesType
<1>15. CASE ParkEnds
  BY <1>15, ParkEndsType
<1>16. CASE EarlyArrives
  BY <1>16, EarlyArrivesType
<1>17. CASE NodeRestarts
  BY <1>17, NodeRestartsType
<1>18. CASE MasterRestarts
  BY <1>18, MasterRestartsType
<1>19. CASE UNCHANGED vars
  BY <1>19 DEF vars
<1>20. CASE WakeNode
  BY <1>20 DEF WakeNode
<1>21. CASE ListDead
  BY <1>21 DEF ListDead
<1>22. QED
  BY <1>21, <1>1, <1>2, <1>3, <1>4, <1>5, <1>6, <1>7, <1>8, <1>9, <1>10, <1>11,
     <1>12, <1>13, <1>14, <1>15, <1>16, <1>17, <1>18, <1>19, <1>20 DEF Next,
     System, Environment

\* Type correctness: Init establishes the types and every step keeps them.
THEOREM TypeCorrect == Spec => []TypeOK
<1>1. QED
  BY InitTypeOK, NextTypeOK, PTL DEF Spec

\* What a parked poll keeps of its report.
LEMMA ParkedKeeps ==
  ASSUME NEW r
  PROVE  /\ Parked(r).observed = r.observed
         /\ Parked(r).deferred = r.deferred
  BY DEF Parked, NoReport

\* A command that is left in names a sandbox that was not put off, and a create
\* names one the observation does not list.
LEMMA OfferedCommands ==
  ASSUME NEW d, NEW a, NEW g, NEW observed, NEW off, NEW s \in Sandboxes,
         NEW cmds, cmds = LeaveOut(Diff(d, a, g, observed), off)
  PROVE  /\ cmds[s] # NoCmd => s \notin off
         /\ cmds[s].op = "create" => observed[s] = NotHeld
  BY DEF LeaveOut, Diff, NoCmd, CreateCmd, SetTierCmd, DestroyCmd

\* The initial state satisfies the poll's invariant.
LEMMA InitPollInv == Init => PollInv
  BY DEF Init, PollInv, BatchWhenAnswered, MissingStaysMissing, PartingAway,
     BackoffPutOff,
     PutOffReported, NoLostWake, NeverOfferedEarly, CreatesUnlessRaced, Missing,
     Held, Nothing, NoBatch, NoCmd, NotFailing

\* Every step keeps the poll's invariant.
LEMMA NextPollInv == TypeOK /\ PollInv /\ [Next]_vars => PollInv'
<1> SUFFICES ASSUME TypeOK, PollInv, [Next]_vars PROVE PollInv'
  OBVIOUS
<1> USE DEF PollInv, BatchWhenAnswered, MissingStaysMissing, PartingAway, Missing, Held,
            BackoffPutOff,
            PutOffReported, NoLostWake, NeverOfferedEarly, CreatesUnlessRaced
<1>0. /\ failing \in [Sandboxes -> Failing] /\ batch \in [Sandboxes -> Command]
      /\ deferred \in [Sandboxes -> {"no", "waiting", "due"}]
      /\ have \in [Sandboxes -> HeldTier \cup {NotHeld}]
      /\ desired \in [Sandboxes -> Tier \cup {NoRow}] /\ permit \in BOOLEAN /\ owed \in BOOLEAN
  BY DEF TypeOK, NodeType, PollType, MasterType, Observed
<1>1. ASSUME NEW s \in Sandboxes, Api(s) PROVE PollInv'
  <2>1. CASE CreateSandbox(s)
    BY <1>0, <2>1 DEF CreateSandbox
  <2>2. CASE Touch(s)
    BY <1>0, <2>2 DEF Touch
  <2>3. CASE Pause(s)
    BY <1>0, <2>3 DEF Pause
  <2>4. CASE Retry(s)
    BY <1>0, <2>4 DEF Retry
  <2>5. CASE Delete(s)
    BY <1>0, <2>5 DEF Delete
  <2>6. ASSUME NEW t \in Tier, SetTier(s, t) PROVE PollInv'
    BY <1>0, <2>6 DEF SetTier
  <2>7. CASE Resume(s)
    BY <1>0, <2>7 DEF Resume
  <2>8. QED
    BY <1>1, <2>1, <2>2, <2>3, <2>4, <2>5, <2>6, <2>7 DEF Api
<1>2. ASSUME NEW s \in Sandboxes, Run(s) \/ RunHeldBack(s) \/ RunFetchPending(s)
      PROVE  PollInv'
  <2> USE DEF Offered, Answered, NoCmd
  <2>1. CASE RunLater(s)
    BY <1>0, <2>1 DEF RunLater, PutOff
  <2>2. CASE RunFails(s)
    <3>1. /\ s \notin parting /\ conn' = "running" /\ parting' = parting /\ raced' = raced
          /\ \A z \in Sandboxes \ {s} : have'[z] = have[z] /\ batch'[z] = batch[z]
          /\ batch'[s] = NoCmd
      <4>1. \/ \E t \in StoppedAt(have[s], batch[s].tier) : have' = [have EXCEPT ![s] = t]
            \/ have' = have
        BY <2>2 DEF RunFails
      <4>2. \A z \in Sandboxes \ {s} : have'[z] = have[z]
        BY <1>0, <4>1
      <4>3. QED
        BY <1>0, <2>2, <4>2 DEF RunFails, Runs
    <3>2. BatchWhenAnswered' /\ MissingStaysMissing'
      BY <3>1
    <3>2a. PartingAway'
      BY <3>1 DEF TypeOK, NodeType
    <3>2b. CreatesUnlessRaced'
      BY <3>1
    <3>3. BackoffPutOff' /\ PutOffReported' /\ NoLostWake' /\ NeverOfferedEarly'
      BY <1>0, <2>2, <3>1 DEF RunFails, Failed, PutOff
    <3>4. QED
      BY <3>2, <3>2a, <3>2b, <3>3
  <2>3. CASE RunCreate(s)
    BY <1>0, <2>3 DEF RunCreate, NotFailing, Runs
  <2>4. CASE RunSetTier(s)
    BY <1>0, <2>4 DEF RunSetTier, NotFailing, Held
  <2>5. CASE RunDestroy(s)
    BY <1>0, <2>5 DEF RunDestroy, NotFailing
  <2>6. CASE RunHeldBack(s)
    BY <1>0, <2>6 DEF RunHeldBack, Failed, PutOff
  <2>7. CASE RunFetchPending(s)
    BY <1>0, <2>7 DEF RunFetchPending, PutOff, Runs
  <2>8. QED
    BY <1>2, <2>1, <2>2, <2>3, <2>4, <2>5, <2>6, <2>7 DEF Run
<1>3. ASSUME NEW s \in Sandboxes,
             \/ DestroyKills(s) \/ DestroyDone(s) \/ GatewayWakes(s) \/ RequestEnds(s)
             \/ DeferralDue(s) \/ GraceOver(s) \/ FreshOver(s) \/ EvictedOver(s)
             \/ PauseHoldOver(s) \/ IdleTime(s) \/ Request(s) \/ Evict(s) \/ Dies(s)
             \/ Reap(s) \/ EvictDone(s) \/ EvictFails(s)
      PROVE  PollInv'
  <2>1. CASE DestroyKills(s)
    BY <1>0, <2>1 DEF DestroyKills
  <2>2. CASE DestroyDone(s)
    BY <1>0, <2>2 DEF DestroyDone
  <2>3. CASE GatewayWakes(s)
    BY <1>0, <2>3 DEF GatewayWakes, Hot, Frozen, Snapshot, NotHeld
  <2>4. CASE RequestEnds(s)
    BY <1>0, <2>4 DEF RequestEnds
  <2>5. CASE DeferralDue(s)
    BY <1>0, <2>5 DEF DeferralDue, Failing
  <2>6. CASE GraceOver(s)
    BY <1>0, <2>6 DEF GraceOver
  <2>7. CASE FreshOver(s)
    BY <1>0, <2>7 DEF FreshOver
  <2>8. CASE EvictedOver(s)
    BY <1>0, <2>8 DEF EvictedOver
  <2>9. CASE PauseHoldOver(s)
    BY <1>0, <2>9 DEF PauseHoldOver
  <2>10. CASE IdleTime(s)
    BY <1>0, <2>10 DEF IdleTime
  <2>11. CASE Request(s)
    BY <1>0, <2>11 DEF Request
  <2>12. CASE Evict(s)
    BY <1>0, <2>12 DEF Evict, Hot, Frozen, Snapshot, NotHeld
  <2>13. CASE Dies(s)
    BY <1>0, <2>13 DEF Dies, Hot, Frozen, Snapshot, NotHeld
  <2>14. CASE Reap(s)
    <3>1. CASE s \in parting
      BY <1>0, <2>14, <3>1 DEF Reap
    <3>2. CASE s \notin parting
      <4>1. /\ have' = [have EXCEPT ![s] = NotHeld] /\ parting' = parting
            /\ UNCHANGED <<master, poll, failing, deferred, history>>
        BY <2>14, <3>2 DEF Reap
      <4>2. QED
        BY <1>0, <4>1
    <3>3. QED
      BY <3>1, <3>2
  <2>15. CASE EvictDone(s)
    BY <1>0, <2>15 DEF EvictDone
  <2>16. CASE EvictFails(s)
    BY <1>0, <2>16 DEF EvictFails
  <2>17. QED
    BY <1>3, <2>1, <2>2, <2>3, <2>4, <2>5, <2>6, <2>7, <2>8, <2>9, <2>10,
       <2>11, <2>12, <2>13, <2>14, <2>15, <2>16
<1>4. CASE Sweep
  BY <1>0, <1>4 DEF Sweep
<1>5. CASE Observe
  BY <1>0, <1>5 DEF Observe, NoReport, NoBatch, NoCmd
<1>6. CASE SendPoll
  BY <1>0, <1>6 DEF SendPoll
<1>7. CASE Receive
  BY <1>0, <1>7 DEF Receive
<1>8. CASE EndBatch
  BY <1>0, <1>8 DEF EndBatch, NotFailing
<1>9. CASE EarlyObserves
  BY <1>0, <1>9 DEF EarlyObserves
<1>10. CASE EarlySends
  BY <1>0, <1>10 DEF EarlySends
<1>11. CASE EarlyArrives
  BY <1>0, <1>11 DEF EarlyArrives
<1>12. CASE PollLost
  BY <1>0, <1>12 DEF PollLost, NoBatch, NoCmd
<1>13. CASE EarlyLost
  BY <1>0, <1>13 DEF EarlyLost
<1>14. CASE NodeRestarts
  BY <1>0, <1>14 DEF NodeRestarts, NoBatch, NoCmd, NotFailing
<1>15. CASE MasterRestarts
  BY <1>0, <1>15 DEF MasterRestarts, NoBatch, NoCmd
<1>16. CASE PollArrives
  BY <1>0, <1>16, ParkedKeeps, OfferedCommands DEF PollArrives, NoBatch, NoCmd
<1>17. CASE ParkEnds
  BY <1>0, <1>17, OfferedCommands DEF ParkEnds, NoCmd
<1>18. CASE UNCHANGED vars
  BY <1>18 DEF vars
<1>19. CASE WakeNode
  BY <1>0, <1>19 DEF WakeNode
<1>20. CASE ListDead
  BY <1>0, <1>20 DEF ListDead
<1>21. QED
  BY <1>1, <1>2, <1>3, <1>4, <1>5, <1>6, <1>7, <1>8, <1>9, <1>10, <1>11, <1>12,
     <1>13, <1>14, <1>15, <1>16, <1>17, <1>18, <1>19, <1>20 DEF Next, System,
     Environment

\* The poll's invariant holds throughout, for every number of sandboxes, calls
\* and faults.
THEOREM PollSafety == Spec => []PollInv
<1>1. Init => TypeOK /\ PollInv
  BY InitTypeOK, InitPollInv
<1>2. TypeOK /\ PollInv /\ [Next]_vars => (TypeOK /\ PollInv)'
  BY NextTypeOK, NextPollInv
<1>3. QED
  BY <1>1, <1>2, PTL DEF Spec

\* No poll is left parked on work its waker does not know of.
THEOREM WakeupsKept == Spec => []NoLostWake
<1>1. PollInv => NoLostWake
  BY DEF PollInv
<1>2. QED
  BY <1>1, PollSafety, PTL

\* The master never offers what the node is still backing off from.
THEOREM BackoffRespected == Spec => []NeverOfferedEarly
<1>1. PollInv => NeverOfferedEarly
  BY DEF PollInv
<1>2. QED
  BY <1>1, PollSafety, PTL

\* A create never reaches a node that has the sandbox, but for one the report
\* missed because it was just being put to disk.
THEOREM CreatesMissing == Spec => []CreatesUnlessRaced
<1>1. PollInv => CreatesUnlessRaced
  BY DEF PollInv
<1>2. QED
  BY <1>1, PollSafety, PTL
(***************************************************************************)
(* Quarantine.  Commands for a sandbox are answered only to a report whose *)
(* failures have been recorded, and a row already quarantined gets none.   *)
(***************************************************************************)

\* What an entry says of a sandbox was so: no attempt that was not one, and one
\* at least that failed outright if it was not held back.
EntryEarned(f, s) ==
  /\ f.attempts <= tried[s] + spared[s]
  /\ f.attempts > 0 /\ ~f.heldBack => tried[s] > 0

\* The failure book has only such entries,
BookEarned == \A s \in Sandboxes : EntryEarned(failing[s], s)

\* so has a report that record_failures has yet to read,
ReportEarned == conn = "sent" => \A s \in Sandboxes : EntryEarned(rep.failures[s], s)

\* so what could succeed is never asked of a row in quarantine,
NoneAskedOfQuarantined ==
  \A s \in Sandboxes : batch[s].op \in {"create", "tier"} => attempts[s] < MaxFailures

\* and a count that reaches MAX_FAILURES has been earned, row or no row.
CountEarned ==
  \A s \in Sandboxes :
    attempts[s] >= MaxFailures => tried[s] > 0 /\ tried[s] + spared[s] >= MaxFailures

FailureInv == BookEarned /\ ReportEarned /\ NoneAskedOfQuarantined /\ CountEarned

(***************************************************************************)
(* Destroys.  An id not used yet has nothing anywhere, and one whose first *)
(* row is still there has no destroy under way.                            *)
(***************************************************************************)
Unused(s) ==
  /\ ~Held(s) /\ s \notin parting \cup destroying
  /\ rep.observed[s] = NotHeld /\ batch[s].op = "none"

FirstUse(s) ==
  /\ Row(s) => gen[s] > 0
  /\ gen[s] = 0 => Unused(s)
  /\ Row(s) /\ gen[s] = 1 => batch[s].op # "destroy" /\ s \notin destroying

DestroyInv == \A s \in Sandboxes : FirstUse(s)

\* The initial state satisfies the invariant of the failures.
LEMMA InitFailureInv == Init => FailureInv
  BY ReconcileAssumption
     DEF Init, FailureInv, BookEarned, ReportEarned, EntryEarned, NoneAskedOfQuarantined, CountEarned,
         NotFailing, NoBatch, NoCmd

\* A diff asks for something that can succeed only of a row out of quarantine.
LEMMA AskedOutOfQuarantine ==
  ASSUME NEW d, NEW a \in [Sandboxes -> Nat], NEW g, NEW observed, NEW off,
         NEW s \in Sandboxes, NEW cmds, cmds = LeaveOut(Diff(d, a, g, observed), off),
         cmds[s].op \in {"create", "tier"}
  PROVE  a[s] < MaxFailures
  BY ReconcileAssumption DEF LeaveOut, Diff, NoCmd, DestroyCmd

\* record_failures counts a row up to no more than the report's attempts, if the
\* last of those was not held back.
LEMMA RecordedCounts ==
  ASSUME TypeOK, NEW r \in Report, NEW s \in Sandboxes
  PROVE  \/ RecordFailures(r)[s] \in {0, attempts[s]}
         \/ /\ RecordFailures(r)[s] = r.failures[s].attempts
            /\ r.failures[s].attempts > 0 /\ ~r.failures[s].heldBack
  BY DEF RecordFailures

\* A report that arrives is recorded before the diff that answers it.
LEMMA PollArrivesFailures ==
  ASSUME TypeOK, FailureInv, PollArrives
  PROVE  FailureInv'
<1> USE DEF FailureInv
<1>0. /\ rep \in Report /\ attempts' = RecordFailures(rep) /\ conn = "sent" /\ conn' # "sent"
      /\ UNCHANGED <<failing, tried, spared>>
  BY DEF PollArrives, TypeOK, PollType
<1>0a. /\ attempts' \in [Sandboxes -> Nat]
       /\ tried \in [Sandboxes -> Nat] /\ spared \in [Sandboxes -> Nat]
  BY <1>0, RecordFailuresType DEF TypeOK, HistoryType
<1>1. BookEarned' /\ ReportEarned'
  BY <1>0 DEF BookEarned, ReportEarned, EntryEarned
<1>2. NoneAskedOfQuarantined'
  <2> SUFFICES ASSUME NEW s \in Sandboxes, batch'[s].op \in {"create", "tier"}
               PROVE  attempts'[s] < MaxFailures
    BY DEF NoneAskedOfQuarantined
  <2>1. batch' = LeaveOut(Diff(desired', attempts', gen, rep.observed), rep.deferred)
    BY DEF PollArrives
  <2>2. QED
    BY <1>0a, <2>1, AskedOutOfQuarantine
<1>3. CountEarned'
  <2> SUFFICES ASSUME NEW s \in Sandboxes, attempts'[s] >= MaxFailures
               PROVE  tried[s] > 0 /\ tried[s] + spared[s] >= MaxFailures
    BY <1>0 DEF CountEarned
  <2>1. CASE attempts'[s] \in {0, attempts[s]}
    BY <1>0a, <2>1, ReconcileAssumption DEF CountEarned
  <2>2. CASE /\ attempts'[s] = rep.failures[s].attempts
             /\ rep.failures[s].attempts > 0 /\ ~rep.failures[s].heldBack
    <3>1. EntryEarned(rep.failures[s], s) /\ rep.failures[s].attempts \in Nat
      BY <1>0 DEF ReportEarned, Report, Failing
    <3>2. QED
      BY <1>0a, <2>2, <3>1, ReconcileAssumption DEF EntryEarned
  <2>3. QED
    BY <1>0, <2>1, <2>2, RecordedCounts
<1>4. QED
  BY <1>1, <1>2, <1>3

\* The diff after a park asks nothing of a row that is in quarantine by then.
LEMMA ParkEndsFailures ==
  ASSUME TypeOK, FailureInv, ParkEnds
  PROVE  FailureInv'
<1> USE DEF FailureInv
<1>0. UNCHANGED <<failing, tried, spared, attempts>> /\ conn' # "sent" /\ attempts \in [Sandboxes -> Nat]
  BY DEF ParkEnds, TypeOK, MasterType
<1>1. BookEarned' /\ ReportEarned' /\ CountEarned'
  BY <1>0 DEF BookEarned, ReportEarned, EntryEarned, CountEarned
<1>2. NoneAskedOfQuarantined'
  BY <1>0, AskedOutOfQuarantine DEF NoneAskedOfQuarantined, ParkEnds
<1>3. QED
  BY <1>1, <1>2

\* Every step keeps the invariant of the failures.
LEMMA NextFailureInv == TypeOK /\ FailureInv /\ [Next]_vars => FailureInv'
<1> SUFFICES ASSUME TypeOK, FailureInv, [Next]_vars PROVE FailureInv'
  OBVIOUS
<1> USE ReconcileAssumption
    DEF FailureInv, BookEarned, ReportEarned, EntryEarned, NoneAskedOfQuarantined,
        CountEarned
<1>0. /\ failing \in [Sandboxes -> Failing] /\ batch \in [Sandboxes -> Command]
      /\ attempts \in [Sandboxes -> Nat] /\ tried \in [Sandboxes -> Nat]
      /\ spared \in [Sandboxes -> Nat]
      /\ \A s \in Sandboxes : failing[s].attempts \in Nat
      /\ rep \in Report
  BY DEF TypeOK, NodeType, PollType, MasterType, HistoryType, Failing
<1>1. ASSUME NEW s \in Sandboxes, Api(s) PROVE FailureInv'
  <2>1. CASE CreateSandbox(s)
    BY <1>0, <2>1 DEF CreateSandbox
  <2>2. CASE Touch(s)
    BY <1>0, <2>2 DEF Touch
  <2>3. CASE Pause(s)
    BY <1>0, <2>3 DEF Pause
  <2>4. CASE Retry(s)
    BY <1>0, <2>4 DEF Retry
  <2>5. CASE Delete(s)
    BY <1>0, <2>5 DEF Delete
  <2>6. CASE Resume(s)
    BY <1>0, <2>6 DEF Resume
  <2>7. ASSUME NEW t \in Tier, SetTier(s, t) PROVE FailureInv'
    BY <1>0, <2>7 DEF SetTier
  <2>8. QED
    BY <1>1, <2>1, <2>2, <2>3, <2>4, <2>5, <2>6, <2>7 DEF Api
<1>2. ASSUME NEW s \in Sandboxes, Run(s) \/ RunHeldBack(s) \/ RunFetchPending(s)
      PROVE  FailureInv'
  <2>1. CASE RunLater(s)
    BY <1>0, <2>1 DEF RunLater, Answered, Offered, NoCmd
  <2>2. CASE RunFails(s)
    BY <1>0, <2>2 DEF RunFails, Answered, Offered, NoCmd, Failed
  <2>3. CASE RunCreate(s)
    BY <1>0, <2>3 DEF RunCreate, Answered, Offered, NoCmd, NotFailing
  <2>4. CASE RunSetTier(s)
    BY <1>0, <2>4 DEF RunSetTier, Answered, Offered, NoCmd, NotFailing
  <2>5. CASE RunDestroy(s)
    BY <1>0, <2>5 DEF RunDestroy, Answered, Offered, NoCmd, NotFailing
  <2>6. CASE RunHeldBack(s)
    BY <1>0, <2>6 DEF RunHeldBack, Answered, Offered, NoCmd, Failed
  <2>7. CASE RunFetchPending(s)
    BY <1>0, <2>7 DEF RunFetchPending, Answered, Offered, NoCmd
  <2>8. QED
    BY <1>2, <2>1, <2>2, <2>3, <2>4, <2>5, <2>6, <2>7 DEF Run
<1>3. ASSUME NEW s \in Sandboxes,
             \/ DestroyKills(s) \/ DestroyDone(s) \/ GatewayWakes(s) \/ RequestEnds(s)
             \/ DeferralDue(s) \/ GraceOver(s) \/ FreshOver(s) \/ EvictedOver(s)
             \/ PauseHoldOver(s) \/ IdleTime(s) \/ Request(s) \/ Evict(s) \/ Dies(s)
             \/ Reap(s) \/ EvictDone(s) \/ EvictFails(s)
      PROVE  FailureInv'
  <2>1. CASE DestroyKills(s)
    BY <1>0, <2>1 DEF DestroyKills
  <2>2. CASE DestroyDone(s)
    BY <1>0, <2>2 DEF DestroyDone
  <2>3. CASE GatewayWakes(s)
    BY <1>0, <2>3 DEF GatewayWakes
  <2>4. CASE RequestEnds(s)
    BY <1>0, <2>4 DEF RequestEnds
  <2>5. CASE DeferralDue(s)
    BY <1>0, <2>5 DEF DeferralDue, Failing
  <2>6. CASE GraceOver(s)
    BY <1>0, <2>6 DEF GraceOver
  <2>7. CASE FreshOver(s)
    BY <1>0, <2>7 DEF FreshOver
  <2>8. CASE EvictedOver(s)
    BY <1>0, <2>8 DEF EvictedOver
  <2>9. CASE PauseHoldOver(s)
    BY <1>0, <2>9 DEF PauseHoldOver
  <2>10. CASE IdleTime(s)
    BY <1>0, <2>10 DEF IdleTime
  <2>11. CASE Request(s)
    BY <1>0, <2>11 DEF Request
  <2>12. CASE Evict(s)
    BY <1>0, <2>12 DEF Evict
  <2>13. CASE Dies(s)
    BY <1>0, <2>13 DEF Dies
  <2>14. CASE Reap(s)
    BY <1>0, <2>14 DEF Reap
  <2>15. CASE EvictDone(s)
    BY <1>0, <2>15 DEF EvictDone
  <2>16. CASE EvictFails(s)
    BY <1>0, <2>16 DEF EvictFails
  <2>17. QED
    BY <1>3, <2>1, <2>2, <2>3, <2>4, <2>5, <2>6, <2>7, <2>8, <2>9, <2>10,
       <2>11, <2>12, <2>13, <2>14, <2>15, <2>16
<1>4. CASE Sweep
  BY <1>0, <1>4 DEF Sweep
<1>5. CASE Observe
  BY <1>0, <1>5 DEF Observe
<1>6. CASE SendPoll
  BY <1>0, <1>6 DEF SendPoll
<1>7. CASE Receive
  BY <1>0, <1>7 DEF Receive
<1>8. CASE EndBatch
  BY <1>0, <1>8 DEF EndBatch, NotFailing
<1>9. CASE EarlyObserves
  BY <1>0, <1>9 DEF EarlyObserves
<1>10. CASE EarlySends
  BY <1>0, <1>10 DEF EarlySends
<1>11. CASE EarlyArrives
  BY <1>0, <1>11 DEF EarlyArrives
<1>12. CASE PollLost
  BY <1>0, <1>12 DEF PollLost, NoBatch, NoCmd
<1>13. CASE EarlyLost
  BY <1>0, <1>13 DEF EarlyLost
<1>14. CASE NodeRestarts
  BY <1>0, <1>14 DEF NodeRestarts, NoBatch, NoCmd, NotFailing
<1>15. CASE MasterRestarts
  BY <1>0, <1>15 DEF MasterRestarts, NoBatch, NoCmd
<1>16. CASE PollArrives
  BY <1>16, PollArrivesFailures
<1>17. CASE ParkEnds
  BY <1>17, ParkEndsFailures
<1>18. CASE WakeNode
  BY <1>0, <1>18 DEF WakeNode
<1>19. CASE ListDead
  BY <1>0, <1>19 DEF ListDead
<1>20. CASE UNCHANGED vars
  BY <1>20 DEF vars
<1>21. QED
  BY <1>1, <1>2, <1>3, <1>4, <1>5, <1>6, <1>7, <1>8, <1>9, <1>10, <1>11, <1>12,
     <1>13, <1>14, <1>15, <1>16, <1>17, <1>18, <1>19, <1>20
     DEF Next, System, Environment

\* The invariant of the failures holds throughout.
THEOREM FailureSafety == Spec => []FailureInv
<1>1. Init => TypeOK /\ FailureInv
  BY InitTypeOK, InitFailureInv
<1>2. TypeOK /\ FailureInv /\ [Next]_vars => (TypeOK /\ FailureInv)'
  BY NextTypeOK, NextFailureInv
<1>3. QED
  BY <1>1, <1>2, PTL DEF Spec

\* A row is quarantined only after MAX_FAILURES attempts in a row that did not
\* succeed, however often each was reported, and only if one of them failed
\* outright: never by record_failures' held-back ones alone.
THEOREM QuarantineIsEarned == Spec => []QuarantineEarned
<1>1. FailureInv => QuarantineEarned
  BY DEF FailureInv, CountEarned, QuarantineEarned, Quarantined
<1>2. QED
  BY <1>1, FailureSafety, PTL

\* The initial state satisfies the invariant of the destroys.
LEMMA InitDestroyInv == Init => DestroyInv
  BY DEF Init, DestroyInv, FirstUse, Unused, Row, Held, NoBatch, NoCmd, NoReport, Nothing

\* A diff asks nothing of an id without a row that the report does not list,
\* and destroys none that has a row.
LEMMA DiffOfFirstUse ==
  ASSUME NEW d, NEW a, NEW g, NEW observed, NEW off, NEW s \in Sandboxes,
         NEW cmds, cmds = LeaveOut(Diff(d, a, g, observed), off)
  PROVE  /\ d[s] = NoRow /\ observed[s] = NotHeld => cmds[s].op = "none"
         /\ d[s] # NoRow => cmds[s].op # "destroy"
  BY DEF LeaveOut, Diff, NoCmd, CreateCmd, SetTierCmd, DestroyCmd

\* A report changes the tier of rows, and makes and drops none.
LEMMA ReportKeepsRows ==
  ASSUME TypeOK, NEW r, r.observed \in Observed, NEW s \in Sandboxes
  PROVE  ApplyEvictions(ApplyTraffic(r), r)[s] = NoRow <=> ~Row(s)
  BY DEF TypeOK, MasterType, ApplyEvictions, ApplyTraffic, Row, Observed, HeldTier, Tier,
         Hot, Frozen, Snapshot, Detached, NoRow, NotHeld

\* The answer to a report is what its first uses allow.
LEMMA PollArrivesDestroys ==
  ASSUME TypeOK, DestroyInv, PollArrives
  PROVE  DestroyInv'
<1> SUFFICES ASSUME NEW s \in Sandboxes PROVE FirstUse(s)'
  BY DEF DestroyInv
<1>0. FirstUse(s) /\ rep.observed \in Observed
  BY DEF DestroyInv, TypeOK, PollType, Report
<1>1. UNCHANGED <<gen, have, parting, destroying>>
  BY DEF PollArrives
<1>2. Row(s)' <=> Row(s)
  BY <1>0, ReportKeepsRows DEF PollArrives, Row
<1>3. batch' = LeaveOut(Diff(desired', attempts', gen, rep.observed), rep.deferred)
  BY DEF PollArrives
<1>4. rep'.observed[s] \in {NotHeld, rep.observed[s]}
  BY ParkedKeeps DEF PollArrives, NoReport, Nothing
<1>5. gen[s] = 0 => batch'[s].op = "none"
  BY <1>0, <1>2, <1>3, DiffOfFirstUse DEF FirstUse, Unused, Row, TypeOK, HistoryType
<1>6. Row(s)' => batch'[s].op # "destroy"
  BY <1>3, DiffOfFirstUse DEF Row
<1>7. QED
  BY <1>0, <1>1, <1>2, <1>4, <1>5, <1>6 DEF FirstUse, Unused, Held

\* And so is the one after a park.
LEMMA ParkEndsDestroys ==
  ASSUME TypeOK, DestroyInv, ParkEnds
  PROVE  DestroyInv'
<1> SUFFICES ASSUME NEW s \in Sandboxes PROVE FirstUse(s)'
  BY DEF DestroyInv
<1>0. FirstUse(s)
  BY DEF DestroyInv
<1>1. UNCHANGED <<gen, have, parting, destroying, desired>> /\ rep' = NoReport
  BY DEF ParkEnds
<1>2. /\ gen[s] = 0 => batch'[s].op = "none"
      /\ Row(s) => batch'[s].op # "destroy"
  BY <1>0, DiffOfFirstUse DEF ParkEnds, FirstUse, Unused, Row, TypeOK, HistoryType
<1>3. QED
  BY <1>0, <1>1, <1>2 DEF FirstUse, Unused, Held, Row, NoReport, Nothing

\* An early report changes no more than the tiers of rows.
LEMMA EarlyArrivesDestroys ==
  ASSUME TypeOK, DestroyInv, EarlyArrives
  PROVE  DestroyInv'
<1> SUFFICES ASSUME NEW s \in Sandboxes PROVE FirstUse(s)'
  BY DEF DestroyInv
<1>1. FirstUse(s) /\ erep.observed \in Observed
  BY DEF DestroyInv, TypeOK, EarlyType, EarlyReport
<1>2. Row(s)' <=> Row(s)
  BY <1>1, ReportKeepsRows DEF EarlyArrives, Row
<1>3. QED
  BY <1>1, <1>2 DEF EarlyArrives, FirstUse, Unused, Held

\* A command that fails leaves what was held held.
LEMMA RunFailsDestroys ==
  ASSUME TypeOK, DestroyInv, NEW s \in Sandboxes, RunFails(s)
  PROVE  DestroyInv'
<1>1. /\ \A z \in Sandboxes \ {s} : have'[z] = have[z] /\ batch'[z] = batch[z]
      /\ batch'[s] = NoCmd /\ batch[s].op # "none"
      /\ UNCHANGED <<gen, desired, parting, destroying, rep>>
  <2>1. \/ \E t \in StoppedAt(have[s], batch[s].tier) : have' = [have EXCEPT ![s] = t]
        \/ have' = have
    BY DEF RunFails
  <2>2. \A z \in Sandboxes \ {s} : have'[z] = have[z]
    BY <2>1 DEF TypeOK, NodeType, Observed
  <2>3. QED
    BY <2>2 DEF RunFails, Answered, Offered, TypeOK, PollType
<1>2. QED
  BY <1>1 DEF DestroyInv, FirstUse, Unused, Row, Held, NoCmd

\* Every step keeps the invariant of the destroys.
LEMMA NextDestroyInv == TypeOK /\ DestroyInv /\ [Next]_vars => DestroyInv'
<1> SUFFICES ASSUME TypeOK, DestroyInv, [Next]_vars PROVE DestroyInv'
  OBVIOUS
<1> USE DEF DestroyInv, FirstUse, Unused, Row, Held
<1>0. /\ batch \in [Sandboxes -> Command] /\ gen \in [Sandboxes -> Nat]
      /\ have \in [Sandboxes -> HeldTier \cup {NotHeld}]
      /\ desired \in [Sandboxes -> Tier \cup {NoRow}]
      /\ rep \in Report
  BY DEF TypeOK, NodeType, PollType, MasterType, HistoryType, Observed
<1>1. ASSUME NEW s \in Sandboxes, Api(s) PROVE DestroyInv'
  <2>1. CASE CreateSandbox(s)
    BY <1>0, <2>1 DEF CreateSandbox, NoRow, Hot
  <2>2. CASE Touch(s)
    BY <1>0, <2>2 DEF Touch, NoRow, Hot
  <2>3. CASE Pause(s)
    BY <1>0, <2>3 DEF Pause, NoRow, Snapshot
  <2>4. CASE Retry(s)
    BY <1>0, <2>4 DEF Retry
  <2>5. CASE Delete(s)
    BY <1>0, <2>5 DEF Delete
  <2>6. CASE Resume(s)
    BY <1>0, <2>6 DEF Resume, NoRow, Hot
  <2>7. ASSUME NEW t \in Tier, SetTier(s, t) PROVE DestroyInv'
    BY <1>0, <2>7 DEF SetTier
  <2>8. QED
    BY <1>1, <2>1, <2>2, <2>3, <2>4, <2>5, <2>6, <2>7 DEF Api
<1>2. ASSUME NEW s \in Sandboxes, Run(s) \/ RunHeldBack(s) \/ RunFetchPending(s)
      PROVE  DestroyInv'
  <2>1. CASE RunLater(s)
    BY <1>0, <2>1 DEF RunLater, Answered, Offered, NoCmd
  <2>2. CASE RunFails(s)
    BY <2>2, RunFailsDestroys
  <2>3. CASE RunCreate(s)
    BY <1>0, <2>3 DEF RunCreate, Answered, Offered, NoCmd
  <2>4. CASE RunSetTier(s)
    BY <1>0, <2>4 DEF RunSetTier, Answered, Offered, NoCmd
  <2>5. CASE RunDestroy(s)
    BY <1>0, <2>5 DEF RunDestroy, Answered, Offered, NoCmd
  <2>6. CASE RunHeldBack(s)
    BY <1>0, <2>6 DEF RunHeldBack, Answered, Offered, NoCmd
  <2>7. CASE RunFetchPending(s)
    BY <1>0, <2>7 DEF RunFetchPending, Answered, Offered, NoCmd
  <2>8. QED
    BY <1>2, <2>1, <2>2, <2>3, <2>4, <2>5, <2>6, <2>7 DEF Run
<1>3. ASSUME NEW s \in Sandboxes,
             \/ DestroyKills(s) \/ DestroyDone(s) \/ GatewayWakes(s) \/ RequestEnds(s)
             \/ DeferralDue(s) \/ GraceOver(s) \/ FreshOver(s) \/ EvictedOver(s)
             \/ PauseHoldOver(s) \/ IdleTime(s) \/ Request(s) \/ Evict(s) \/ Dies(s)
             \/ Reap(s) \/ EvictDone(s) \/ EvictFails(s)
      PROVE  DestroyInv'
  <2>1. CASE DestroyKills(s)
    BY <1>0, <2>1 DEF DestroyKills
  <2>2. CASE DestroyDone(s)
    BY <1>0, <2>2 DEF DestroyDone
  <2>3. CASE GatewayWakes(s)
    BY <1>0, <2>3 DEF GatewayWakes, Hot, Frozen, Snapshot, NotHeld
  <2>4. CASE RequestEnds(s)
    BY <1>0, <2>4 DEF RequestEnds
  <2>5. CASE DeferralDue(s)
    BY <1>0, <2>5 DEF DeferralDue
  <2>6. CASE GraceOver(s)
    BY <1>0, <2>6 DEF GraceOver
  <2>7. CASE FreshOver(s)
    BY <1>0, <2>7 DEF FreshOver
  <2>8. CASE EvictedOver(s)
    BY <1>0, <2>8 DEF EvictedOver
  <2>9. CASE PauseHoldOver(s)
    BY <1>0, <2>9 DEF PauseHoldOver
  <2>10. CASE IdleTime(s)
    BY <1>0, <2>10 DEF IdleTime
  <2>11. CASE Request(s)
    BY <1>0, <2>11 DEF Request
  <2>12. CASE Evict(s)
    BY <1>0, <2>12 DEF Evict, Hot, Frozen, Snapshot, NotHeld
  <2>13. CASE Dies(s)
    BY <1>0, <2>13 DEF Dies
  <2>14. CASE Reap(s)
    BY <1>0, <2>14 DEF Reap
  <2>15. CASE EvictDone(s)
    BY <1>0, <2>15 DEF EvictDone
  <2>16. CASE EvictFails(s)
    BY <1>0, <2>16 DEF EvictFails
  <2>17. QED
    BY <1>3, <2>1, <2>2, <2>3, <2>4, <2>5, <2>6, <2>7, <2>8, <2>9, <2>10,
       <2>11, <2>12, <2>13, <2>14, <2>15, <2>16
<1>4. CASE Sweep
  BY <1>0, <1>4 DEF Sweep, Demotable, Row, NoRow
<1>5. CASE Observe
  BY <1>0, <1>5 DEF Observe, NoReport
<1>6. CASE SendPoll
  BY <1>0, <1>6 DEF SendPoll
<1>7. CASE Receive
  BY <1>0, <1>7 DEF Receive
<1>8. CASE EndBatch
  BY <1>0, <1>8 DEF EndBatch
<1>9. CASE EarlyObserves
  BY <1>0, <1>9 DEF EarlyObserves
<1>10. CASE EarlySends
  BY <1>0, <1>10 DEF EarlySends
<1>11. CASE EarlyArrives
  BY <1>11, EarlyArrivesDestroys
<1>12. CASE PollLost
  BY <1>0, <1>12 DEF PollLost, NoBatch, NoCmd, NoReport, Nothing
<1>13. CASE EarlyLost
  BY <1>0, <1>13 DEF EarlyLost
<1>14. CASE NodeRestarts
  BY <1>0, <1>14 DEF NodeRestarts, NoBatch, NoCmd, NoReport, Nothing
<1>15. CASE MasterRestarts
  BY <1>0, <1>15 DEF MasterRestarts, NoBatch, NoCmd, NoReport, Nothing
<1>16. CASE PollArrives
  BY <1>16, PollArrivesDestroys
<1>17. CASE ParkEnds
  BY <1>17, ParkEndsDestroys
<1>18. CASE WakeNode
  BY <1>0, <1>18 DEF WakeNode
<1>19. CASE ListDead
  BY <1>0, <1>19 DEF ListDead
<1>20. CASE UNCHANGED vars
  BY <1>20 DEF vars
<1>21. QED
  BY <1>1, <1>2, <1>3, <1>4, <1>5, <1>6, <1>7, <1>8, <1>9, <1>10, <1>11, <1>12,
     <1>13, <1>14, <1>15, <1>16, <1>17, <1>18, <1>19, <1>20
     DEF Next, System, Environment

\* The invariant of the destroys holds throughout.
THEOREM DestroySafety == Spec => []DestroyInv
<1>1. Init => TypeOK /\ DestroyInv
  BY InitTypeOK, InitDestroyInv
<1>2. TypeOK /\ DestroyInv /\ [Next]_vars => (TypeOK /\ DestroyInv)'
  BY NextTypeOK, NextDestroyInv
<1>3. QED
  BY <1>1, <1>2, PTL DEF Spec

\* Nothing of a live row is destroyed, however old the report the diff was
\* made from, unless the id was used before.
THEOREM NoneDestroyedAlive == Spec => []DestroysUnlessReused
<1>1. TypeOK /\ DestroyInv => DestroysUnlessReused
  BY DEF TypeOK, NodeType, HistoryType, DestroyInv, FirstUse, DestroysUnlessReused
<1>2. QED
  BY <1>1, TypeCorrect, DestroySafety, PTL
=============================================================================
