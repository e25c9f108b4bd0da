-------------------------- MODULE TemplatesProofs --------------------------
(***************************************************************************)
(* Theorems about Templates, for any set of nodes, any number of layers    *)
(* and all bounds.                                                         *)
(***************************************************************************)
EXTENDS Templates, FiniteSetTheorems, SequenceTheorems, TLAPS

USE TemplatesAssumption DEF master, node, ghosts

(***************************************************************************)
(* Types.                                                                  *)
(***************************************************************************)
Attempts == 1..MaxAttempts
Word == [attempt : 0..MaxAttempts, st : {"none", "running", "done", "failed"}]
Steps == {"manifest", "fetch", "fetching", "unpack", "describe", "install"}
Task == [attempt : Attempts, nr : Nat, pc : Steps, layer : Nat]
Reports == [k : {"report"}, word : Word, installed : BOOLEAN]
Pulls == [k : {"pull"}, attempt : Attempts]
Wire == {Quiet} \cup Reports \cup Pulls
Tree == Seq(Nat)
Made == [on : {TRUE}, file : Nat, tree : Tree]
Directory == {NoWork} \cup Made

MasterType ==
  /\ program \in BOOLEAN /\ attempt \in 0..MaxAttempts /\ pending \in BOOLEAN
  /\ rows \in [Nodes -> [done : BOOLEAN, failed : BOOLEAN]]
  /\ wire \in [Nodes -> Wire]

NodeType ==
  /\ state \in [Nodes -> Word] /\ tasks \in [Nodes -> SUBSET Task]
  /\ work \in [Nodes -> Directory]
  /\ home \in [Nodes -> [config : BOOLEAN, in : BOOLEAN, tree : Tree]]
  /\ started \in [Nodes -> [Attempts -> Nat]]
  /\ overlapped \subseteq Nodes

TypeInv == MasterType /\ NodeType

(***************************************************************************)
(* What a pull that has the directory to itself knows of it: the layers    *)
(* before its own are laid in order, and the file holds its own once it is *)
(* fetched.                                                                *)
(***************************************************************************)
Laid(n, t) ==
  /\ t.pc = "manifest" => t.layer = 1
  /\ t.pc \in {"fetch", "fetching", "unpack"} =>
       /\ work[n].on /\ t.layer \in 1..Layers
       /\ work[n].tree = [i \in 1..(t.layer - 1) |-> i]
  /\ t.pc = "unpack" => work[n].file = t.layer
  /\ t.pc \in {"describe", "install"} => work[n].on /\ work[n].tree = Whole

AloneInv ==
  \A n \in Nodes \ overlapped :
    /\ \A t, u \in tasks[n] : t = u
    /\ \A t \in tasks[n] : Laid(n, t)

\* A word of success is only said of what is installed, wherever it has got to.
Honest(n, word) ==
  /\ word.st = "none" => word.attempt = 0
  /\ word.st = "done" => home[n].config /\ home[n].in

WordInv ==
  \A n \in Nodes :
    /\ Honest(n, state[n])
    /\ wire[n].k = "report" => Honest(n, wire[n].word)
    /\ \A t \in tasks[n] : t.pc = "install" => home[n].config

\* A node that has failed an attempt is not on its way to be asked for it.
FailedInv ==
  \A n \in Nodes :
    rows[n].failed => attempt # 0 /\ ~(wire[n].k = "pull" /\ wire[n].attempt = attempt)

PullInv == AloneInv /\ InstalledWhole /\ WordInv /\ ReadyIsInstalled /\ FailedInv

(***************************************************************************)
(* Type correctness.                                                       *)
(***************************************************************************)
\* The values the nodes and the master start from are well typed.
LEMMA Blanks ==
  /\ NoRow \in [done : BOOLEAN, failed : BOOLEAN]
  /\ NoWord \in Word
  /\ NoHome \in [config : BOOLEAN, in : BOOLEAN, tree : Tree]
<1>1. NoRow \in [done : BOOLEAN, failed : BOOLEAN]
  BY DEF NoRow
<1>2. NoWord \in Word
  BY DEF NoWord, Word
<1>3. NoHome \in [config : BOOLEAN, in : BOOLEAN, tree : Tree]
  BY EmptySeq DEF NoHome, Tree
<1>4. QED
  BY <1>1, <1>2, <1>3

\* Whether a directory is there is told by its first field.
LEMMA DirectoryKinds == \A d \in Directory : IF d.on THEN d \in Made ELSE d = NoWork
<1>1. NoWork.on = FALSE /\ \A d \in Made : d.on = TRUE
  BY DEF NoWork, Made
<1>2. QED
  BY <1>1, Zenon DEF Directory

\* So is what a message is.
LEMMA WireKinds ==
  ASSUME NEW w \in Wire
  PROVE  /\ w.k = "none" => w = Quiet
         /\ w.k = "pull" => w \in Pulls
         /\ w.k = "report" => w \in Reports
  BY DEF Wire, Pulls, Reports, Quiet

\* The initial state is well typed.
LEMMA InitType == Init => TypeInv
<1> SUFFICES ASSUME Init PROVE TypeInv
  OBVIOUS
<1>1. MasterType
  <2>1. program \in BOOLEAN /\ pending \in BOOLEAN
    BY Zenon DEF Init
  <2>2. QED
    BY <2>1, Blanks DEF Init, MasterType, Wire
<1>2. NodeType
  BY Blanks DEF Init, NodeType, Directory, Attempts
<1>3. QED
  BY <1>1, <1>2 DEF TypeInv

\* A step of a pull leaves every variable well typed.
LEMMA StepType ==
  ASSUME TypeInv, NEW n \in Nodes, NEW t \in tasks[n], Step(n, t)
  PROVE  TypeInv'
<1> USE DEF TypeInv
<1>0. t \in Task
  BY DEF NodeType
<1> USE <1>0 DEF Put, End
<1>1. CASE BeginPull(n, t)
  <2>1. [on |-> TRUE, file |-> 0, tree |-> <<>>] \in Directory
    BY EmptySeq DEF Directory, Made, Tree
  <2>2. [t EXCEPT !.pc = "fetch"] \in Task
    BY DEF Task, Steps
  <2>3. QED
    BY <1>1, <2>1, <2>2 DEF BeginPull, MasterType, NodeType
<1>2. CASE BeginFetch(n, t)
  <2>1. [work[n] EXCEPT !.file = 0] \in Directory
    BY <1>2, DirectoryKinds DEF BeginFetch, NodeType, Directory, Made
  <2>2. [t EXCEPT !.pc = "fetching"] \in Task
    BY DEF Task, Steps
  <2>3. QED
    BY <1>2, <2>1, <2>2 DEF BeginFetch, MasterType, NodeType
<1>3. CASE EndFetch(n, t)
  <2>1. work' \in [Nodes -> Directory]
    <3>1. CASE ~work[n].on
      BY <1>3, <3>1 DEF EndFetch, NodeType
    <3>2. CASE work[n].on
      <4>1. work[n] \in Made
        BY <3>2, DirectoryKinds DEF NodeType
      <4>2. PICK f \in {t.layer, work[n].file, 0} : work' = [work EXCEPT ![n].file = f]
        BY <1>3, <3>2 DEF EndFetch
      <4>3. f \in Nat
        <5>1. t.layer \in Nat /\ work[n].file \in Nat
          BY <4>1 DEF Made, Task
        <5>2. QED
          BY <5>1
      <4>4. [work[n] EXCEPT !.file = f] \in Made
        BY <4>1, <4>3 DEF Made
      <4>5. QED
        BY <4>2, <4>4 DEF NodeType, Directory
    <3>3. QED
      BY <3>1, <3>2
  <2>2. [t EXCEPT !.pc = "unpack"] \in Task
    BY DEF Task, Steps
  <2>3. QED
    BY <1>3, <2>1, <2>2 DEF EndFetch, MasterType, NodeType
<1>4. CASE Unpack(n, t)
  <2>1. [work[n] EXCEPT !.tree = Append(@, work[n].file)] \in Directory
    <3>1. work[n] \in Made
      BY <1>4, DirectoryKinds DEF Unpack, NodeType
    <3>2. Append(work[n].tree, work[n].file) \in Tree
      BY <3>1, AppendProperties DEF Made, Tree
    <3>3. QED
      BY <3>1, <3>2 DEF Directory, Made
  <2>2. [t EXCEPT !.pc = IF t.layer < Layers THEN "fetch" ELSE "describe",
                  !.layer = @ + 1] \in Task
    <3>1. t.layer + 1 \in Nat /\ (IF t.layer < Layers THEN "fetch" ELSE "describe") \in Steps
      BY DEF Task, Steps
    <3>2. QED
      BY <3>1 DEF Task
  <2>3. QED
    BY <1>4, <2>1, <2>2 DEF Unpack, MasterType, NodeType
<1>5. CASE Describe(n, t)
  <2>1. [t EXCEPT !.pc = "install"] \in Task
    BY DEF Task, Steps
  <2>2. QED
    BY <1>5, <2>1 DEF Describe, MasterType, NodeType
<1>6. CASE Install(n, t)
  <2>1. PICK moved \in MayMove(n) :
          /\ home' = [home EXCEPT ![n] = IF moved THEN Moved(@, work[n].tree) ELSE @]
          /\ work' = [work EXCEPT ![n] = IF moved THEN NoWork ELSE @]
          /\ state' = [state EXCEPT ![n] = [attempt |-> t.attempt,
                                            st |-> IF moved THEN "done" ELSE "failed"]]
    BY <1>6 DEF Install
  <2>2. work' \in [Nodes -> Directory]
    BY <2>1 DEF NodeType, Directory
  <2>3. home' \in [Nodes -> [config : BOOLEAN, in : BOOLEAN, tree : Tree]]
    <3>1. moved => Moved(home[n], work[n].tree) \in [config : BOOLEAN, in : BOOLEAN, tree : Tree]
      BY DirectoryKinds DEF NodeType, Made, MayMove, Moved
    <3>2. QED
      BY <2>1, <3>1 DEF NodeType
  <2>4. state' \in [Nodes -> Word]
    BY <2>1 DEF NodeType, Task, Attempts, Word
  <2>5. QED
    BY <1>6, <2>2, <2>3, <2>4 DEF Install, MasterType, NodeType
<1>7. CASE PullFails(n, t)
  <2>1. work' \in [Nodes -> Directory]
    BY <1>7 DEF PullFails, NodeType, Directory
  <2>2. state' \in [Nodes -> Word]
    BY <1>7 DEF PullFails, NodeType, Task, Attempts, Word
  <2>3. QED
    BY <1>7, <2>1, <2>2 DEF PullFails, MasterType, NodeType
<1>8. QED
  BY <1>1, <1>2, <1>3, <1>4, <1>5, <1>6, <1>7 DEF Step

\* Every step leaves every variable well typed.
LEMMA NextType == TypeInv /\ [Next]_vars => TypeInv'
<1> SUFFICES ASSUME TypeInv, [Next]_vars PROVE TypeInv'
  OBVIOUS
<1> USE DEF TypeInv, MasterType, NodeType
<1>1. CASE PullTemplate
  <2>1. pending' \in BOOLEAN
    BY <1>1, Zenon DEF PullTemplate
  <2>2. attempt' \in 0..MaxAttempts
    BY <1>1 DEF PullTemplate
  <2>3. QED
    BY <1>1, <2>1, <2>2, Blanks DEF PullTemplate
<1>2. ASSUME NEW n \in Nodes, Report(n) PROVE TypeInv'
  <2>1. [k |-> "report", word |-> state[n], installed |-> home[n].in] \in Wire
    BY DEF Wire, Reports
  <2>2. QED
    BY <1>2, <2>1 DEF Report
<1>3. ASSUME NEW n \in Nodes, ReportArrives(n) PROVE TypeInv'
  <2>1. wire' \in [Nodes -> Wire]
    <3>1. attempt # 0 => [k |-> "pull", attempt |-> attempt] \in Wire
      BY DEF Wire, Pulls, Attempts
    <3>2. QED
      BY <1>3, <3>1 DEF ReportArrives, Wire
  <2>2. rows' \in [Nodes -> [done : BOOLEAN, failed : BOOLEAN]]
    <3> DEFINE failed == \/ wire[n].word.st = "failed"
                         \/ wire[n].word.st = "done" /\ ~program
               row == [done |-> wire[n].word.st # "running", failed |-> failed]
    <3>1. row \in [done : BOOLEAN, failed : BOOLEAN]
      OBVIOUS
    <3>2. rows' = rows \/ rows' = [rows EXCEPT ![n] = row]
      BY <1>3 DEF ReportArrives
    <3> HIDE DEF row
    <3>3. QED
      BY <3>1, <3>2
  <2>3. pending' \in BOOLEAN
    BY <1>3, Zenon DEF ReportArrives
  <2>4. QED
    BY <1>3, <2>1, <2>2, <2>3 DEF ReportArrives
<1>4. ASSUME NEW n \in Nodes, CommandArrives(n) PROVE TypeInv'
  <2> DEFINE a == wire[n].attempt
  <2>1. a \in Attempts /\ a \in 0..MaxAttempts
    <3>1. wire[n] \in Wire /\ wire[n].k = "pull"
      BY <1>4 DEF CommandArrives
    <3>2. wire[n] \in Pulls
      BY <3>1, WireKinds
    <3>3. QED
      BY <3>2 DEF Pulls, Attempts
  <2>2. wire' \in [Nodes -> Wire]
    BY <1>4 DEF CommandArrives, Wire
  <2>3. Ensure(n, a)
    BY <1>4 DEF CommandArrives
  <2> HIDE DEF a
  <2>4. CASE Start(n, a)
    <3>1. [attempt |-> a, nr |-> started[n][a] + 1, pc |-> "manifest", layer |-> 1] \in Task
      BY <2>1 DEF Task, Steps
    <3>2. tasks' \in [Nodes -> SUBSET Task]
      BY <2>4, <3>1 DEF Start
    <3>3. state' \in [Nodes -> Word]
      BY <2>1, <2>4 DEF Start, Word
    <3>4. started' \in [Nodes -> [Attempts -> Nat]] /\ overlapped' \subseteq Nodes
      BY <2>1, <2>4 DEF Start
    <3>5. QED
      BY <1>4, <2>2, <3>2, <3>3, <3>4 DEF CommandArrives
  <2>5. CASE ~Start(n, a)
    <3>1. state' \in [Nodes -> Word] /\ UNCHANGED <<tasks, ghosts>>
      BY <2>1, <2>3, <2>5 DEF Ensure, Word
    <3>2. QED
      BY <1>4, <2>2, <3>1 DEF CommandArrives
  <2>6. QED
    BY <2>4, <2>5
<1>5. ASSUME NEW n \in Nodes, Lost(n) PROVE TypeInv'
  BY <1>5 DEF Lost, Wire
<1>6. ASSUME NEW n \in Nodes, Crash(n) PROVE TypeInv'
  BY <1>6, Blanks DEF Crash, Wire
<1>7. ASSUME NEW n \in Nodes, NEW t \in tasks[n], Step(n, t) PROVE TypeInv'
  BY <1>7, StepType
<1>8. CASE UNCHANGED vars
  BY <1>8 DEF vars
<1>9. QED
  BY <1>1, <1>2, <1>3, <1>4, <1>5, <1>6, <1>7, <1>8 DEF Next

(***************************************************************************)
(* One pull at a time builds the whole image.                              *)
(***************************************************************************)
\* A pull alone in its directory keeps what it knows of it, step by step.
LEMMA StepAlone ==
  ASSUME TypeInv, AloneInv, NEW n \in Nodes, NEW t \in tasks[n], Step(n, t)
  PROVE  AloneInv'
<1> USE DEF Put, End
<1>0. /\ t \in Task /\ work[n] \in Directory
      /\ tasks \in [Nodes -> SUBSET Task] /\ work \in [Nodes -> Directory]
      /\ overlapped' = overlapped
  BY DEF TypeInv, NodeType, Step, BeginPull, BeginFetch, EndFetch, Unpack, Describe,
     Install, PullFails
<1>1. \A m \in Nodes \ {n} : tasks'[m] = tasks[m] /\ work'[m] = work[m]
  BY <1>0 DEF Step, BeginPull, BeginFetch, EndFetch, Unpack, Describe, Install, PullFails
<1>2. ASSUME NEW m \in Nodes \ overlapped, m # n
      PROVE  /\ \A v, u \in tasks'[m] : v = u
             /\ \A u \in tasks'[m] : Laid(m, u)'
  BY <1>0, <1>1, <1>2 DEF AloneInv, Laid
<1>3. ASSUME n \notin overlapped
      PROVE  /\ \A v, u \in tasks'[n] : v = u
             /\ \A u \in tasks'[n] : Laid(n, u)'
  <2>1. tasks[n] = {t} /\ Laid(n, t)
    BY <1>3 DEF AloneInv
  <2>2. CASE BeginPull(n, t)
    <3> DEFINE u == [t EXCEPT !.pc = "fetch"]
    <3>1. tasks'[n] = {u} /\ work'[n] = [on |-> TRUE, file |-> 0, tree |-> <<>>]
      BY <1>0, <2>1, <2>2 DEF BeginPull
    <3>2. u.pc = "fetch" /\ u.layer = 1
      BY <1>0, <2>1, <2>2 DEF BeginPull, Laid, Task
    <3>3. Laid(n, u)'
      BY <3>1, <3>2 DEF Laid
    <3>4. QED
      BY <3>1, <3>3
  <2>3. CASE BeginFetch(n, t)
    <3> DEFINE u == [t EXCEPT !.pc = "fetching"]
    <3>1. work[n] \in Made
      BY <1>0, <2>3, DirectoryKinds DEF BeginFetch
    <3>2. tasks'[n] = {u} /\ work'[n] = [work[n] EXCEPT !.file = 0]
      BY <1>0, <2>1, <2>3 DEF BeginFetch
    <3>3. /\ u.pc = "fetching" /\ u.layer = t.layer
          /\ work'[n].on /\ work'[n].tree = work[n].tree
      BY <1>0, <3>1, <3>2 DEF Made, Task
    <3>4. Laid(n, u)'
      BY <2>1, <2>3, <3>3 DEF Laid, BeginFetch
    <3>5. QED
      BY <3>2, <3>4
  <2>4. CASE EndFetch(n, t)
    <3> DEFINE u == [t EXCEPT !.pc = "unpack"]
    <3>1. t.pc = "fetching" /\ work[n].on
      BY <2>1, <2>4 DEF EndFetch, Laid
    <3>2. work[n] \in Made
      BY <1>0, <3>1, DirectoryKinds
    <3>3. Cardinality({v \in tasks[n] : v.pc \in {"fetching", "unpack"}}) = 1
      <4>1. {v \in tasks[n] : v.pc \in {"fetching", "unpack"}} = {t}
        BY <2>1, <3>1
      <4>2. QED
        BY <4>1, FS_Singleton
    <3>4. work' = [work EXCEPT ![n].file = t.layer]
      BY <2>4, <3>1, <3>3 DEF EndFetch
    <3>5. tasks'[n] = {u}
      BY <1>0, <2>1, <2>4 DEF EndFetch
    <3>6. /\ u.pc = "unpack" /\ u.layer = t.layer
          /\ work'[n].on /\ work'[n].tree = work[n].tree /\ work'[n].file = t.layer
      BY <1>0, <3>2, <3>4 DEF Made, Task
    <3>7. Laid(n, u)'
      BY <2>1, <3>1, <3>6 DEF Laid
    <3>8. QED
      BY <3>5, <3>7
  <2>5. CASE Unpack(n, t)
    <3> DEFINE u == [t EXCEPT !.pc = IF t.layer < Layers THEN "fetch" ELSE "describe",
                              !.layer = @ + 1]
               grown == Append(work[n].tree, work[n].file)
    <3>1. /\ t.pc = "unpack" /\ work[n].on /\ t.layer \in 1..Layers
          /\ work[n].tree = [i \in 1..(t.layer - 1) |-> i] /\ work[n].file = t.layer
      BY <2>1, <2>5 DEF Unpack, Laid
    <3>2. work[n] \in Made
      BY <1>0, <3>1, DirectoryKinds
    <3>3. tasks'[n] = {u} /\ work'[n] = [work[n] EXCEPT !.tree = grown]
      BY <1>0, <2>1, <2>5 DEF Unpack
    <3>4. /\ u.pc = IF t.layer < Layers THEN "fetch" ELSE "describe"
          /\ u.layer = t.layer + 1
          /\ work'[n].on /\ work'[n].tree = grown
      BY <1>0, <3>2, <3>3 DEF Made, Task
    <3>5. grown = [i \in 1..t.layer |-> i]
      <4>1. work[n].tree \in Seq(Nat) /\ Len(work[n].tree) = t.layer - 1
        BY <3>1, <3>2, LenProperties DEF Made, Tree
      <4>2. /\ grown \in Seq(Nat) /\ Len(grown) = t.layer
            /\ \A i \in 1..(t.layer - 1) : grown[i] = i
            /\ grown[t.layer] = t.layer
        BY <3>1, <4>1, AppendProperties
      <4>3. grown = [i \in 1..Len(grown) |-> grown[i]]
        BY <4>2, LenProperties
      <4> HIDE DEF grown
      <4>4. QED
        BY <3>1, <4>2, <4>3
    <3> HIDE DEF grown, u
    <3>6. Laid(n, u)'
      BY <3>1, <3>4, <3>5 DEF Laid, Whole
    <3>7. QED
      BY <3>3, <3>6
  <2>6. CASE Describe(n, t)
    <3> DEFINE u == [t EXCEPT !.pc = "install"]
    <3>1. tasks'[n] = {u} /\ work'[n] = work[n]
      BY <1>0, <2>1, <2>6 DEF Describe
    <3>2. u.pc = "install"
      BY <1>0 DEF Task
    <3>3. Laid(n, u)'
      BY <2>1, <2>6, <3>1, <3>2 DEF Laid, Describe
    <3>4. QED
      BY <3>1, <3>3
  <2>7. CASE Install(n, t) \/ PullFails(n, t)
    BY <1>0, <2>1, <2>7 DEF Install, PullFails
  <2>8. QED
    BY <2>2, <2>3, <2>4, <2>5, <2>6, <2>7 DEF Step
<1>4. QED
  BY <1>0, <1>2, <1>3 DEF AloneInv

\* Every step keeps it: a pull that starts beside another marks its node.
LEMMA NextAlone == TypeInv /\ AloneInv /\ [Next]_vars => AloneInv'
<1> SUFFICES ASSUME TypeInv, AloneInv, [Next]_vars PROVE AloneInv'
  OBVIOUS
<1>1. ASSUME NEW n \in Nodes, CommandArrives(n) PROVE AloneInv'
  <2> DEFINE a == wire[n].attempt
  <2>1. Ensure(n, a) /\ UNCHANGED work
    BY <1>1 DEF CommandArrives
  <2>2. CASE Start(n, a)
    <3>0. PICK t : t = [attempt |-> a, nr |-> started[n][a] + 1, pc |-> "manifest",
                        layer |-> 1]
      OBVIOUS
    <3>1. /\ tasks' = [tasks EXCEPT ![n] = @ \cup {t}]
          /\ overlapped' = IF tasks[n] # {} THEN overlapped \cup {n} ELSE overlapped
      BY <2>2, <3>0 DEF Start
    <3>2. t.pc = "manifest" /\ t.layer = 1
      BY <3>0
    <3>3. Laid(n, t)'
      BY <3>2 DEF Laid
    <3>4. tasks \in [Nodes -> SUBSET Task]
      BY DEF TypeInv, NodeType
    <3>5. n \notin overlapped' => tasks'[n] = {t}
      BY <3>1, <3>4
    <3>6. \A m \in Nodes \ {n} : tasks'[m] = tasks[m]
      BY <3>1, <3>4
    <3>7. overlapped \subseteq overlapped'
      BY <3>1
    <3>8. ASSUME NEW m \in Nodes \ overlapped', m # n
          PROVE  /\ \A v, u \in tasks'[m] : v = u
                 /\ \A u \in tasks'[m] : Laid(m, u)'
      <4>1. m \in Nodes \ overlapped /\ tasks'[m] = tasks[m] /\ work' = work
        BY <2>1, <3>6, <3>7, <3>8
      <4>2. (\A v, u \in tasks[m] : v = u) /\ (\A u \in tasks[m] : Laid(m, u))
        BY <4>1, Zenon DEF AloneInv
      <4>3. \A u : Laid(m, u) => Laid(m, u)'
        BY <4>1 DEF Laid
      <4>4. QED
        BY <4>1, <4>2, <4>3, Zenon
    <3>9. QED
      <4>1. ASSUME n \notin overlapped'
            PROVE  /\ \A v, u \in tasks'[n] : v = u
                   /\ \A u \in tasks'[n] : Laid(n, u)'
        <5>1. tasks'[n] = {t}
          BY <3>5, <4>1
        <5>2. \A u : u \in tasks'[n] => u = t
          BY <5>1
        <5>3. QED
          BY <3>3, <5>2, Zenon
      <4>2. \A m \in Nodes \ overlapped' :
              /\ \A v, u \in tasks'[m] : v = u
              /\ \A u \in tasks'[m] : Laid(m, u)'
        BY <3>8, <4>1, Zenon
      <4>3. QED
        BY <4>2, Zenon DEF AloneInv
  <2>3. CASE ~Start(n, a)
    BY <2>1, <2>3 DEF Ensure, AloneInv, Laid
  <2>4. QED
    BY <2>2, <2>3
<1>2. ASSUME NEW n \in Nodes, Crash(n) PROVE AloneInv'
  BY <1>2 DEF Crash, AloneInv, Laid, TypeInv, NodeType
<1>3. ASSUME NEW n \in Nodes, NEW t \in tasks[n], Step(n, t) PROVE AloneInv'
  BY <1>3, StepAlone
<1>4. CASE UNCHANGED <<tasks, work, overlapped>>
  BY <1>4 DEF AloneInv, Laid
<1>5. QED
  BY <1>1, <1>2, <1>3, <1>4 DEF Next, PullTemplate, Report, ReportArrives, Lost, vars

\* So what is installed, where pulls did not overlap, is the whole image.
LEMMA NextInstalled ==
  TypeInv /\ AloneInv /\ InstalledWhole /\ [Next]_vars => InstalledWhole'
<1> SUFFICES ASSUME TypeInv, AloneInv, InstalledWhole, [Next]_vars PROVE InstalledWhole'
  OBVIOUS
<1>0. home \in [Nodes -> [config : BOOLEAN, in : BOOLEAN, tree : Tree]]
  BY DEF TypeInv, NodeType
<1>1. ASSUME NEW n \in Nodes, NEW t \in tasks[n], Install(n, t) PROVE InstalledWhole'
  <2>1. PICK moved \in MayMove(n) :
          home' = [home EXCEPT ![n] = IF moved THEN Moved(@, work[n].tree) ELSE @]
    BY <1>1 DEF Install
  <2>2. n \notin overlapped => work[n].tree = Whole
    BY <1>1 DEF AloneInv, Laid, Install
  <2>3. /\ \A m \in Nodes \ {n} : home'[m] = home[m]
        /\ moved => home'[n].tree = work[n].tree
        /\ ~moved => home'[n] = home[n]
    BY <1>0, <2>1 DEF Moved
  <2>4. overlapped' = overlapped
    BY <1>1 DEF Install
  <2>5. QED
    BY <2>2, <2>3, <2>4 DEF InstalledWhole
<1>2. ASSUME NEW n \in Nodes, NEW t \in tasks[n], Describe(n, t) PROVE InstalledWhole'
  <2>1. \A m \in Nodes : home'[m].in = home[m].in /\ home'[m].tree = home[m].tree
    BY <1>0, <1>2 DEF Describe
  <2>2. overlapped' = overlapped
    BY <1>2 DEF Describe
  <2>3. QED
    BY <2>1, <2>2 DEF InstalledWhole
<1>3. ASSUME UNCHANGED home, overlapped \subseteq overlapped' PROVE InstalledWhole'
  BY <1>3 DEF InstalledWhole
<1>4. ASSUME NEW n \in Nodes, CommandArrives(n) PROVE InstalledWhole'
  BY <1>3, <1>4 DEF CommandArrives, Ensure, Start
<1>5. ASSUME NEW n \in Nodes, NEW t \in tasks[n],
             \/ BeginPull(n, t) \/ BeginFetch(n, t) \/ EndFetch(n, t) \/ Unpack(n, t)
             \/ PullFails(n, t)
      PROVE  InstalledWhole'
  BY <1>3, <1>5 DEF BeginPull, BeginFetch, EndFetch, Unpack, PullFails
<1>6. ASSUME NEW n \in Nodes, Report(n) \/ ReportArrives(n) \/ Lost(n) \/ Crash(n)
      PROVE  InstalledWhole'
  BY <1>3, <1>6 DEF Report, ReportArrives, Lost, Crash
<1>7. CASE PullTemplate \/ UNCHANGED vars
  BY <1>3, <1>7 DEF PullTemplate, vars
<1>8. QED
  BY <1>1, <1>2, <1>4, <1>5, <1>6, <1>7 DEF Next, Step

(***************************************************************************)
(* What a node says of its pull, and what the master makes of it.          *)
(***************************************************************************)
\* What is installed stays, and stays described.
LEMMA HomeGrows ==
  ASSUME TypeInv, [Next]_vars, NEW n \in Nodes
  PROVE  (home[n].config => home'[n].config) /\ (home[n].in => home'[n].in)
<1>0. home \in [Nodes -> [config : BOOLEAN, in : BOOLEAN, tree : Tree]]
  BY DEF TypeInv, NodeType
<1>1. ASSUME NEW m \in Nodes, NEW t \in tasks[m], Install(m, t)
      PROVE  (home[n].config => home'[n].config) /\ (home[n].in => home'[n].in)
  BY <1>0, <1>1 DEF Install, Moved
<1>2. ASSUME NEW m \in Nodes, NEW t \in tasks[m], Describe(m, t)
      PROVE  (home[n].config => home'[n].config) /\ (home[n].in => home'[n].in)
  BY <1>0, <1>2 DEF Describe
<1>3. ASSUME NEW m \in Nodes, NEW t \in tasks[m], Step(m, t)
      PROVE  Install(m, t) \/ Describe(m, t) \/ UNCHANGED home
  BY <1>3 DEF Step, BeginPull, BeginFetch, EndFetch, Unpack, PullFails
<1>4. ASSUME NEW m \in Nodes, \/ Report(m) \/ ReportArrives(m) \/ Lost(m) \/ Crash(m)
                               \/ CommandArrives(m)
      PROVE  UNCHANGED home
  BY <1>4 DEF Report, ReportArrives, Lost, Crash, CommandArrives
<1>5. CASE PullTemplate \/ UNCHANGED vars
  BY <1>5 DEF PullTemplate, vars
<1>6. QED
  BY <1>1, <1>2, <1>3, <1>4, <1>5 DEF Next

\* A node says done only of what it has, and its words stay true on their way.
LEMMA NextWord == TypeInv /\ WordInv /\ [Next]_vars => WordInv'
<1> SUFFICES ASSUME TypeInv, WordInv, [Next]_vars, NEW m \in Nodes
             PROVE  /\ Honest(m, state[m])'
                    /\ wire'[m].k = "report" => Honest(m, wire[m].word)'
                    /\ \A t \in tasks'[m] : t.pc = "install" => home'[m].config
  BY DEF WordInv
<1>0. /\ home \in [Nodes -> [config : BOOLEAN, in : BOOLEAN, tree : Tree]]
      /\ tasks \in [Nodes -> SUBSET Task] /\ state \in [Nodes -> Word]
      /\ wire \in [Nodes -> Wire]
  BY DEF TypeInv, NodeType, MasterType
<1>1. /\ Honest(m, state[m])
      /\ wire[m].k = "report" => Honest(m, wire[m].word)
      /\ \A t \in tasks[m] : t.pc = "install" => home[m].config
  BY DEF WordInv
<1>2. (home[m].config => home'[m].config) /\ (home[m].in => home'[m].in)
  BY HomeGrows
<1>3. \A w : Honest(m, w) => /\ w.st = "none" => w.attempt = 0
                             /\ w.st = "done" => home'[m].config /\ home'[m].in
  BY <1>2 DEF Honest
<1>4. state'[m] = state[m] => Honest(m, state[m])'
  BY <1>1, <1>3 DEF Honest
<1>5. wire'[m] = wire[m] \/ wire'[m].k # "report"
        => (wire'[m].k = "report" => Honest(m, wire[m].word)')
  BY <1>1, <1>3 DEF Honest
<1>6. (\A t \in tasks'[m] : t.pc = "install" => t \in tasks[m])
        => \A t \in tasks'[m] : t.pc = "install" => home'[m].config
  BY <1>1, <1>2
<1>7. CASE UNCHANGED <<state, wire, tasks>>
  BY <1>4, <1>5, <1>6, <1>7
<1>8. CASE PullTemplate \/ UNCHANGED vars
  BY <1>7, <1>8 DEF PullTemplate, vars
<1>9. ASSUME NEW n \in Nodes, Report(n) \/ ReportArrives(n) \/ Lost(n)
      PROVE  /\ Honest(m, state[m])'
             /\ wire'[m].k = "report" => Honest(m, wire[m].word)'
             /\ \A t \in tasks'[m] : t.pc = "install" => home'[m].config
  <2>1. UNCHANGED <<state, tasks, home>>
    BY <1>9 DEF Report, ReportArrives, Lost
  <2>2. CASE Report(n)
    <3>1. CASE n = m
      <4>1. wire'[m].word = state[m]
        BY <1>0, <2>2, <3>1 DEF Report
      <4>2. QED
        BY <1>1, <1>4, <1>6, <2>1, <4>1 DEF Honest
    <3>2. CASE n # m
      <4>1. wire'[m] = wire[m]
        BY <1>0, <2>2, <3>2 DEF Report
      <4>2. QED
        BY <1>4, <1>5, <1>6, <2>1, <4>1
    <3>3. QED
      BY <3>1, <3>2
  <2>3. CASE ReportArrives(n)
    <3>1. wire'[m] = wire[m] \/ wire'[m].k # "report"
      BY <1>0, <2>3 DEF ReportArrives, Quiet
    <3>2. QED
      BY <1>4, <1>5, <1>6, <2>1, <3>1
  <2>4. CASE Lost(n)
    <3>1. wire'[m] = wire[m] \/ wire'[m].k # "report"
      BY <1>0, <2>4 DEF Lost, Quiet
    <3>2. QED
      BY <1>4, <1>5, <1>6, <2>1, <3>1
  <2>5. QED
    BY <1>9, <2>2, <2>3, <2>4
<1>10. ASSUME NEW n \in Nodes, CommandArrives(n) \/ Crash(n)
       PROVE  /\ Honest(m, state[m])'
              /\ wire'[m].k = "report" => Honest(m, wire[m].word)'
              /\ \A t \in tasks'[m] : t.pc = "install" => home'[m].config
  <2>1. wire'[m] = wire[m] \/ wire'[m].k # "report"
    BY <1>0, <1>10 DEF CommandArrives, Crash, Quiet
  <2>2. \A t \in tasks'[m] : t.pc = "install" => t \in tasks[m]
    BY <1>0, <1>10 DEF CommandArrives, Ensure, Start, Crash
  <2>3. Honest(m, state[m])'
    <3>1. CASE n # m
      <4>1. state'[m] = state[m]
        BY <1>0, <1>10, <3>1 DEF CommandArrives, Ensure, Start, Crash
      <4>2. QED
        BY <1>4, <4>1
    <3>2. CASE n = m /\ Crash(n)
      <4>1. state'[m] = NoWord
        BY <1>0, <3>2 DEF Crash
      <4>2. QED
        BY <4>1 DEF Honest, NoWord
    <3>3. CASE n = m /\ CommandArrives(n)
      <4>1. \/ state'[m] = state[m]
            \/ state'[m].st = "done" /\ home[m].in /\ home[m].config
            \/ state'[m].st = "running"
        BY <1>0, <3>3 DEF CommandArrives, Ensure, Start
      <4>2. QED
        BY <1>2, <1>4, <4>1 DEF Honest
    <3>4. QED
      BY <1>10, <3>1, <3>2, <3>3
  <2>4. QED
    BY <1>5, <1>6, <2>1, <2>2, <2>3
<1>11. ASSUME NEW n \in Nodes, NEW t \in tasks[n], Step(n, t)
       PROVE  /\ Honest(m, state[m])'
              /\ wire'[m].k = "report" => Honest(m, wire[m].word)'
              /\ \A u \in tasks'[m] : u.pc = "install" => home'[m].config
  <2>1. wire' = wire
    BY <1>11 DEF Step, BeginPull, BeginFetch, EndFetch, Unpack, Describe, Install, PullFails
  <2>2. t \in Task
    BY <1>0, <1>11
  <2>3. CASE BeginPull(n, t) \/ BeginFetch(n, t) \/ EndFetch(n, t) \/ Unpack(n, t)
    <3>1. \A u \in tasks'[m] : u.pc = "install" => u \in tasks[m]
      <4>1. PICK v : v.pc # "install" /\ Put(n, t, v)
        <5>1. \A pc : [t EXCEPT !.pc = pc].pc = pc
          BY <2>2 DEF Task
        <5>2. CASE BeginPull(n, t)
          BY <5>1, <5>2, [t EXCEPT !.pc = "fetch"].pc # "install" DEF BeginPull
        <5>3. CASE BeginFetch(n, t)
          BY <5>1, <5>3, [t EXCEPT !.pc = "fetching"].pc # "install" DEF BeginFetch
        <5>4. CASE EndFetch(n, t)
          BY <5>1, <5>4, [t EXCEPT !.pc = "unpack"].pc # "install" DEF EndFetch
        <5>5. CASE Unpack(n, t)
          <6> DEFINE w == [t EXCEPT !.pc = IF t.layer < Layers THEN "fetch" ELSE "describe",
                                    !.layer = @ + 1]
          <6>1. w.pc # "install"
            BY <2>2 DEF Task
          <6>2. Put(n, t, w)
            BY <5>5 DEF Unpack
          <6>3. QED
            BY <6>1, <6>2, Zenon
        <5>6. QED
          BY <2>3, <5>2, <5>3, <5>4, <5>5
      <4>2. QED
        BY <1>0, <4>1 DEF Put
    <3>2. state'[m] = state[m]
      BY <2>3 DEF BeginPull, BeginFetch, EndFetch, Unpack
    <3>3. QED
      BY <1>4, <1>5, <1>6, <2>1, <3>1, <3>2
  <2>4. CASE Describe(n, t)
    <3>1. state'[m] = state[m]
      BY <2>4 DEF Describe
    <3>2. \A u \in tasks'[m] : u.pc = "install" => home'[m].config
      <4>1. CASE n = m
        BY <1>0, <2>4, <4>1 DEF Describe
      <4>2. CASE n # m
        <5>1. tasks'[m] = tasks[m]
          BY <1>0, <2>4, <4>2 DEF Describe, Put
        <5>2. QED
          BY <1>1, <1>2, <5>1
      <4>3. QED
        BY <4>1, <4>2
    <3>3. QED
      BY <1>4, <1>5, <2>1, <3>1, <3>2
  <2>5. CASE Install(n, t)
    <3>1. \A u \in tasks'[m] : u \in tasks[m]
      BY <1>0, <2>5 DEF Install, End
    <3>2. \/ state'[m] = state[m]
          \/ state'[m].st = "failed"
          \/ state'[m].st = "done" /\ home'[m].in /\ home'[m].config
      <4>1. CASE n # m
        BY <1>0, <2>5, <4>1 DEF Install
      <4>2. CASE n = m
        <5>1. home[m].config
          BY <1>1, <1>11, <2>5, <4>2 DEF Install
        <5>2. PICK moved \in BOOLEAN :
                /\ home' = [home EXCEPT ![n] = IF moved THEN Moved(@, work[n].tree) ELSE @]
                /\ state' = [state EXCEPT ![n] = [attempt |-> t.attempt,
                                                  st |-> IF moved THEN "done" ELSE "failed"]]
          BY <2>5 DEF Install, MayMove
        <5>3. (moved => state'[m].st = "done") /\ (~moved => state'[m].st = "failed")
          BY <1>0, <4>2, <5>2
        <5>4. moved => home'[m].in
          BY <1>0, <4>2, <5>2 DEF Moved
        <5>5. QED
          BY <1>2, <5>1, <5>3, <5>4
      <4>3. QED
        BY <4>1, <4>2
    <3>3. QED
      BY <1>4, <1>5, <1>6, <2>1, <3>1, <3>2 DEF Honest
  <2>6. CASE PullFails(n, t)
    <3>1. \A u \in tasks'[m] : u \in tasks[m]
      BY <1>0, <2>6 DEF PullFails, End
    <3>2. state'[m] = state[m] \/ state'[m].st = "failed"
      BY <1>0, <2>6 DEF PullFails
    <3>3. QED
      BY <1>4, <1>5, <1>6, <2>1, <3>1, <3>2 DEF Honest
  <2>7. QED
    BY <1>11, <2>3, <2>4, <2>5, <2>6 DEF Step
<1>12. QED
  BY <1>8, <1>9, <1>10, <1>11 DEF Next

\* list_pulls' ready, which the master takes from a word of success, stays true.
LEMMA NextReady ==
  TypeInv /\ WordInv /\ ReadyIsInstalled /\ [Next]_vars => ReadyIsInstalled'
<1> SUFFICES ASSUME TypeInv, WordInv, ReadyIsInstalled, [Next]_vars, NEW m \in Nodes,
                    rows'[m].done, ~rows'[m].failed
             PROVE  home'[m].config /\ home'[m].in
  BY DEF ReadyIsInstalled
<1>0. /\ rows \in [Nodes -> [done : BOOLEAN, failed : BOOLEAN]]
      /\ wire \in [Nodes -> Wire]
  BY DEF TypeInv, MasterType
<1>1. (home[m].config => home'[m].config) /\ (home[m].in => home'[m].in)
  BY HomeGrows
<1>2. CASE rows'[m] = rows[m]
  BY <1>1, <1>2 DEF ReadyIsInstalled
<1>3. CASE PullTemplate
  <2>1. rows'[m] = NoRow
    BY <1>3 DEF PullTemplate
  <2>2. QED
    BY <2>1 DEF NoRow
<1>4. ASSUME NEW n \in Nodes, ReportArrives(n), rows'[m] # rows[m]
      PROVE  home'[m].config /\ home'[m].in
  <2> DEFINE word == wire[m].word
             failed == word.st = "failed" \/ (word.st = "done" /\ ~program)
  <2>1. n = m /\ wire[m].k = "report" /\ attempt # 0 /\ word.attempt = attempt
    BY <1>0, <1>4 DEF ReportArrives
  <2>2. rows' = [rows EXCEPT ![m] = [done |-> word.st # "running", failed |-> failed]]
    BY <1>4, <2>1 DEF ReportArrives
  <2>3. rows'[m] = [done |-> word.st # "running", failed |-> failed]
    BY <1>0, <2>2, Zenon
  <2>4. word.st # "running" /\ word.st # "failed"
    BY <2>3
  <2>5. Honest(m, word) /\ word \in Word
    BY <1>0, <2>1, WireKinds DEF WordInv, Reports
  <2>6. word.st = "done"
    BY <2>1, <2>4, <2>5 DEF Honest, Word
  <2>7. QED
    BY <1>1, <2>5, <2>6 DEF Honest
<1>5. ASSUME NEW n \in Nodes, Report(n) \/ CommandArrives(n) \/ Lost(n) \/ Crash(n)
      PROVE  rows' = rows
  BY <1>5 DEF Report, CommandArrives, Lost, Crash
<1>6. ASSUME NEW n \in Nodes, NEW t \in tasks[n], Step(n, t) PROVE rows' = rows
  BY <1>6 DEF Step, BeginPull, BeginFetch, EndFetch, Unpack, Describe, Install, PullFails
<1>7. UNCHANGED vars => rows' = rows
  BY DEF vars
<1>8. QED
  BY <1>2, <1>3, <1>4, <1>5, <1>6, <1>7 DEF Next

\* A failed attempt is not asked for again: only its report's answer could.
LEMMA NextFailed == TypeInv /\ FailedInv /\ [Next]_vars => FailedInv'
<1> SUFFICES ASSUME TypeInv, FailedInv, [Next]_vars, NEW m \in Nodes, rows'[m].failed
             PROVE  attempt' # 0 /\ ~(wire'[m].k = "pull" /\ wire'[m].attempt = attempt')
  BY DEF FailedInv
<1>0. /\ rows \in [Nodes -> [done : BOOLEAN, failed : BOOLEAN]]
      /\ wire \in [Nodes -> Wire]
  BY DEF TypeInv, MasterType
<1>1. CASE UNCHANGED <<attempt, rows>> /\ (wire'[m] = wire[m] \/ wire'[m].k # "pull")
  BY <1>1 DEF FailedInv
<1>2. CASE PullTemplate
  <2>1. rows'[m] = NoRow
    BY <1>2 DEF PullTemplate
  <2>2. QED
    BY <2>1 DEF NoRow
<1>3. ASSUME NEW n \in Nodes, ReportArrives(n)
      PROVE  attempt' # 0 /\ ~(wire'[m].k = "pull" /\ wire'[m].attempt = attempt')
  <2>1. attempt' = attempt
    BY <1>3 DEF ReportArrives
  <2>2. CASE n # m
    <3>1. wire'[m] = wire[m] /\ rows'[m] = rows[m]
      BY <1>0, <1>3, <2>2 DEF ReportArrives
    <3>2. QED
      BY <2>1, <3>1 DEF FailedInv
  <2>3. CASE n = m /\ attempt # 0 /\ wire[m].word.attempt = attempt
    <3>1. wire'[m] = Quiet
      BY <1>0, <1>3, <2>3 DEF ReportArrives
    <3>2. QED
      BY <2>1, <2>3, <3>1 DEF Quiet
  <2>4. CASE n = m /\ ~(attempt # 0 /\ wire[m].word.attempt = attempt)
    <3>1. rows' = rows
      BY <1>3, <2>4 DEF ReportArrives
    <3>2. ~AskedFor(m, wire[m])
      BY <3>1 DEF AskedFor
    <3>3. wire'[m] = Quiet
      BY <1>0, <1>3, <2>4, <3>2 DEF ReportArrives
    <3>4. QED
      BY <2>1, <3>1, <3>3 DEF FailedInv, Quiet
  <2>5. QED
    BY <2>2, <2>3, <2>4
<1>4. ASSUME NEW n \in Nodes, Report(n) \/ CommandArrives(n) \/ Lost(n) \/ Crash(n)
      PROVE  UNCHANGED <<attempt, rows>> /\ (wire'[m] = wire[m] \/ wire'[m].k # "pull")
  BY <1>0, <1>4 DEF Report, CommandArrives, Lost, Crash, Quiet
<1>5. ASSUME NEW n \in Nodes, NEW t \in tasks[n], Step(n, t)
      PROVE  UNCHANGED <<attempt, rows, wire>>
  BY <1>5 DEF Step, BeginPull, BeginFetch, EndFetch, Unpack, Describe, Install, PullFails
<1>6. UNCHANGED vars => UNCHANGED <<attempt, rows, wire>>
  BY DEF vars
<1>7. QED
  BY <1>1, <1>2, <1>3, <1>4, <1>5, <1>6 DEF Next

(***************************************************************************)
(* The theorems.                                                           *)
(***************************************************************************)
\* The template's store and the nodes' pulls stay well typed: an attempt a
\* node works on is one that was asked for, and a tree is a list of layers.
THEOREM TypesHold == Spec => []TypeInv
<1>1. Init => TypeInv
  BY InitType
<1>2. TypeInv /\ [Next]_vars => TypeInv'
  BY NextType
<1>3. QED
  BY <1>1, <1>2, PTL DEF Spec

\* The inductive invariant of Pulls and pulls_for: a pull alone in its
\* directory knows what is in it, and every word on its way to the master is
\* true of the node that sent it.
THEOREM PullSafety == Spec => []PullInv
<1>1. Init => PullInv
  <2> SUFFICES ASSUME Init PROVE PullInv
    OBVIOUS
  <2>1. /\ tasks = [n \in Nodes |-> {}] /\ home = [n \in Nodes |-> NoHome]
        /\ state = [n \in Nodes |-> NoWord] /\ wire = [n \in Nodes |-> Quiet]
        /\ rows = [n \in Nodes |-> NoRow]
    BY DEF Init
  <2>2. AloneInv /\ InstalledWhole
    BY <2>1 DEF AloneInv, InstalledWhole, NoHome
  <2>3. WordInv
    BY <2>1 DEF WordInv, Honest, NoWord, Quiet
  <2>4. ReadyIsInstalled /\ FailedInv
    BY <2>1 DEF ReadyIsInstalled, FailedInv, NoRow
  <2>5. QED
    BY <2>2, <2>3, <2>4 DEF PullInv
<1>2. TypeInv /\ PullInv /\ [Next]_vars => PullInv'
  BY NextAlone, NextInstalled, NextWord, NextReady, NextFailed DEF PullInv
<1>3. QED
  BY <1>1, <1>2, TypesHold, PTL DEF Spec

\* pull and install: whatever crashes and fails, what a node installs is every
\* layer of the image once and in order, unless two of its pulls overlapped.
THEOREM WholeImages == Spec => []InstalledWhole
<1>1. PullInv => InstalledWhole
  BY DEF PullInv
<1>2. QED
  BY <1>1, PullSafety, PTL

\* list_pulls: a node shown as ready has the template, described and in place.
THEOREM ReadyIsTrue == Spec => []ReadyIsInstalled
<1>1. PullInv => ReadyIsInstalled
  BY DEF PullInv
<1>2. QED
  BY <1>1, PullSafety, PTL

\* pulls_for and Pulls::ensure: no node starts another pull of an attempt the
\* master has down as failed on it.
THEOREM FailedForGood == Spec => FailedStays
<1>1. TypeInv /\ PullInv /\ [Next]_vars
        => [\A n \in Nodes : rows[n].failed /\ attempt' = attempt
              => started'[n][attempt] = started[n][attempt]]_vars
  <2> SUFFICES ASSUME TypeInv, FailedInv, Next, NEW m \in Nodes, rows[m].failed
               PROVE  started'[m][attempt] = started[m][attempt]
    BY DEF PullInv
  <2>1. ASSUME NEW n \in Nodes, CommandArrives(n)
        PROVE  started'[m][attempt] = started[m][attempt]
    <3> DEFINE a == wire[n].attempt
    <3>0. /\ started \in [Nodes -> [Attempts -> Nat]]
          /\ wire[n].k = "pull" /\ Ensure(n, a)
      BY <2>1 DEF TypeInv, NodeType, CommandArrives
    <3>1. (n = m => a # attempt) /\ attempt \in Attempts
      BY <3>0 DEF FailedInv, TypeInv, MasterType, Attempts
    <3>2. UNCHANGED started \/ started' = [started EXCEPT ![n][a] = @ + 1]
      BY <3>0 DEF Ensure, Start
    <3> HIDE DEF a
    <3>3. QED
      BY <3>0, <3>1, <3>2
  <2>2. ASSUME NEW n \in Nodes, Report(n) \/ ReportArrives(n) \/ Lost(n) \/ Crash(n)
        PROVE  started' = started
    BY <2>2 DEF Report, ReportArrives, Lost, Crash
  <2>3. ASSUME NEW n \in Nodes, NEW t \in tasks[n], Step(n, t) PROVE started' = started
    BY <2>3 DEF Step, BeginPull, BeginFetch, EndFetch, Unpack, Describe, Install, PullFails
  <2>4. PullTemplate => started' = started
    BY DEF PullTemplate
  <2>5. QED
    BY <2>1, <2>2, <2>3, <2>4 DEF Next
<1>2. QED
  BY <1>1, TypesHold, PullSafety, PTL DEF Spec, FailedStays
=============================================================================
