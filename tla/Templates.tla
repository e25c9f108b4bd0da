----------------------------- MODULE Templates -----------------------------
(***************************************************************************)
(* One template made from a container image: the master has every node     *)
(* pull it, and keeps what each of them says of it; a node pulls on a task *)
(* of its own, into a directory beside its templates, and moves what it    *)
(* built into place.                                                       *)
(*                                                                         *)
(* An image is a number of layers, to be laid one over the other in order. *)
(* Names, digests and what a layer holds are left out; a download that the *)
(* registry answers is checked against its digest, so it is either whole   *)
(* or fails.                                                               *)
(***************************************************************************)
EXTENDS Naturals, Sequences, FiniteSets

CONSTANTS
  Nodes,
  Layers,       \* how many layers the image has
  MaxAttempts, MaxFaults, MaxCrashes  \* bounds of TLC's runs

ASSUME TemplatesAssumption ==
  /\ Layers \in Nat \ {0}
  /\ MaxAttempts \in Nat /\ MaxFaults \in Nat /\ MaxCrashes \in Nat

VARIABLES
  program,   \* whether the image, or the caller, says what to run
  \* The master's store.
  attempt,   \* the template's attempt, 0 before it is asked for
  pending,   \* its spec still waits for what the image says
  rows,      \* template_pulls: what each node last said of this attempt
  \* Between them: a node's report, or the command it is answered with.
  wire,
  \* The nodes.
  state,     \* Pulls: the last word on the template
  tasks,     \* the pulls that are running
  work,      \* the .pull- directory
  home,      \* the template's directory
  \* History.
  started,   \* pulls each node has started, by attempt
  overlapped, \* nodes on which one pull has started while another ran
  spent

master == <<program, attempt, pending, rows>>
node   == <<state, tasks, work, home>>
ghosts == <<started, overlapped>>
vars   == <<master, wire, node, ghosts, spent>>

Whole  == [i \in 1..Layers |-> i]
NoWork == [on |-> FALSE]
NoWord == [attempt |-> 0, st |-> "none"]
NoHome == [config |-> FALSE, in |-> FALSE, tree |-> <<>>]
NoRow  == [done |-> FALSE, failed |-> FALSE]
Quiet  == [k |-> "none"]

\* What a task has got to: its own identity is its attempt and a number, as
\* an attempt's pull may be started again.
Put(n, t, u) == tasks' = [tasks EXCEPT ![n] = (@ \ {t}) \cup {u}]
End(n, t)    == tasks' = [tasks EXCEPT ![n] = @ \ {t}]

Moved(h, tree) == [h EXCEPT !.in = TRUE, !.tree = tree]

Faulty == spent.faults < MaxFaults /\ spent' = [spent EXCEPT !.faults = @ + 1]

Init ==
  /\ program \in BOOLEAN
  /\ attempt = 0 /\ pending = FALSE /\ rows = [n \in Nodes |-> NoRow]
  /\ wire = [n \in Nodes |-> Quiet]
  /\ state = [n \in Nodes |-> NoWord] /\ tasks = [n \in Nodes |-> {}]
  /\ work = [n \in Nodes |-> NoWork]
  /\ home = [n \in Nodes |-> NoHome]
  /\ started = [n \in Nodes |-> [a \in 1..MaxAttempts |-> 0]]
  /\ overlapped = {}
  /\ spent = [faults |-> 0, crashes |-> 0]

-----------------------------------------------------------------------------
(* The master.                                                             *)

\* pull_template: a template to be, or another try at one.  Another try keeps
\* the spec, and forgets what the nodes said.
PullTemplate ==
  /\ attempt < MaxAttempts
  /\ attempt' = attempt + 1
  /\ pending' = IF attempt = 0 THEN TRUE ELSE pending
  /\ rows' = [n \in Nodes |-> NoRow]
  /\ UNCHANGED <<program, wire, node, ghosts, spent>>

\* Mutant: a template that is there is not asked about, its spec or no.
AskedForMissing(n, r) == ~rows[n].failed /\ ~r.installed

\* Mutant: whether it failed is not looked at.
AskedForFailed(n, r) == ~r.installed \/ pending

\* pulls_for: what is not failed, and is missing or not yet described, is
\* asked for.
AskedFor(n, r) == ~rows[n].failed /\ (~r.installed \/ pending)

\* pulls_for: a word on this attempt is recorded, and the first whole one
\* finishes the spec, if it says what to run.  Otherwise the node is told to
\* pull.
ReportArrives(n) ==
  LET r == wire[n] IN
  /\ r.k = "report"
  /\ IF attempt # 0 /\ r.word.attempt = attempt
     THEN LET failed == \/ r.word.st = "failed"
                        \/ r.word.st = "done" /\ ~program
          IN /\ rows' = [rows EXCEPT ![n] = [done |-> r.word.st # "running",
                                             failed |-> failed]]
             /\ pending' = (pending /\ (failed \/ r.word.st # "done"))
             /\ wire' = [wire EXCEPT ![n] = Quiet]
     ELSE /\ wire' = [wire EXCEPT ![n] = IF attempt # 0 /\ AskedFor(n, r)
                                         THEN [k |-> "pull", attempt |-> attempt]
                                         ELSE Quiet]
          /\ UNCHANGED <<pending, rows>>
  /\ UNCHANGED <<program, attempt, node, ghosts, spent>>

-----------------------------------------------------------------------------
(* A node's reports and commands.                                          *)

\* report: where the pull stands, and what is installed.
Report(n) ==
  /\ wire[n].k = "none"
  /\ wire' = [wire EXCEPT ![n] = [k |-> "report", word |-> state[n],
                                  installed |-> home[n].in]]
  /\ UNCHANGED <<master, node, ghosts, spent>>

Lost(n) ==
  /\ wire[n].k # "none" /\ Faulty
  /\ wire' = [wire EXCEPT ![n] = Quiet]
  /\ UNCHANGED <<master, node, ghosts>>

Start(n, a) ==
  LET t == [attempt |-> a, nr |-> started[n][a] + 1, pc |-> "manifest", layer |-> 1]
  IN /\ tasks' = [tasks EXCEPT ![n] = @ \cup {t}]
     /\ state' = [state EXCEPT ![n] = [attempt |-> a, st |-> "running"]]
     /\ started' = [started EXCEPT ![n][a] = @ + 1]
     /\ overlapped' = IF tasks[n] # {} THEN overlapped \cup {n} ELSE overlapped

\* Pulls::ensure: nothing for an attempt it has a word on; done, when it is
\* installed with what its image says; else a pull is started.
Ensure(n, a) ==
  IF state[n].attempt = a
  THEN UNCHANGED <<state, tasks, ghosts>>
  ELSE IF home[n].in /\ home[n].config
  THEN /\ state' = [state EXCEPT ![n] = [attempt |-> a, st |-> "done"]]
       /\ UNCHANGED <<tasks, ghosts>>
  ELSE Start(n, a)

\* run_one's PullTemplate: only a look at where it stands.
CommandArrives(n) ==
  /\ wire[n].k = "pull"
  /\ Ensure(n, wire[n].attempt)
  /\ wire' = [wire EXCEPT ![n] = Quiet]
  /\ UNCHANGED <<master, work, home, spent>>

-----------------------------------------------------------------------------
(* pull, one step at a time.                                               *)

\* Mutant: what an earlier pull left is kept.
BeginPullKeeps(n, t) ==
  /\ t \in tasks[n] /\ t.pc = "manifest"
  /\ work' = [work EXCEPT ![n] =
                IF @.on THEN @ ELSE [on |-> TRUE, file |-> 0, tree |-> <<>>]]
  /\ Put(n, t, [t EXCEPT !.pc = "fetch"])
  /\ UNCHANGED <<master, wire, state, home, ghosts, spent>>

\* The manifest is there: what an earlier pull left is removed, and an empty
\* tree made.
BeginPull(n, t) ==
  /\ t \in tasks[n] /\ t.pc = "manifest"
  /\ work' = [work EXCEPT ![n] = [on |-> TRUE, file |-> 0, tree |-> <<>>]]
  /\ Put(n, t, [t EXCEPT !.pc = "fetch"])
  /\ UNCHANGED <<master, wire, state, home, ghosts, spent>>

\* blob_once: the file the layer goes to is made anew.  Its bytes are hashed
\* as they arrive, not as they are in the file.
BeginFetch(n, t) ==
  /\ t \in tasks[n] /\ t.pc = "fetch" /\ work[n].on
  /\ work' = [work EXCEPT ![n].file = 0]
  /\ Put(n, t, [t EXCEPT !.pc = "fetching"])
  /\ UNCHANGED <<master, wire, state, home, ghosts, spent>>

\* The layer is here.  Nothing of it is seen if the directory has been made
\* anew since; of two written at once either may be left, or a mixture.
EndFetch(n, t) ==
  /\ t \in tasks[n] /\ t.pc = "fetching"
  /\ IF work[n].on
     THEN \E f \in IF Cardinality({u \in tasks[n] : u.pc \in {"fetching", "unpack"}}) = 1
                   THEN {t.layer} ELSE {t.layer, work[n].file, 0} :
            work' = [work EXCEPT ![n].file = f]
     ELSE UNCHANGED work
  /\ Put(n, t, [t EXCEPT !.pc = "unpack"])
  /\ UNCHANGED <<master, wire, state, home, ghosts, spent>>

\* unpack: the layer in the file is laid over the tree.
Unpack(n, t) ==
  /\ t \in tasks[n] /\ t.pc = "unpack" /\ work[n].on /\ work[n].file # 0
  /\ work' = [work EXCEPT ![n].tree = Append(@, work[n].file)]
  /\ Put(n, t, [t EXCEPT !.pc = IF t.layer < Layers THEN "fetch" ELSE "describe",
                         !.layer = @ + 1])
  /\ UNCHANGED <<master, wire, state, home, ghosts, spent>>

\* What the image says is written beside where the tree will be.
Describe(n, t) ==
  /\ t \in tasks[n] /\ t.pc = "describe"
  /\ home' = [home EXCEPT ![n].config = TRUE]
  /\ Put(n, t, [t EXCEPT !.pc = "install"])
  /\ UNCHANGED <<master, wire, state, work, ghosts, spent>>

\* Whether the rename works: it needs the tree, and replaces what is installed
\* where a template is a file, but not where it is a directory.
MayMove(n) == {moved \in BOOLEAN : (moved => work[n].on) /\ (~moved => ~work[n].on \/ home[n].in)}

\* Mutant: whether the tree could be moved is not looked at.
InstallRegardless(n, t) ==
  /\ t \in tasks[n] /\ t.pc = "install"
  /\ \E moved \in MayMove(n) :
       home' = [home EXCEPT ![n] = IF moved THEN Moved(@, work[n].tree) ELSE @]
  /\ work' = [work EXCEPT ![n] = NoWork]
  /\ state' = [state EXCEPT ![n] = [attempt |-> t.attempt, st |-> "done"]]
  /\ End(n, t)
  /\ UNCHANGED <<master, wire, ghosts, spent>>

\* The tree is moved into place, if it can be; then the word on the template is
\* the task's own, whichever attempt was there.
Install(n, t) ==
  /\ t \in tasks[n] /\ t.pc = "install"
  /\ \E moved \in MayMove(n) :
       /\ home' = [home EXCEPT ![n] = IF moved THEN Moved(@, work[n].tree) ELSE @]
       /\ work' = [work EXCEPT ![n] = IF moved THEN NoWork ELSE @]
       /\ state' = [state EXCEPT ![n] = [attempt |-> t.attempt,
                                         st |-> IF moved THEN "done" ELSE "failed"]]
  /\ End(n, t)
  /\ UNCHANGED <<master, wire, ghosts, spent>>

\* The registry refuses, the connection keeps dropping, a layer does not
\* unpack: the directory goes, whoever's it is by now, but for a manifest.
PullFails(n, t) ==
  /\ t \in tasks[n] /\ t.pc \in {"manifest", "fetch", "fetching", "unpack"}
  /\ IF t.pc \in {"fetch", "unpack"} /\ (work[n].on => t.pc = "unpack" /\ work[n].file = 0)
     THEN UNCHANGED spent ELSE Faulty
  /\ work' = [work EXCEPT ![n] = IF t.pc = "manifest" THEN @ ELSE NoWork]
  /\ state' = [state EXCEPT ![n] = [attempt |-> t.attempt, st |-> "failed"]]
  /\ End(n, t)
  /\ UNCHANGED <<master, wire, home, ghosts>>

\* The node restarts: its tasks and its word are gone, its disk is not.
Crash(n) ==
  /\ spent.crashes < MaxCrashes
  /\ spent' = [spent EXCEPT !.crashes = @ + 1]
  /\ state' = [state EXCEPT ![n] = NoWord] /\ tasks' = [tasks EXCEPT ![n] = {}]
  /\ wire' = [wire EXCEPT ![n] = Quiet]
  /\ UNCHANGED <<master, work, home, ghosts>>

-----------------------------------------------------------------------------
Step(n, t) == BeginPull(n, t) \/ BeginFetch(n, t) \/ EndFetch(n, t) \/ Unpack(n, t)
                \/ Describe(n, t) \/ Install(n, t) \/ PullFails(n, t)

Next ==
  \/ PullTemplate
  \/ \E n \in Nodes :
       \/ Report(n) \/ ReportArrives(n) \/ CommandArrives(n) \/ Lost(n) \/ Crash(n)
       \/ \E t \in tasks[n] : Step(n, t)

Spec == Init /\ [][Next]_vars

(***************************************************************************)
(* A node reports again and again, its reports and their answers arrive    *)
(* but for those that are lost, and the tasks get on with it.              *)
(***************************************************************************)
FairSpec ==
  /\ Spec
  /\ \A n \in Nodes :
       /\ WF_vars(Report(n)) /\ WF_vars(ReportArrives(n)) /\ WF_vars(CommandArrives(n))
       /\ WF_vars(\E t \in tasks[n] : Step(n, t))

-----------------------------------------------------------------------------
(* What must hold.                                                         *)

\* pull works beside the templates and starts from nothing, so that a node
\* that dies half way, and one that tries again, still installs every layer
\* of the image once and in order; but for two pulls at once, which share
\* their directory.
InstalledWhole ==
  \A n \in Nodes : home[n].in /\ n \notin overlapped => home[n].tree = Whole

\* list_pulls calls a node ready only if sandboxes can start from the template
\* there, over late reports, restarts and pulls that trip each other up.
ReadyIsInstalled ==
  \A n \in Nodes :
    rows[n].done /\ ~rows[n].failed => home[n].config /\ home[n].in

\* pulls_for: failed stays failed until someone asks again, as a new attempt,
\* even on a node that has restarted and knows nothing of it.
FailedStays ==
  [][\A n \in Nodes :
       rows[n].failed /\ attempt' = attempt => started'[n][attempt] = started[n][attempt]]_vars

\* A template asked for is, in the end, ready or failed on every node: one
\* that restarted after installing it and before saying so is asked again.
\* A node that has it from an earlier attempt, once the spec is finished, is
\* not asked: it is ready and list_pulls does not name it.
Settles ==
  \A n \in Nodes :
    (attempt = MaxAttempts) ~> [](rows[n].done \/ (home[n].in /\ ~pending))

\* PARTIAL: "a half-built one is never taken for a template".  What is installed
\* is the whole image, however often the template has been asked for.
NeverHalfBuilt == \A n \in Nodes : home[n].in => home[n].tree = Whole
=============================================================================
