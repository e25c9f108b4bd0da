# A TLA+ model of Sandstorm

Sandstorm keeps many sandboxes on few machines by putting idle ones to sleep and
waking them when a request arrives. One master holds *desired state* (a row per
sandbox, in SQLite); each node reports what it *observes* and is answered with
commands. A node also acts on its own: its gateway wakes cold sandboxes, makes
room for them by putting others to disk, and refuses work when memory is short.
Nothing is a transaction across the two sides, so the correctness of the system
lies in how reports, commands, wakes and faults interleave. That is what these
modules model. Paths below are under `crates/sandstorm-core/src/`.

## 1. Inventory

| Component | State | Operations | What makes it correct |
|---|---|---|---|
| Tiers (`tier.rs`) | the tier order, idle thresholds | `colder`, `is_serving`, `tier_for_idle` | demotion goes one leg at a time, promotion straight to Hot |
| Desired state (`state.rs`, `master/api.rs`) | rows: tier, idle clock, error and attempts, slot, port | create, tier, touch, retry, delete | every change reaches the node promptly |
| Poll and diff (`master/api.rs`) | a `Notify` per node, parked requests, pause holds | `poll`, `diff`, `leave_out_deferred`, `record_failures`, `apply_traffic`, `apply_evictions`, `node_traffic` | no poll parked on work; no create of what exists; no destroy of what has a row; no spinning on a backoff |
| Idle sweep (`master/demote.rs`) | none | `sweep` | one tier colder per sweep |
| E2B interface (`master/e2b.rs`) | the pause hold | pause, resume, connect | a pause is not undone by traffic from before it |
| Command loop (`node/mod.rs`) | failure book, deferrals, `DESTROYING` | `poll_once`, `report`, `run_one`, `reap_dead`, `settle_restores`, `evict_one`, `report_wakes` | convergence whatever is lost; only the dead are reaped |
| Wakeups (`node/wake.rs`) | locks, permits, requests in flight, last use, traffic, evictions | `lock`, `hold`, `wake`, `protected`, `victims`, `put_away`, `forget` | one tier change at a time; nothing put away under a request; bounded restores; no deadlock |
| Gateway (`node/gateway.rs`) | open ports, handlers | `reconcile`, `proxy` | a request wakes its sandbox or is refused, and always ends |
| Runtime on gVisor (`node/runtime.rs`, `bundle.rs`, `backend.rs`) | cgroup, layer, overlay, bundle, markers, image, archive | create, `set_tier`, checkpoint, restore, detach, destroy, `observe`, `dead` | no memory lost, none brought back older, whatever step was cut short |
| Listen mode (`master/drive.rs`, `node/agent.rs`) | last batch, failure book | `drive`, `sync`, `set_driver` | as the poll; nothing sent twice, nothing dropped between two batches |
| Execs (`master/api.rs`) | queue, waiting callers | `run_exec`, `take_execs`, `deliver_result` | run at most once; answered or given up on |
| Slots, ports, pools (`state.rs`, `master/api.rs`) | columns of the rows, fingerprints | `allocate_slot`, `pool_for`, placement | the lowest free slot, never one in use; one fingerprint per pool |
| Backend switch (`node/switch.rs`, `master/api.rs`) | the backend file, `SWITCHING`, `switching` | `set_node_backend`, `prepare`, `switch` | nothing left in a format its node cannot restore |
| Tags (`node/tags.rs`) | tag images, fetches under way | branch, `ensure`, `fetch`, drop | one fetch for many children; never half an image; no orphans |
| Template pulls (`node/images.rs`) | attempts and outcomes | `pull_template`, `pulls_for`, `Pulls::ensure`, `pull` | ready means installed, whole |
| Networking (`node/net.rs`, `node/gateway.rs`) | namespaces, veths, the pool, chains, listeners | `setup`, `claim`, `teardown`, `Pool`, `EgressRules`, `reconcile` | a sandbox is reached at its slot, and nothing of the last holder is |
| Firecracker (`node/firecracker.rs`, `node/runtime.rs`) | chains of memory files, bases, trackers, warm images | checkpoint, branch, fork, restore, `assemble`, seed | an image is exactly one moment of one VM |
| Admission (`node/starting.rs`, `node/mod.rs`) | memory owed to starting sandboxes | `add`, `promise`, `owed_mib`, `admit` | no overcommitment by a burst of creates |
| Identity, TLS, audit, metrics, console, CLI | | | not modelled, section 8 |

How they interact: the API changes a row under the store's lock and calls
`wake_node` after letting it go. The node's poll loop reaps the dead, observes,
drains traffic and sends; the master applies the report, diffs, and answers or
parks. A second node task, signalled by `woke`, sends an early report. The
gateway's handlers share `Wakeups` with the command loop: one lock per sandbox,
held across any tier change. `Runtime` keeps its state in files and cgroups, so
sandboxes survive a restart of the node's process and are adopted from what is
on disk. In listen mode the same reports and commands go the other way: the
master's driver sends a batch and is answered with a report.

The hard behaviours: a diff made from a report up to a whole hold (25 s) old;
lists drawn without a lock and used after it is taken; handlers dropped in the
middle by their client; a destroy that runs on after its command has been
answered; restarts between any two file operations; lost polls and reports;
backoffs and deferrals that two sides keep clocks for. `PROJECT.json` lists each
such hazard at its line, with the properties that would catch it.

## 2. Modules

| Module | Models | Uses |
|---|---|---|
| `Tiers` | the tier order and where a tier change may stop | |
| `Reconcile` | master and one polling node | `Tiers` |
| `Wakeups` | the node's locks, permits and requests in flight | `Tiers` |
| `SandboxDisk` | one sandbox on gVisor, file by file | `Tiers` |
| `Vm` | the Firecracker backend: memory, disks and images of the VMs of a node | |
| `NodeNet` | one node's network, with the master's slots and the gateway's listeners | |
| `TagImages` | branches, forks, fetches and drops between nodes | |
| `Fleet` | nodes, pools, placement, slots and backend switches | |
| `Driver` | the channel to one node in both modes, with execs, failures and traffic | `ExecCall` |
| `ExecCall` | what exec promises its caller: the abstract specification `Driver` implements | |
| `Templates` | one template pulled from a registry | |
| `ReconcileProofs`, `VmProofs`, `NodeNetProofs`, `TagImagesProofs`, `FleetProofs`, `DriverProofs`, `TemplatesProofs` | theorems, section 6 | the module they are about, TLAPS |
| `TierChangeProofs` | theorems about `Wakeups` and `SandboxDisk`: who may change a tier, and what that does to the files | both, TLAPS |
| `MCReconcile`, `MCSandboxDisk`, `MCVm`, `MCNodeNet`, `MCFleet`, `MCDriver` | instances for TLC | the module they instantiate |

The modules look at one system at several scales. What `Reconcile` does in one
action (`RunSetTier`), `Wakeups` splits at its locks and `SandboxDisk` and `Vm` at
their file operations. What `Reconcile` knows as a row, `Fleet` places and
`NodeNet` gives an address. `StoppedAt` in `Tiers` states where a failed tier
change may leave a sandbox; `Reconcile` and `Wakeups` use it. A command is modelled
where its state is: tiers in `Reconcile`, execs in `Driver`, branches and drops in
`TagImages`, pulls in `Templates`, switches in `Fleet`, egress in `NodeNet`.

### Reconcile

`desired`, `idle`, `attempts` are columns of the rows. `pauseHeld` is
`explicit_tier`. `permit` is whether the node's `Notify` has a stored permit.
`owed` is set while a handler has changed the store and has not yet called
`wake_node`, so the window between the two is explored. The one poll is `conn`
with the report `rep` it carries, the answer `batch` and the ids it `asked`
about; `early` and `erep` are the early report. On the node, `have` is what
`observe()` would list, `dead` the bundles with nothing running, `parting` a
sandbox being put to disk for room (stopped, image not renamed into place),
`doomed` what `reap_dead` has listed, `failing` the failure book, `deferred` the
deferrals, `destroying` the ids with a destroy thread. `seen`, `busy`, `fresh`,
`unreported`, `evicted`, `woke` are the parts of `Wakeups` that reports carry or
that put commands off.

Every API call, `Sweep`, `PollArrives`, `ParkEnds` and `EarlyArrives` is a whole
handler. The poll loop is `ListDead`, `Reap`, `Observe`, `SendPoll`, `Receive`,
one `Run...` action per outcome of `run_one`, and `EndBatch`. `Observe` and
`SendPoll` are separate because `report` observes first and drains traffic and
deferrals after. Commands of one batch name different sandboxes and are run in
any order. `gen` and `boxGen` (which create a row and a box stem from), `tried` and
`spared` (attempts in a row that failed, and that were held back for memory) and
`raced` are history.

Time is abstracted: grace, backoff, hold and deferral are flags that an action of
their own clears at any later moment, so every order of expiry is explored.

### Wakeups

`tier` is what is observed, or that a bundle is there with nothing running in it
(`Dead`), and `mutex` which mutex the map gives for an id, as `forget()` makes the
next caller get a new one. `job` is the work of each actor that runs runsc: a wake's
thread, the command loop, a destroy thread, each with the mutex it looked up (`key`).
Who holds a mutex is who is at work under it (`Holds`); there is no other record. The
loop's tasks are the master's commands and, before a report, what `dead()` and
`survived_restores()` listed without a lock (`Swept`): those only try the mutex
(`LoopSkips`), are done under it without looking again, and a reap ends with `forget()`
as a destroy does. `handler` is the gateway's future for each request; it may end at any
point, while the job it started goes on. `inFlight` and `permits` are the count and the
semaphore. Grace periods are left out, so demotions and evictions happen in more states
than the code allows.

### SandboxDisk

`proc` is the cgroup, `memory`, `layer`, `image`, `attempt` and `archive` each
hold a number: what the program had done when they were written. `pc` is the step
the holder of the sandbox's lock is at. `loop` is what the command loop has
listed without the lock. A death, an error or a restart may come between any two
steps; a restart forgets `pc` and `loop` and keeps every file. A kill may leave
processes behind and the destroy goes on (`KillFails`), the note of a restore may not be
written (`NoteFails`), a stale image may not go (`ClearStaleFails`), and a restore does
not look whether the layer is mounted. `mishaps` is history: which of the things the
properties except has happened to the program since it was started. gVisor only.

### Vm

A guest's memory is a value per page, each write a value of its own, so that two
memories are equal only if they are of the same moment. `images` holds each directory's
chain (`mem.0` whole, the later files sparse), its disk, the assembled cache and the
temporary file it is built in. `vm` holds the process, what its base chain is and what
its two trackers (KVM's log, soft-dirty bits) show. `op` is the operation under way on a
VM, step by step: `CkptMemory`, `CkptDisk`, `CkptPublish`, `BranchResumes` or
`BranchRestores`, `AssembleStart` to `AssembleEnds`, `Load`, `RestoreEnds`, and a
failure of each. A pause may fail or time out with the VM paused (`PauseFails`), and the
resume that follows a failed checkpoint may fail too. `Seed...` is the warm image's
thread. `truth` is history: what an image must hold; so are `owed`, the VMs whose state
must be held somewhere, and `adrift`, those of them whose state only the image of a
branch may hold, of which there is no record: a parent removed to be restored from it
when the node restarted, or whose image could not be moved. What a chain shows is stated
as a relation (`Shows`: a page's value in the last file that has it; `Stands`: a memory
all of whose pages are shown), which is checked and proved about alike.

### NodeNet

`kernel` is what `ip` would show: the names of namespaces, and each host end with its
peer's namespace, addresses and whether it is up. `names` is `VETH_NAMES`, `ready` and
`retired` the pool, `chain` how often each address has which rules, `cold` the addresses
refused, `installed` what `EgressRules` believes, `running` the listeners, `due` the
sandboxes created in this batch whose listeners are opened when all its creates have run
(`Expose`, which may fail to bind). `Create` is `setup_started` (`Claim` from the pool,
`Build` in place, or `ClaimFails`), `Address` the thread that finishes it,
`CreateEgress` and `Start` the rest; `Destroy` quiesces and hands over to a thread
(`DestroyKill`, `DestroyClear`, `DestroyTeardown`). `set_tier` refuses connections
before its first step, so `Freeze` and `Checkpoint` refuse and then arrive or fail
(`SnapshotFails`); `Woken` and `Detach` may fail as well, and `Requested` is the request
that finds a sandbox hot and lets it through. `refused` and `unheard` are history: the
addresses such a change has left refused, and the sandboxes whose listener is still to
be opened. `Fill` is the pool's thread; a namespace it scrubs keeps the address inside,
behind an end that is down. The master hands a slot on as soon as its row is gone, so
the next holder's create runs before and beside the last one's destroy.

### TagImages

An image is the name of the branch call that wrote it, in pieces (its files), so
a mixture shows. `BranchAsked`, `RunBranch` and `BranchRecorded` are the three
moments of a branch; between the last two the image is on disk and not on record.
`fetch` is `Fetches`; a fetch copies piece by piece while the source may change.
`Age` is `REPORT_MIN_AGE`, longer than a branch's caller waits.

### Fleet

`nodes`, `tokens`, `rows` and `tags` are tables; a handler that lets the store's
lock go between two steps is two actions (`ChoosePool` and `Upsert`;
`SwitchMarks` and `SwitchCounts`). `branch_sandbox` reads the sandbox's node (`Branch`),
waits for the node's answer (`RunBranch`, or `GiveUp` after three minutes) and records
the tag with the fingerprint the node has by then (`Record`); `baking` is where it
waits. `switching` and `call` are the master's memory
and are lost in a restart. A fingerprint is an engine and a build; `host` is what
a node really runs, and `held` what each node has of each sandbox, so an id may be
deleted and used again on another node while the first still has it. A node
registers when it starts, before it polls (`Registering`). `AllocateSlot` is where
the walk over the used slots stops; the children of one create are placed one
after the other, in any order (`Insert`). A create may name its node, and then nobody
asks whether that is connected or being switched (`CreateOnNode`, its row `blind`).
`lapsed` and `late` are history: nodes let back into placement while a switch of theirs
was under way, and tags recorded on a node that a switch had been asked of.

### Driver and ExecCall

`wire` is the one request between the two sides, in either mode: `poll`, `parked`,
`reply`, or `sync`, `answer`. `driver` is `drive`'s loop with its batch, `job` the
batch a node is working through, `book` its failures, `unreported` the gateway's
traffic. A driver that hangs up leaves a node at work with nobody to answer. In
`ExecCall` a call is asked, performed at most once, and answered or given up on;
the mapping is the identity on `call` and `ran`.

### Templates

`rows` is `template_pulls`, `wire` a report or the command it is answered with,
`state` the node's last word, `tasks` its running pulls, `work` the one
`.pull-<name>` directory they share, `home` the template. A tree is the sequence
of layers laid in it. The layers' contents are left out.

## 3. Runs

| Run | Checks | Bounds |
|---|---|---|
| `faults` | `TypeOK`, `NoLostWake`, `NeverOfferedEarly`, `CreatesUnlessRaced`, `DestroysUnlessReused`, `QuarantineEarned` | 2 sandboxes (symmetric), `MaxFailures` 2, five mixes: failing commands; the gateway; losses; restarts and deaths; a failed eviction |
| `live` | `Converges`, under `FairSpec` | 1 sandbox, `MaxFailures` 2, six mixes: two restarts with a failing command, a death and a loss; room made beside a restart; room and a request; idle time, a request, a restart and a failing command; a hold-back, a failing command and a loss; a request and a loss |
| `wakeups` | `ExclusiveWhileKnown`, `NeverPutAwayInFlight`, `RestoresBounded`, `ComesToRest` | 2 sandboxes in any tiers, 2 requests, a command, reap or settling, 1 permit, 0 or 1 waiting, room made twice |
| `disk` | `RunsOnItsLayer`, `MemoryKept`, `ImageAccounted`, `DetachedKept`; stops only at rest | two tiers asked, two wakes or evictions, a death, a restart, two errors |
| `tags` | `TagKept`, `ForkWhole`, `OrphansGo` (under `FairSpec`) | 2 nodes, 1 tag, 2 branches, 1 fork, 2 pieces, 2 faults |
| `fleet` | `PoolsPure`, `SlotsDistinct`, `BackendHonoured`, `NothingStranded` | 2 nodes, 3 sandboxes, 2 slots, 1 port, 1 tag, cap 1, nine mixes: upgrades; rejoins; placing; switches; a branch against a switch; a fork; restarts; a forgotten switch; a reused id |
| `net` | `Reached`, `EgressOwned`, `PoolBlank`, `NothingLeft` | 2 sandboxes on 1 slot, with no pool or a pool of 2, three mixes: a tier change that may fail; faults and rules; a restart |
| `vm` | `ImageExact`, `ForkExact`, `BaseCurrent`, `NotLeftPaused`, `StateKept`, `NotOfItTwice` | 2 VMs, 2 pages, chains of 2, 4 operations, 2 writes, 2 faults |
| `driver` | `NeverDropped`, `FailuresCounted`, `TrafficKept`, `ExecPromise` | both modes, 2 sandboxes, 1 exec, 2 failures, a request, a lost message or restart |
| `templates` | `InstalledWhole`, `ReadyIsInstalled`, `FailedStays`, `Settles` (under `FairSpec`) | 1 node, 2 layers, 2 attempts, 2 faults, 2 restarts |
| `exec_put_off` | violates `NeverPutOff` | 1 sandbox, one failed tier change, one exec |
| `pulls_overlap` | violates `NeverHalfBuilt` | 1 node, 2 layers, 2 attempts, no fault |

`MaxFailures` is 5 in the code and 2 here, `MAX_CHAIN` 8 and 2, the pool 32 and 2;
only the comparison with the count matters. Limits bound what the environment
does, never what the system does of itself. A set of limits is one run over several
mixes of trouble, each small enough to be explored whole. Two sandboxes and two
requests are the least that can wait on each other, two on one slot the least that
can be taken for each other, two pages and a chain of two the least in which a
diff can lack a page, two nodes the least between which an image can be torn. In
`disk`, two asked tiers and two gateway moves are a full circle through every tier
with a fault anywhere on it. One node suffices for a template: nodes do not share
one. A sandbox's row is one row to `Driver`: they share the wire and the batch,
which two cover.

Several properties except a case, named by a history variable, in which the code
does not keep them. Without any one of these exceptions TLC finds the violation, in the
run of the table; only that of `short` and `thin` in `StateKept` takes more than its
bounds (one VM, 7 operations, 3 writes, 3 faults).

- `CreatesUnlessRaced`: a sandbox being put to disk just when `observe()` ran
  (`raced`). It is found neither running nor on disk, and created again.
- `DestroysUnlessReused`: an id deleted and created again before the destroy
  thread of the first has run.
- `QuarantineEarned`: attempts that were held back make up the number (`spared`) once
  one has failed outright. It is never for want of memory alone.
- `ExclusiveWhileKnown`, `NeverPutAwayInFlight`: while someone works on the sandbox
  under a mutex that `forget()` has dropped from the map, at the end of a destroy or of
  a reap.
- `RunsOnItsLayer`: a program restored after a detach that failed once its layer was
  unmounted (`bared`), and one that a destroy could not kill and went on (`unkilled`).
- `MemoryKept`: a program that died (`died`), that a checkpoint stopped and made no
  image of (`dropped`), that `reap_dead` took for dead while it was being put to disk
  (`reaped`), or that was restored without its layer (`bared`).
- `ImageAccounted`: a note that could not be written, an image that could not be
  removed with it, or a restart between the restore and the note (`unnoted`).
- `DetachedKept`: a restart between `drop_snapshot` and `teardown`, or a first start
  back that is cut short or fails; the bundle left behind is reaped, and the archive
  with it.
- `ForkWhole`: a tag name used a second time, which nodes may still hold the first
  image of.
- `PoolsPure`: pools that changed while a node was between choosing its pool and
  being written.
- `BackendHonoured`: a node let back into placement with a switch under way
  (`lapsed`), as a restart of the master forgets `switching` and `SWITCH_HOLD` may end
  before the command does; and a create that names a node which is not connected or
  is being switched (`blind`).
- `NothingStranded`: a tag recorded once a switch of its node had been asked for, its
  sandbox deleted meanwhile (`late`). A sandbox is never stranded.
- `Reached`, of the link, and `PoolBlank`: a node with a pool that has set a sandbox up
  without it (the pool empty, a claim that failed, or a namespace already there), as
  `stale_holders` does not recognise a pooled host end; or a sandbox woken after its
  row was deleted (`astray`). Without a pool only the second. The address inside a
  pooled namespace stays, and `PoolBlank` does not say otherwise.
- `Reached`, of the refusal: a change of tier at the address that is under way or has
  failed, or a refusal that could not be lifted (`refused`). Of the listener: until all
  creates of the batch are done, and, where the port could not be bound or the node has
  restarted, until a report opens it (`unheard`).
- `EgressOwned`, `NothingLeft`: sandboxes whose create, destroy or detach failed with
  no bundle left to name them (`orphaned`). Rules of a sandbox whose row has been
  deleted may apply to the next holder of its address until its destroy gets to them.
- `ImageExact`, `ForkExact`, `BaseCurrent`: a VM whose dirty log was read by a
  checkpoint that then failed (`short`, `thin`), and an image two forks assembled at
  once, in one temporary file (`raced`).
- `NotLeftPaused`: a pause that failed or timed out, a resume that failed, a seal or
  publish that did, or a restart (`stuck`).
- `StateKept`: a VM that died or was destroyed is not owed its state. A branch's parent
  of which the only last state may be the tag's image, without a record that it is
  (`adrift`): one removed to be restored from it when the node restarted, or whose
  image could not be moved. And what lacks pages (`short`, `thin`), with `raced` for
  the same form.
- `TrafficKept`: traffic in a report that is lost. `report_wakes` says it goes out
  with the next poll; it has been taken by then.
- `InstalledWhole`: two pulls at once (section 4).

## 4. Where the code and its words differ

Two differences have a run of their own that TLC finds violated, with the quotation in
`PROJECT.json`.

- **exec_put_off.** `run_one` says that execs "do not go through the
  failure/backoff path", and checks the sandbox's backoff before it looks at the
  command. An exec for such a sandbox is passed over, and as it was taken from the
  queue with the batch, it is never offered again.
- **pulls_overlap.** A template is pulled beside the others so that "a half-built
  one is never taken for a template". A second attempt while the first pull runs
  empties the directory under it, and the first then moves half a tree into place.

The others show as exceptions of a property, and TLC finds each as soon as the exception
is taken away.

- **Held back.** `record_failures` (api.rs 2394-2398) says that a command held back for
  want of memory is "counted as no attempts at all". It counts no report of one, but the
  node's own count goes on through the hold-backs, so that the first real failure after
  them can bring the quarantine at once (`spared`).
- **Reaping.** `DEAD_AFTER` (mod.rs 356-360) "only has to outlast the moment between
  writing a bundle and starting it". The list is drawn without the lock and not looked at
  again under it: what was dead when listed may be a program that has been put to disk
  since (`reaped`).
- **A forgotten lock.** A lock is "held across any tier change", and `forget()` drops
  it from the map while its holder is at work or others wait for it, so the next caller
  gets another.
- **Restored without a layer.** `unmount` (bundle.rs) has the sandbox "already
  checkpointed and gone" by detach time. A detach that fails after it leaves an image that
  a request restores with no layer mounted (`bared`).
- **A create that names its node.** `set_node_backend` (api.rs 1069-1071) has every create
  "either finished first" or passing "this node by". One that names the node does not ask
  whether it is being switched (`blind`).
- **A branch across a switch.** The master's count and the node's look see tags and
  bundles, not a branch on its way: its tag may be recorded on a node that can no longer
  restore it (`late`).
- **Inherited rules.** `clear` (net.rs 1265-1266) has a sandbox's rules go "before its
  address goes to anyone else". The slot is free as soon as the row is gone, and the next
  holder's create does not wait for the last one's destroy.
- **Refused while hot.** `set_tier` refuses connections first and does not undo it when a
  step fails: the sandbox runs and is refused until a request through the gateway, or
  another change of tier, settles it (`refused`).

## 5. Fairness

`Reconcile` asks weak fairness of what the code drives by itself: the handlers at
the master, both report tasks, the sweep's timer, the destroy thread, every
timeout, and the end of every request (the gateway bounds each). It asks none of
callers, traffic, faults, `ListDead` (which needs a bundle's age) or the gateway's
wake. `Reap`, once something is listed, is fair. `Wakeups` asks it of each
handler, each job and the loop's own steps: threads run and a held mutex is let
go. `TagImages` asks it of polls, command runs, fetches (which have a read
timeout), the age of an image and the end of a branch's wait. `Templates` asks it
of reports, their answers and the tasks. The others state no liveness; with
deadlock checked, they can only stop with nothing under way.

## 6. Theorems

Every theorem is about `Spec` (`DiskSpec` for `SandboxDisk`) with its constants left
open: any sets of sandboxes, nodes, requests, calls, tags, pages, layers and
namespaces, any `MaxFailures`, `MAX_CHAIN`, pool or number of permits, and any limits
on the environment, so the bounds of section 3 do not restrict them. What is assumed
of the constants is the `ASSUME` of each module, which TLC evaluates: counts are
natural numbers (`MaxFailures`, `Layers`, `Parallel`, `MaxChain` not zero), the sets
that are counted or made sequences of (sandboxes in `Fleet`, `NodeNet` and `Driver`;
tags, calls and children in `TagImages`) are finite, and the names of different
things, and `Nil`, differ.

Each proof has the same shape. But for `SlotsDistinct`, none of the properties is
inductive as the runs state it; a module's `...Inv` strengthens it, TLC checked that
invariant on the run's instance first, and the theorem named `...Safety` shows that it
holds initially and that every action keeps it. The properties follow from it.

| Module | Theorem | Property |
|---|---|---|
| `ReconcileProofs` | `TypeCorrect` | `TypeOK` |
| | `WakeupsKept` | `NoLostWake` |
| | `BackoffRespected` | `NeverOfferedEarly` |
| | `CreatesMissing` | `CreatesUnlessRaced` |
| | `QuarantineIsEarned` | `QuarantineEarned` |
| | `NoneDestroyedAlive` | `DestroysUnlessReused` |
| `TierChangeProofs` | `OneActor` | `ExclusiveWhileKnown` |
| | `NotFromUnder` | `NeverPutAwayInFlight` |
| | `PermitsBound` | `RestoresBounded` |
| | `OnItsLayer` | `RunsOnItsLayer` |
| | `NothingForgotten` | `MemoryKept` |
| | `ImagesNoted` | `ImageAccounted` |
| | `ArchiveStays` | `DetachedKept` |
| `VmProofs` | `ImagesExact` | `ImageExact` |
| | `ForksExact` | `ForkExact` |
| | `BasesCurrent` | `BaseCurrent` |
| | `NoneLeftPaused` | `NotLeftPaused` |
| | `StatesKept` | `StateKept` |
| | `NoneTwice` | `NotOfItTwice` |
| `NodeNetProofs` | `AlwaysReached` | `Reached` |
| | `EgressAlwaysOwned` | `EgressOwned` |
| | `PoolAlwaysBlank` | `PoolBlank` |
| | `NothingIsLeft` | `NothingLeft` |
| `TagImagesProofs` | `RecordedStays` | `TagKept` |
| | `ForksWhole` | `ForkWhole` |
| `FleetProofs` | `PoolsStayPure` | `PoolsPure` |
| | `SlotsStayDistinct` | `SlotsDistinct` |
| | `NoneStranded` | `NothingStranded` |
| | `BackendsHonoured` | `BackendHonoured` |
| `DriverProofs` | `NoneDropped` | `NeverDropped` |
| | `TrafficTold` | `TrafficKept` |
| | `NoFailureForgotten` | `FailuresCounted` |
| | `CallsKept` | `ExecPromise` (the refinement) |
| `TemplatesProofs` | `WholeImages` | `InstalledWhole` |
| | `ReadyIsTrue` | `ReadyIsInstalled` |
| | `FailedForGood` | `FailedStays` (an action property) |

### Reconcile

`PollInv` holds the three properties of the poll together:

- `BatchWhenAnswered`: commands exist only between an answer and the end of its
  batch.
- `MissingStaysMissing`: what the outstanding report does not list, the node does
  not come to hold while the report is out, unless it was being put to disk when
  the report was made. Only a batch creates, and there is no batch while a report
  is out. This is why a diff from an old report is safe.
- `PartingAway`: one being put to disk is held at no tier, so the end of the
  eviction cannot contradict the line above for any other sandbox.
- `BackoffPutOff` and `PutOffReported`: a command backing off is deferred, and a
  deferral still waiting is one the outstanding report names. So what
  `leave_out_deferred` removes covers every backoff.

`NoLostWake` is then preserved because each handler that changes desired state
sets `owed` or `permit` in the same step, and `PollArrives` parks only with an
empty diff. The handlers at the master rest on lemmas that type `ApplyTraffic`,
`ApplyEvictions`, `RecordFailures` and `Diff`.

`FailureInv` carries the count of attempts along its way: the book's entry, then the
report's, then the row's is never more than was `tried` and `spared` together, and an
entry that is not held back means that something was tried. A success resets both, so
it also needs that nothing that could succeed is asked of a row in quarantine.
`DestroyInv` is about an id's first use: before it there is nothing of the id
anywhere, and while its first row stands no destroy of it is under way.

### Wakeups

`LockInv` says what each job and handler works with (`JobInv`, `HandlerInv`) and that no
two hold one mutex (`Apart`): it speaks of the mutex each has looked up, and never of
the map's, since `forget()` changes that under them. While nobody works under a mutex
the map has dropped, everyone at work holds the map's, and so is alone. `CountInv` and
`PermitInv` make the counters exact: the requests in flight are the handlers enrolled,
and permits and wakes add up to `Parallel`, though a handler may be dropped while the
wake it started goes on. `NeverPutAwayInFlight` follows for an eviction because the
count is looked at again under the victim's lock.

### SandboxDisk

`StoppedInv` is the heart: while the state is owed (`Owed`: the program was started and
nothing has happened to it but that a restore was not noted), the layer is of the last
moment, and a stopped program is in its image or in the attempt about to be published,
with no restore of it still to be settled. `StepInv` says which steps are never taken in
that case, `DiskLockInv` who may be at them, `LayerInv` where the mount is, `BundleInv`
that what the loop could list has a bundle, and `PromiseInv` what there is between a
detach and the next start.

### Vm

`One(v)` is what one VM's operation knows at each step: its base shows every page the
tracker does not (`BaseInv`), its attempt shows its memory (`AttInv`), the image just
published is of it (`PublishedInv`), a restore's temporary file shows the chain up to
where it has got (`LoadInv`), and what is owed and not adrift is held somewhere
(`OwedInv`). Beside it, `TagInv` and `ApplyInv` say that two VMs do not work on one
directory unless they race, and `ImageInv` that an image stands for its `truth`. A lemma
shows that a step of one VM on directories nobody else uses keeps all that is said of
the others, so each action is proved for its own VM. `WarmInv` orders the generations of
the warm image, for `NoneTwice`.

### NodeNet

`NetInv` is built in layers, each of which needs those before it:

- `StepInv`: which step each sandbox's lock holder may be at in which tier, and
  `Apart`: two rows never share a slot, and whoever is being created on a slot, its
  last holder's row is gone.
- `SpaceInv`: at most one namespace has a sandbox's name, one that is gone tracks
  nothing, and the pool's two lists are exactly the namespaces called after them,
  each listed once. Of a sandbox that is neither on the node nor worked on nothing
  is left. `PoolBlank`'s first line and `NothingLeft` follow.
- `LinkInv`: whose each interface is. Without a pool each belongs to the sandbox it
  is called after; with one, until the node goes astray, each stays in the namespace
  it was built with, is on record for exactly the sandbox the namespace is called
  after, and is down while it is in the pool.
- `MineInv`: one slot per sandbox, for good: its row, its index, the slot being
  worked on, its listener, its rules and the addresses of its interface all name
  it. `Mine` is stated for some slot, since a deleted row no longer says which.
- `ReachInv`: a sandbox that is up and wanted, or being set up and past `Address`,
  has its link joined, and no other interface that is up has its address. Setup
  keeps it by removing whoever holds the slot (`Holders`); everyone else's step keeps
  it since, by `MineInv`, an address given to another is that other's own slot.
- `PortInv` and `OwnedInv`: refusals, listeners and rules. What is served and refused is
  at an address a change of tier has left so (`Served`, `Excused`), through every step of
  the change; what is on the node and wanted has its listener once it is heard. The count
  in the chain is a cardinality, which one `set` changes by one at each end.

The first part of the proofs states what each operation of the kernel does to names,
links and tracked connections, field by field; the actions are proved from those
facts alone.

### TagImages

`PieceInv` follows an image's pieces: whatever is on disk, being fetched, recorded or
run was written by a branch into that tag. With one branch there is one value, and
`ForksWhole` follows. `KeepInv` is why a recorded image is not dropped: an image of a
call still open is too young to be reported (`AgedInv`), only what was reported is
told to be dropped (`DropInv`), and at most once per batch (`DropOnceInv`).

### Fleet

`PoolInv`: a group's name is its fingerprint, so only the pool's own name can come
to mix; and while nothing else changes pools, what a joining node saw there still
stands when its row is written (`ChosenInv`). `SwitchInv` speaks of one node at a
time. A switch that is queued, handed over or accepted is in one place only and its
node is out of placement (`PendingOK`); a connected node's row is out of date only
between a switch and its report (`MarkedOK`); and so what is on the node, or placed
on it, is of its engine (`HeldOK`; `TagsOK`, of tags that are not `late`; `RowsOK`, of
rows that are not `blind`). `NoneStranded` uses none of the parts that a lapsed node
loses: the node's own look at its bundles is enough. `KnownInv` has the node a branch was
asked of be known, as its sandbox's is.
`SlotsDistinct` is inductive once `SlotIsFree` is known: where `allocate_slot` stops is
in the range and not used. Its proof takes the first value that is not used, which
exists by the least-number principle (`Least`, from the well-foundedness of `<`), and
shows the walk stops there. Of two children of one create, the one placed later
avoids the other.

### Driver

`ExecInv`: an exec is in one place at a time (queue, wire, driver, job), is run there
once, and is not in any of them before it is asked for. `DeafInv` says that a batch
whose driver hung up carries nothing anyone still waits for. `CallsKept` shows that
every step of the channel is a step of `ExecCall` or leaves it unchanged, in both
modes, with losses and restarts. `BookInv` is why `retain` in the failure book
forgets no failure: as long as a sandbox has failed in a row, everything on its way
to the node names it, or is a refresh that leaves the book alone.

### Templates

`AloneInv`: a pull that has the directory to itself finds in it exactly the layers
before its own. `WordInv`: success is only said, by the node or in a report on its
way, of what is installed. `FailedInv`: no command for a failed attempt is under way.

## 7. Only model-checked

- Liveness: `Converges`, `ComesToRest`, `OrphansGo`, `Settles`. The prover has no
  reasoning about fairness and `ENABLED`.
- `AllocateSlot` is where the loop of `allocate_slot` stops, in one expression; that a
  loop over the sorted rows gets there is read from the code, and not a theorem.
- The violations of section 4, which are counterexamples.

## 8. Not modelled

- Admission (`node/starting.rs`, `node/reclaim.rs`): memory is no number here, and
  any create or wake may be held back.
- The registry protocol and what layers hold (whiteouts, links, sizes); the file
  transfer's own protocol but for its pieces; the bytes the gateway forwards.
- Booting a VM, its devices and vsock; what runsc and the kernel do inside.
- Identity, TLS and tokens, audit, metrics, series and the console, host readings,
  the CLI, the SDKs and the benchmarks: cryptography, reading, or presentation.
- In `Driver`, the waker that cuts a wait short: a wait may end at any time anyway.
- Composition of warm seeds with backend switches.

## 9. Plan

Done: every module of section 2, and a theorem for every safety property of section
3 and for the refinement. Next, in order:

1. Admission, as a module of its own: the memory owed to starting sandboxes.
2. `Wakeups` and `SandboxDisk` composed: the steps of `SandboxDisk` under the locks of
   `Wakeups`, so that which job may be at which step is derived, not assumed.
3. Warm images beside a backend switch, where `Fleet` and `Vm` meet.
