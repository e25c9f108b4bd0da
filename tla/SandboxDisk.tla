---------------------------- MODULE SandboxDisk ----------------------------
(***************************************************************************)
(* What a node keeps of one sandbox, file by file, through every step of   *)
(* its tier changes: node/runtime.rs on the gVisor backend.                *)
(*                                                                         *)
(* Whoever changes the sandbox holds its lock, so one operation runs at a  *)
(* time; pc is where it has got to.  Between any two steps the program may *)
(* die, or the node's process restart, which leaves everything on disk as  *)
(* it was.  The command loop also lists, without the lock, what to reap    *)
(* and which restores to settle, and takes the lock afterwards.            *)
(*                                                                         *)
(* What the program has done is a number: its memory, its writable layer,  *)
(* an image and an archive each hold the number they were left at.  Forks  *)
(* of a tag and warm starts are left out.  A removal whose error the code  *)
(* ignores is taken to work.                                               *)
(***************************************************************************)
EXTENDS Tiers

CONSTANT Limit   \* how much of each Budget the environment may spend

(***************************************************************************)
(*   "ask"      tiers asked for at the master                              *)
(*   "work"     steps of the program                                       *)
(*   "gate"     wakes by the gateway, and evictions to make room           *)
(*   "death"    deaths of the program                                      *)
(*   "restart"  restarts of the node's process                             *)
(*   "error"    steps that fail                                            *)
(***************************************************************************)
Budget == {"ask", "work", "gate", "death", "restart", "error"}

ASSUME DiskAssumption == Limit \in [Budget -> Nat]

None  == -1    \* no such file, or nothing in it
NoRow == -1    \* the row has been deleted

VARIABLES
  row,       \* the tier the master's row asks for, or NoRow
  proc,      \* the sandbox's cgroup: "none", "up" or "frozen"
  memory,    \* what the running program has done
  layer,     \* layers/<id>
  mounted,   \* the overlay over it
  bundle,    \* bundles/<id>: "none", "young", or older than DEAD_AFTER
  marker,    \* bundles/<id>/restored: "none", "young", or older than RESTORE_SURVIVAL
  image,     \* snapshots/<id>, whole
  attempt,   \* snapshots/.<id>.attempt-*
  archive,   \* the layer's archive on the volume
  pc,        \* the step the lock's holder is at; "free" when nobody has it
  lockedBy,  \* who has the lock: the command loop, or a thread of its own
  want,      \* the tier set_tier is walking to
  loop,      \* what the command loop has listed: "idle", "reap", "settle"
  \* History: what the program has done so far, whether it is owed it, what a
  \* detach has promised, and what has gone wrong.
  done, alive, promised, mishaps,
  spent

(***************************************************************************)
(*   "died"      the program died                                          *)
(*   "dropped"   a checkpoint stopped it and came to no image              *)
(*   "reaped"    reap_dead destroys it, which is not dead                  *)
(*   "bared"     it was restored with its layer not mounted                *)
(*   "unkilled"  a destroy went on with processes of it left               *)
(*   "unnoted"   the note of its restore failed to be written, or went     *)
(*               while its image could not                                 *)
(***************************************************************************)
Mishap == {"died", "dropped", "reaped", "bared", "unkilled", "unnoted"}

task    == <<lockedBy, want>>
files   == <<layer, mounted, bundle, marker, image, attempt, archive>>
process == <<proc, memory>>
history == <<done, alive, promised, mishaps>>
diskVars == <<row, process, files, pc, task, loop, history, spent>>

DiskInit ==
  /\ row = Hot
  /\ proc = "none" /\ memory = None
  /\ layer = None /\ mounted = FALSE /\ bundle = "none" /\ marker = "none"
  /\ image = None /\ attempt = None /\ archive = None
  /\ pc = "free" /\ lockedBy = "loop" /\ want = Hot /\ loop = "idle"
  /\ done = 0 /\ alive = FALSE /\ promised = None /\ mishaps = {}
  /\ spent = [b \in Budget |-> 0]

Spend(b) ==
  /\ spent[b] < Limit[b]
  /\ spent' = [spent EXCEPT ![b] = @ + 1]

\* observe goes through the bundles: the cgroup first, then a whole image; else
\* it is not listed.
Observed ==
  IF bundle = "none" THEN None
  ELSE IF proc = "up" THEN Hot
  ELSE IF proc = "frozen" THEN Frozen
  ELSE IF image # None THEN Snapshot ELSE None

-----------------------------------------------------------------------------
(* The master, the gateway and the program. *)

Ask(t) ==
  /\ row # NoRow /\ row # t
  /\ Spend("ask")
  /\ row' = t
  /\ UNCHANGED <<process, files, pc, task, loop, history>>

Delete ==
  /\ row # NoRow
  /\ Spend("ask")
  /\ row' = NoRow
  /\ UNCHANGED <<process, files, pc, task, loop, history>>

\* The program runs: its memory and its layer, if it has one, move on together.
Progress ==
  /\ proc = "up"
  /\ Spend("work")
  /\ done' = done + 1 /\ memory' = done' /\ layer' = IF mounted THEN done' ELSE layer
  /\ UNCHANGED <<row, proc, mounted, bundle, marker, image, attempt, archive,
                 pc, task, loop, alive, promised, mishaps>>

\* Commands of a diff, run once the loop is through with its lists.
Commanded == pc = "free" /\ loop = "idle"

StartCreate ==
  /\ Commanded
  /\ row \notin {NoRow, Detached} /\ Observed = None
  /\ pc' = "prepare" /\ lockedBy' = "loop"
  /\ UNCHANGED <<row, process, files, want, loop, history, spent>>

StartSetTier ==
  /\ Commanded
  /\ row # NoRow /\ Observed # None /\ Observed # row
  /\ pc' = "walk" /\ lockedBy' = "loop" /\ want' = row
  /\ UNCHANGED <<row, process, files, loop, history, spent>>

StartDestroy ==
  /\ Commanded
  /\ row = NoRow /\ Observed # None
  /\ pc' = "kill" /\ lockedBy' = "thread"
  /\ UNCHANGED <<row, process, files, want, loop, history, spent>>

\* The gateway wakes it, or another's wake puts it to disk.
GateMoves(t) ==
  /\ pc = "free"
  /\ IF t = Hot THEN Observed \in {Frozen, Snapshot} ELSE Observed \in {Hot, Frozen}
  /\ Spend("gate")
  /\ pc' = "walk" /\ lockedBy' = "thread" /\ want' = t
  /\ UNCHANGED <<row, process, files, loop, history>>

-----------------------------------------------------------------------------
(* set_tier: one leg at a time to a colder tier, straight to Hot otherwise. *)

\* The holder is done, or gives up, and lets the lock go.
WalkEnds ==
  /\ pc = "walk" /\ Observed \in {want, None}
  /\ pc' = "free"
  /\ UNCHANGED <<row, process, files, task, loop, history, spent>>

WalkFreezes ==
  /\ pc = "walk" /\ Observed = Hot /\ want > Hot
  /\ proc' = "frozen"
  /\ UNCHANGED <<row, memory, files, pc, task, loop, history, spent>>

WalkThaws ==
  /\ pc = "walk" /\ Observed = Frozen /\ want = Hot
  /\ proc' = "up"
  /\ UNCHANGED <<row, memory, files, pc, task, loop, history, spent>>

\* Thawed first: a frozen task set cannot be checkpointed.
WalkCheckpoints ==
  /\ pc = "walk" /\ Observed = Frozen /\ want > Frozen
  /\ proc' = "up" /\ pc' = "forget"
  /\ UNCHANGED <<row, memory, files, task, loop, history, spent>>

\* A restore is refused while the last is too young to have lasted.
MayRestore == marker # "young"

\* Brought back from its image, which stays.  Nothing looks whether its layer is
\* mounted, and a detach that failed has left it unmounted.
WalkRestores ==
  /\ pc = "walk" /\ Observed = Snapshot /\ want < Snapshot
  /\ MayRestore
  /\ proc' = "up" /\ memory' = image
  /\ pc' = "note"
  /\ mishaps' = IF mounted THEN mishaps ELSE mishaps \cup {"bared"}
  /\ UNCHANGED <<row, files, task, loop, done, alive, promised, spent>>

WalkRefused ==
  /\ pc = "walk" /\ Observed = Snapshot /\ want < Snapshot
  /\ ~MayRestore
  /\ pc' = "free"
  /\ UNCHANGED <<row, process, files, task, loop, history, spent>>

WalkDetaches ==
  /\ pc = "walk" /\ Observed = Snapshot /\ want = Detached
  /\ mounted' = FALSE /\ pc' = "archive"
  /\ UNCHANGED <<row, process, layer, bundle, marker, image, attempt, archive,
                 task, loop, history, spent>>

\* A leg fails before it has changed anything, or a restore has cleared up after
\* itself, or a freeze or a thaw does not settle in time, and may yet.
WalkFails ==
  /\ pc = "walk" /\ Observed \notin {want, None}
  /\ Spend("error")
  /\ proc' \in IF proc = "none" THEN {proc} ELSE {"up", "frozen"}
  /\ pc' = "free"
  /\ UNCHANGED <<row, memory, files, task, loop, history>>

-----------------------------------------------------------------------------
(* checkpoint *)

\* forget_restore, first half: the marker goes.
Forget ==
  /\ pc = "forget"
  /\ marker' = "none" /\ pc' = "stale"
  /\ UNCHANGED <<row, process, layer, mounted, bundle, image, attempt, archive,
                 task, loop, history, spent>>

\* Mutant: an image already there is left where it is.
ClearStaleNot ==
  /\ pc = "stale"
  /\ attempt' = None /\ pc' = "stop"
  /\ UNCHANGED <<row, process, layer, mounted, bundle, marker, image, archive,
                 task, loop, history, spent>>

\* Its second half, and the stale image and attempts cleared.
ClearStale ==
  /\ pc = "stale"
  /\ image' = None /\ attempt' = None /\ pc' = "stop"
  /\ mishaps' = mishaps \ {"unnoted"}
  /\ UNCHANGED <<row, process, layer, mounted, bundle, marker, archive, task,
                 loop, done, alive, promised, spent>>

\* An image that will not go ends the checkpoint, its marker gone already.
ClearStaleFails ==
  /\ pc = "stale" /\ image # None
  /\ Spend("error")
  /\ pc' = "free" /\ mishaps' = mishaps \cup {"unnoted"}
  /\ UNCHANGED <<row, process, files, task, loop, done, alive, promised>>

\* runsc checkpoint: the program's memory is written, and the program stopped.
Stop ==
  /\ pc = "stop" /\ proc = "up"
  /\ attempt' = memory /\ proc' = "none" /\ memory' = None /\ pc' = "publish"
  /\ UNCHANGED <<row, layer, mounted, bundle, marker, image, archive, task,
                 loop, history, spent>>

\* It fails: the program is gone already, or still there, or stopped by it.
StopFails ==
  /\ pc = "stop"
  /\ IF proc = "none" THEN UNCHANGED <<proc, memory, mishaps, spent>>
     ELSE /\ Spend("error")
          /\ \/ UNCHANGED <<proc, memory, mishaps>>
             \/ /\ proc' = "none" /\ memory' = None
                /\ mishaps' = mishaps \cup {"dropped"}
  /\ pc' = "free"
  /\ UNCHANGED <<row, files, task, loop, done, alive, promised>>

\* Validated, sealed and renamed into place, unless an image is there.
Publish ==
  /\ pc = "publish"
  /\ attempt' = None
  /\ IF image = None THEN image' = attempt /\ pc' = "walk"
     ELSE pc' = "free" /\ UNCHANGED image
  /\ UNCHANGED <<row, process, layer, mounted, bundle, marker, archive, task,
                 loop, history, spent>>

\* The image is not whole: the attempt is dropped, and the program is gone.
PublishFails ==
  /\ pc = "publish"
  /\ Spend("error")
  /\ attempt' = None /\ mishaps' = mishaps \cup {"dropped"} /\ pc' = "free"
  /\ UNCHANGED <<row, process, layer, mounted, bundle, marker, image, archive,
                 task, loop, done, alive, promised>>

-----------------------------------------------------------------------------
(* The end of a restore, and settle_restores. *)

\* Mutant: the restore is not noted.
NoteRestoredNot ==
  /\ pc = "note"
  /\ pc' = "walk"
  /\ UNCHANGED <<row, process, files, task, loop, history, spent>>

\* note_restored: written as the restore returns.
NoteRestored ==
  /\ pc = "note"
  /\ marker' = "young" /\ pc' = "walk"
  /\ mishaps' = mishaps \ {"unnoted"}
  /\ UNCHANGED <<row, process, layer, mounted, bundle, image, attempt, archive,
                 task, loop, done, alive, promised, spent>>

\* It cannot be written, which is logged.
NoteFails ==
  /\ pc = "note"
  /\ Spend("error")
  /\ pc' = "walk" /\ mishaps' = mishaps \cup {"unnoted"}
  /\ UNCHANGED <<row, process, files, task, loop, done, alive, promised>>

\* The loop draws its lists between its commands, which a thread's work on the
\* sandbox does not stop.
Listing == loop = "idle" /\ (pc = "free" \/ lockedBy = "thread")

\* survived_restores, without the lock.
ListLasted ==
  /\ Listing /\ marker = "old" /\ proc # "none"
  /\ loop' = "settle"
  /\ UNCHANGED <<row, process, files, pc, task, history, spent>>

\* forget_restore, if the lock is to be had: the marker, then the image.
Settle ==
  /\ loop = "settle" /\ loop' = "idle"
  /\ IF pc = "free" /\ marker # "none"
     THEN marker' = "none" /\ pc' = "unkeep" /\ lockedBy' = "loop"
     ELSE UNCHANGED <<marker, pc, lockedBy>>
  /\ UNCHANGED <<row, process, layer, mounted, bundle, image, attempt, archive,
                 want, history, spent>>

Unkeep ==
  /\ pc = "unkeep"
  /\ image' = None /\ attempt' = None /\ pc' = "free"
  /\ mishaps' = mishaps \ {"unnoted"}
  /\ UNCHANGED <<row, process, layer, mounted, bundle, marker, archive, task,
                 loop, done, alive, promised, spent>>

-----------------------------------------------------------------------------
(* detach *)

\* tar and zstd into a temporary file, renamed over the archive.
Archive ==
  /\ pc = "archive"
  /\ archive' = layer /\ pc' = "drop"
  /\ UNCHANGED <<row, process, layer, mounted, bundle, marker, image, attempt,
                 task, loop, history, spent>>

\* Any stage fails, the sync after the rename included: the layer stays
\* unmounted.
ArchiveFails ==
  /\ pc = "archive"
  /\ Spend("error")
  /\ archive' \in {archive, layer}
  /\ pc' = "free"
  /\ UNCHANGED <<row, process, layer, mounted, bundle, marker, image, attempt,
                 task, loop, history>>

\* drop_snapshot: from here the archive is all there is.
DropImage ==
  /\ pc = "drop"
  /\ image' = None /\ attempt' = None /\ pc' = "teardown"
  /\ alive' = FALSE /\ promised' = archive
  /\ UNCHANGED <<row, process, layer, mounted, bundle, marker, archive, task,
                 loop, done, mishaps, spent>>

\* Mutant: the bundle is left behind.
TeardownKeepsBundle ==
  /\ pc = "teardown"
  /\ layer' = None /\ mounted' = FALSE /\ marker' = "none"
  /\ pc' = "free"
  /\ UNCHANGED <<row, process, bundle, image, attempt, archive, task, loop,
                 history, spent>>

Teardown ==
  /\ pc = "teardown"
  /\ layer' = None /\ mounted' = FALSE /\ bundle' = "none" /\ marker' = "none"
  /\ pc' = "free"
  /\ UNCHANGED <<row, process, image, attempt, archive, task, loop, history,
                 spent>>

-----------------------------------------------------------------------------
(* create *)

\* The bundle is written, an archived layer unpacked, the overlay mounted.
\* Over a layer that is already mounted an archive cannot be laid.
Prepare ==
  /\ pc = "prepare"
  /\ bundle' = IF bundle = "none" THEN "young" ELSE bundle
  /\ IF mounted THEN UNCHANGED layer
     ELSE layer' = IF archive # None THEN archive
                   ELSE IF layer # None THEN layer ELSE 0
  /\ mounted' = TRUE
  /\ pc' = IF mounted /\ archive # None THEN "free" ELSE "boot"
  /\ UNCHANGED <<row, process, marker, image, attempt, archive, task, loop,
                 history, spent>>

\* A cold start: the program starts over, from the files its layer has.
Boot ==
  /\ pc = "boot"
  /\ proc' = "up" /\ memory' = layer
  /\ done' = layer /\ alive' = TRUE /\ promised' = None
  /\ mishaps' = mishaps \cap {"unkilled", "unnoted"}
  /\ pc' = "free"
  /\ UNCHANGED <<row, files, task, loop, spent>>

BootFails ==
  /\ pc = "boot"
  /\ Spend("error")
  /\ pc' = "free" /\ promised' = None
  /\ UNCHANGED <<row, process, files, task, loop, done, alive, mishaps>>

-----------------------------------------------------------------------------
(* destroy, for the master or for reap_dead. *)

\* Runtime::dead, without the lock: an aged bundle with nothing running and
\* no image.
ListDead ==
  /\ Listing
  /\ bundle = "old" /\ proc = "none" /\ image = None
  /\ loop' = "reap"
  /\ UNCHANGED <<row, process, files, pc, task, history, spent>>

Reap ==
  /\ loop = "reap" /\ loop' = "idle"
  /\ IF pc = "free" THEN pc' = "kill" /\ lockedBy' = "loop"
                    ELSE UNCHANGED <<pc, lockedBy>>
  /\ UNCHANGED <<row, process, files, want, history, spent>>

\* A destroy that the master asks for gives up what the program has done.
GivenUp ==
  /\ alive' = (alive /\ lockedBy = "loop")
  /\ mishaps' = IF lockedBy = "loop" /\ Observed # None
                THEN mishaps \cup {"reaped"} ELSE mishaps

\* Mutant: the program is not killed first.
KillNot ==
  /\ pc = "kill" /\ pc' = "rmimage"
  /\ GivenUp
  /\ UNCHANGED <<row, process, files, task, loop, done, promised, spent>>

Kill ==
  /\ pc = "kill" /\ pc' = "rmimage"
  /\ proc' = "none" /\ memory' = None
  /\ GivenUp
  /\ UNCHANGED <<row, files, task, loop, done, promised, spent>>

\* The cgroup is not empty after five seconds, and the destroy goes on.
KillFails ==
  /\ pc = "kill" /\ proc # "none" /\ pc' = "rmimage"
  /\ Spend("error")
  /\ proc' \in {"up", proc}
  /\ alive' = FALSE /\ mishaps' = mishaps \cup {"unkilled"}
  /\ UNCHANGED <<row, memory, files, task, loop, done, promised>>

RemoveImage ==
  /\ pc = "rmimage"
  /\ image' = None /\ attempt' = None /\ pc' = "rmlayer"
  /\ UNCHANGED <<row, process, layer, mounted, bundle, marker, archive, task,
                 loop, history, spent>>

RemoveLayer ==
  /\ pc = "rmlayer"
  /\ layer' = None /\ mounted' = FALSE /\ bundle' = "none" /\ marker' = "none"
  /\ pc' = "rmarchive"
  /\ UNCHANGED <<row, process, image, attempt, archive, task, loop, history,
                 spent>>

RemoveArchive ==
  /\ pc = "rmarchive"
  /\ archive' = None /\ pc' = "free"
  /\ UNCHANGED <<row, process, layer, mounted, bundle, marker, image, attempt,
                 task, loop, history, spent>>

-----------------------------------------------------------------------------
(* Time and faults. *)

BundleAges ==
  /\ bundle = "young" /\ bundle' = "old"
  /\ UNCHANGED <<row, process, layer, mounted, marker, image, attempt, archive,
                 pc, task, loop, history, spent>>

MarkerAges ==
  /\ marker = "young" /\ marker' = "old"
  /\ UNCHANGED <<row, process, layer, mounted, bundle, image, attempt, archive,
                 pc, task, loop, history, spent>>

Dies ==
  /\ proc # "none"
  /\ Spend("death")
  /\ proc' = "none" /\ memory' = None /\ mishaps' = mishaps \cup {"died"}
  /\ UNCHANGED <<row, files, pc, task, loop, done, alive, promised>>

\* The node's process is gone and comes back: locks and lists are, too, and
\* what an attempt holds will never be published.
NodeRestarts ==
  /\ Spend("restart")
  /\ pc' = "free" /\ loop' = "idle"
  /\ mishaps' = mishaps \cup {m \in {"dropped"} : pc = "publish"}
                       \cup {m \in {"unnoted"} : pc \in {"note", "stale", "unkeep"}}
  /\ promised' = IF pc \in {"teardown", "boot"} THEN None ELSE promised
  /\ UNCHANGED <<row, process, files, task, done, alive>>

-----------------------------------------------------------------------------
Commands == StartCreate \/ StartSetTier \/ StartDestroy

\* What the lock's holder does next.
Step ==
  \/ WalkEnds \/ WalkFreezes \/ WalkThaws \/ WalkCheckpoints \/ WalkRestores
  \/ WalkRefused \/ WalkDetaches \/ WalkFails
  \/ Forget \/ ClearStale \/ ClearStaleFails \/ Stop \/ StopFails \/ Publish \/ PublishFails
  \/ NoteRestored \/ NoteFails \/ Unkeep
  \/ Archive \/ ArchiveFails \/ DropImage \/ Teardown
  \/ Prepare \/ Boot \/ BootFails
  \/ Kill \/ KillFails \/ RemoveImage \/ RemoveLayer \/ RemoveArchive

Lists == ListLasted \/ Settle \/ ListDead \/ Reap

\* Nothing to do: the node holds what the row asks for.
DiskAtRest ==
  /\ pc = "free" /\ loop = "idle"
  /\ Observed = IF row \in {NoRow, Detached} THEN None ELSE row
  /\ UNCHANGED diskVars

DiskNext ==
  \/ \E t \in Tier : Ask(t)
  \/ Delete \/ Progress \/ Commands
  \/ GateMoves(Hot) \/ GateMoves(Snapshot)
  \/ Step \/ Lists
  \/ BundleAges \/ MarkerAges \/ Dies \/ NodeRestarts \/ DiskAtRest

DiskSpec == DiskInit /\ [][DiskNext]_diskVars

-----------------------------------------------------------------------------
(* Properties. *)

\* unmount in bundle.rs: "by detach time the sandbox is already checkpointed and
\* gone".  A running program has its own layer mounted under it, whatever was cut
\* short before it was started, unless it was restored after a detach that
\* failed, or a destroy has failed to kill it.
RunsOnItsLayer ==
  mishaps \cap {"bared", "unkilled"} = {} /\ proc # "none" => mounted /\ layer # None

\* No tier change loses what the program has done or brings back an older
\* state: its memory is in the process or in one image, and its files are from
\* the same moment.  So it is from a cold start until the program dies, a
\* checkpoint stops it and comes to no image, reap_dead takes it for dead while
\* it is being put to disk, it is restored without its layer, or the master has
\* it destroyed.
MemoryKept ==
  alive /\ mishaps \subseteq {"unnoted"} =>
    /\ layer = done
    /\ IF proc # "none" THEN memory = done ELSE done \in {image, attempt}

\* restore: "It stays until the sandbox has lasted".  An image beside a running
\* program is one whose restore is noted, so that settle_restores or the next
\* checkpoint removes it, unless the note could not be written, the image could
\* not be removed with it, or a restart came between the two.
ImageAccounted ==
  proc # "none" /\ image # None =>
    marker # "none" \/ pc \in {"note", "stale", "unkeep"} \/ "unnoted" \in mishaps

\* ADR 3: "A detached sandbox comes back by a cold start plus unpacking its
\* layer from the volume".  Until it has, or its row is deleted, the archive
\* its detach left is there, unless a restart or a failed start has left a
\* bundle beside it, which reap_dead takes for a sandbox that died.
DetachedKept == promised # None /\ row # NoRow => archive = promised
=============================================================================
