------------------------------- MODULE Vm -------------------------------
(***************************************************************************)
(* The firecracker backend: what is in a VM's memory and on its disk, and  *)
(* in the images taken of them.                                            *)
(*                                                                         *)
(* An image is a directory: a chain of memory files, mem.0 whole and every *)
(* later one sparse, and the disk as it was while the VM was paused.  A VM *)
(* restored from an image, or branched into one, keeps that image's chain  *)
(* hard-linked as its base, and its next checkpoint holds only the pages   *)
(* written since: by KVM's dirty log if it was booted, by the soft-dirty   *)
(* bits of its process if it was loaded.  A chain of more than one file is *)
(* assembled once into a cache inside the image, which every fork maps.    *)
(*                                                                         *)
(* One operation runs on a VM at a time (the node's lock); operations on   *)
(* different VMs interleave, and any step may fail.  A restart of the node *)
(* forgets its operations and leaves the VMs as they are.                  *)
(***************************************************************************)
EXTENDS Naturals, Sequences, FiniteSets

CONSTANTS
  Vms,        \* the sandboxes
  Tags,       \* tag names; each is branched into at most once
  Pages,      \* the pages of a guest's memory
  MaxChain,   \* MAX_CHAIN: the length from which a checkpoint is whole again
  Warm,       \* the directory of the template's warm image
  Nil,        \* no image, no file
  MaxWrites,  \* bound: writes by guests
  MaxFaults,  \* bound: steps that fail, deaths and restarts
  MaxCrashes, \* bound: restarts of the node among them
  MaxSeeds,   \* bound: warm images taken
  MaxOps      \* bound: creates, checkpoints and wakes asked for

ASSUME ChainAssumption == MaxChain \in Nat \ {0}
ASSUME SeedAssumption == MaxSeeds \in Nat
ASSUME NameAssumption == /\ Vms \cap Tags = {}
                         /\ Warm \notin Vms \cup Tags
                         /\ Nil \notin Vms \cup Tags \cup {Warm}

Dirs == Vms \cup Tags \cup {Warm}     \* a VM's own snapshot goes by its name

VARIABLES
  vm,       \* a VM: its process, memory and disk, and what tracks its writes
  images,   \* the image in each directory, or Nil
  op,       \* the operation under way on a VM, or Idle
  att,      \* the attempt directory of a VM's checkpoint, or Nil
  seed,     \* the warm seed's thread: where it is
  failed,   \* the marker of a warm image that could not be taken, or did not last
  noted,    \* warm_started: the warm image a VM started from a moment ago, or 0
  clock,    \* writes by guests so far; each writes a value of its own
  used,     \* tags ever branched into
  count,    \* the bounds' counters
  \* What was captured, for the properties.
  truth,    \* what an image must hold: the memory and the disk at the pause
  owed,     \* VMs whose state must be held somewhere
  adrift,   \* of these, branched ones whose last state only the tag's image may hold
  stuck,    \* VMs left paused: by a pause, a resume, a seal or a publish that
            \* failed, or by a restart
  short,    \* VMs whose dirty pages were lost, or whose memory was not the image's
  thin,     \* images taken of one
  raced,    \* images two restores assembled at once
  diedOf    \* the warm image a VM died of, while the node remembers it, or 0

vars == <<vm, images, op, att, seed, failed, noted, clock, used, count,
          truth, owed, adrift, stuck, short, thin, raced, diedOf>>
disk == <<images, att, seed, failed, noted>>
ghosts == <<truth, owed, adrift, stuck, short, thin, raced, diedOf>>

Zero == [p \in Pages |-> 0]
Idle == [kind |-> "idle", dir |-> Nil, step |-> "none", at |-> 0]
Off == [st |-> "off", mem |-> Zero, disk |-> 0, base |-> <<>>,
        kvm |-> {}, soft |-> {}, marked |-> FALSE]

\* A guest's memory; a memory file, whole or with holes; an image.
Memory == [Pages -> Nat]
File   == UNION {[D -> Nat] : D \in SUBSET Pages}
Image  == [chain : Seq(File), disk : Nat, asm : Memory \cup {Nil}, tmp : Memory \cup {Nil},
           gen : Nat]
ASSUME NilAssumption == Nil \notin Image

\* A warm image: of a sandbox just booted, so whole, and the template's disk.
WarmImage(gen) == [chain |-> <<Zero>>, disk |-> 0, asm |-> Nil, tmp |-> Nil, gen |-> gen]

\* A node with nothing on it but, perhaps, a warm image of the template.
Init ==
  /\ vm = [v \in Vms |-> Off]
  /\ \E gen \in 0..MaxSeeds :
       /\ images = [d \in Dirs |-> IF d = Warm /\ gen # 0 THEN WarmImage(gen) ELSE Nil]
       /\ count = [faults |-> 0, crashes |-> 0, seeds |-> gen, ops |-> 0]
  /\ op = [v \in Vms |-> Idle]
  /\ att = [v \in Vms |-> Nil]
  /\ seed = "none" /\ failed = FALSE
  /\ noted = [v \in Vms |-> 0]
  /\ clock = 0 /\ used = {}
  /\ truth = [d \in Dirs |-> [mem |-> Zero, disk |-> 0]]
  /\ owed = {} /\ adrift = {} /\ stuck = {} /\ short = {} /\ thin = {} /\ raced = {}
  /\ diedOf = [v \in Vms |-> 0]

Asked == /\ count.ops < MaxOps
         /\ count' = [count EXCEPT !.ops = @ + 1]

Faulty == /\ count.faults < MaxFaults
          /\ count' = [count EXCEPT !.faults = @ + 1]

(***************************************************************************)
(* Memory files.                                                           *)
(***************************************************************************)
\* apply_diff: the data of a sparse file over a base, its holes left alone.
ApplyDiff(diff, base) ==
  [p \in Pages |-> IF p \in DOMAIN diff THEN diff[p] ELSE base[p]]

\* What the first n files of a chain show of a page: what the last of them with
\* data for it has there.
Shows(chain, n, p, x) ==
  \E k \in 1..n : /\ p \in DOMAIN chain[k] /\ chain[k][p] = x
                  /\ \A j \in (k + 1)..n : p \notin DOMAIN chain[j]

\* The memory a chain stands for.
Stands(chain, mem) == \A p \in Pages : Shows(chain, Len(chain), p, mem[p])

\* The pages that tell a diff what to hold.
Dirty(v) == IF vm[v].marked THEN vm[v].soft ELSE vm[v].kvm

\* Whether the next checkpoint is a diff: there is a base, and room on its chain.
IsDiff(v) == vm[v].base # <<>> /\ Len(vm[v].base) < MaxChain

\* Mutant: only pages KVM logged, which it does not for a loaded VM.
NextChainKvm(v) ==
  IF IsDiff(v)
  THEN Append(vm[v].base, [p \in vm[v].kvm |-> vm[v].mem[p]])
  ELSE <<vm[v].mem>>

\* The chain of the image being taken: the base linked in and one diff more,
\* or a whole file where there is no base, or too long a one.
NextChain(v) ==
  IF IsDiff(v)
  THEN Append(vm[v].base, [p \in Dirty(v) |-> vm[v].mem[p]])
  ELSE <<vm[v].mem>>

(***************************************************************************)
(* The guest.                                                              *)
(***************************************************************************)
\* A guest writes a page of its memory and a block of its disk.
GuestWrites(v, p) ==
  /\ vm[v].st = "running" /\ clock < MaxWrites
  /\ clock' = clock + 1
  /\ vm' = [vm EXCEPT ![v].mem[p] = clock + 1, ![v].disk = clock + 1,
                      ![v].kvm = IF vm[v].marked THEN @ ELSE @ \cup {p},
                      ![v].soft = @ \cup {p}]
  /\ UNCHANGED <<images, op, att, seed, failed, noted, used, count, ghosts>>

\* A VM's process ends by itself: a panic, or the host's out-of-memory killer.
Dies(v) ==
  /\ vm[v].st # "off" /\ Faulty
  /\ vm' = [vm EXCEPT ![v].st = "off"]
  /\ owed' = owed \ {v} /\ adrift' = adrift \ {v} /\ stuck' = stuck \ {v}
  /\ diedOf' = [diedOf EXCEPT ![v] = noted[v]]
  /\ UNCHANGED <<disk, op, clock, used, truth, short, thin, raced>>

(***************************************************************************)
(* Firecracker::checkpoint, for a branch into a tag or for a snapshot.     *)
(***************************************************************************)
\* A snapshot first clears the image a restore left behind; then the VM is
\* paused, and an attempt started beside the destination.
CkptStart(v, kind, dir) ==
  /\ op[v] = Idle /\ vm[v].st \in {"running", "paused"} /\ Asked
  /\ vm' = [vm EXCEPT ![v].st = "paused"]
  /\ op' = [op EXCEPT ![v] = [kind |-> kind, dir |-> dir, step |-> "memory", at |-> 0]]
  /\ att' = [att EXCEPT ![v] = Nil]
  /\ images' = IF kind = "snapshot" THEN [images EXCEPT ![v] = Nil] ELSE images
  /\ stuck' = stuck \ {v}
  /\ UNCHANGED <<seed, failed, noted, clock, truth, owed, adrift, short, thin, raced, diedOf>>

\* The pause fails, or is not answered in time: that is the end of it, with the
\* VM paused perhaps, and not resumed.
PauseFails(v, kind) ==
  /\ op[v] = Idle /\ vm[v].st \in {"running", "paused"} /\ Faulty
  /\ \E st \in {vm[v].st, "paused"} :
       /\ vm' = [vm EXCEPT ![v].st = st]
       /\ stuck' = IF st = "paused" THEN stuck \cup {v} ELSE stuck
  /\ images' = IF kind = "snapshot" THEN [images EXCEPT ![v] = Nil] ELSE images
  /\ UNCHANGED <<op, att, seed, failed, noted, clock, used, truth, owed, adrift, short, thin,
                 raced, diedOf>>

BranchStart(v, t) ==
  /\ t \notin used /\ images[t] = Nil
  /\ used' = used \cup {t}
  /\ CkptStart(v, "branch", t)

SnapshotStart(v) == CkptStart(v, "snapshot", v) /\ UNCHANGED used

\* The memory.  KVM's log starts again with a snapshot Firecracker itself
\* takes; the soft-dirty bits are left until the VM resumes.
CkptMemory(v) ==
  /\ op[v].step = "memory" /\ vm[v].st = "paused"
  /\ att' = [att EXCEPT ![v] = [chain |-> NextChain(v), disk |-> Nil]]
  /\ vm' = [vm EXCEPT ![v].kvm = IF IsDiff(v) /\ vm[v].marked THEN @ ELSE {}]
  /\ op' = [op EXCEPT ![v].step = "disk"]
  /\ UNCHANGED <<images, seed, failed, noted, clock, used, count, ghosts>>

\* Paused, so the disk is exactly what the memory expects.
CkptDisk(v) ==
  /\ op[v].step = "disk"
  /\ att' = [att EXCEPT ![v].disk = vm[v].disk]
  /\ op' = [op EXCEPT ![v].step = "publish"]
  /\ UNCHANGED <<vm, images, seed, failed, noted, clock, used, count, ghosts>>

\* From when KVM's log is reset to when the image is the base, giving up loses
\* the pages the log had.
Taken == {"disk", "publish", "resume", "remove"}
LosesPages(v) == op[v].step \in Taken /\ ~vm[v].marked /\ vm[v].base # <<>>

\* Mutant: left paused where the memory or the disk could not be written.
CkptFailsPaused(v) ==
  /\ op[v].step \in {"memory", "disk"}
  /\ IF vm[v].st = "off" THEN UNCHANGED count ELSE Faulty
  /\ att' = [att EXCEPT ![v] = Nil]
  /\ op' = [op EXCEPT ![v] = Idle]
  /\ short' = IF LosesPages(v) THEN short \cup {v} ELSE short
  /\ UNCHANGED <<vm, images, seed, failed, noted, clock, used, truth, owed, adrift, stuck, thin,
                 raced, diedOf>>

\* The memory or the disk could not be written: the VM is resumed, and stays
\* paused only if that fails too.
CkptFails(v) ==
  /\ op[v].step \in {"memory", "disk"}
  /\ IF vm[v].st = "off" THEN UNCHANGED <<vm, count, stuck>>
     ELSE /\ Faulty
          /\ \/ vm' = [vm EXCEPT ![v].st = "running"] /\ UNCHANGED stuck
             \/ stuck' = stuck \cup {v} /\ UNCHANGED vm
  /\ att' = [att EXCEPT ![v] = Nil]
  /\ op' = [op EXCEPT ![v] = Idle]
  /\ short' = IF LosesPages(v) THEN short \cup {v} ELSE short
  /\ UNCHANGED <<images, seed, failed, noted, clock, used, truth, owed, adrift, thin, raced,
                 diedOf>>

\* checkpoint_into: the attempt is checked, sealed, and renamed into place.
CkptPublish(v) ==
  LET d == op[v].dir IN
  /\ op[v].step = "publish" /\ images[d] = Nil
  /\ images' = [images EXCEPT ![d] = [chain |-> att[v].chain, disk |-> att[v].disk,
                                      asm |-> Nil, tmp |-> Nil, gen |-> 0]]
  /\ att' = [att EXCEPT ![v] = Nil]
  /\ truth' = [truth EXCEPT ![d] = [mem |-> vm[v].mem, disk |-> vm[v].disk]]
  /\ thin' = IF v \in short /\ Len(att[v].chain) > 1 THEN thin \cup {d} ELSE thin \ {d}
  /\ raced' = raced \ {d}
  /\ op' = [op EXCEPT ![v].step = IF op[v].kind = "branch" THEN "resume" ELSE "remove"]
  /\ UNCHANGED <<vm, seed, failed, noted, clock, used, count, owed, adrift, stuck, short, diedOf>>

\* The seal or the rename fails: the attempt is removed and the error
\* returned, with the VM still paused.
PublishFails(v) ==
  /\ op[v].step = "publish" /\ Faulty
  /\ att' = [att EXCEPT ![v] = Nil]
  /\ op' = [op EXCEPT ![v] = Idle]
  /\ stuck' = IF vm[v].st = "paused" THEN stuck \cup {v} ELSE stuck
  /\ short' = IF LosesPages(v) THEN short \cup {v} ELSE short
  /\ UNCHANGED <<vm, images, seed, failed, noted, clock, used, truth, owed, adrift, thin, raced,
                 diedOf>>

\* Runtime::checkpoint: the process is removed, the image is what is left.
SnapshotEnds(v) ==
  /\ op[v].step = "remove"
  /\ vm' = [vm EXCEPT ![v].st = "off"]
  /\ op' = [op EXCEPT ![v] = Idle]
  /\ UNCHANGED <<disk, clock, used, count, ghosts>>

(***************************************************************************)
(* Runtime::branch, once the image is there.                               *)
(***************************************************************************)
\* Mutant: the parent keeps the base it had.
BranchResumesOldBase(v) ==
  /\ op[v].step = "resume" /\ vm[v].st = "paused"
  /\ vm' = [vm EXCEPT ![v].st = "running",
                      ![v].soft = IF vm[v].marked THEN {} ELSE @]
  /\ op' = [op EXCEPT ![v] = Idle]
  /\ short' = IF op[v].dir \in thin THEN short \cup {v} ELSE short \ {v}
  /\ UNCHANGED <<disk, clock, used, count, truth, owed, adrift, stuck, thin, raced, diedOf>>

\* resume_after_checkpoint: the image's chain is the base of the next one.
BranchResumes(v) ==
  /\ op[v].step = "resume" /\ vm[v].st = "paused"
  /\ vm' = [vm EXCEPT ![v].st = "running",
                      ![v].base = images[op[v].dir].chain,
                      ![v].soft = IF vm[v].marked THEN {} ELSE @]
  /\ op' = [op EXCEPT ![v] = Idle]
  /\ short' = IF op[v].dir \in thin THEN short \cup {v} ELSE short \ {v}
  /\ UNCHANGED <<disk, clock, used, count, truth, owed, adrift, stuck, thin, raced, diedOf>>

\* It will not resume, or is not there any more: it is removed, and restored
\* from the image it has just produced.
BranchRestores(v) ==
  /\ op[v].step = "resume"
  /\ IF vm[v].st = "paused" THEN Faulty ELSE UNCHANGED count
  /\ vm' = [vm EXCEPT ![v].st = "off"]
  /\ op' = [op EXCEPT ![v].kind = "back", ![v].step = "take"]
  /\ UNCHANGED <<disk, clock, used, ghosts>>

(***************************************************************************)
(* Firecracker::restore, from a tag, a warm image or a VM's own snapshot.  *)
(***************************************************************************)
\* The disk becomes the one taken with the memory about to be loaded.
RestoreDisk(v) ==
  LET d == op[v].dir IN
  /\ op[v].step = "take" /\ images[d] # Nil
  /\ vm' = [vm EXCEPT ![v].disk = images[d].disk]
  /\ op' = [op EXCEPT ![v].step = "assemble"]
  /\ UNCHANGED <<disk, clock, used, count, ghosts>>

\* A chain of one, or one assembled before, is loaded as it is.
AssembleNone(v) ==
  LET i == images[op[v].dir] IN
  /\ op[v].step = "assemble" /\ i # Nil
  /\ Len(i.chain) = 1 \/ i.asm # Nil
  /\ op' = [op EXCEPT ![v].step = "load"]
  /\ UNCHANGED <<vm, disk, clock, used, count, ghosts>>

Assembling(d) == {v \in Vms : op[v].dir = d /\ op[v].step = "apply"}

\* The file the chain is assembled in is named for the node's process, and so
\* the same for every restore: what another left there is removed.
AssembleStart(v) ==
  LET d == op[v].dir IN
  /\ op[v].step = "assemble" /\ images[d] # Nil
  /\ Len(images[d].chain) > 1 /\ images[d].asm = Nil
  /\ images' = [images EXCEPT ![d].tmp = images[d].chain[1]]
  /\ op' = [op EXCEPT ![v].step = "apply", ![v].at = 2]
  /\ raced' = IF Assembling(d) # {} THEN raced \cup {d} ELSE raced
  /\ UNCHANGED <<vm, att, seed, failed, noted, clock, used, count,
                 truth, owed, adrift, stuck, short, thin, diedOf>>

AssembleApply(v) ==
  LET i == images[op[v].dir] IN
  /\ op[v].step = "apply" /\ i # Nil /\ i.tmp # Nil
  /\ op[v].at <= Len(i.chain)
  /\ images' = [images EXCEPT ![op[v].dir].tmp = ApplyDiff(i.chain[op[v].at], @)]
  /\ op' = [op EXCEPT ![v].at = @ + 1]
  /\ UNCHANGED <<vm, att, seed, failed, noted, clock, used, count, ghosts>>

\* Mutant: the cache is in place before its last diff is.
AssembleEndsEarly(v) ==
  LET i == images[op[v].dir] IN
  /\ op[v].step = "apply" /\ i # Nil /\ i.tmp # Nil
  /\ op[v].at >= Len(i.chain)
  /\ images' = [images EXCEPT ![op[v].dir].asm = i.tmp, ![op[v].dir].tmp = Nil]
  /\ op' = [op EXCEPT ![v].step = "load", ![v].at = 0]
  /\ UNCHANGED <<vm, att, seed, failed, noted, clock, used, count, ghosts>>

AssembleEnds(v) ==
  LET i == images[op[v].dir] IN
  /\ op[v].step = "apply" /\ i # Nil /\ i.tmp # Nil
  /\ op[v].at > Len(i.chain)
  /\ images' = [images EXCEPT ![op[v].dir].asm = i.tmp, ![op[v].dir].tmp = Nil]
  /\ op' = [op EXCEPT ![v].step = "load", ![v].at = 0]
  /\ UNCHANGED <<vm, att, seed, failed, noted, clock, used, count, ghosts>>

\* The memory file a restore loads.
MemFile(i) == IF Len(i.chain) = 1 THEN i.chain[1] ELSE i.asm

\* The chain is linked as the base, a process started, and the memory loaded
\* into it, stopped, with its writes tracked by soft-dirty bits from here.
Load(v) ==
  LET i == images[op[v].dir] IN
  /\ op[v].step = "load" /\ i # Nil
  /\ vm' = [vm EXCEPT ![v].st = "paused", ![v].mem = MemFile(i),
                      ![v].base = i.chain, ![v].kvm = {},
                      ![v].soft = {}, ![v].marked = TRUE]
  /\ op' = [op EXCEPT ![v].step = "loaded"]
  /\ short' = IF op[v].dir \in thin \cup raced THEN short \cup {v} ELSE short \ {v}
  /\ UNCHANGED <<disk, clock, used, count, truth, owed, adrift, stuck, thin, raced, diedOf>>

\* Resumed, with its disk re-pointed at its own.  A warm start is noted, by the
\* image that is there now, to be distrusted if the sandbox does not last.
RestoreEnds(v) ==
  /\ op[v].step = "loaded" /\ vm[v].st = "paused"
  /\ vm' = [vm EXCEPT ![v].st = "running"]
  /\ noted' = [noted EXCEPT ![v] =
                 IF op[v].kind # "warm" THEN @
                 ELSE IF images[Warm] = Nil THEN 0 ELSE images[Warm].gen]
  /\ owed' = owed \cup {v} /\ adrift' = adrift \ {v}
  /\ op' = [op EXCEPT ![v] = Idle]
  /\ UNCHANGED <<images, att, seed, failed, clock, used, count, truth, stuck, short, thin, raced,
                 diedOf>>

\* Mutant: the image of a parent that did not come back stays a tag.
PreserveNot(v, saved) == UNCHANGED <<images, truth, owed, adrift, thin, raced>>

\* A parent that did not come back from its branch has the image for its
\* snapshot: the tag was never registered.  Moving it may fail too, and leave it
\* the tag's.
Preserve(v, saved) ==
  LET d == op[v].dir
      also(set) == IF d \in set THEN set \cup {v} ELSE set \ {v}
  IN
  IF saved
  THEN /\ images' = [images EXCEPT ![v] = images[d], ![d] = Nil]
       /\ truth' = [truth EXCEPT ![v] = truth[d]]
       /\ thin' = also(thin) /\ raced' = also(raced)
       /\ UNCHANGED <<owed, adrift>>
  ELSE /\ images' = [images EXCEPT ![v] = Nil]
       /\ adrift' = adrift \cup ({v} \cap owed)
       /\ UNCHANGED <<truth, owed, thin, raced>>

\* A step fails: the process does not start or will not load, there is no room
\* for the assembled memory, the image or the file in it has gone, the VM has
\* died.  It is never left half-loaded.  A warm start boots instead; a fork
\* and a wake are the master's to ask for again.
RestoreFails(v, saved) ==
  LET i == images[op[v].dir]
      forced == \/ op[v].step # "loaded" /\ i = Nil
                \/ op[v].step = "apply" /\ (IF i = Nil THEN TRUE ELSE i.tmp = Nil)
                \/ op[v].step = "loaded" /\ vm[v].st = "off"
  IN
  /\ op[v].step \in {"take", "assemble", "apply", "load", "loaded"}
  /\ IF forced THEN UNCHANGED count ELSE Faulty
  /\ op' = [op EXCEPT ![v] = IF op[v].kind = "warm"
                            THEN [Idle EXCEPT !.kind = "cold", !.step = "boot"] ELSE Idle]
  /\ vm' = [vm EXCEPT ![v].st = "off"]
  /\ IF op[v].kind = "back" THEN Preserve(v, saved)
     ELSE saved /\ UNCHANGED <<images, truth, owed, adrift, thin, raced>>
  /\ UNCHANGED <<att, seed, failed, noted, clock, used, stuck, short, diedOf>>

(***************************************************************************)
(* Runtime::create, and the way back from a snapshot.                      *)
(***************************************************************************)
Begin(v, kind, dir, step) ==
  /\ op[v] = Idle /\ vm[v].st = "off" /\ images[v] = Nil
  /\ Asked
  /\ op' = [op EXCEPT ![v] = [kind |-> kind, dir |-> dir, step |-> step, at |-> 0]]
  /\ owed' = owed \ {v} /\ adrift' = adrift \ {v}

\* A fork: from the tag's image, whatever the disk held before.  The master
\* knows a tag once its branch has answered.
CreateFork(v, t) ==
  /\ images[t] # Nil /\ \A w \in Vms : op[w].dir = t => op[w].kind = "fork"
  /\ Begin(v, "fork", t, "take")
  /\ UNCHANGED <<vm, disk, clock, used, truth, stuck, short, thin, raced, diedOf>>

\* Mutant: an image that killed its sandbox is kept.
DistrustNever(v) == images

\* distrust_warm_image: being created again a moment after a warm start, it
\* died of the image it started from, which goes if it is still that one.
Distrust(v) ==
  IF noted[v] # 0 /\ images[Warm] # Nil /\ images[Warm].gen = noted[v]
  THEN [images EXCEPT ![Warm] = Nil] ELSE images

\* Cold, or warm if the image is ready; if not, one may be taken for the next.
\* Only an image that is young leaves the marker that holds a seed back.
CreateCold(v, young, spare) ==
  LET kept == Distrust(v)
      isReady == kept[Warm] # Nil
      mark == failed \/ (kept # images /\ young)
  IN
  /\ Begin(v, IF isReady THEN "warm" ELSE "cold", IF isReady THEN Warm ELSE Nil,
              IF isReady THEN "take" ELSE "boot")
  /\ images' = kept
  /\ noted' = [noted EXCEPT ![v] = 0]
  /\ failed' = mark
  /\ seed' = IF ~isReady /\ ~mark /\ spare /\ seed = "none" /\ count.seeds < MaxSeeds
             THEN "boot" ELSE seed
  /\ UNCHANGED <<vm, att, clock, used, truth, stuck, short, thin, raced, diedOf>>

\* Firecracker::boot: no image under it, so its first checkpoint is whole.
Boot(v) ==
  /\ op[v].step = "boot"
  /\ vm' = [vm EXCEPT ![v] = [Off EXCEPT !.st = "running", !.disk = vm[v].disk]]
  /\ op' = [op EXCEPT ![v] = Idle]
  /\ owed' = owed \cup {v} /\ short' = short \ {v}
  /\ UNCHANGED <<disk, clock, used, count, truth, adrift, stuck, thin, raced, diedOf>>

BootFails(v) ==
  /\ op[v].step = "boot" /\ Faulty
  /\ vm' = [vm EXCEPT ![v].base = <<>>, ![v].marked = FALSE]
  /\ op' = [op EXCEPT ![v] = Idle]
  /\ UNCHANGED <<disk, clock, used, ghosts>>

\* Runtime::restore: back from its own snapshot.
Wake(v) ==
  /\ op[v] = Idle /\ vm[v].st = "off" /\ images[v] # Nil /\ Asked
  /\ op' = [op EXCEPT ![v] = [kind |-> "own", dir |-> v, step |-> "take", at |-> 0]]
  /\ UNCHANGED <<vm, disk, clock, used, ghosts>>

\* settle_restores: the image of a sandbox that has lasted is removed.
Settle(v) ==
  /\ op[v] = Idle /\ vm[v].st = "running" /\ images[v] # Nil
  /\ images' = [images EXCEPT ![v] = Nil]
  /\ UNCHANGED <<vm, op, att, seed, failed, noted, clock, used, count, ghosts>>

\* drop_tag.  The images derived from it hold links of their own.
DropTag(t) ==
  /\ images[t] # Nil
  /\ \A v \in Vms : op[v].dir = t => op[v].kind = "fork"
  /\ images' = [images EXCEPT ![t] = Nil]
  /\ UNCHANGED <<vm, op, att, seed, failed, noted, clock, used, count, ghosts>>

\* Runtime::destroy: the process, the image and the disk.
Destroy(v) ==
  /\ op[v] = Idle /\ vm[v] # Off
  /\ vm' = [vm EXCEPT ![v] = Off]
  /\ images' = [images EXCEPT ![v] = Nil]
  /\ owed' = owed \ {v} /\ adrift' = adrift \ {v} /\ stuck' = stuck \ {v}
  /\ UNCHANGED <<op, att, seed, failed, noted, clock, used, count, truth, short, thin, raced,
                 diedOf>>

\* WARM_SURVIVAL passes since a warm start: whatever happens next is not put
\* down to the image.
WarmLasts(v) ==
  /\ noted[v] # 0
  /\ noted' = [noted EXCEPT ![v] = 0]
  /\ diedOf' = [diedOf EXCEPT ![v] = 0]
  /\ UNCHANGED <<vm, images, op, att, seed, failed, clock, used, count,
                 truth, owed, adrift, stuck, short, thin, raced>>

(***************************************************************************)
(* The warm seed: a sandbox of its own, booted and checkpointed.           *)
(***************************************************************************)
\* Older images of the template, and the markers beside them, are cleared.
SeedClears ==
  /\ seed = "boot" /\ images[Warm] = Nil
  /\ seed' = "clear" /\ failed' = FALSE
  /\ count' = [count EXCEPT !.seeds = @ + 1]
  /\ UNCHANGED <<vm, images, op, att, noted, clock, used, ghosts>>

\* Renamed into place, ready.
SeedPublishes ==
  /\ seed = "clear"
  /\ images' = [images EXCEPT ![Warm] = WarmImage(count.seeds)]
  /\ seed' = "none"
  /\ UNCHANGED <<vm, op, att, failed, noted, clock, used, count, ghosts>>

\* Not listening in time, no room: it stays cold until WARM_RETRY has passed.
SeedFails ==
  /\ seed # "none" /\ Faulty
  /\ seed' = "none" /\ failed' = TRUE
  /\ UNCHANGED <<vm, images, op, att, noted, clock, used, ghosts>>

FailedLapses ==
  /\ failed /\ failed' = FALSE
  /\ UNCHANGED <<vm, images, op, att, seed, noted, clock, used, count, ghosts>>

\* The node restarts.  A VM goes on as it was: paused, if a checkpoint or a
\* load had it so.
Crash ==
  /\ count.crashes < MaxCrashes /\ count.faults < MaxFaults
  /\ count' = [count EXCEPT !.crashes = @ + 1, !.faults = @ + 1]
  /\ op' = [v \in Vms |-> Idle]
  /\ stuck' = {v \in Vms : vm[v].st = "paused"}
  /\ short' = short \cup {v \in Vms : LosesPages(v)}
  /\ adrift' = adrift \cup {v \in owed : op[v].kind = "back" /\ vm[v].st = "off"}
  /\ images' = [d \in Dirs |-> IF images[d] = Nil THEN Nil ELSE [images[d] EXCEPT !.tmp = Nil]]
  /\ att' = [v \in Vms |-> Nil]
  /\ seed' = "none"
  /\ noted' = [v \in Vms |-> 0] /\ diedOf' = [v \in Vms |-> 0]
  /\ UNCHANGED <<vm, failed, clock, used, truth, owed, thin, raced>>

AtRest == (\A v \in Vms : vm[v] = Off /\ op[v] = Idle) /\ UNCHANGED vars

Step(v) ==
  \/ \E p \in Pages : GuestWrites(v, p)
  \/ \E t \in Tags : BranchStart(v, t) \/ CreateFork(v, t)
  \/ \E kind \in {"branch", "snapshot"} : PauseFails(v, kind)
  \/ SnapshotStart(v) \/ CkptMemory(v) \/ CkptDisk(v) \/ CkptFails(v)
  \/ CkptPublish(v) \/ PublishFails(v) \/ SnapshotEnds(v)
  \/ BranchResumes(v) \/ BranchRestores(v)
  \/ RestoreDisk(v) \/ AssembleNone(v) \/ AssembleStart(v) \/ AssembleApply(v)
  \/ AssembleEnds(v) \/ Load(v) \/ RestoreEnds(v)
  \/ \E saved \in BOOLEAN : RestoreFails(v, saved)
  \/ \E young, spare \in BOOLEAN : CreateCold(v, young, spare)
  \/ Boot(v) \/ BootFails(v) \/ Wake(v) \/ Settle(v) \/ Destroy(v)
  \/ WarmLasts(v) \/ Dies(v)

Next ==
  \/ \E v \in Vms : Step(v)
  \/ \E t \in Tags : DropTag(t)
  \/ SeedClears \/ SeedPublishes \/ SeedFails \/ FailedLapses
  \/ Crash \/ AtRest

Spec == Init /\ [][Next]_vars

(***************************************************************************)
(* Properties.                                                             *)
(***************************************************************************)
\* checkpoint, link_chain: "diffs, sparse, each against everything before it".
\* An image's chain applied in order is the guest's memory at the pause, its
\* disk is the disk of that moment, and the assembled cache is that memory,
\* with no more files than MAX_CHAIN: whatever was branched, snapshotted,
\* restored, dropped or failed before.
ImageExact ==
  \A d \in Dirs : images[d] # Nil /\ d \notin thin =>
    /\ Len(images[d].chain) <= MaxChain
    /\ Stands(images[d].chain, truth[d].mem)
    /\ images[d].disk = truth[d].disk
    /\ images[d].asm # Nil /\ d \notin raced => images[d].asm = truth[d].mem

\* load: "the guest executes nothing until both have happened".  What a restore
\* is about to run is the memory and the disk one image was taken with.
ForkExact ==
  \A v \in Vms : LET d == op[v].dir IN
    op[v].step = "loaded" /\ vm[v].st = "paused" /\ d \notin thin \cup raced =>
      vm[v].mem = truth[d].mem /\ vm[v].disk = truth[d].disk

\* resume_after_checkpoint, track_writes: "what the next checkpoint can be a
\* diff against".  A page the tracker does not show is still what the base
\* chain holds for it.
BaseCurrent ==
  \A v \in Vms :
    /\ vm[v].st # "off" /\ vm[v].base # <<>> /\ v \notin short
    /\ op[v].step \notin Taken
    => \A p \in Pages \ Dirty(v) : Shows(vm[v].base, Len(vm[v].base), p, vm[v].mem[p])

\* checkpoint: "Leave it running rather than paused for ever".  A VM that no
\* operation holds is not paused, unless the pause itself failed, the resume did
\* that should have undone it, the seal or the publish did, or the node restarted.
NotLeftPaused ==
  \A v \in Vms : op[v] = Idle /\ v \notin stuck => vm[v].st # "paused"

\* branch: "Keep its sealed image where reconciliation can find the parent".
\* A sandbox that is not running, and neither died nor was destroyed, has its
\* last memory and disk in its own snapshot.  Except a parent that was removed
\* to be restored from the tag's image when the node restarted, or whose image
\* could not be moved (adrift), and one whose image lacks pages (short, thin) or
\* was put together by two restores at once (raced).
StateKept ==
  \A v \in owed \ adrift :
    vm[v].st = "off" /\ op[v] = Idle /\ v \notin short \cup thin \cup raced =>
      /\ images[v] # Nil
      /\ truth[v] = [mem |-> vm[v].mem, disk |-> vm[v].disk]

\* distrust_warm_image: "it died of it, and so would every sandbox after it".
\* No sandbox starts a second time from the warm image it has just died of.
NotOfItTwice ==
  \A v \in Vms : op[v].kind = "warm" /\ diedOf[v] # 0 /\ images[Warm] # Nil =>
    images[Warm].gen # diedOf[v]
=============================================================================
