------------------------------ MODULE VmProofs ------------------------------
(***************************************************************************)
(* Theorems about Vm, for any sets of sandboxes, tags and pages, any       *)
(* MAX_CHAIN and all bounds: images and forks are exact, a VM's base is    *)
(* what its next diff is against, nothing is left paused or lost, and no   *)
(* sandbox dies of a warm image twice.                                     *)
(***************************************************************************)
EXTENDS Vm, SequenceTheorems, TLAPS

(***************************************************************************)
(* Types.                                                                  *)
(***************************************************************************)
VmRec   == [st : {"off", "running", "paused"}, mem : Memory, disk : Nat, base : Seq(File),
            kvm : SUBSET Pages, soft : SUBSET Pages, marked : BOOLEAN]
Attempt == [chain : Seq(File), disk : Nat \cup {Nil}]
Taking  == {"memory", "disk", "publish"}
Loading == {"take", "assemble", "apply", "load", "loaded"}
Kinds   == {"idle", "branch", "snapshot", "fork", "back", "warm", "own", "cold"}
Steps   == {"none", "resume", "remove", "boot"} \cup Taking \cup Loading
OpRec   == [kind : Kinds, dir : Dirs \cup {Nil}, step : Steps, at : Nat]
Moment  == [mem : Memory, disk : Nat]

VmType    == vm \in [Vms -> VmRec] /\ clock \in Nat
ImageType == images \in [Dirs -> Image \cup {Nil}] /\ truth \in [Dirs -> Moment]
OpType    == op \in [Vms -> OpRec] /\ att \in [Vms -> Attempt \cup {Nil}]
SetType   == /\ used \subseteq Tags /\ owed \subseteq Vms /\ adrift \subseteq Vms
             /\ stuck \subseteq Vms /\ short \subseteq Vms /\ thin \subseteq Dirs /\ raced \subseteq Dirs
WarmType  == /\ noted \in [Vms -> Nat] /\ diedOf \in [Vms -> Nat]
             /\ count \in [faults : Nat, crashes : Nat, seeds : Nat, ops : Nat]
             /\ seed \in {"none", "boot", "clear"}
TypeInv   == VmType /\ ImageType /\ OpType /\ SetType /\ WarmType

(***************************************************************************)
(* What an operation is, step by step, and whose directory it works on.    *)
(***************************************************************************)
StepKind(o) ==
  /\ o.step = "none" => o = Idle
  /\ o.step \in Taking => o.kind \in {"branch", "snapshot"}
  /\ o.step = "resume" => o.kind = "branch"
  /\ o.step = "remove" => o.kind = "snapshot"
  /\ o.step \in Loading => o.kind \in {"fork", "back", "warm", "own"}
  /\ o.step = "boot" => o.kind = "cold"
  /\ o.kind = "warm" => o.step # "apply"

KindDir(v, o) ==
  /\ o.kind \in {"branch", "back", "fork"} => o.dir \in used
  /\ o.kind \in {"snapshot", "own"} => o.dir = v
  /\ o.kind = "warm" => o.dir = Warm
  /\ o.kind \in {"idle", "cold"} => o.dir = Nil

\* The process, as each step has it: "off" where it may have died.
StepState(v) ==
  /\ op[v].step \in Taking \cup {"resume", "remove", "loaded"} => vm[v].st # "running"
  /\ op[v].step \in {"take", "assemble", "apply", "load", "boot"} => vm[v].st = "off"
  /\ op[v] = Idle /\ v \notin stuck => vm[v].st # "paused"

\* A tag being branched into is nobody else's.
TagInv == /\ \A v, w \in Vms : v # w /\ op[v].kind \in {"branch", "back"} => op[w].dir # op[v].dir
          /\ \A t \in Tags : images[t] # Nil => t \in used

(***************************************************************************)
(* Images.                                                                 *)
(***************************************************************************)
Chain(c) == c \in Seq(File) /\ c # <<>> /\ Len(c) <= MaxChain /\ c[1] \in Memory

\* An image shows what its VM had at the pause.
Exact(d) ==
  /\ Chain(images[d].chain)
  /\ d \notin thin =>
       /\ Stands(images[d].chain, truth[d].mem)
       /\ images[d].disk = truth[d].disk
       /\ images[d].asm # Nil /\ d \notin raced => images[d].asm = truth[d].mem
ImageInv == \A d \in Dirs : images[d] # Nil => Exact(d)

\* A warm image is of a sandbox just booted, and there is nothing to assemble.
WarmExact ==
  /\ truth[Warm] = [mem |-> Zero, disk |-> 0]
  /\ images[Warm] # Nil => images[Warm].chain = <<Zero>> /\ images[Warm].disk = 0
                           /\ images[Warm].asm = Nil

(***************************************************************************)
(* One VM.                                                                 *)
(***************************************************************************)
Held(v) == [mem |-> vm[v].mem, disk |-> vm[v].disk]

\* The base, and what is not dirty against it.  KVM's log is gone between the
\* memory's being written and the image's being the base.
BaseInv(v) ==
  /\ vm[v].base # <<>> => Chain(vm[v].base)
  /\ op[v].step \in Taken /\ ~vm[v].marked => vm[v].kvm = {}
  /\ /\ vm[v].st # "off" /\ vm[v].base # <<>> /\ v \notin short
     /\ vm[v].marked \/ op[v].step \notin Taken
     => \A p \in Pages \ Dirty(v) : Shows(vm[v].base, Len(vm[v].base), p, vm[v].mem[p])

\* The attempt beside the destination.
AttInv(v) ==
  op[v].step \in {"disk", "publish"} =>
    /\ att[v] \in Attempt /\ Chain(att[v].chain)
    /\ v \notin short \/ Len(att[v].chain) = 1 => Stands(att[v].chain, vm[v].mem)
    /\ op[v].step = "publish" => att[v].disk = vm[v].disk

\* The image a branch or a snapshot has just published is of this VM, and so
\* is the one its parent is restored from.
PublishedInv(v) ==
  /\ op[v].step \in {"resume", "remove"} =>
       images[op[v].dir] # Nil /\ truth[op[v].dir] = Held(v)
  /\ op[v].kind = "back" =>
       /\ images[op[v].dir] # Nil
       /\ op[v].dir \notin thin \cup raced => truth[op[v].dir] = Held(v)

\* A restore under way: the disk, the file being assembled, and what is loaded.
LoadInv(v) ==
  LET d == op[v].dir
      i == images[d] IN
  /\ op[v].step \in {"assemble", "apply", "load"} /\ d \notin thin =>
       vm[v].disk = truth[d].disk
  /\ op[v].step = "apply" => op[v].at >= 2
  /\ op[v].step = "apply" /\ i # Nil /\ d \notin raced =>
       /\ op[v].at <= Len(i.chain) + 1
       /\ i.tmp # Nil => \A p \in Pages : Shows(i.chain, op[v].at - 1, p, i.tmp[p])
  /\ op[v].step = "load" /\ i # Nil => Len(i.chain) = 1 \/ i.asm # Nil
  /\ op[v].step = "loaded" /\ d \notin thin \cup raced => truth[d] = Held(v)

\* One restore assembles an image, or they race.
ApplyInv == \A v, w \in Vms :
  v # w /\ op[v].step = "apply" /\ op[w].step = "apply" /\ op[v].dir = op[w].dir =>
    op[v].dir \in raced

\* What is owed is held: by the VM, by the image of its parent's branch, or by
\* its snapshot.
OwedInv(v) ==
  /\ op[v].kind \in {"fork", "warm", "cold"} => v \notin owed \ adrift
  /\ op[v].kind \in {"branch", "snapshot"} /\ vm[v].st = "off" => v \notin owed \ adrift
  /\ op[v].kind = "own" => images[v] # Nil
  /\ /\ v \in owed \ adrift /\ vm[v].st = "off" /\ op[v].kind \in {"idle", "own"}
     /\ v \notin short \cup thin \cup raced
     => images[v] # Nil /\ truth[v] = Held(v)

One(v) ==
  /\ StepKind(op[v]) /\ KindDir(v, op[v]) /\ StepState(v)
  /\ BaseInv(v) /\ AttInv(v) /\ PublishedInv(v) /\ LoadInv(v) /\ OwedInv(v)

ExactInv == (\A v \in Vms : One(v)) /\ TagInv /\ ApplyInv /\ ImageInv /\ WarmExact

(***************************************************************************)
(* Warm images.                                                            *)
(***************************************************************************)
\* An image that a VM has died of, and is not about to be taken away for it, is
\* not there and does not come back.
DiedInv(v) ==
  /\ op[v].kind = "warm" => noted[v] = 0
  /\ diedOf[v] <= count.seeds /\ noted[v] <= count.seeds
  /\ diedOf[v] # 0 /\ noted[v] # diedOf[v] =>
       /\ images[Warm] # Nil => images[Warm].gen # diedOf[v]
       /\ seed = "clear" => diedOf[v] < count.seeds
GenInv ==
  /\ images[Warm] # Nil => images[Warm].gen <= count.seeds
  /\ seed = "clear" =>
       /\ images[Warm] # Nil => images[Warm].gen < count.seeds
       /\ \A v \in Vms : noted[v] < count.seeds /\ diedOf[v] < count.seeds
WarmInv == GenInv /\ \A v \in Vms : DiedInv(v)

(***************************************************************************)
(* Chains.                                                                 *)
(***************************************************************************)
\* A memory is a file, and so is any part of one.
LEMMA FileIs ==
  ASSUME NEW m \in Memory, NEW D \in SUBSET Pages
  PROVE  m \in File /\ [p \in D |-> m[p]] \in File
<1>1. m \in [Pages -> Nat] /\ [p \in D |-> m[p]] \in [D -> Nat]
  BY DEF Memory
<1>2. QED
  BY <1>1 DEF File

\* A chain's files, and how many there are.
LEMMA ChainIs ==
  ASSUME NEW c, Chain(c)
  PROVE  /\ c \in Seq(File) /\ Len(c) \in Nat \ {0} /\ c[1] \in Memory
         /\ \A k \in 1..Len(c) : c[k] \in File
  BY EmptySeq, ElementOfSeq, LenProperties DEF Chain

\* A whole file is a chain of one, and stands for itself.
LEMMA OneFile ==
  ASSUME NEW m \in Memory
  PROVE  /\ Chain(<<m>>) /\ Len(<<m>>) = 1 /\ <<m>>[1] = m
         /\ Stands(<<m>>, m)
<1>1. m \in File /\ DOMAIN m = Pages
  BY FileIs DEF Memory
<1>2. <<m>> \in Seq(File) /\ Len(<<m>>) = 1 /\ <<m>>[1] = m /\ <<m>> # <<>>
  BY <1>1
<1>3. Chain(<<m>>)
  BY <1>2, ChainAssumption DEF Chain
<1>4. ASSUME NEW p \in Pages PROVE Shows(<<m>>, 1, p, m[p])
  BY <1>1, <1>2 DEF Shows
<1>5. QED
  BY <1>2, <1>3, <1>4 DEF Stands

\* The first file alone shows itself.
LEMMA FirstShows ==
  ASSUME NEW c, Chain(c), NEW p \in Pages
  PROVE  Shows(c, 1, p, c[1][p])
<1>1. DOMAIN c[1] = Pages
  BY DEF Chain, Memory
<1>2. QED
  BY <1>1 DEF Shows

\* One diff more: what it has shows, and what it has not shows as before.
LEMMA NextShows ==
  ASSUME NEW c, NEW n \in Nat, NEW p, NEW x,
         IF p \in DOMAIN c[n + 1] THEN x = c[n + 1][p] ELSE Shows(c, n, p, x)
  PROVE  Shows(c, n + 1, p, x)
<1>1. CASE p \in DOMAIN c[n + 1]
  <2>1. n + 1 \in 1..(n + 1) /\ (n + 1 + 1)..(n + 1) = {}
    OBVIOUS
  <2>2. QED
    BY <1>1, <2>1 DEF Shows
<1>2. CASE p \notin DOMAIN c[n + 1]
  <2>1. PICK k \in 1..n : /\ p \in DOMAIN c[k] /\ c[k][p] = x
                          /\ \A j \in (k + 1)..n : p \notin DOMAIN c[j]
    BY <1>2 DEF Shows
  <2>2. \A j \in (k + 1)..(n + 1) : j \in (k + 1)..n \/ j = n + 1
    OBVIOUS
  <2>3. \A j \in (k + 1)..(n + 1) : p \notin DOMAIN c[j]
    BY <1>2, <2>1, <2>2
  <2>4. QED
    BY <2>1, <2>3 DEF Shows
<1>3. QED
  BY <1>1, <1>2

\* A chain shows one thing of a page.
LEMMA ShowsOne ==
  ASSUME NEW c, NEW n \in Nat, NEW p, NEW x, NEW y, Shows(c, n, p, x), Shows(c, n, p, y)
  PROVE  x = y
<1>1. PICK k \in 1..n : /\ p \in DOMAIN c[k] /\ c[k][p] = x
                        /\ \A j \in (k + 1)..n : p \notin DOMAIN c[j]
  BY DEF Shows
<1>2. PICK l \in 1..n : /\ p \in DOMAIN c[l] /\ c[l][p] = y
                        /\ \A j \in (l + 1)..n : p \notin DOMAIN c[j]
  BY DEF Shows
<1>3. k = l
  <2>1. ~(k < l)
    BY <1>1, <1>2
  <2>2. ~(l < k)
    BY <1>1, <1>2
  <2>3. QED
    BY <2>1, <2>2
<1>4. QED
  BY <1>1, <1>2, <1>3

\* What is shown by files that agree is the same.
LEMMA SameFiles ==
  ASSUME NEW c, NEW d, NEW n \in Nat, \A k \in 1..n : c[k] = d[k], NEW p, NEW x,
         Shows(c, n, p, x)
  PROVE  Shows(d, n, p, x)
<1>1. PICK k \in 1..n : /\ p \in DOMAIN c[k] /\ c[k][p] = x
                        /\ \A j \in (k + 1)..n : p \notin DOMAIN c[j]
  BY DEF Shows
<1>2. \A j \in (k + 1)..n : j \in 1..n
  OBVIOUS
<1>3. QED
  BY <1>1, <1>2 DEF Shows

\* A diff on a chain with room for it stands for the memory it is a diff of, if
\* the chain shows what the diff has not.
LEMMA OneDiff ==
  ASSUME NEW c, Chain(c), Len(c) < MaxChain, NEW m \in Memory, NEW D \in SUBSET Pages
  PROVE  LET n == Append(c, [p \in D |-> m[p]])
         IN  /\ Chain(n) /\ Len(n) > 1
             /\ (\A p \in Pages \ D : Shows(c, Len(c), p, m[p])) => Stands(n, m)
<1> DEFINE f == [p \in D |-> m[p]]
           n == Append(c, f)
<1>1. f \in File /\ DOMAIN f = D /\ \A p \in D : f[p] = m[p]
  BY FileIs
<1> HIDE DEF f
<1>2. c \in Seq(File) /\ Len(c) \in Nat \ {0} /\ c[1] \in Memory
  BY ChainIs
<1>3. /\ n \in Seq(File) /\ Len(n) = Len(c) + 1 /\ n[Len(c) + 1] = f
      /\ \A k \in 1..Len(c) : n[k] = c[k]
  BY <1>1, <1>2, AppendProperties
<1> HIDE DEF n
<1>4. Chain(n) /\ Len(n) > 1
  <2>1. n[1] \in Memory /\ n # <<>>
    BY <1>2, <1>3, EmptySeq
  <2>2. Len(c) + 1 <= MaxChain
    BY <1>2, ChainAssumption
  <2>3. QED
    BY <1>2, <1>3, <2>1, <2>2 DEF Chain
<1>5. ASSUME \A p \in Pages \ D : Shows(c, Len(c), p, m[p]) PROVE Stands(n, m)
  <2>1. ASSUME NEW p \in Pages PROVE Shows(n, Len(c) + 1, p, m[p])
    <3>1. CASE p \in D
      BY <1>1, <1>2, <1>3, <3>1, NextShows
    <3>2. CASE p \notin D
      <4>1. Shows(n, Len(c), p, m[p])
        BY <1>2, <1>3, <1>5, <3>2, SameFiles
      <4>2. QED
        BY <1>1, <1>2, <1>3, <3>2, <4>1, NextShows
    <3>3. QED
      BY <3>1, <3>2
  <2>2. QED
    BY <1>3, <2>1 DEF Stands
<1>6. QED
  BY <1>4, <1>5 DEF f, n

\* A diff applied over a memory is a memory.
LEMMA AppliedType ==
  ASSUME NEW c, Chain(c), NEW n \in 1..Len(c), NEW m \in Memory
  PROVE  ApplyDiff(c[n], m) \in Memory
<1>1. PICK D \in SUBSET Pages : c[n] \in [D -> Nat]
  <2>1. c[n] \in File
    BY ChainIs
  <2>2. QED
    BY <2>1 DEF File
<1>2. QED
  BY <1>1 DEF ApplyDiff, Memory

\* A diff applied over what the files before it show is what they show with it.
LEMMA AppliedShows ==
  ASSUME NEW c, Chain(c), NEW n \in Nat, NEW m \in Memory,
         \A p \in Pages : Shows(c, n, p, m[p])
  PROVE  \A p \in Pages : Shows(c, n + 1, p, ApplyDiff(c[n + 1], m)[p])
  BY NextShows DEF ApplyDiff

\* What a chain stands for is one memory.
LEMMA StandsForOne ==
  ASSUME NEW c, Chain(c), NEW m \in Memory, NEW k \in Memory, Stands(c, m), Stands(c, k)
  PROVE  m = k
<1>1. \A p \in Pages : m[p] = k[p]
  BY ChainIs, ShowsOne DEF Stands
<1>2. QED
  BY <1>1 DEF Memory
(***************************************************************************)
(* Types.                                                                  *)
(***************************************************************************)
\* The records a step builds on, and their parts.
LEMMA Parts ==
  ASSUME TypeInv, NEW v \in Vms
  PROVE  /\ vm[v] \in VmRec /\ op[v] \in OpRec /\ v \in Dirs
         /\ vm[v].mem \in Memory /\ vm[v].disk \in Nat /\ vm[v].base \in Seq(File)
         /\ vm[v].kvm \in SUBSET Pages /\ vm[v].soft \in SUBSET Pages /\ Dirty(v) \in SUBSET Pages
         /\ vm[v].st \in {"off", "running", "paused"}
         /\ op[v].dir \in Dirs \cup {Nil} /\ op[v].at \in Nat /\ op[v].kind \in Kinds
         /\ op[v].step \in Steps
<1>1. vm[v] \in VmRec /\ op[v] \in OpRec /\ v \in Dirs
  BY DEF TypeInv, VmType, OpType, Dirs
<1>2. QED
  BY <1>1 DEF VmRec, OpRec, Dirty

\* Nothing, and an idle VM, are what they are.
LEMMA Blank ==
  /\ Zero \in Memory /\ Off \in VmRec /\ Idle \in OpRec /\ <<>> \in Seq(File)
  /\ \A g \in Nat : WarmImage(g) \in Image
<1>1. Zero \in Memory
  BY DEF Zero, Memory
<1>2. <<>> \in Seq(File) /\ <<Zero>> \in Seq(File)
  BY <1>1, EmptySeq, OneFile DEF Chain
<1>3. Off \in VmRec
  BY <1>1, <1>2 DEF Off, VmRec
<1>4. Idle \in OpRec
  BY DEF Idle, OpRec, Kinds, Steps
<1>5. \A g \in Nat : WarmImage(g) \in Image
  BY <1>1, <1>2 DEF WarmImage, Image
<1>6. QED
  BY <1>1, <1>2, <1>3, <1>4, <1>5

\* The memory file of the next image.
LEMMA NextChainIs ==
  ASSUME TypeInv, NEW v \in Vms, BaseInv(v)
  PROVE  Chain(NextChain(v))
<1>1. CASE IsDiff(v)
  BY <1>1, Parts, OneDiff DEF IsDiff, NextChain, BaseInv
<1>2. CASE ~IsDiff(v)
  BY <1>2, Parts, OneFile DEF NextChain
<1>3. QED
  BY <1>1, <1>2
(***************************************************************************)
(* What a step of one VM leaves as it was for the others.                  *)
(***************************************************************************)
SameVm(w) ==
  /\ vm'[w] = vm[w] /\ op'[w] = op[w] /\ att'[w] = att[w]
  /\ (w \in owed' <=> w \in owed) /\ (w \in adrift' <=> w \in adrift)
  /\ (w \in short' <=> w \in short)
  /\ (w \in stuck' <=> w \in stuck)

SameDir(d) ==
  /\ images'[d] = images[d] /\ truth'[d] = truth[d]
  /\ (d \in thin' <=> d \in thin) /\ (d \in raced' <=> d \in raced)

OthersSame(v) == used \subseteq used' /\ \A w \in Vms \ {v} : SameVm(w)
DirsSame(T) == \A d \in Dirs \ T : SameDir(d)

\* Each part of what is known of a VM stays, if it and its images do.
LEMMA OneKept ==
  ASSUME TypeInv, NEW w \in Vms, One(w), used \subseteq used', SameVm(w), SameDir(w),
         op[w].dir = Nil \/ SameDir(op[w].dir)
  PROVE  One(w)'
<1> USE DEF SameVm, SameDir
<1>1. StepKind(op[w])' /\ KindDir(w, op[w])' /\ StepState(w)'
  BY DEF One, StepKind, KindDir, StepState
<1>2. BaseInv(w)'
  BY DEF One, BaseInv, Dirty
<1>3. AttInv(w)'
  BY DEF One, AttInv
<1>4. op[w].dir = Nil => op[w].step \in {"none", "boot"} /\ op[w].kind # "back"
  <2>1. op[w].step \in Steps /\ op[w].dir \in Dirs \cup {Nil}
    BY Parts
  <2>2. Nil \notin used /\ Nil # w /\ Nil # Warm
    BY NameAssumption DEF TypeInv, SetType
  <2>3. QED
    BY <2>1, <2>2 DEF One, StepKind, KindDir, Steps
<1>5. PublishedInv(w)'
  BY <1>4 DEF One, PublishedInv, Held
<1>6. LoadInv(w)'
  BY <1>4 DEF One, LoadInv, Held
<1>7. OwedInv(w)'
  BY DEF One, OwedInv, Held
<1>8. QED
  BY <1>1, <1>2, <1>3, <1>5, <1>6, <1>7 DEF One

\* An image that is not touched stays exact.
LEMMA ExactKept ==
  ASSUME NEW d, Exact(d), SameDir(d)
  PROVE  Exact(d)'
  BY DEF SameDir, Exact

\* How the directory a VM works on may change: it does not, or is no tag, or is
\* one only forks share.
DirMoves(v) ==
  \/ /\ op'[v].dir = op[v].dir
     /\ op'[v].kind \in {"branch", "back"} => op[v].kind \in {"branch", "back"}
  \/ op'[v].dir \notin Tags /\ op'[v].kind \notin {"branch", "back"}
  \/ \A w \in Vms \ {v} : op[w].dir = op'[v].dir => op[w].kind = "fork" /\ op'[v].kind = "fork"

\* A step of one VM, on directories that are no other's, keeps what is known if
\* it does so for this VM and these directories.
LEMMA Settles ==
  ASSUME TypeInv, ExactInv, NEW v \in Vms, NEW T,
         OthersSame(v), DirsSame(T), Warm \notin T,
         \A w \in Vms \ {v} : w \notin T /\ op[w].dir \notin T,
         One(v)', DirMoves(v),
         op'[v].step = "apply" => op[v].step = "apply" /\ op'[v].dir = op[v].dir
                                  /\ op'[v].dir \in Dirs \ T,
         \A d \in T : d \in Dirs /\ images'[d] # Nil => Exact(d)' /\ (d \in Tags => d \in used')
  PROVE  ExactInv'
<1>1. ASSUME NEW w \in Vms PROVE One(w)'
  <2>1. CASE w = v
    BY <2>1
  <2>2. CASE w # v
    <3>1. SameVm(w) /\ SameDir(w) /\ One(w)
      BY <2>2 DEF OthersSame, DirsSame, Dirs, ExactInv
    <3>2. op[w].dir = Nil \/ SameDir(op[w].dir)
      BY <2>2, Parts DEF DirsSame
    <3>3. QED
      BY <3>1, <3>2, OneKept DEF OthersSame
  <2>3. QED
    BY <2>1, <2>2
<1>2. TagInv'
  <2>1. ASSUME NEW a \in Vms, NEW b \in Vms, a # b, op'[a].kind \in {"branch", "back"},
               op'[a].dir = op'[b].dir
        PROVE  FALSE
    <3>1. \A w \in Vms : op[w].kind \in {"branch", "back"} => op[w].dir \in Tags
      BY DEF ExactInv, One, KindDir, TypeInv, SetType
    <3>2. \A w \in Vms \ {v} : op'[w] = op[w]
      BY DEF OthersSame, SameVm
    <3>3. CASE a = v
      BY <2>1, <3>1, <3>2, <3>3 DEF DirMoves, ExactInv, TagInv
    <3>4. CASE b = v
      BY <2>1, <3>1, <3>2, <3>4 DEF DirMoves, ExactInv, TagInv
    <3>5. CASE a # v /\ b # v
      BY <2>1, <3>2, <3>5 DEF ExactInv, TagInv
    <3>6. QED
      BY <3>3, <3>4, <3>5
  <2>2. ASSUME NEW t \in Tags, images'[t] # Nil PROVE t \in used'
    <3>1. t \in Dirs
      BY DEF Dirs
    <3>2. CASE t \in T
      BY <2>2, <3>1, <3>2
    <3>3. CASE t \notin T
      BY <2>2, <3>1, <3>3 DEF DirsSame, SameDir, OthersSame, ExactInv, TagInv
    <3>4. QED
      BY <3>2, <3>3
  <2>3. QED
    BY <2>1, <2>2 DEF TagInv
<1>3. ApplyInv'
  <2>1. ASSUME NEW a \in Vms, NEW b \in Vms, a # b, op'[a].step = "apply", op'[b].step = "apply",
               op'[a].dir = op'[b].dir
        PROVE  op'[a].dir \in raced'
    <3>1. \A w \in Vms \ {v} : op'[w] = op[w]
      BY DEF OthersSame, SameVm
    <3>2. op[a].step = "apply" /\ op[b].step = "apply" /\ op[a].dir = op[b].dir
          /\ op'[a].dir = op[a].dir
      BY <2>1, <3>1
    <3>3. op[a].dir \in raced /\ op[a].dir \in Dirs
      BY <2>1, <3>2 DEF ExactInv, ApplyInv, TypeInv, SetType
    <3>4. op[a].dir \notin T
      BY <2>1, <3>2
    <3>5. QED
      BY <3>2, <3>3, <3>4 DEF DirsSame, SameDir
  <2>2. QED
    BY <2>1 DEF ApplyInv
<1>4. ImageInv'
  <2>1. ASSUME NEW d \in Dirs, images'[d] # Nil PROVE Exact(d)'
    <3>1. CASE d \in T
      BY <2>1, <3>1
    <3>2. CASE d \notin T
      <4>1. SameDir(d)
        BY <3>2 DEF DirsSame
      <4>2. Exact(d)
        BY <2>1, <4>1 DEF SameDir, ExactInv, ImageInv
      <4>3. QED
        BY <4>1, <4>2, ExactKept
    <3>3. QED
      BY <3>1, <3>2
  <2>2. QED
    BY <2>1 DEF ImageInv
<1>5. WarmExact'
  BY DEF DirsSame, SameDir, Dirs, ExactInv, WarmExact
<1>6. QED
  BY <1>1, <1>2, <1>3, <1>4, <1>5 DEF ExactInv

\* The directory of another VM is not this one's own.
LEMMA OwnDir ==
  ASSUME TypeInv, ExactInv, NEW v \in Vms, NEW w \in Vms, v # w
  PROVE  op[w].dir # v
<1>1. op[w].kind \in Kinds /\ StepKind(op[w]) /\ KindDir(w, op[w])
  BY Parts DEF ExactInv, One
<1>2. v \notin used /\ v # Warm /\ v # Nil
  BY NameAssumption DEF TypeInv, SetType
<1>3. QED
  BY <1>1, <1>2 DEF KindDir, Kinds
(***************************************************************************)
(* The guest, and a checkpoint.                                            *)
(***************************************************************************)
\* A VM that runs is in nobody's hands.
LEMMA RunsIdle ==
  ASSUME TypeInv, NEW v \in Vms, One(v)
  PROVE  vm[v].st = "running" => op[v] = Idle
  BY Parts DEF One, StepKind, StepState, Steps, Taking, Loading

\* A VM nobody has in hand any more: only its base and its snapshot are to be
\* kept.
LEMMA OneIdle ==
  ASSUME NEW v \in Vms, op'[v] = Idle, vm'[v].st = "paused" => v \in stuck', BaseInv(v)',
         /\ v \in owed' \ adrift' /\ vm'[v].st = "off" /\ v \notin short' \cup thin' \cup raced'
         => images'[v] # Nil /\ truth'[v] = Held(v)'
  PROVE  One(v)'
<1>1. Idle.kind = "idle" /\ Idle.step = "none" /\ Idle.dir = Nil
  BY DEF Idle
<1>2. StepKind(op[v])' /\ KindDir(v, op[v])' /\ StepState(v)'
  BY <1>1 DEF StepKind, KindDir, StepState, Taking, Loading
<1>3. AttInv(v)' /\ PublishedInv(v)' /\ LoadInv(v)'
  BY <1>1 DEF AttInv, PublishedInv, LoadInv
<1>4. OwedInv(v)'
  BY <1>1 DEF OwedInv
<1>5. QED
  BY <1>2, <1>3, <1>4 DEF One

\* A VM after a write.
LEMMA Written ==
  ASSUME NEW r \in VmRec, NEW m \in Memory, NEW n \in Nat,
         NEW k \in SUBSET Pages, NEW s \in SUBSET Pages
  PROVE  [r EXCEPT !.mem = m, !.disk = n, !.kvm = k, !.soft = s] \in VmRec
  BY DEF VmRec

\* A guest that writes.
LEMMA GuestStep ==
  ASSUME TypeInv, ExactInv, NEW v \in Vms, NEW p \in Pages, GuestWrites(v, p)
  PROVE  TypeInv' /\ ExactInv'
<1>1. /\ vm[v] \in VmRec /\ vm[v].mem \in Memory /\ vm[v].st = "running" /\ One(v)
      /\ op[v] = Idle
  BY Parts, RunsIdle DEF GuestWrites, ExactInv
<1>2. /\ vm'[v].mem = [vm[v].mem EXCEPT ![p] = clock + 1]
      /\ vm'[v].kvm = IF vm[v].marked THEN vm[v].kvm ELSE vm[v].kvm \cup {p}
      /\ vm'[v].soft = vm[v].soft \cup {p}
      /\ vm'[v].st = "running" /\ vm'[v].base = vm[v].base /\ vm'[v].marked = vm[v].marked
  BY <1>1 DEF GuestWrites, TypeInv, VmType, VmRec
<1>3. OthersSame(v) /\ DirsSame({}) /\ op' = op /\ short' = short
  BY DEF GuestWrites, OthersSame, SameVm, DirsSame, SameDir, ghosts, TypeInv, VmType
<1>4. TypeInv'
  <2>1. PICK m : m = [vm[v].mem EXCEPT ![p] = clock + 1]
    OBVIOUS
  <2>2. vm[v] \in VmRec /\ vm[v].mem \in Memory /\ clock + 1 \in Nat
    BY Parts DEF TypeInv, VmType
  <2>3. m \in Memory
    BY <2>1, <2>2 DEF Memory
  <2>4. vm'[v] = [vm[v] EXCEPT !.mem = m, !.disk = clock + 1,
                      !.kvm = IF vm[v].marked THEN @ ELSE @ \cup {p},
                      !.soft = @ \cup {p}]
    BY <2>1, <2>2, Zenon DEF GuestWrites, TypeInv, VmType
  <2>5. PICK k, s : /\ k = (IF vm[v].marked THEN vm[v].kvm ELSE vm[v].kvm \cup {p})
                    /\ s = vm[v].soft \cup {p}
    OBVIOUS
  <2>6. k \in SUBSET Pages /\ s \in SUBSET Pages
    BY <2>5, Parts
  <2>7. vm'[v] = [vm[v] EXCEPT !.mem = m, !.disk = clock + 1, !.kvm = k, !.soft = s]
    BY <2>4, <2>5, Zenon
  <2>8. vm'[v] \in VmRec
    <3>1. [vm[v] EXCEPT !.mem = m, !.disk = clock + 1, !.kvm = k, !.soft = s] \in VmRec
      BY <2>2, <2>3, <2>6, Written, Zenon
    <3>2. QED
      BY <2>7, <3>1
  <2>9. VmType'
    BY <2>8 DEF GuestWrites, TypeInv, VmType
  <2>10. QED
    BY <2>9 DEF GuestWrites, TypeInv, ImageType, OpType, SetType, WarmType, ghosts
<1>5. BaseInv(v)'
  <2>1. Idle.step \notin Taken /\ vm[v].mem \in Memory
    BY Parts DEF Idle, Taken
  <2>2. \A q \in Pages \ {p} : vm'[v].mem[q] = vm[v].mem[q]
    BY <1>2, <2>1 DEF Memory
  <2>3. \A q \in Pages : q \notin Dirty(v)' => q \notin Dirty(v) /\ q # p
    BY <1>2 DEF Dirty
  <2>4. QED
    BY <1>1, <1>2, <1>3, <2>1, <2>2, <2>3 DEF One, BaseInv
<1>6. One(v)'
  BY <1>1, <1>2, <1>3, <1>5, OneIdle
<1>7. QED
  BY <1>1, <1>3, <1>4, <1>6, Settles DEF DirMoves, Idle

\* A VM's process ends.
LEMMA DiesStep ==
  ASSUME TypeInv, ExactInv, NEW v \in Vms, Dies(v)
  PROVE  TypeInv' /\ ExactInv'
<1>1. vm[v] \in VmRec /\ One(v)
  BY Parts DEF ExactInv
<1>2. /\ vm'[v].mem = vm[v].mem /\ vm'[v].disk = vm[v].disk /\ vm'[v].kvm = vm[v].kvm
      /\ vm'[v].soft = vm[v].soft /\ vm'[v].base = vm[v].base /\ vm'[v].marked = vm[v].marked
      /\ vm'[v].st = "off" /\ v \notin owed' \ adrift'
  BY <1>1 DEF Dies, TypeInv, VmType, VmRec
<1>3. /\ OthersSame(v) /\ DirsSame({})
      /\ UNCHANGED <<op, short, images, truth, thin, raced, att, used>>
  BY DEF Dies, OthersSame, SameVm, DirsSame, SameDir, disk, TypeInv, VmType
<1>4. TypeInv'
  <2>1. vm'[v] \in VmRec
    BY <1>1 DEF Dies, TypeInv, VmType, VmRec
  <2>2. VmType'
    BY <2>1 DEF Dies, TypeInv, VmType
  <2>3. WarmType'
    BY DEF Dies, Faulty, disk, TypeInv, WarmType
  <2>4. QED
    BY <2>2, <2>3 DEF Dies, TypeInv, ImageType, OpType, SetType, disk
<1>5. One(v)'
  <2>1. StepKind(op[v])' /\ KindDir(v, op[v])' /\ StepState(v)'
    BY <1>1, <1>2, <1>3 DEF One, StepKind, KindDir, StepState
  <2>2. BaseInv(v)' /\ AttInv(v)'
    BY <1>1, <1>2, <1>3 DEF One, BaseInv, AttInv
  <2>3. PublishedInv(v)' /\ LoadInv(v)' /\ OwedInv(v)'
    BY <1>1, <1>2, <1>3 DEF One, PublishedInv, LoadInv, OwedInv, Held
  <2>4. QED
    BY <2>1, <2>2, <2>3 DEF One
<1>6. QED
  <2>1. op'[v].step = "apply" => op'[v].dir \in Dirs
    BY <1>1, <1>3, Parts, NameAssumption
       DEF One, StepKind, KindDir, Loading, TypeInv, SetType
  <2>2. QED
    BY <1>3, <1>4, <1>5, <2>1, Settles DEF DirMoves
\* A VM's process is another state; nothing else of it is different.
LEMMA StateSet ==
  ASSUME TypeInv, NEW v \in Vms, NEW s \in {"off", "running", "paused"},
         vm' = [vm EXCEPT ![v].st = s]
  PROVE  /\ vm' \in [Vms -> VmRec] /\ vm'[v].st = s
         /\ vm'[v].mem = vm[v].mem /\ vm'[v].disk = vm[v].disk /\ vm'[v].kvm = vm[v].kvm
         /\ vm'[v].soft = vm[v].soft /\ vm'[v].base = vm[v].base /\ vm'[v].marked = vm[v].marked
         /\ Dirty(v)' = Dirty(v) /\ Held(v)' = Held(v)
         /\ \A w \in Vms \ {v} : vm'[w] = vm[w]
<1>1. vm[v] \in VmRec
  BY Parts
<1>2. /\ vm'[v].st = s /\ vm'[v] \in VmRec
      /\ vm'[v].mem = vm[v].mem /\ vm'[v].disk = vm[v].disk /\ vm'[v].kvm = vm[v].kvm
      /\ vm'[v].soft = vm[v].soft /\ vm'[v].base = vm[v].base /\ vm'[v].marked = vm[v].marked
  BY <1>1 DEF TypeInv, VmType, VmRec
<1>3. vm' \in [Vms -> VmRec] /\ \A w \in Vms \ {v} : vm'[w] = vm[w]
  BY <1>2 DEF TypeInv, VmType
<1>4. QED
  BY <1>2, <1>3 DEF Dirty, Held

\* The directories an operation may work on.
LEMMA DirOf ==
  ASSUME TypeInv, ExactInv, NEW w \in Vms
  PROVE  op[w].dir \in used \cup {w, Warm, Nil}
  BY Parts DEF ExactInv, One, KindDir, Kinds

\* Names of different sorts are different.
LEMMA Names ==
  ASSUME TypeInv, NEW v \in Vms
  PROVE  v \notin Tags /\ v # Warm /\ v # Nil /\ Warm # Nil /\ Warm \notin Tags /\ Nil \notin Tags
         /\ Warm \in Dirs /\ v \in Dirs /\ used \subseteq Tags /\ Tags \subseteq Dirs /\ Nil \notin Dirs
  BY NameAssumption DEF TypeInv, SetType, Dirs

\* A checkpoint that starts, of either kind.
LEMMA Starts ==
  ASSUME TypeInv, ExactInv, NEW v \in Vms, NEW kind \in {"branch", "snapshot"}, NEW dir \in Dirs,
         CkptStart(v, kind, dir), used \subseteq used', used' \subseteq Tags,
         IF kind = "branch" THEN dir \in used' ELSE dir = v
  PROVE  /\ TypeInv' /\ One(v)' /\ OthersSame(v)
         /\ DirsSame(IF kind = "snapshot" THEN {v} ELSE {})
         /\ op'[v].kind = kind /\ op'[v].dir = dir /\ op'[v].step = "memory"
         /\ kind = "snapshot" => images'[v] = Nil
<1>1. One(v) /\ op[v] = Idle /\ vm[v].st # "off" /\ Idle.step = "none"
  BY DEF CkptStart, ExactInv, Idle
<1>2. /\ vm' \in [Vms -> VmRec] /\ vm'[v].st = "paused"
      /\ vm'[v].base = vm[v].base /\ vm'[v].marked = vm[v].marked
      /\ vm'[v].mem = vm[v].mem /\ vm'[v].kvm = vm[v].kvm
      /\ Dirty(v)' = Dirty(v)
      /\ \A w \in Vms \ {v} : vm'[w] = vm[w]
  BY StateSet DEF CkptStart
<1>3. /\ op' \in [Vms -> OpRec] /\ op'[v] = [kind |-> kind, dir |-> dir, step |-> "memory", at |-> 0]
      /\ \A w \in Vms \ {v} : op'[w] = op[w]
  BY DEF CkptStart, TypeInv, OpType, OpRec, Kinds, Steps, Taking
<1>4. /\ att' \in [Vms -> Attempt \cup {Nil}] /\ \A w \in Vms \ {v} : att'[w] = att[w]
  BY DEF CkptStart, TypeInv, OpType
<1>5. /\ images' \in [Dirs -> Image \cup {Nil}]
      /\ kind = "snapshot" => images'[v] = Nil
      /\ DirsSame(IF kind = "snapshot" THEN {v} ELSE {})
  BY Names DEF CkptStart, TypeInv, ImageType, DirsSame, SameDir
<1>6. TypeInv'
  <2>1. VmType' /\ ImageType' /\ OpType'
    BY <1>2, <1>3, <1>4, <1>5 DEF CkptStart, VmType, ImageType, OpType, TypeInv
  <2>2. SetType'
    BY DEF CkptStart, SetType, TypeInv
  <2>3. WarmType'
    BY DEF CkptStart, Asked, WarmType, TypeInv
  <2>4. QED
    BY <2>1, <2>2, <2>3 DEF TypeInv
<1>7. OthersSame(v)
  BY <1>2, <1>3, <1>4 DEF OthersSame, SameVm, CkptStart
<1>8. One(v)'
  <2>1. StepKind(op[v])' /\ KindDir(v, op[v])' /\ StepState(v)'
    BY <1>2, <1>3 DEF StepKind, KindDir, StepState, Taking, Loading, Idle
  <2>2. short' = short /\ "none" \notin Taken /\ "memory" \notin Taken
    BY DEF CkptStart, Taken
  <2>3. BaseInv(v)'
    BY <1>1, <1>2, <1>3, <2>2 DEF One, BaseInv
  <2>4. AttInv(v)' /\ PublishedInv(v)' /\ LoadInv(v)' /\ OwedInv(v)'
    BY <1>2, <1>3 DEF AttInv, PublishedInv, LoadInv, OwedInv
  <2>5. QED
    BY <2>1, <2>3, <2>4 DEF One
<1>9. op'[v].kind = kind /\ op'[v].dir = dir /\ op'[v].step = "memory"
  BY <1>3
<1>10. QED
  BY <1>5, <1>6, <1>7, <1>8, <1>9, Zenon

\* A branch starts, into a tag nobody uses.
LEMMA BranchStartStep ==
  ASSUME TypeInv, ExactInv, NEW v \in Vms, NEW t \in Tags, BranchStart(v, t)
  PROVE  TypeInv' /\ ExactInv'
<1>1. /\ used' = used \cup {t} /\ CkptStart(v, "branch", t) /\ t \in Dirs /\ used' \subseteq Tags
      /\ t \notin used
  BY Names DEF BranchStart
<1>2. /\ TypeInv' /\ One(v)' /\ OthersSame(v) /\ DirsSame({})
      /\ op'[v].kind = "branch" /\ op'[v].dir = t /\ op'[v].step = "memory"
  BY <1>1, Starts
<1>3. \A w \in Vms \ {v} : op[w].dir # t
  BY <1>1, DirOf, Names
<1>4. QED
  BY <1>2, <1>3, Settles DEF DirMoves

\* A snapshot starts, and the image a restore left is cleared.
LEMMA SnapshotStartStep ==
  ASSUME TypeInv, ExactInv, NEW v \in Vms, SnapshotStart(v)
  PROVE  TypeInv' /\ ExactInv'
<1>1. CkptStart(v, "snapshot", v) /\ v \in Dirs /\ used' = used /\ used \subseteq Tags
  BY Names DEF SnapshotStart
<1>2. /\ TypeInv' /\ One(v)' /\ OthersSame(v) /\ DirsSame({v}) /\ images'[v] = Nil
      /\ op'[v].kind = "snapshot" /\ op'[v].dir = v /\ op'[v].step = "memory"
  BY <1>1, Starts
<1>3. DirMoves(v)
  BY <1>2, Names DEF DirMoves
<1>4. QED
  BY <1>2, <1>3, OwnDir, Names, Settles
\* The memory is written: a whole file, or what the tracker shows over the base.
LEMMA CkptMemoryStep ==
  ASSUME TypeInv, ExactInv, NEW v \in Vms, CkptMemory(v)
  PROVE  TypeInv' /\ ExactInv'
<1>1. One(v) /\ op[v].step = "memory" /\ vm[v].st = "paused"
  BY DEF CkptMemory, ExactInv
<1>2. PICK k : k = IF IsDiff(v) /\ vm[v].marked THEN vm[v].kvm ELSE {}
  OBVIOUS
<1>3. vm' = [vm EXCEPT ![v].kvm = k] /\ k \in SUBSET Pages /\ vm[v] \in VmRec
  BY <1>2, Parts DEF CkptMemory, TypeInv, VmType
<1>4. /\ vm'[v] \in VmRec /\ vm'[v].st = "paused" /\ vm'[v].mem = vm[v].mem
      /\ vm'[v].disk = vm[v].disk /\ vm'[v].base = vm[v].base /\ vm'[v].soft = vm[v].soft
      /\ vm'[v].marked = vm[v].marked /\ vm'[v].kvm = k
  BY <1>1, <1>3 DEF VmRec, TypeInv, VmType
<1>5. vm' \in [Vms -> VmRec] /\ \A w \in Vms \ {v} : vm'[w] = vm[w]
  BY <1>3, <1>4 DEF TypeInv, VmType
<1>6. Chain(NextChain(v))
  BY <1>1, NextChainIs DEF One
<1>7. /\ att' \in [Vms -> Attempt \cup {Nil}] /\ att'[v] = [chain |-> NextChain(v), disk |-> Nil]
      /\ att'[v] \in Attempt
      /\ \A w \in Vms \ {v} : att'[w] = att[w]
  BY <1>6 DEF Chain, CkptMemory, TypeInv, OpType, Attempt
<1>8. /\ op' \in [Vms -> OpRec] /\ op'[v].step = "disk" /\ op'[v].kind = op[v].kind
      /\ op'[v].dir = op[v].dir
      /\ \A w \in Vms \ {v} : op'[w] = op[w]
  <2>1. op[v] \in OpRec
    BY Parts
  <2>2. QED
    BY <2>1 DEF CkptMemory, TypeInv, OpType, OpRec, Steps, Taking
<1>9. UNCHANGED <<images, seed, failed, noted, clock, used, count, ghosts>>
  BY DEF CkptMemory
<1>10. TypeInv'
  BY <1>5, <1>7, <1>8, <1>9 DEF TypeInv, VmType, ImageType, OpType, SetType, WarmType, ghosts
<1>11. OthersSame(v) /\ DirsSame({})
  BY <1>5, <1>7, <1>8, <1>9 DEF OthersSame, SameVm, DirsSame, SameDir, ghosts
<1>12. op[v].kind \in {"branch", "snapshot"}
  BY <1>1 DEF One, StepKind, Taking
<1>13. One(v)'
  <2>1. StepKind(op[v])' /\ KindDir(v, op[v])' /\ StepState(v)'
    BY <1>1, <1>4, <1>8, <1>9, <1>12 DEF One, StepKind, KindDir, StepState, Taking, Loading, Idle
  <2>2. "memory" \notin Taken /\ "disk" \in Taken /\ short' = short
    BY <1>9 DEF Taken, ghosts
  <2>3. vm[v].marked => Dirty(v)' = Dirty(v)
    BY <1>4 DEF Dirty
  <2>4. BaseInv(v)'
    BY <1>1, <1>2, <1>4, <1>8, <2>2, <2>3 DEF One, BaseInv
  <2>5. v \notin short \/ Len(NextChain(v)) = 1 => Stands(NextChain(v), vm[v].mem)
    <3>1. vm[v].mem \in Memory /\ Dirty(v) \in SUBSET Pages
      BY Parts
    <3>2. CASE ~IsDiff(v)
      BY <3>1, <3>2, OneFile DEF NextChain
    <3>3. CASE IsDiff(v)
      <4>1. Chain(vm[v].base) /\ Len(vm[v].base) < MaxChain /\ vm[v].base # <<>>
        BY <1>1, <3>3 DEF IsDiff, One, BaseInv
      <4>2. v \notin short => \A p \in Pages \ Dirty(v) :
                                Shows(vm[v].base, Len(vm[v].base), p, vm[v].mem[p])
        BY <1>1, <2>2, <4>1 DEF One, BaseInv
      <4>3. /\ NextChain(v) = Append(vm[v].base, [p \in Dirty(v) |-> vm[v].mem[p]])
        BY <3>3 DEF NextChain
      <4>4. /\ Len(NextChain(v)) > 1
            /\ (\A p \in Pages \ Dirty(v) : Shows(vm[v].base, Len(vm[v].base), p, vm[v].mem[p]))
               => Stands(NextChain(v), vm[v].mem)
        BY <3>1, <4>1, <4>3, OneDiff
      <4>5. Len(NextChain(v)) # 1
        BY <1>6, <4>4, ChainIs
      <4>6. QED
        BY <4>2, <4>4, <4>5
    <3>4. QED
      BY <3>2, <3>3
  <2>6. AttInv(v)'
    <3>1. att'[v].chain = NextChain(v) /\ att'[v] \in Attempt
      BY <1>7
    <3>2. QED
      BY <1>4, <1>6, <1>8, <2>2, <2>5, <3>1 DEF AttInv
  <2>7. PublishedInv(v)' /\ LoadInv(v)' /\ OwedInv(v)'
    BY <1>4, <1>8, <1>12 DEF PublishedInv, LoadInv, OwedInv
  <2>8. QED
    BY <2>1, <2>4, <2>6, <2>7 DEF One
<1>14. DirMoves(v)
  BY <1>8 DEF DirMoves
<1>15. QED
  BY <1>8, <1>10, <1>11, <1>13, <1>14, Settles

\* The disk is copied while the VM is paused.
LEMMA CkptDiskStep ==
  ASSUME TypeInv, ExactInv, NEW v \in Vms, CkptDisk(v)
  PROVE  TypeInv' /\ ExactInv'
<1>1. One(v) /\ op[v].step = "disk" /\ att[v] \in Attempt /\ vm[v].disk \in Nat
  BY Parts DEF CkptDisk, ExactInv, One, AttInv
<1>2. /\ att' \in [Vms -> Attempt \cup {Nil}] /\ att'[v].chain = att[v].chain
      /\ att'[v].disk = vm[v].disk /\ att'[v] \in Attempt
      /\ \A w \in Vms \ {v} : att'[w] = att[w]
  BY <1>1 DEF CkptDisk, TypeInv, OpType, Attempt
<1>3. /\ op' \in [Vms -> OpRec] /\ op'[v].step = "publish" /\ op'[v].kind = op[v].kind
      /\ op'[v].dir = op[v].dir
      /\ \A w \in Vms \ {v} : op'[w] = op[w]
  <2>1. op[v] \in OpRec
    BY Parts
  <2>2. QED
    BY <2>1 DEF CkptDisk, TypeInv, OpType, OpRec, Steps, Taking
<1>4. UNCHANGED <<vm, images, seed, failed, noted, clock, used, count, ghosts>>
  BY DEF CkptDisk
<1>5. TypeInv'
  BY <1>2, <1>3, <1>4 DEF TypeInv, VmType, ImageType, OpType, SetType, WarmType, ghosts
<1>6. OthersSame(v) /\ DirsSame({})
  BY <1>2, <1>3, <1>4 DEF OthersSame, SameVm, DirsSame, SameDir, ghosts
<1>7. op[v].kind \in {"branch", "snapshot"}
  BY <1>1 DEF One, StepKind, Taking
<1>8. One(v)'
  <2>1. StepKind(op[v])' /\ KindDir(v, op[v])' /\ StepState(v)'
    BY <1>1, <1>3, <1>4, <1>7 DEF One, StepKind, KindDir, StepState, Taking, Loading, Idle
  <2>2. BaseInv(v)'
    BY <1>1, <1>3, <1>4 DEF One, BaseInv, Taken, Dirty, ghosts
  <2>3. AttInv(v)'
    BY <1>1, <1>2, <1>3, <1>4 DEF One, AttInv, ghosts
  <2>4. PublishedInv(v)' /\ LoadInv(v)' /\ OwedInv(v)'
    BY <1>1, <1>3, <1>4, <1>7 DEF One, PublishedInv, LoadInv, OwedInv, ghosts
  <2>5. QED
    BY <2>1, <2>2, <2>3, <2>4 DEF One
<1>9. QED
  BY <1>3, <1>5, <1>6, <1>8, Settles DEF DirMoves
\* An operation that is over.
LEMMA OpOver ==
  ASSUME TypeInv, NEW v \in Vms, op' = [op EXCEPT ![v] = Idle]
  PROVE  /\ op' \in [Vms -> OpRec] /\ op'[v] = Idle /\ DirMoves(v)
         /\ op'[v].step # "apply" /\ op'[v].step \notin Taken
         /\ \A w \in Vms \ {v} : op'[w] = op[w]
<1>1. /\ op' \in [Vms -> OpRec] /\ op'[v] = Idle
      /\ \A w \in Vms \ {v} : op'[w] = op[w]
  BY Blank DEF TypeInv, OpType
<1>2. Idle.kind = "idle" /\ Idle.dir = Nil /\ Idle.step = "none"
  BY DEF Idle
<1>3. QED
  BY <1>1, <1>2, Names DEF DirMoves, Taken

\* No attempt is left behind.
LEMMA AttOver ==
  ASSUME TypeInv, NEW v \in Vms, att' = [att EXCEPT ![v] = Nil]
  PROVE  att' \in [Vms -> Attempt \cup {Nil}] /\ \A w \in Vms \ {v} : att'[w] = att[w]
  BY DEF TypeInv, OpType

\* What is left as the base of a VM whose checkpoint is given up.
LEMMA GivenUp ==
  ASSUME TypeInv, NEW v \in Vms, One(v), op'[v] = Idle,
         v \in short \/ LosesPages(v) => v \in short',
         vm'[v].mem = vm[v].mem, vm'[v].kvm = vm[v].kvm, vm'[v].soft = vm[v].soft,
         vm'[v].base = vm[v].base, vm'[v].marked = vm[v].marked,
         vm'[v].st # "off" => vm[v].st # "off"
  PROVE  BaseInv(v)'
<1>1. Idle.step \notin Taken
  BY DEF Idle, Taken
<1>2. Dirty(v)' = Dirty(v)
  BY DEF Dirty
<1>3. vm'[v].base # <<>> /\ v \notin short' =>
        v \notin short /\ (vm[v].marked \/ op[v].step \notin Taken)
  BY DEF LosesPages
<1>4. QED
  BY <1>1, <1>2, <1>3 DEF One, BaseInv

\* The memory or the disk is not written: the VM runs on, or is left paused.
LEMMA CkptFailsStep ==
  ASSUME TypeInv, ExactInv, NEW v \in Vms, CkptFails(v)
  PROVE  TypeInv' /\ ExactInv'
<1>1. One(v) /\ op[v].step \in {"memory", "disk"} /\ op[v].kind \in {"branch", "snapshot"}
      /\ vm[v].st \in {"off", "running", "paused"}
  BY Parts DEF CkptFails, ExactInv, One, StepKind, Taking
<1>2. PICK s \in {"off", "running", "paused"} :
        /\ vm' = [vm EXCEPT ![v].st = s]
        /\ s = "off" <=> vm[v].st = "off"
        /\ s = "paused" => v \in stuck'
  <2>1. vm = [vm EXCEPT ![v].st = vm[v].st]
    <3>1. vm[v] \in VmRec /\ vm \in [Vms -> VmRec]
      BY DEF TypeInv, VmType
    <3>2. [vm[v] EXCEPT !.st = vm[v].st] = vm[v]
      BY <3>1 DEF VmRec
    <3>3. QED
      BY <3>1, <3>2
  <2>2. CASE vm[v].st = "off"
    BY <2>1, <2>2 DEF CkptFails
  <2>3. CASE vm[v].st # "off" /\ vm' = [vm EXCEPT ![v].st = "running"]
    BY <2>3
  <2>4. CASE vm[v].st # "off" /\ vm' = vm /\ v \in stuck'
    BY <1>1, <2>1, <2>4
  <2>5. QED
    BY <2>2, <2>3, <2>4 DEF CkptFails
<1>3. vm' = [vm EXCEPT ![v].st = s]
  BY <1>2
<1>4. /\ vm' \in [Vms -> VmRec] /\ vm'[v].st = s
      /\ vm'[v].mem = vm[v].mem /\ vm'[v].disk = vm[v].disk /\ vm'[v].kvm = vm[v].kvm
      /\ vm'[v].soft = vm[v].soft /\ vm'[v].base = vm[v].base /\ vm'[v].marked = vm[v].marked
      /\ \A w \in Vms \ {v} : vm'[w] = vm[w]
  BY <1>3, StateSet
<1>5. /\ op' \in [Vms -> OpRec] /\ op'[v] = Idle /\ DirMoves(v) /\ op'[v].step # "apply"
      /\ \A w \in Vms \ {v} : op'[w] = op[w]
  BY OpOver DEF CkptFails
<1>6. att' \in [Vms -> Attempt \cup {Nil}] /\ \A w \in Vms \ {v} : att'[w] = att[w]
  BY AttOver DEF CkptFails
<1>7. /\ UNCHANGED <<images, seed, failed, noted, clock, used, truth, owed, adrift, thin, raced,
                    diedOf>>
      /\ short' = IF LosesPages(v) THEN short \cup {v} ELSE short
      /\ stuck' \subseteq Vms /\ \A w \in Vms \ {v} : w \in stuck' <=> w \in stuck
  BY DEF CkptFails, TypeInv, SetType
<1>8. TypeInv'
  <2>1. WarmType'
    BY <1>7 DEF CkptFails, Faulty, TypeInv, WarmType
  <2>2. QED
    BY <1>4, <1>5, <1>6, <1>7, <2>1 DEF TypeInv, VmType, ImageType, OpType, SetType
<1>9. OthersSame(v) /\ DirsSame({})
  BY <1>4, <1>5, <1>6, <1>7 DEF OthersSame, SameVm, DirsSame, SameDir
<1>10. BaseInv(v)'
  BY <1>1, <1>2, <1>4, <1>5, <1>7, GivenUp
<1>11. (vm'[v].st = "paused" => v \in stuck') /\ (vm'[v].st = "off" => v \notin owed' \ adrift')
  BY <1>1, <1>2, <1>4, <1>7 DEF One, OwedInv
<1>12. One(v)'
  BY <1>5, <1>10, <1>11, OneIdle
<1>13. QED
  BY <1>5, <1>8, <1>9, <1>12, Settles

\* A pause that fails: nothing has begun, and the VM may be left paused.
LEMMA PauseFailsStep ==
  ASSUME TypeInv, ExactInv, NEW v \in Vms, NEW kind \in {"branch", "snapshot"},
         PauseFails(v, kind)
  PROVE  TypeInv' /\ ExactInv'
<1>1. One(v) /\ op[v] = Idle /\ vm[v].st \in {"running", "paused"} /\ Idle.step = "none"
  BY DEF PauseFails, ExactInv, Idle
<1>2. PICK s \in {"running", "paused"} :
        /\ vm' = [vm EXCEPT ![v].st = s]
        /\ stuck' = IF s = "paused" THEN stuck \cup {v} ELSE stuck
  BY <1>1 DEF PauseFails
<1>3. /\ vm' \in [Vms -> VmRec] /\ vm'[v].st = s
      /\ vm'[v].mem = vm[v].mem /\ vm'[v].disk = vm[v].disk /\ vm'[v].kvm = vm[v].kvm
      /\ vm'[v].soft = vm[v].soft /\ vm'[v].base = vm[v].base /\ vm'[v].marked = vm[v].marked
      /\ \A w \in Vms \ {v} : vm'[w] = vm[w]
  BY <1>2, StateSet
<1>4. UNCHANGED <<op, att, seed, failed, noted, clock, used, truth, owed, adrift, short, thin,
                  raced,
                  diedOf>>
  BY DEF PauseFails
<1>5. /\ images' \in [Dirs -> Image \cup {Nil}]
      /\ kind = "snapshot" => images'[v] = Nil
      /\ DirsSame(IF kind = "snapshot" THEN {v} ELSE {})
  BY <1>4, Names DEF PauseFails, TypeInv, ImageType, DirsSame, SameDir
<1>6. TypeInv'
  <2>1. WarmType'
    BY <1>4 DEF PauseFails, Faulty, TypeInv, WarmType
  <2>2. QED
    BY <1>2, <1>3, <1>4, <1>5, <2>1 DEF TypeInv, VmType, ImageType, OpType, SetType
<1>7. OthersSame(v)
  BY <1>2, <1>3, <1>4 DEF OthersSame, SameVm
<1>8. BaseInv(v)'
  BY <1>1, <1>3, <1>4, GivenUp DEF LosesPages, Taken
<1>9. One(v)'
  BY <1>1, <1>2, <1>3, <1>4, <1>8, OneIdle
<1>10. DirMoves(v) /\ op'[v].step # "apply"
  BY <1>1, <1>4 DEF DirMoves
<1>11. CASE kind = "snapshot"
  BY <1>5, <1>6, <1>7, <1>9, <1>10, <1>11, OwnDir, Names, Settles
<1>12. CASE kind = "branch"
  BY <1>5, <1>6, <1>7, <1>9, <1>10, <1>12, Settles
<1>13. QED
  BY <1>11, <1>12

\* The image is not sealed or not published: the VM is left paused.
LEMMA PublishFailsStep ==
  ASSUME TypeInv, ExactInv, NEW v \in Vms, PublishFails(v)
  PROVE  TypeInv' /\ ExactInv'
<1>1. One(v) /\ op[v].step = "publish" /\ op[v].kind \in {"branch", "snapshot"}
  BY DEF PublishFails, ExactInv, One, StepKind, Taking
<1>2. /\ op' \in [Vms -> OpRec] /\ op'[v] = Idle /\ DirMoves(v) /\ op'[v].step # "apply"
      /\ \A w \in Vms \ {v} : op'[w] = op[w]
  BY OpOver DEF PublishFails
<1>3. att' \in [Vms -> Attempt \cup {Nil}] /\ \A w \in Vms \ {v} : att'[w] = att[w]
  BY AttOver DEF PublishFails
<1>4. /\ UNCHANGED <<vm, images, seed, failed, noted, clock, used, truth, owed, adrift, thin,
                     raced, diedOf>>
      /\ stuck' = IF vm[v].st = "paused" THEN stuck \cup {v} ELSE stuck
      /\ short' = IF LosesPages(v) THEN short \cup {v} ELSE short
  BY DEF PublishFails
<1>5. TypeInv'
  <2>1. WarmType'
    BY <1>4 DEF PublishFails, Faulty, TypeInv, WarmType
  <2>2. QED
    BY <1>2, <1>3, <1>4, <2>1 DEF TypeInv, VmType, ImageType, OpType, SetType
<1>6. OthersSame(v) /\ DirsSame({})
  BY <1>2, <1>3, <1>4 DEF OthersSame, SameVm, DirsSame, SameDir
<1>7. BaseInv(v)'
  BY <1>1, <1>2, <1>4, GivenUp
<1>8. (vm'[v].st = "paused" => v \in stuck') /\ (vm'[v].st = "off" => v \notin owed' \ adrift')
  BY <1>1, <1>4 DEF One, OwedInv
<1>9. One(v)'
  BY <1>2, <1>7, <1>8, OneIdle
<1>10. QED
  BY <1>2, <1>5, <1>6, <1>9, Settles

\* A snapshot is over: the process goes, and the image holds what it had.
LEMMA SnapshotEndsStep ==
  ASSUME TypeInv, ExactInv, NEW v \in Vms, SnapshotEnds(v)
  PROVE  TypeInv' /\ ExactInv'
<1>1. /\ One(v) /\ op[v].step = "remove" /\ op[v].dir = v /\ images[v] # Nil /\ truth[v] = Held(v)
  BY DEF SnapshotEnds, ExactInv, One, StepKind, KindDir, PublishedInv
<1>2. /\ vm' \in [Vms -> VmRec] /\ vm'[v].st = "off" /\ vm'[v].base = vm[v].base
      /\ Held(v)' = Held(v) /\ \A w \in Vms \ {v} : vm'[w] = vm[w]
  BY StateSet DEF SnapshotEnds
<1>3. /\ op' \in [Vms -> OpRec] /\ op'[v] = Idle /\ DirMoves(v) /\ op'[v].step # "apply"
      /\ op'[v].step \notin Taken
      /\ \A w \in Vms \ {v} : op'[w] = op[w]
  BY OpOver DEF SnapshotEnds
<1>4. UNCHANGED <<disk, clock, used, count, ghosts>>
  BY DEF SnapshotEnds
<1>5. TypeInv'
  BY <1>2, <1>3, <1>4 DEF TypeInv, VmType, ImageType, OpType, SetType, WarmType, disk, ghosts
<1>6. OthersSame(v) /\ DirsSame({})
  BY <1>2, <1>3, <1>4 DEF OthersSame, SameVm, DirsSame, SameDir, disk, ghosts
<1>7. BaseInv(v)'
  BY <1>1, <1>2, <1>3 DEF One, BaseInv
<1>8. images' = images /\ truth' = truth
  BY <1>4 DEF disk, ghosts
<1>9. One(v)'
  BY <1>1, <1>2, <1>3, <1>7, <1>8, OneIdle
<1>10. QED
  BY <1>3, <1>5, <1>6, <1>9, Settles
\* The image a branch or a snapshot works on is no other VM's.
LEMMA OwnImage ==
  ASSUME TypeInv, ExactInv, NEW v \in Vms, op[v].kind \in {"branch", "back", "snapshot", "own"}
  PROVE  /\ op[v].dir \in Dirs /\ op[v].dir # Warm
         /\ op[v].dir \in Tags => op[v].dir \in used
         /\ \A w \in Vms \ {v} : w # op[v].dir /\ op[w].dir # op[v].dir
<1>1. KindDir(v, op[v])
  BY DEF ExactInv, One
<1>2. CASE op[v].kind \in {"branch", "back"}
  BY <1>1, <1>2, Names DEF KindDir, ExactInv, TagInv
<1>3. CASE op[v].kind \in {"snapshot", "own"}
  BY <1>1, <1>3, Names, OwnDir DEF KindDir
<1>4. QED
  BY <1>2, <1>3

\* The attempt is renamed into place.
LEMMA CkptPublishStep ==
  ASSUME TypeInv, ExactInv, NEW v \in Vms, CkptPublish(v)
  PROVE  TypeInv' /\ ExactInv'
<1>0. PICK d : d = op[v].dir
  OBVIOUS
<1>1. /\ One(v) /\ op[v].step = "publish" /\ op[v].kind \in {"branch", "snapshot"}
      /\ att[v] \in Attempt /\ Chain(att[v].chain) /\ att[v].disk = vm[v].disk
      /\ v \notin short \/ Len(att[v].chain) = 1 => Stands(att[v].chain, vm[v].mem)
  BY DEF CkptPublish, ExactInv, One, StepKind, Taking, AttInv
<1>2. /\ d \in Dirs /\ d # Warm /\ \A w \in Vms \ {v} : w # d /\ op[w].dir # d
      /\ d \in Tags => d \in used
  BY <1>0, <1>1, OwnImage
<1>3. /\ vm[v].mem \in Memory /\ vm[v].disk \in Nat /\ op[v] \in OpRec
      /\ att[v].chain \in Seq(File) /\ Len(att[v].chain) \in Nat \ {0}
  BY <1>1, Parts, ChainIs
<1>4. PICK i : i = [chain |-> att[v].chain, disk |-> att[v].disk, asm |-> Nil, tmp |-> Nil, gen |-> 0]
  OBVIOUS
<1>5. i \in Image /\ i # Nil /\ i.chain = att[v].chain /\ i.disk = vm[v].disk /\ i.asm = Nil
  <2>1. i \in Image
    BY <1>1, <1>3, <1>4 DEF Image
  <2>2. QED
    BY <1>1, <1>4, <2>1, NilAssumption
<1>6. /\ images' = [images EXCEPT ![d] = i]
      /\ truth' = [truth EXCEPT ![d] = [mem |-> vm[v].mem, disk |-> vm[v].disk]]
      /\ thin' = IF v \in short /\ Len(att[v].chain) > 1 THEN thin \cup {d} ELSE thin \ {d}
      /\ raced' = raced \ {d}
      /\ UNCHANGED <<vm, seed, failed, noted, clock, used, count, owed, adrift, stuck, short,
                     diedOf>>
      /\ att' = [att EXCEPT ![v] = Nil]
  BY <1>0, <1>4 DEF CkptPublish
<1>7. /\ op' \in [Vms -> OpRec] /\ op'[v].kind = op[v].kind /\ op'[v].dir = d
      /\ op'[v].step = IF op[v].kind = "branch" THEN "resume" ELSE "remove"
      /\ \A w \in Vms \ {v} : op'[w] = op[w]
  BY <1>0, <1>3 DEF CkptPublish, TypeInv, OpType, OpRec, Steps
<1>8. att' \in [Vms -> Attempt \cup {Nil}] /\ \A w \in Vms \ {v} : att'[w] = att[w]
  BY <1>6, AttOver
<1>9. /\ images' \in [Dirs -> Image \cup {Nil}] /\ images'[d] = i
      /\ truth' \in [Dirs -> Moment] /\ truth'[d] = Held(v) /\ Held(v)' = Held(v)
      /\ \A e \in Dirs \ {d} : images'[e] = images[e] /\ truth'[e] = truth[e]
  BY <1>2, <1>3, <1>5, <1>6 DEF TypeInv, ImageType, Moment, Held
<1>10. TypeInv'
  BY <1>2, <1>6, <1>7, <1>8, <1>9 DEF TypeInv, VmType, ImageType, OpType, SetType, WarmType
<1>11. OthersSame(v) /\ DirsSame({d})
  BY <1>6, <1>7, <1>8, <1>9 DEF OthersSame, SameVm, DirsSame, SameDir
<1>12. Exact(d)'
  <2>1. d \notin thin' => Stands(att[v].chain, vm[v].mem)
    <3>1. Len(att[v].chain) > 1 \/ Len(att[v].chain) = 1
      <4>1. \A n \in Nat \ {0} : n > 1 \/ n = 1
        OBVIOUS
      <4>2. Len(att[v].chain) \in Nat \ {0}
        BY <1>3
      <4>3. QED
        BY <4>1, <4>2, Zenon
    <3>2. QED
      BY <1>1, <1>6, <3>1
  <2>2. truth'[d].mem = vm[v].mem /\ truth'[d].disk = vm[v].disk
    BY <1>9 DEF Held
  <2>3. QED
    BY <1>1, <1>5, <1>9, <2>1, <2>2 DEF Exact
<1>13. One(v)'
  <2>1. StepKind(op[v])' /\ KindDir(v, op[v])' /\ StepState(v)'
    <3>1. vm'[v].st # "running" /\ used' = used
      BY <1>1, <1>6 DEF One, StepState, Taking
    <3>2. QED
      BY <1>0, <1>1, <1>7, <3>1 DEF One, StepKind, KindDir, StepState, Taking, Loading, Idle
  <2>2. op'[v].step \in Taken /\ op[v].step \in Taken /\ Dirty(v)' = Dirty(v)
    BY <1>1, <1>6, <1>7 DEF Taken, Dirty
  <2>3. BaseInv(v)'
    BY <1>1, <1>6, <2>2 DEF One, BaseInv
  <2>4. AttInv(v)' /\ PublishedInv(v)' /\ LoadInv(v)' /\ OwedInv(v)'
    BY <1>0, <1>1, <1>5, <1>6, <1>7, <1>9 DEF One, AttInv, PublishedInv, LoadInv, OwedInv
  <2>5. QED
    BY <2>1, <2>3, <2>4 DEF One
<1>14. DirMoves(v)
  BY <1>0, <1>7 DEF DirMoves
<1>15. op'[v].step # "apply"
  BY <1>7
<1>16. d \in Tags => d \in used'
  BY <1>2, <1>6
<1>17. QED
  <2>1. \A w \in Vms \ {v} : w \notin {d} /\ op[w].dir \notin {d}
    BY <1>2
  <2>2. Warm \notin {d}
    BY <1>2
  <2>3. QED
    BY <1>10, <1>11, <1>12, <1>13, <1>14, <1>15, <1>16, <2>1, <2>2, Settles

\* A branch's parent resumes, on the image it has just produced.
LEMMA BranchResumesStep ==
  ASSUME TypeInv, ExactInv, NEW v \in Vms, BranchResumes(v)
  PROVE  TypeInv' /\ ExactInv'
<1>1. /\ One(v) /\ op[v].step = "resume" /\ op[v].kind = "branch" /\ vm[v] \in VmRec
      /\ images[op[v].dir] # Nil /\ truth[op[v].dir] = Held(v)
  BY Parts DEF BranchResumes, ExactInv, One, StepKind, PublishedInv
<1>2. op[v].dir \in Dirs /\ Exact(op[v].dir)
  BY <1>1, OwnImage DEF ExactInv, ImageInv
<1>3. PICK c, s : /\ c = images[op[v].dir].chain
                  /\ s = IF vm[v].marked THEN {} ELSE vm[v].soft
  OBVIOUS
<1>4. c \in Seq(File) /\ Chain(c) /\ s \in SUBSET Pages
  BY <1>2, <1>3, Parts DEF Exact, Chain
<1>5. vm' = [vm EXCEPT ![v].st = "running", ![v].base = c, ![v].soft = s]
  BY <1>3 DEF BranchResumes, TypeInv, VmType
<1>6. /\ vm'[v] \in VmRec /\ vm'[v].st = "running" /\ vm'[v].mem = vm[v].mem
      /\ vm'[v].base = c /\ vm'[v].soft = s /\ vm'[v].kvm = vm[v].kvm
      /\ vm'[v].marked = vm[v].marked
  BY <1>1, <1>4, <1>5 DEF TypeInv, VmType, VmRec
<1>7. vm' \in [Vms -> VmRec] /\ \A w \in Vms \ {v} : vm'[w] = vm[w]
  BY <1>5, <1>6 DEF TypeInv, VmType
<1>8. /\ op' \in [Vms -> OpRec] /\ op'[v] = Idle /\ DirMoves(v) /\ op'[v].step # "apply"
      /\ op'[v].step \notin Taken
      /\ \A w \in Vms \ {v} : op'[w] = op[w]
  BY OpOver DEF BranchResumes
<1>9. /\ UNCHANGED <<disk, clock, used, count, truth, owed, adrift, stuck, thin, raced, diedOf>>
      /\ short' = IF op[v].dir \in thin THEN short \cup {v} ELSE short \ {v}
  BY DEF BranchResumes
<1>10. TypeInv'
  BY <1>7, <1>8, <1>9 DEF TypeInv, VmType, ImageType, OpType, SetType, WarmType, disk
<1>11. OthersSame(v) /\ DirsSame({})
  BY <1>7, <1>8, <1>9 DEF OthersSame, SameVm, DirsSame, SameDir, disk
<1>12. BaseInv(v)'
  <2>1. v \notin short' => Stands(c, vm[v].mem)
    BY <1>1, <1>2, <1>3, <1>9 DEF Exact, Held
  <2>2. QED
    BY <1>4, <1>6, <1>8, <2>1 DEF BaseInv, Stands
<1>13. One(v)'
  BY <1>6, <1>8, <1>12, OneIdle
<1>14. QED
  BY <1>8, <1>10, <1>11, <1>13, Settles

\* A parent that will not resume is to come back from the image.
LEMMA BranchRestoresStep ==
  ASSUME TypeInv, ExactInv, NEW v \in Vms, BranchRestores(v)
  PROVE  TypeInv' /\ ExactInv'
<1>1. /\ One(v) /\ op[v].step = "resume" /\ op[v].kind = "branch" /\ op[v] \in OpRec
  BY Parts DEF BranchRestores, ExactInv, One, StepKind
<1>2. /\ vm' \in [Vms -> VmRec] /\ vm'[v].st = "off" /\ vm'[v].base = vm[v].base
      /\ Held(v)' = Held(v) /\ \A w \in Vms \ {v} : vm'[w] = vm[w]
  BY StateSet DEF BranchRestores
<1>3. /\ op' \in [Vms -> OpRec] /\ op'[v].kind = "back" /\ op'[v].dir = op[v].dir
      /\ op'[v].step = "take"
      /\ \A w \in Vms \ {v} : op'[w] = op[w]
  BY <1>1 DEF BranchRestores, TypeInv, OpType, OpRec, Steps, Loading, Kinds
<1>4. UNCHANGED <<disk, clock, used, ghosts>>
  BY DEF BranchRestores
<1>5. TypeInv'
  <2>1. WarmType'
    BY DEF BranchRestores, Faulty, TypeInv, WarmType, disk, ghosts
  <2>2. QED
    BY <1>2, <1>3, <1>4, <2>1 DEF TypeInv, VmType, ImageType, OpType, SetType, disk, ghosts
<1>6. OthersSame(v) /\ DirsSame({})
  BY <1>2, <1>3, <1>4 DEF OthersSame, SameVm, DirsSame, SameDir, disk, ghosts
<1>7. One(v)'
  <2>1. StepKind(op[v])' /\ KindDir(v, op[v])' /\ StepState(v)'
    BY <1>1, <1>2, <1>3, <1>4 DEF One, StepKind, KindDir, StepState, Taking, Loading, Idle
  <2>2. BaseInv(v)' /\ AttInv(v)'
    BY <1>1, <1>2, <1>3 DEF One, BaseInv, AttInv, Taken
  <2>3. PublishedInv(v)' /\ LoadInv(v)' /\ OwedInv(v)'
    BY <1>1, <1>2, <1>3, <1>4 DEF One, PublishedInv, LoadInv, OwedInv, disk, ghosts
  <2>4. QED
    BY <2>1, <2>2, <2>3 DEF One
<1>8. QED
  BY <1>1, <1>3, <1>5, <1>6, <1>7, Settles DEF DirMoves
(***************************************************************************)
(* A restore.                                                              *)
(***************************************************************************)
\* What a restore works on.
LEMMA Restoring ==
  ASSUME TypeInv, ExactInv, NEW v \in Vms, op[v].step \in Loading
  PROVE  /\ op[v].dir \in Dirs /\ op[v].kind \in {"fork", "back", "warm", "own"}
         /\ images[op[v].dir] # Nil => Exact(op[v].dir) /\ images[op[v].dir] \in Image
         /\ truth[op[v].dir] \in Moment
         /\ op[v].kind = "own" => op[v].dir = v
<1>1. /\ op[v].kind \in {"fork", "back", "warm", "own"} /\ KindDir(v, op[v])
  BY DEF ExactInv, One, StepKind
<1>2. op[v].dir \in Dirs
  BY <1>1, Names DEF KindDir
<1>3. QED
  BY <1>1, <1>2 DEF ExactInv, ImageInv, TypeInv, ImageType, KindDir

\* The next step of an operation.
LEMMA StepSet ==
  ASSUME TypeInv, NEW v \in Vms, NEW s \in Steps, op' = [op EXCEPT ![v].step = s]
  PROVE  /\ op' \in [Vms -> OpRec] /\ op'[v].step = s /\ op'[v].kind = op[v].kind
         /\ op'[v].dir = op[v].dir /\ op'[v].at = op[v].at /\ DirMoves(v)
         /\ \A w \in Vms \ {v} : op'[w] = op[w]
<1>1. op[v] \in OpRec
  BY Parts
<1>2. /\ op'[v] \in OpRec /\ op'[v].step = s /\ op'[v].kind = op[v].kind
      /\ op'[v].dir = op[v].dir /\ op'[v].at = op[v].at
  BY <1>1 DEF TypeInv, OpType, OpRec
<1>3. op' \in [Vms -> OpRec] /\ \A w \in Vms \ {v} : op'[w] = op[w]
  BY <1>2 DEF TypeInv, OpType
<1>4. QED
  BY <1>2, <1>3 DEF DirMoves

\* The disk is taken first.
LEMMA RestoreDiskStep ==
  ASSUME TypeInv, ExactInv, NEW v \in Vms, RestoreDisk(v)
  PROVE  TypeInv' /\ ExactInv'
<1>0. PICK d : d = op[v].dir
  OBVIOUS
<1>1. /\ One(v) /\ op[v].step = "take" /\ images[d] # Nil /\ vm[v] \in VmRec
      /\ vm[v].st = "off"
  BY <1>0, Parts DEF RestoreDisk, ExactInv, One, StepState
<1>2. /\ d \in Dirs /\ op[v].kind \in {"fork", "back", "warm", "own"} /\ Exact(d)
      /\ images[d] \in Image /\ truth[d] \in Moment
      /\ op[v].kind = "own" => d = v
  BY <1>0, <1>1, Restoring DEF Loading
<1>3. images[d].disk \in Nat
  BY <1>2 DEF Image
<1>4. /\ vm'[v] \in VmRec /\ vm'[v].st = "off" /\ vm'[v].mem = vm[v].mem
      /\ vm'[v].disk = images[d].disk /\ vm'[v].base = vm[v].base
  BY <1>0, <1>1, <1>3 DEF RestoreDisk, TypeInv, VmType, VmRec
<1>5. vm' \in [Vms -> VmRec] /\ \A w \in Vms \ {v} : vm'[w] = vm[w]
  BY <1>4 DEF RestoreDisk, TypeInv, VmType
<1>6. /\ op' \in [Vms -> OpRec] /\ op'[v].step = "assemble" /\ op'[v].kind = op[v].kind
      /\ op'[v].dir = d /\ DirMoves(v) /\ \A w \in Vms \ {v} : op'[w] = op[w]
  BY <1>0, StepSet DEF RestoreDisk, Steps, Loading
<1>7. UNCHANGED <<disk, clock, used, count, ghosts>>
  BY DEF RestoreDisk
<1>8. TypeInv'
  BY <1>5, <1>6, <1>7 DEF TypeInv, VmType, ImageType, OpType, SetType, WarmType, disk, ghosts
<1>9. OthersSame(v) /\ DirsSame({})
  BY <1>5, <1>6, <1>7 DEF OthersSame, SameVm, DirsSame, SameDir, disk, ghosts
<1>10. d \notin thin => vm'[v].disk = truth[d].disk /\ (truth[d] = Held(v) => truth[d] = Held(v)')
  BY <1>2, <1>4 DEF Exact, Held
<1>11. One(v)'
  <2>1. StepKind(op[v])' /\ KindDir(v, op[v])' /\ StepState(v)'
    BY <1>0, <1>1, <1>2, <1>4, <1>6, <1>7 DEF One, StepKind, KindDir, StepState, Taking, Loading, Idle
  <2>2. BaseInv(v)' /\ AttInv(v)'
    BY <1>1, <1>4, <1>6 DEF One, BaseInv, AttInv, Taken
  <2>3. PublishedInv(v)' /\ LoadInv(v)'
    BY <1>0, <1>1, <1>6, <1>7, <1>10 DEF One, PublishedInv, LoadInv, disk, ghosts
  <2>4. OwedInv(v)'
    BY <1>0, <1>1, <1>2, <1>4, <1>6, <1>7, <1>10 DEF One, OwedInv, disk, ghosts
  <2>5. QED
    BY <2>1, <2>2, <2>3, <2>4 DEF One
<1>12. QED
  BY <1>6, <1>8, <1>9, <1>11, Settles

\* There is nothing to assemble.
LEMMA AssembleNoneStep ==
  ASSUME TypeInv, ExactInv, NEW v \in Vms, AssembleNone(v)
  PROVE  TypeInv' /\ ExactInv'
<1>1. /\ One(v) /\ op[v].step = "assemble" /\ op[v].kind \in {"fork", "back", "warm", "own"}
      /\ Len(images[op[v].dir].chain) = 1 \/ images[op[v].dir].asm # Nil
  BY DEF AssembleNone, ExactInv, One, StepKind, Loading
<1>2. /\ op' \in [Vms -> OpRec] /\ op'[v].step = "load" /\ op'[v].kind = op[v].kind
      /\ op'[v].dir = op[v].dir /\ DirMoves(v) /\ \A w \in Vms \ {v} : op'[w] = op[w]
  BY StepSet DEF AssembleNone, Steps, Loading
<1>3. UNCHANGED <<vm, disk, clock, used, count, ghosts>>
  BY DEF AssembleNone
<1>4. TypeInv'
  BY <1>2, <1>3 DEF TypeInv, VmType, ImageType, OpType, SetType, WarmType, disk, ghosts
<1>5. OthersSame(v) /\ DirsSame({})
  BY <1>2, <1>3 DEF OthersSame, SameVm, DirsSame, SameDir, disk, ghosts
<1>6. One(v)'
  <2>1. StepKind(op[v])' /\ KindDir(v, op[v])' /\ StepState(v)'
    BY <1>1, <1>2, <1>3 DEF One, StepKind, KindDir, StepState, Taking, Loading, Idle
  <2>2. BaseInv(v)' /\ AttInv(v)'
    BY <1>1, <1>2, <1>3 DEF One, BaseInv, AttInv, Taken, StepState
  <2>3. PublishedInv(v)' /\ LoadInv(v)' /\ OwedInv(v)'
    BY <1>1, <1>2, <1>3 DEF One, PublishedInv, LoadInv, OwedInv, Held, disk, ghosts
  <2>4. QED
    BY <2>1, <2>2, <2>3 DEF One
<1>7. QED
  BY <1>2, <1>4, <1>5, <1>6, Settles

\* What is loaded is what the image was taken of.
LEMMA FileExact ==
  ASSUME TypeInv, ExactInv, NEW d \in Dirs, images[d] # Nil,
         Len(images[d].chain) = 1 \/ images[d].asm # Nil
  PROVE  /\ MemFile(images[d]) \in Memory /\ Chain(images[d].chain)
         /\ d \notin thin \cup raced => /\ MemFile(images[d]) = truth[d].mem
                                        /\ Stands(images[d].chain, truth[d].mem)
<1>1. Exact(d) /\ images[d] \in Image /\ truth[d].mem \in Memory
  BY DEF ExactInv, ImageInv, TypeInv, ImageType, Moment
<1>2. images[d].asm \in Memory \cup {Nil}
  BY <1>1 DEF Image
<1>3. Chain(images[d].chain) /\ images[d].chain[1] \in Memory
  BY <1>1 DEF Exact, Chain
<1>4. d \notin thin => Stands(images[d].chain, truth[d].mem)
  BY <1>1 DEF Exact
<1>5. CASE Len(images[d].chain) = 1
  <2>1. Stands(images[d].chain, images[d].chain[1])
    BY <1>3, <1>5, FirstShows DEF Stands
  <2>2. d \notin thin => images[d].chain[1] = truth[d].mem
    BY <1>1, <1>3, <1>4, <2>1, StandsForOne
  <2>3. QED
    BY <1>3, <1>4, <1>5, <2>2 DEF MemFile
<1>6. CASE Len(images[d].chain) # 1
  BY <1>1, <1>2, <1>3, <1>4, <1>6 DEF MemFile, Exact
<1>7. QED
  BY <1>5, <1>6
\* The memory is loaded, and its chain is the base.
LEMMA LoadStep ==
  ASSUME TypeInv, ExactInv, NEW v \in Vms, Load(v)
  PROVE  TypeInv' /\ ExactInv'
<1>0. PICK d : d = op[v].dir
  OBVIOUS
<1>1. /\ One(v) /\ op[v].step = "load" /\ images[d] # Nil /\ vm[v] \in VmRec
      /\ Len(images[d].chain) = 1 \/ images[d].asm # Nil
  BY <1>0, Parts DEF Load, ExactInv, One, LoadInv
<1>2. /\ d \in Dirs /\ op[v].kind \in {"fork", "back", "warm", "own"} /\ truth[d] \in Moment
  BY <1>0, <1>1, Restoring DEF Loading
<1>3. PICK m, c : m = MemFile(images[d]) /\ c = images[d].chain
  OBVIOUS
<1>4. /\ m \in Memory /\ Chain(c) /\ c \in Seq(File)
      /\ d \notin thin \cup raced => m = truth[d].mem /\ Stands(c, truth[d].mem)
  BY <1>1, <1>2, <1>3, FileExact DEF Chain
<1>5. vm' = [vm EXCEPT ![v].st = "paused", ![v].mem = m, ![v].base = c, ![v].kvm = {},
                       ![v].soft = {}, ![v].marked = TRUE]
  BY <1>0, <1>3 DEF Load
<1>6. /\ vm'[v] \in VmRec /\ vm'[v].st = "paused" /\ vm'[v].mem = m /\ vm'[v].disk = vm[v].disk
      /\ vm'[v].base = c /\ vm'[v].soft = {} /\ vm'[v].marked = TRUE
  BY <1>1, <1>4, <1>5 DEF TypeInv, VmType, VmRec
<1>7. vm' \in [Vms -> VmRec] /\ \A w \in Vms \ {v} : vm'[w] = vm[w]
  BY <1>5, <1>6 DEF TypeInv, VmType
<1>8. /\ op' \in [Vms -> OpRec] /\ op'[v].step = "loaded" /\ op'[v].kind = op[v].kind
      /\ op'[v].dir = d /\ DirMoves(v) /\ \A w \in Vms \ {v} : op'[w] = op[w]
  BY <1>0, StepSet DEF Load, Steps, Loading
<1>9. /\ UNCHANGED <<disk, clock, used, count, truth, owed, adrift, stuck, thin, raced, diedOf>>
      /\ short' = IF d \in thin \cup raced THEN short \cup {v} ELSE short \ {v}
  BY <1>0 DEF Load
<1>10. TypeInv'
  BY <1>7, <1>8, <1>9 DEF TypeInv, VmType, ImageType, OpType, SetType, WarmType, disk
<1>11. OthersSame(v) /\ DirsSame({})
  BY <1>7, <1>8, <1>9 DEF OthersSame, SameVm, DirsSame, SameDir, disk
<1>12. d \notin thin \cup raced => truth[d] = Held(v)'
  <2>1. d \notin thin => vm[v].disk = truth[d].disk
    BY <1>0, <1>1 DEF One, LoadInv
  <2>2. QED
    BY <1>2, <1>4, <1>6, <2>1 DEF Held, Moment
<1>13. One(v)'
  <2>1. StepKind(op[v])' /\ KindDir(v, op[v])' /\ StepState(v)'
    BY <1>0, <1>1, <1>2, <1>6, <1>8, <1>9 DEF One, StepKind, KindDir, StepState, Taking, Loading, Idle
  <2>2. BaseInv(v)'
    <3>1. v \notin short' => Stands(c, m)
      BY <1>4, <1>9
    <3>2. QED
      BY <1>4, <1>6, <1>8, <3>1 DEF BaseInv, Taken, Stands
  <2>3. AttInv(v)' /\ LoadInv(v)'
    BY <1>8, <1>9, <1>12 DEF AttInv, LoadInv
  <2>4. PublishedInv(v)' /\ OwedInv(v)'
    BY <1>0, <1>1, <1>6, <1>8, <1>9, <1>12 DEF One, PublishedInv, OwedInv, disk
  <2>5. QED
    BY <2>1, <2>2, <2>3, <2>4 DEF One
<1>14. QED
  BY <1>8, <1>10, <1>11, <1>13, Settles

\* A restore is over, and the guest runs.
LEMMA RestoreEndsStep ==
  ASSUME TypeInv, ExactInv, NEW v \in Vms, RestoreEnds(v)
  PROVE  TypeInv' /\ ExactInv'
<1>1. One(v) /\ op[v].step = "loaded" /\ vm[v].st = "paused"
  BY DEF RestoreEnds, ExactInv
<1>2. /\ vm' \in [Vms -> VmRec] /\ vm'[v].st = "running"
      /\ vm'[v].mem = vm[v].mem /\ vm'[v].base = vm[v].base /\ vm'[v].marked = vm[v].marked
      /\ Dirty(v)' = Dirty(v) /\ \A w \in Vms \ {v} : vm'[w] = vm[w]
  BY StateSet DEF RestoreEnds
<1>3. /\ op' \in [Vms -> OpRec] /\ op'[v] = Idle /\ DirMoves(v) /\ op'[v].step # "apply"
      /\ op'[v].step \notin Taken
      /\ \A w \in Vms \ {v} : op'[w] = op[w]
  BY OpOver DEF RestoreEnds
<1>4. /\ UNCHANGED <<images, att, seed, failed, clock, used, count, truth, stuck, short, thin,
                     raced, diedOf>>
      /\ owed' = owed \cup {v} /\ adrift' = adrift \ {v}
  BY DEF RestoreEnds
<1>5. noted' \in [Vms -> Nat]
  <2>1. images[Warm] # Nil => images[Warm].gen \in Nat
    BY Names DEF TypeInv, ImageType, Image
  <2>2. QED
    BY <2>1 DEF RestoreEnds, TypeInv, WarmType
<1>6. TypeInv'
  BY <1>2, <1>3, <1>4, <1>5 DEF TypeInv, VmType, ImageType, OpType, SetType, WarmType
<1>7. OthersSame(v) /\ DirsSame({})
  BY <1>2, <1>3, <1>4 DEF OthersSame, SameVm, DirsSame, SameDir
<1>8. BaseInv(v)'
  BY <1>1, <1>2, <1>3, <1>4 DEF One, BaseInv, Taken
<1>9. One(v)'
  BY <1>2, <1>3, <1>8, OneIdle
<1>10. QED
  BY <1>3, <1>6, <1>7, <1>9, Settles

\* A restore that fails, other than of a parent after its branch.
LEMMA RestoreFailsStep ==
  ASSUME TypeInv, ExactInv, NEW v \in Vms, NEW saved \in BOOLEAN, RestoreFails(v, saved),
         op[v].kind # "back"
  PROVE  TypeInv' /\ ExactInv'
<1>1. /\ One(v) /\ op[v].step \in Loading /\ op[v].kind \in {"fork", "warm", "own"}
      /\ vm[v].st \in {"off", "paused"}
  <2>1. op[v].step \in Loading /\ One(v)
    BY DEF RestoreFails, ExactInv, Loading
  <2>2. op[v].kind \in {"fork", "warm", "own"}
    BY <2>1 DEF One, StepKind
  <2>3. QED
    BY <2>1, <2>2, Parts DEF One, StepState, Loading
<1>2. /\ vm' \in [Vms -> VmRec] /\ vm'[v].st = "off" /\ vm'[v].base = vm[v].base
      /\ Held(v)' = Held(v) /\ \A w \in Vms \ {v} : vm'[w] = vm[w]
  BY StateSet DEF RestoreFails
<1>3. /\ UNCHANGED <<images, truth, owed, adrift, thin, raced>>
      /\ UNCHANGED <<att, seed, failed, noted, clock, used, stuck, short, diedOf>>
      /\ op' = [op EXCEPT ![v] = IF op[v].kind = "warm"
                                 THEN [Idle EXCEPT !.kind = "cold", !.step = "boot"] ELSE Idle]
      /\ count' = count \/ Faulty
  BY DEF RestoreFails
<1>4. /\ op' \in [Vms -> OpRec] /\ \A w \in Vms \ {v} : op'[w] = op[w]
      /\ op[v].kind = "warm" =>
           op'[v].kind = "cold" /\ op'[v].step = "boot" /\ op'[v].dir = Nil
      /\ op[v].kind # "warm" => op'[v] = Idle
  BY <1>3 DEF TypeInv, OpType, OpRec, Idle, Kinds, Steps
<1>5. TypeInv'
  <2>1. WarmType'
    BY <1>3 DEF Faulty, TypeInv, WarmType
  <2>2. QED
    BY <1>2, <1>3, <1>4, <2>1 DEF TypeInv, VmType, ImageType, OpType, SetType
<1>6. OthersSame(v) /\ DirsSame({})
  BY <1>2, <1>3, <1>4 DEF OthersSame, SameVm, DirsSame, SameDir
<1>7. CASE op[v].kind = "warm"
  <2>1. One(v)'
    <3>1. StepKind(op[v])' /\ KindDir(v, op[v])' /\ StepState(v)'
      BY <1>2, <1>4, <1>7 DEF StepKind, KindDir, StepState, Taking, Loading, Idle
    <3>2. BaseInv(v)' /\ AttInv(v)'
      BY <1>1, <1>2, <1>4, <1>7 DEF One, BaseInv, AttInv, Taken
    <3>3. PublishedInv(v)' /\ LoadInv(v)' /\ OwedInv(v)'
      BY <1>1, <1>3, <1>4, <1>7 DEF One, PublishedInv, LoadInv, OwedInv
    <3>4. QED
      BY <3>1, <3>2, <3>3 DEF One
  <2>2. DirMoves(v) /\ op'[v].step # "apply"
    BY <1>4, <1>7, Names DEF DirMoves
  <2>3. QED
    BY <1>5, <1>6, <2>1, <2>2, Settles
<1>8. CASE op[v].kind # "warm"
  <2>1. op' = [op EXCEPT ![v] = Idle]
    BY <1>3, <1>8
  <2>2. op'[v] = Idle /\ DirMoves(v) /\ op'[v].step # "apply" /\ op'[v].step \notin Taken
    BY <2>1, OpOver
  <2>3. BaseInv(v)'
    BY <1>1, <1>2, <2>2 DEF One, BaseInv
  <2>4. ASSUME v \in owed \ adrift, v \notin short \cup thin \cup raced
        PROVE  images[v] # Nil /\ truth[v] = Held(v)
    <3>1. op[v].kind = "own" /\ op[v].dir = v
      BY <1>1, <1>8, <2>4 DEF One, OwedInv, KindDir
    <3>2. images[v] # Nil
      BY <1>1, <3>1 DEF One, OwedInv
    <3>3. CASE vm[v].st = "off"
      BY <1>1, <2>4, <3>1, <3>3 DEF One, OwedInv
    <3>4. CASE vm[v].st = "paused"
      <4>1. op[v].step = "loaded"
        BY <1>1, <3>4 DEF One, StepState, Loading
      <4>2. QED
        BY <1>1, <2>4, <3>1, <3>2, <4>1 DEF One, LoadInv
    <3>5. QED
      BY <1>1, <3>3, <3>4
  <2>5. One(v)'
    BY <1>2, <1>3, <2>2, <2>3, <2>4, OneIdle
  <2>6. QED
    BY <1>5, <1>6, <2>2, <2>5, Settles
<1>9. QED
  BY <1>7, <1>8
\* A parent that did not come back from its branch: the image is its snapshot,
\* or what it had is lost and not owed.
LEMMA BackFailsStep ==
  ASSUME TypeInv, ExactInv, NEW v \in Vms, NEW saved \in BOOLEAN, RestoreFails(v, saved),
         op[v].kind = "back"
  PROVE  TypeInv' /\ ExactInv'
<1>0. PICK d : d = op[v].dir
  OBVIOUS
<1>1. /\ One(v) /\ images[d] # Nil /\ d \in used
      /\ d \notin thin \cup raced => truth[d] = Held(v)
  BY <1>0 DEF ExactInv, One, PublishedInv, KindDir
<1>2. /\ d \in Dirs /\ d # Warm /\ v # d /\ d \in Tags
      /\ \A w \in Vms \ {v} : w # d /\ op[w].dir # d /\ op[w].dir # v
  BY <1>0, <1>1, OwnImage, OwnDir, Names
<1>3. v \in Dirs /\ v # Warm /\ v \notin Tags /\ Exact(d) /\ images[d] \in Image /\ truth[d] \in Moment
  BY <1>1, <1>2, Names DEF ExactInv, ImageInv, TypeInv, ImageType
<1>4. /\ vm' \in [Vms -> VmRec] /\ vm'[v].st = "off" /\ vm'[v].base = vm[v].base
      /\ Held(v)' = Held(v) /\ \A w \in Vms \ {v} : vm'[w] = vm[w]
  BY StateSet DEF RestoreFails
<1>5. /\ op' \in [Vms -> OpRec] /\ op'[v] = Idle /\ DirMoves(v) /\ op'[v].step # "apply"
      /\ op'[v].step \notin Taken
      /\ \A w \in Vms \ {v} : op'[w] = op[w]
  BY OpOver DEF RestoreFails
<1>6. /\ UNCHANGED <<att, seed, failed, noted, clock, used, stuck, short, diedOf>>
      /\ count' = count \/ Faulty
      /\ Preserve(v, saved)
  BY DEF RestoreFails
<1>7. BaseInv(v)'
  BY <1>1, <1>4, <1>5 DEF One, BaseInv
<1>8. VmType' /\ OpType' /\ WarmType'
  <2>1. WarmType'
    BY <1>6 DEF Faulty, TypeInv, WarmType
  <2>2. QED
    BY <1>4, <1>5, <1>6, <2>1 DEF TypeInv, VmType, OpType
<1>9. CASE saved
  <2>1. /\ images' = [images EXCEPT ![v] = images[d], ![d] = Nil]
        /\ truth' = [truth EXCEPT ![v] = truth[d]]
        /\ thin' = IF d \in thin THEN thin \cup {v} ELSE thin \ {v}
        /\ raced' = IF d \in raced THEN raced \cup {v} ELSE raced \ {v}
        /\ owed' = owed /\ adrift' = adrift
    BY <1>0, <1>6, <1>9 DEF Preserve
  <2>2. /\ images' \in [Dirs -> Image \cup {Nil}] /\ truth' \in [Dirs -> Moment]
        /\ images'[v] = images[d] /\ images'[d] = Nil /\ truth'[v] = truth[d]
        /\ \A e \in Dirs \ {v, d} : images'[e] = images[e] /\ truth'[e] = truth[e]
    BY <1>2, <1>3, <2>1 DEF TypeInv, ImageType
  <2>3. TypeInv'
    BY <1>3, <1>6, <1>8, <2>1, <2>2 DEF TypeInv, ImageType, SetType
  <2>4. OthersSame(v) /\ DirsSame({v, d})
    BY <1>4, <1>5, <1>6, <2>1, <2>2 DEF OthersSame, SameVm, DirsSame, SameDir
  <2>5. Exact(v)'
    BY <1>3, <2>1, <2>2 DEF Exact
  <2>6. One(v)'
    <3>1. v \notin short' \cup thin' \cup raced' => images'[v] # Nil /\ truth'[v] = Held(v)'
      BY <1>1, <1>4, <2>1, <2>2
    <3>2. QED
      BY <1>4, <1>5, <1>7, <3>1, OneIdle
  <2>7. \A e \in {v, d} : e \in Dirs /\ images'[e] # Nil => Exact(e)' /\ (e \in Tags => e \in used')
    BY <1>3, <2>2, <2>5
  <2>8. Warm \notin {v, d} /\ \A w \in Vms \ {v} : w \notin {v, d} /\ op[w].dir \notin {v, d}
    BY <1>2, <1>3
  <2>9. QED
    BY <1>5, <2>3, <2>4, <2>6, <2>7, <2>8, Settles
<1>10. CASE ~saved
  <2>1. /\ images' = [images EXCEPT ![v] = Nil] /\ adrift' = adrift \cup ({v} \cap owed)
        /\ UNCHANGED <<truth, owed, thin, raced>>
    BY <1>6, <1>10 DEF Preserve
  <2>2. /\ images' \in [Dirs -> Image \cup {Nil}] /\ images'[v] = Nil
        /\ \A e \in Dirs \ {v} : images'[e] = images[e]
    BY <1>3, <2>1 DEF TypeInv, ImageType
  <2>3. TypeInv'
    BY <1>6, <1>8, <2>1, <2>2 DEF TypeInv, ImageType, SetType
  <2>4. OthersSame(v) /\ DirsSame({v})
    BY <1>4, <1>5, <1>6, <2>1, <2>2 DEF OthersSame, SameVm, DirsSame, SameDir
  <2>5. One(v)'
    BY <1>4, <1>5, <1>7, <2>1, OneIdle
  <2>6. \A e \in {v} : e \in Dirs /\ images'[e] # Nil => Exact(e)' /\ (e \in Tags => e \in used')
    BY <2>2
  <2>7. Warm \notin {v} /\ \A w \in Vms \ {v} : w \notin {v} /\ op[w].dir \notin {v}
    BY <1>2, <1>3
  <2>8. QED
    BY <1>5, <2>3, <2>4, <2>5, <2>6, <2>7, Settles
<1>11. QED
  BY <1>9, <1>10

(***************************************************************************)
(* Images that several restores share.                                     *)
(***************************************************************************)
\* A fork or a warm start goes on as it was, whatever becomes of the image's
\* assembled file, and if the image goes.
LEMMA OneShared ==
  ASSUME TypeInv, NEW w \in Vms, One(w), used \subseteq used', SameVm(w), SameDir(w),
         NEW d, op[w].dir = d, op[w].kind \in {"fork", "warm"},
         truth'[d] = truth[d], d \in thin' <=> d \in thin, raced \subseteq raced',
         op[w].step = "apply" /\ images'[d] # Nil => d \in raced',
         op[w].step = "load" /\ images'[d] # Nil =>
           Len(images'[d].chain) = 1 \/ images'[d].asm # Nil
  PROVE  One(w)'
<1>1. op'[w] = op[w] /\ vm'[w] = vm[w] /\ att'[w] = att[w]
  BY DEF SameVm
<1>2. StepKind(op[w])' /\ KindDir(w, op[w])' /\ StepState(w)'
  BY DEF One, StepKind, KindDir, StepState, SameVm
<1>3. BaseInv(w)' /\ AttInv(w)'
  BY DEF One, BaseInv, Dirty, AttInv, SameVm
<1>4. op[w].step \notin {"resume", "remove"}
  BY DEF One, StepKind
<1>5. PublishedInv(w)'
  BY <1>1, <1>4 DEF PublishedInv
<1>6. Held(w)' = Held(w)
  BY <1>1 DEF Held
<1>7. LoadInv(w)'
  BY <1>1, <1>6 DEF One, LoadInv
<1>8. OwedInv(w)'
  BY <1>6 DEF One, OwedInv, SameVm, SameDir
<1>9. QED
  BY <1>2, <1>3, <1>5, <1>7, <1>8 DEF One

\* A restore assembles an image that others may be restoring from too.
LEMMA SettlesShared ==
  ASSUME TypeInv, ExactInv, NEW v \in Vms, NEW d \in Dirs \ {Warm}, op[v].dir = d,
         op[v].step \in Loading, images[d] # Nil,
         OthersSame(v), DirsSame({d}), used' = used, truth' = truth, thin' = thin, raced \subseteq raced',
         op'[v].dir = d, op'[v].kind = op[v].kind, One(v)', Exact(d)',
         \A w \in Vms \ {v} : op[w].dir = d =>
           /\ op[w].step = "apply" => d \in raced'
           /\ op[w].step = "load" => Len(images'[d].chain) = 1 \/ images'[d].asm # Nil
  PROVE  ExactInv'
<1>1. \A w \in Vms \ {v} : SameVm(w) /\ op'[w] = op[w] /\ One(w)
  BY DEF OthersSame, SameVm, ExactInv
<1>2. \A w \in Vms \ {v} : w # d
  <2>1. op[v].kind \in {"fork", "back", "warm", "own"} /\ KindDir(v, op[v])
    BY DEF ExactInv, One, StepKind
  <2>2. QED
    BY <2>1, Names DEF KindDir
<1>3. ASSUME NEW w \in Vms PROVE One(w)'
  <2>1. CASE w = v
    BY <2>1
  <2>2. CASE w # v /\ op[w].dir # d
    <3>1. SameDir(w) /\ (op[w].dir = Nil \/ SameDir(op[w].dir))
      BY <1>2, <2>2, Parts DEF DirsSame
    <3>2. QED
      BY <1>1, <2>2, <3>1, OneKept DEF OthersSame
  <2>3. CASE w # v /\ op[w].dir = d
    <3>1. SameDir(w)
      BY <1>2, <2>3, Parts DEF DirsSame
    <3>2. op[w].kind \in {"fork", "warm"}
      <4>1. op[w].kind \notin {"branch", "back", "snapshot", "own"}
        BY <2>3, OwnImage
      <4>2. op[w].kind \notin {"idle", "cold"}
        BY <2>3, Names DEF ExactInv, One, KindDir
      <4>3. QED
        BY <4>1, <4>2, Parts DEF Kinds
    <3>3. QED
      BY <1>1, <2>3, <3>1, <3>2, OneShared DEF OthersSame
  <2>4. QED
    BY <2>1, <2>2, <2>3
<1>4. TagInv'
  <2>1. \A w \in Vms : op'[w].dir = op[w].dir /\ op'[w].kind = op[w].kind
    BY <1>1
  <2>2. \A t \in Tags : images'[t] # Nil => t \in used'
    BY Names DEF DirsSame, SameDir, ExactInv, TagInv
  <2>3. QED
    BY <2>1, <2>2 DEF ExactInv, TagInv
<1>5. ApplyInv'
  <2>1. ASSUME NEW a \in Vms, NEW b \in Vms, a # b, op'[a].step = "apply", op'[b].step = "apply",
               op'[a].dir = op'[b].dir
        PROVE  op'[a].dir \in raced'
    <3>1. CASE a = v \/ b = v
      BY <1>1, <2>1, <3>1
    <3>2. CASE a # v /\ b # v
      BY <1>1, <2>1, <3>2 DEF ExactInv, ApplyInv
    <3>3. QED
      BY <3>1, <3>2
  <2>2. QED
    BY <2>1 DEF ApplyInv
<1>6. ImageInv'
  <2>1. ASSUME NEW e \in Dirs, images'[e] # Nil PROVE Exact(e)'
    <3>1. CASE e = d
      BY <3>1
    <3>2. CASE e # d
      <4>1. SameDir(e)
        BY <3>2 DEF DirsSame
      <4>2. Exact(e)
        BY <2>1, <4>1 DEF SameDir, ExactInv, ImageInv
      <4>3. QED
        BY <4>1, <4>2, ExactKept
    <3>3. QED
      BY <3>1, <3>2
  <2>2. QED
    BY <2>1 DEF ImageInv
<1>7. WarmExact'
  BY DEF DirsSame, SameDir, Dirs, ExactInv, WarmExact
<1>8. QED
  BY <1>3, <1>4, <1>5, <1>6, <1>7 DEF ExactInv
\* An image whose chain is assembled is not the warm one.
LEMMA AssembledNotWarm ==
  ASSUME TypeInv, ExactInv, NEW v \in Vms, op[v].step \in {"assemble", "apply"},
         images[op[v].dir] # Nil,
         op[v].step = "apply" \/ Len(images[op[v].dir].chain) > 1
  PROVE  op[v].dir \in Dirs \ {Warm} /\ op[v].kind # "warm"
<1>1. op[v].dir \in Dirs /\ StepKind(op[v]) /\ KindDir(v, op[v])
      /\ op[v].kind \in {"fork", "back", "warm", "own"}
  BY Restoring DEF Loading, ExactInv, One
<1>2. op[v].dir = Warm => Len(images[op[v].dir].chain) = 1
  <2>1. Len(<<Zero>>) = 1
    BY OneFile, Blank
  <2>2. QED
    BY <2>1 DEF ExactInv, WarmExact
<1>3. op[v].dir = Warm => op[v].kind = "warm"
  BY <1>1, Names DEF KindDir
<1>4. op[v].kind = "warm" => op[v].dir = Warm
  BY <1>1 DEF KindDir
<1>5. op[v].kind # "warm"
  <2>1. CASE op[v].step = "apply"
    BY <1>1, <2>1 DEF StepKind
  <2>2. CASE op[v].step # "apply" /\ op[v].kind = "warm"
    <3>1. Len(images[op[v].dir].chain) = 1 /\ Len(images[op[v].dir].chain) > 1
      BY <1>2, <1>4, <2>2
    <3>2. ~(1 > 1)
      OBVIOUS
    <3>3. QED
      BY <3>1, <3>2, Zenon
  <2>3. QED
    BY <2>1, <2>2
<1>6. QED
  BY <1>1, <1>3, <1>5

\* A restore starts to assemble a chain, over what another may have begun.
LEMMA AssembleStartStep ==
  ASSUME TypeInv, ExactInv, NEW v \in Vms, AssembleStart(v)
  PROVE  TypeInv' /\ ExactInv'
<1>0. PICK d : d = op[v].dir
  OBVIOUS
<1>1. /\ One(v) /\ op[v].step = "assemble" /\ images[d] # Nil /\ op[v] \in OpRec
      /\ Len(images[d].chain) > 1 /\ images[d].asm = Nil
  BY <1>0, Parts DEF AssembleStart, ExactInv
<1>2. d \in Dirs \ {Warm} /\ op[v].kind # "warm"
  BY <1>0, <1>1, AssembledNotWarm
<1>3. /\ op[v].kind \in {"fork", "back", "own"} /\ Exact(d) /\ images[d] \in Image
      /\ op[v].kind = "own" => d = v
  BY <1>0, <1>1, <1>2, Restoring DEF Loading
<1>4. Chain(images[d].chain) /\ images[d].chain[1] \in Memory
  BY <1>3 DEF Exact, Chain
<1>5. /\ images'[d] \in Image /\ images'[d].chain = images[d].chain
      /\ images'[d].disk = images[d].disk /\ images'[d].asm = images[d].asm
      /\ images'[d].tmp = images[d].chain[1]
  BY <1>0, <1>2, <1>3, <1>4 DEF AssembleStart, TypeInv, ImageType, Image
<1>6. /\ images' \in [Dirs -> Image \cup {Nil}] /\ \A e \in Dirs \ {d} : images'[e] = images[e]
  BY <1>0, <1>2, <1>5 DEF AssembleStart, TypeInv, ImageType
<1>7. /\ op' \in [Vms -> OpRec] /\ op'[v].step = "apply" /\ op'[v].at = 2
      /\ op'[v].kind = op[v].kind /\ op'[v].dir = d
      /\ \A w \in Vms \ {v} : op'[w] = op[w]
  BY <1>0, <1>1 DEF AssembleStart, TypeInv, OpType, OpRec, Steps, Loading
<1>8. /\ UNCHANGED <<vm, att, seed, failed, noted, clock, used, count, truth, owed, adrift,
                     stuck, short, thin, diedOf>>
      /\ raced' = IF Assembling(d) # {} THEN raced \cup {d} ELSE raced
  BY <1>0 DEF AssembleStart
<1>9. TypeInv'
  BY <1>2, <1>6, <1>7, <1>8 DEF TypeInv, VmType, ImageType, OpType, SetType, WarmType
<1>10. OthersSame(v) /\ DirsSame({d}) /\ raced \subseteq raced'
  BY <1>6, <1>7, <1>8 DEF OthersSame, SameVm, DirsSame, SameDir
<1>11. Exact(d)'
  BY <1>3, <1>5, <1>8, <1>10 DEF Exact
<1>12. images'[d] # Nil
  BY <1>5, NilAssumption
<1>13. One(v)'
  <2>1. StepKind(op[v])' /\ KindDir(v, op[v])' /\ StepState(v)'
    BY <1>0, <1>1, <1>3, <1>7, <1>8 DEF One, StepKind, KindDir, StepState, Taking, Loading, Idle
  <2>2. BaseInv(v)' /\ AttInv(v)'
    BY <1>1, <1>7, <1>8 DEF One, BaseInv, AttInv, Taken, StepState
  <2>3. Held(v)' = Held(v)
    BY <1>8 DEF Held
  <2>4. PublishedInv(v)'
    BY <1>0, <1>1, <1>7, <1>8, <1>10, <1>12, <2>3 DEF One, PublishedInv
  <2>5. LoadInv(v)'
    <3>1. \A p \in Pages : Shows(images[d].chain, 2 - 1, p, images[d].chain[1][p])
      BY <1>4, FirstShows
    <3>2. 2 <= Len(images[d].chain) + 1
      BY <1>1, <1>4, ChainIs
    <3>3. d \notin thin => vm[v].disk = truth[d].disk
      BY <1>0, <1>1 DEF One, LoadInv
    <3>4. QED
      BY <1>5, <1>7, <1>8, <3>1, <3>2, <3>3 DEF LoadInv
  <2>6. OwedInv(v)'
    BY <1>0, <1>1, <1>3, <1>7, <1>8, <1>10, <1>12, <2>3 DEF One, OwedInv
  <2>7. QED
    BY <2>1, <2>2, <2>4, <2>5, <2>6 DEF One
<1>14. \A w \in Vms \ {v} : op[w].dir = d =>
           /\ op[w].step = "apply" => d \in raced'
           /\ op[w].step = "load" => Len(images'[d].chain) = 1 \/ images'[d].asm # Nil
  <2>1. ASSUME NEW w \in Vms \ {v}, op[w].dir = d, op[w].step = "apply" PROVE d \in raced'
    BY <1>8, <2>1 DEF Assembling
  <2>2. ASSUME NEW w \in Vms \ {v}, op[w].dir = d, op[w].step = "load"
        PROVE  Len(images'[d].chain) = 1 \/ images'[d].asm # Nil
    BY <1>1, <1>5, <2>2 DEF ExactInv, One, LoadInv
  <2>3. QED
    BY <2>1, <2>2
<1>15. op[v].step \in Loading
  BY <1>1 DEF Loading
<1>16. QED
  BY <1>0, <1>1, <1>2, <1>7, <1>8, <1>9, <1>10, <1>11, <1>13, <1>14, <1>15, SettlesShared

\* One diff more is applied.
LEMMA AssembleApplyStep ==
  ASSUME TypeInv, ExactInv, NEW v \in Vms, AssembleApply(v)
  PROVE  TypeInv' /\ ExactInv'
<1>0. PICK d, n : d = op[v].dir /\ n = op[v].at
  OBVIOUS
<1>1. /\ One(v) /\ op[v].step = "apply" /\ images[d] # Nil /\ op[v] \in OpRec
      /\ images[d].tmp # Nil /\ n <= Len(images[d].chain) /\ n \in Nat /\ n >= 2
  BY <1>0, Parts DEF AssembleApply, ExactInv, One, LoadInv
<1>2. d \in Dirs \ {Warm} /\ op[v].kind # "warm"
  BY <1>0, <1>1, AssembledNotWarm
<1>3. /\ op[v].kind \in {"fork", "back", "own"} /\ Exact(d) /\ images[d] \in Image
      /\ op[v].kind = "own" => d = v
  BY <1>0, <1>1, <1>2, Restoring DEF Loading
<1>4. Chain(images[d].chain) /\ images[d].tmp \in Memory /\ n \in 1..Len(images[d].chain)
  <2>1. Chain(images[d].chain) /\ images[d].tmp \in Memory
    BY <1>1, <1>3 DEF Exact, Image
  <2>2. QED
    BY <1>1, <2>1, ChainIs
<1>5. PICK m : m = ApplyDiff(images[d].chain[n], images[d].tmp)
  OBVIOUS
<1>6. m \in Memory
  BY <1>4, <1>5, AppliedType
<1>7. images' = [images EXCEPT ![d].tmp = m]
  BY <1>0, <1>2, <1>5 DEF AssembleApply, TypeInv, ImageType
<1>8. /\ images'[d] \in Image /\ images'[d].chain = images[d].chain
      /\ images'[d].disk = images[d].disk /\ images'[d].asm = images[d].asm
      /\ images'[d].tmp = m
  BY <1>2, <1>3, <1>6, <1>7 DEF TypeInv, ImageType, Image
<1>9. /\ images' \in [Dirs -> Image \cup {Nil}] /\ \A e \in Dirs \ {d} : images'[e] = images[e]
  BY <1>2, <1>7, <1>8 DEF TypeInv, ImageType
<1>10. /\ op' \in [Vms -> OpRec] /\ op'[v].step = "apply" /\ op'[v].at = n + 1
       /\ op'[v].kind = op[v].kind /\ op'[v].dir = d
       /\ \A w \in Vms \ {v} : op'[w] = op[w]
  BY <1>0, <1>1 DEF AssembleApply, TypeInv, OpType, OpRec
<1>11. UNCHANGED <<vm, att, seed, failed, noted, clock, used, count, ghosts>>
  BY DEF AssembleApply
<1>12. TypeInv'
  BY <1>9, <1>10, <1>11 DEF TypeInv, VmType, ImageType, OpType, SetType, WarmType, ghosts
<1>13. OthersSame(v) /\ DirsSame({d}) /\ raced' = raced /\ truth' = truth /\ thin' = thin
  BY <1>9, <1>10, <1>11 DEF OthersSame, SameVm, DirsSame, SameDir, ghosts
<1>14. Exact(d)'
  BY <1>3, <1>8, <1>13 DEF Exact
<1>15. images'[d] # Nil
  BY <1>8, NilAssumption
<1>16. One(v)'
  <2>1. StepKind(op[v])' /\ KindDir(v, op[v])' /\ StepState(v)'
    BY <1>0, <1>1, <1>3, <1>10, <1>11 DEF One, StepKind, KindDir, StepState, Taking, Loading, Idle
  <2>2. BaseInv(v)' /\ AttInv(v)'
    BY <1>1, <1>10, <1>11 DEF One, BaseInv, AttInv, Taken, StepState
  <2>3. Held(v)' = Held(v)
    BY <1>11 DEF Held
  <2>4. PublishedInv(v)'
    BY <1>0, <1>1, <1>10, <1>13, <1>15, <2>3 DEF One, PublishedInv
  <2>5. LoadInv(v)'
    <3>1. d \notin raced => \A p \in Pages : Shows(images[d].chain, (n - 1) + 1, p, m[p])
      <4>1. d \notin raced => \A p \in Pages : Shows(images[d].chain, n - 1, p, images[d].tmp[p])
        BY <1>0, <1>1 DEF One, LoadInv
      <4>2. n - 1 \in Nat /\ (n - 1) + 1 = n
        BY <1>1
      <4>3. QED
        BY <1>4, <1>5, <4>1, <4>2, AppliedShows
    <3>2. (n - 1) + 1 = n /\ (n + 1) - 1 = n /\ n + 1 >= 2 /\ n + 1 <= Len(images[d].chain) + 1
      BY <1>1, <1>4, ChainIs
    <3>3. d \notin thin => vm[v].disk = truth[d].disk
      BY <1>0, <1>1 DEF One, LoadInv
    <3>4. d \notin raced => \A p \in Pages : Shows(images[d].chain, (n + 1) - 1, p, m[p])
      BY <3>1, <3>2
    <3>5. QED
      BY <1>8, <1>10, <1>11, <1>13, <3>2, <3>3, <3>4 DEF LoadInv
  <2>6. OwedInv(v)'
    BY <1>0, <1>1, <1>3, <1>10, <1>11, <1>13, <1>15, <2>3 DEF One, OwedInv, ghosts
  <2>7. QED
    BY <2>1, <2>2, <2>4, <2>5, <2>6 DEF One
<1>17. \A w \in Vms \ {v} : op[w].dir = d =>
           /\ op[w].step = "apply" => d \in raced'
           /\ op[w].step = "load" => Len(images'[d].chain) = 1 \/ images'[d].asm # Nil
  <2>1. ASSUME NEW w \in Vms \ {v}, op[w].dir = d, op[w].step = "apply" PROVE d \in raced'
    BY <1>0, <1>1, <1>13, <2>1 DEF ExactInv, ApplyInv
  <2>2. ASSUME NEW w \in Vms \ {v}, op[w].dir = d, op[w].step = "load"
        PROVE  Len(images'[d].chain) = 1 \/ images'[d].asm # Nil
    BY <1>1, <1>8, <2>2 DEF ExactInv, One, LoadInv
  <2>3. QED
    BY <2>1, <2>2
<1>18. op[v].step \in Loading /\ used' = used
  BY <1>1, <1>11 DEF Loading
<1>19. QED
  BY <1>0, <1>1, <1>2, <1>10, <1>12, <1>13, <1>14, <1>16, <1>17, <1>18, SettlesShared
\* The assembled file is in place.
LEMMA AssembleEndsStep ==
  ASSUME TypeInv, ExactInv, NEW v \in Vms, AssembleEnds(v)
  PROVE  TypeInv' /\ ExactInv'
<1>0. PICK d, n, m : d = op[v].dir /\ n = op[v].at /\ m = images[d].tmp
  OBVIOUS
<1>1. /\ One(v) /\ op[v].step = "apply" /\ images[d] # Nil /\ op[v] \in OpRec
      /\ m # Nil /\ n > Len(images[d].chain) /\ n \in Nat
      /\ d \notin raced => /\ n <= Len(images[d].chain) + 1
                           /\ \A p \in Pages : Shows(images[d].chain, n - 1, p, m[p])
  BY <1>0, Parts DEF AssembleEnds, ExactInv, One, LoadInv
<1>2. d \in Dirs \ {Warm} /\ op[v].kind # "warm"
  BY <1>0, <1>1, AssembledNotWarm
<1>3. /\ op[v].kind \in {"fork", "back", "own"} /\ Exact(d) /\ images[d] \in Image
      /\ op[v].kind = "own" => d = v
  BY <1>0, <1>1, <1>2, Restoring DEF Loading
<1>4. Chain(images[d].chain) /\ m \in Memory /\ truth[d].mem \in Memory
  BY <1>0, <1>1, <1>2, <1>3 DEF Exact, Image, TypeInv, ImageType, Moment
<1>5. images' = [images EXCEPT ![d].asm = m, ![d].tmp = Nil]
  BY <1>0 DEF AssembleEnds
<1>6. /\ images'[d] \in Image /\ images'[d].chain = images[d].chain
      /\ images'[d].disk = images[d].disk /\ images'[d].asm = m
  BY <1>2, <1>3, <1>4, <1>5 DEF TypeInv, ImageType, Image
<1>7. /\ images' \in [Dirs -> Image \cup {Nil}] /\ \A e \in Dirs \ {d} : images'[e] = images[e]
  BY <1>2, <1>5, <1>6 DEF TypeInv, ImageType
<1>8. /\ op' \in [Vms -> OpRec] /\ op'[v].step = "load"
      /\ op'[v].kind = op[v].kind /\ op'[v].dir = d
      /\ \A w \in Vms \ {v} : op'[w] = op[w]
  BY <1>0, <1>1 DEF AssembleEnds, TypeInv, OpType, OpRec, Steps, Loading
<1>9. UNCHANGED <<vm, att, seed, failed, noted, clock, used, count, ghosts>>
  BY DEF AssembleEnds
<1>10. TypeInv'
  BY <1>7, <1>8, <1>9 DEF TypeInv, VmType, ImageType, OpType, SetType, WarmType, ghosts
<1>11. OthersSame(v) /\ DirsSame({d}) /\ raced' = raced /\ truth' = truth /\ thin' = thin
  BY <1>7, <1>8, <1>9 DEF OthersSame, SameVm, DirsSame, SameDir, ghosts
<1>12. Exact(d)'
  <2>1. ASSUME d \notin thin, d \notin raced PROVE m = truth[d].mem
    <3>1. Len(images[d].chain) \in Nat
      BY <1>4, ChainIs
    <3>2. n - 1 = Len(images[d].chain)
      BY <1>1, <2>1, <3>1
    <3>3. Stands(images[d].chain, m)
      BY <1>1, <2>1, <3>2 DEF Stands
    <3>4. Stands(images[d].chain, truth[d].mem)
      BY <1>3, <2>1 DEF Exact
    <3>5. QED
      BY <1>4, <3>3, <3>4, StandsForOne
  <2>2. QED
    BY <1>3, <1>6, <1>11, <2>1 DEF Exact
<1>13. images'[d] # Nil
  BY <1>6, NilAssumption
<1>14. One(v)'
  <2>1. StepKind(op[v])' /\ KindDir(v, op[v])' /\ StepState(v)'
    BY <1>0, <1>1, <1>3, <1>8, <1>9 DEF One, StepKind, KindDir, StepState, Taking, Loading, Idle
  <2>2. BaseInv(v)' /\ AttInv(v)'
    BY <1>1, <1>8, <1>9 DEF One, BaseInv, AttInv, Taken, StepState
  <2>3. Held(v)' = Held(v)
    BY <1>9 DEF Held
  <2>4. PublishedInv(v)'
    BY <1>0, <1>1, <1>8, <1>11, <1>13, <2>3 DEF One, PublishedInv
  <2>5. LoadInv(v)'
    BY <1>0, <1>1, <1>6, <1>8, <1>9, <1>11 DEF One, LoadInv
  <2>6. OwedInv(v)'
    BY <1>0, <1>1, <1>3, <1>8, <1>9, <1>11, <1>13, <2>3 DEF One, OwedInv, ghosts
  <2>7. QED
    BY <2>1, <2>2, <2>4, <2>5, <2>6 DEF One
<1>15. \A w \in Vms \ {v} : op[w].dir = d =>
           /\ op[w].step = "apply" => d \in raced'
           /\ op[w].step = "load" => Len(images'[d].chain) = 1 \/ images'[d].asm # Nil
  BY <1>0, <1>1, <1>6, <1>11 DEF ExactInv, ApplyInv
<1>16. op[v].step \in Loading /\ used' = used
  BY <1>1, <1>9 DEF Loading
<1>17. QED
  BY <1>0, <1>1, <1>2, <1>8, <1>10, <1>11, <1>12, <1>14, <1>15, <1>16, SettlesShared

(***************************************************************************)
(* Creates, boots, wakes and removals.                                     *)
(***************************************************************************)
\* A create that begins.
LEMMA Begins ==
  ASSUME TypeInv, ExactInv, NEW v \in Vms,
         NEW kind \in {"fork", "warm", "cold"}, NEW dir \in Dirs \cup {Nil}, NEW step \in {"take", "boot"},
         Begin(v, kind, dir, step), UNCHANGED <<vm, att, clock, used, truth, stuck, short, thin,
                                                raced, diedOf>>,
         kind = "fork" => dir \in used, kind = "warm" => dir = Warm, kind = "cold" => dir = Nil,
         step = "boot" <=> kind = "cold"
  PROVE  /\ VmType' /\ OpType' /\ SetType' /\ count' \in [faults : Nat, crashes : Nat, seeds : Nat, ops : Nat]
         /\ OthersSame(v) /\ One(v)'
         /\ op'[v].kind = kind /\ op'[v].dir = dir /\ op'[v].step = step
<1>1. One(v) /\ op[v] = Idle /\ vm[v].st = "off" /\ v \notin owed' \ adrift'
  BY DEF Begin, ExactInv
<1>2. /\ op' \in [Vms -> OpRec] /\ op'[v] = [kind |-> kind, dir |-> dir, step |-> step, at |-> 0]
      /\ \A w \in Vms \ {v} : op'[w] = op[w]
  BY DEF Begin, TypeInv, OpType, OpRec, Kinds, Steps, Loading
<1>3. VmType' /\ OpType' /\ SetType' /\ count' \in [faults : Nat, crashes : Nat, seeds : Nat, ops : Nat]
  BY <1>2 DEF Begin, Asked, TypeInv, VmType, OpType, SetType, WarmType
<1>4. OthersSame(v)
  BY <1>2 DEF OthersSame, SameVm, Begin
<1>5. op'[v].kind = kind /\ op'[v].dir = dir /\ op'[v].step = step
  BY <1>2
<1>6. One(v)'
  <2>1. StepKind(op[v])'
    BY <1>5 DEF StepKind, Taking, Loading
  <2>2. KindDir(v, op[v])'
    BY <1>5 DEF KindDir
  <2>3. StepState(v)'
    BY <1>1, <1>5 DEF StepState, Taking, Idle
  <2>4. BaseInv(v)' /\ AttInv(v)'
    BY <1>1, <1>5 DEF One, BaseInv, AttInv, Taken
  <2>5. PublishedInv(v)' /\ LoadInv(v)' /\ OwedInv(v)'
    BY <1>1, <1>5 DEF PublishedInv, LoadInv, OwedInv
  <2>6. QED
    BY <2>1, <2>2, <2>3, <2>4, <2>5 DEF One
<1>7. QED
  BY <1>3, <1>4, <1>5, <1>6

\* A fork of a tag whose branch has answered.
LEMMA CreateForkStep ==
  ASSUME TypeInv, ExactInv, NEW v \in Vms, NEW t \in Tags, CreateFork(v, t)
  PROVE  TypeInv' /\ ExactInv'
<1>1. /\ images[t] # Nil /\ t \in used /\ t \in Dirs /\ Begin(v, "fork", t, "take")
      /\ \A w \in Vms : op[w].dir = t => op[w].kind = "fork"
  BY Names DEF CreateFork, ExactInv, TagInv
<1>2. UNCHANGED <<vm, images, att, seed, failed, noted, clock, used, truth, stuck, short, thin,
                  raced, diedOf>>
  BY DEF CreateFork, disk
<1>3. /\ VmType' /\ OpType' /\ SetType' /\ count' \in [faults : Nat, crashes : Nat, seeds : Nat, ops : Nat]
      /\ OthersSame(v) /\ One(v)'
      /\ op'[v].kind = "fork" /\ op'[v].dir = t /\ op'[v].step = "take"
  BY <1>1, <1>2, Begins
<1>4. TypeInv' /\ DirsSame({})
  BY <1>2, <1>3 DEF TypeInv, ImageType, WarmType, DirsSame, SameDir
<1>5. DirMoves(v)
  BY <1>1, <1>3 DEF DirMoves
<1>6. QED
  BY <1>3, <1>4, <1>5, Settles

\* A VM boots, with no image under it.
LEMMA BootStep ==
  ASSUME TypeInv, ExactInv, NEW v \in Vms, Boot(v)
  PROVE  TypeInv' /\ ExactInv'
<1>1. vm[v].disk \in Nat /\ Off \in VmRec
  BY Parts, Blank
<1>2. /\ vm'[v] \in VmRec /\ vm'[v].st = "running" /\ vm'[v].base = <<>>
  BY <1>1 DEF Boot, TypeInv, VmType, VmRec, Off
<1>3. vm' \in [Vms -> VmRec] /\ \A w \in Vms \ {v} : vm'[w] = vm[w]
  BY <1>2 DEF Boot, TypeInv, VmType
<1>4. /\ op' \in [Vms -> OpRec] /\ op'[v] = Idle /\ DirMoves(v) /\ op'[v].step # "apply"
      /\ op'[v].step \notin Taken
      /\ \A w \in Vms \ {v} : op'[w] = op[w]
  BY OpOver DEF Boot
<1>5. /\ UNCHANGED <<disk, clock, used, count, truth, stuck, thin, raced, diedOf>>
      /\ owed' = owed \cup {v} /\ adrift' = adrift /\ short' = short \ {v}
  BY DEF Boot
<1>6. TypeInv'
  BY <1>3, <1>4, <1>5 DEF TypeInv, VmType, ImageType, OpType, SetType, WarmType, disk
<1>7. OthersSame(v) /\ DirsSame({})
  BY <1>3, <1>4, <1>5 DEF OthersSame, SameVm, DirsSame, SameDir, disk
<1>8. BaseInv(v)'
  BY <1>2, <1>4 DEF BaseInv
<1>9. One(v)'
  BY <1>2, <1>4, <1>8, OneIdle
<1>10. QED
  BY <1>4, <1>6, <1>7, <1>9, Settles

\* A VM does not boot.
LEMMA BootFailsStep ==
  ASSUME TypeInv, ExactInv, NEW v \in Vms, BootFails(v)
  PROVE  TypeInv' /\ ExactInv'
<1>1. vm[v] \in VmRec /\ <<>> \in Seq(File) /\ One(v) /\ op[v].step = "boot"
  BY Parts, Blank DEF BootFails, ExactInv
<1>2. vm[v].st = "off" /\ v \notin owed \ adrift
  BY <1>1 DEF One, StepState, StepKind, OwedInv
<1>3. vm'[v] \in VmRec /\ vm'[v].st = "off" /\ vm'[v].base = <<>>
  BY <1>1, <1>2 DEF BootFails, TypeInv, VmType, VmRec
<1>4. vm' \in [Vms -> VmRec] /\ \A w \in Vms \ {v} : vm'[w] = vm[w]
  BY <1>3 DEF BootFails, TypeInv, VmType
<1>5. /\ op' \in [Vms -> OpRec] /\ op'[v] = Idle /\ DirMoves(v) /\ op'[v].step # "apply"
      /\ op'[v].step \notin Taken
      /\ \A w \in Vms \ {v} : op'[w] = op[w]
  BY OpOver DEF BootFails
<1>6. UNCHANGED <<disk, clock, used, ghosts>>
  BY DEF BootFails
<1>7. TypeInv'
  <2>1. count' = [count EXCEPT !.faults = @ + 1]
    BY DEF BootFails, Faulty
  <2>2. WarmType'
    BY <1>6, <2>1 DEF TypeInv, WarmType, disk, ghosts
  <2>3. QED
    BY <1>4, <1>5, <1>6, <2>2 DEF TypeInv, VmType, ImageType, OpType, SetType, disk, ghosts
<1>8. OthersSame(v) /\ DirsSame({}) /\ owed' = owed /\ adrift' = adrift
  BY <1>4, <1>5, <1>6 DEF OthersSame, SameVm, DirsSame, SameDir, disk, ghosts
<1>9. BaseInv(v)'
  BY <1>3, <1>5 DEF BaseInv
<1>10. One(v)'
  BY <1>2, <1>3, <1>5, <1>8, <1>9, OneIdle
<1>11. QED
  BY <1>5, <1>7, <1>8, <1>10, Settles

\* A wake, from the VM's own snapshot.
LEMMA WakeStep ==
  ASSUME TypeInv, ExactInv, NEW v \in Vms, Wake(v)
  PROVE  TypeInv' /\ ExactInv'
<1>1. One(v) /\ op[v] = Idle /\ vm[v].st = "off" /\ images[v] # Nil /\ Idle.kind = "idle"
  BY DEF Wake, ExactInv, Idle
<1>2. /\ op' \in [Vms -> OpRec] /\ op'[v] = [kind |-> "own", dir |-> v, step |-> "take", at |-> 0]
      /\ \A w \in Vms \ {v} : op'[w] = op[w]
  BY Names DEF Wake, TypeInv, OpType, OpRec, Kinds, Steps, Loading
<1>3. op'[v].kind = "own" /\ op'[v].dir = v /\ op'[v].step = "take"
  BY <1>2
<1>4. UNCHANGED <<vm, disk, clock, used, ghosts>>
  BY DEF Wake
<1>5. TypeInv'
  <2>1. count' = [count EXCEPT !.ops = @ + 1]
    BY DEF Wake, Asked
  <2>2. WarmType'
    BY <1>4, <2>1 DEF TypeInv, WarmType, disk, ghosts
  <2>3. QED
    BY <1>2, <1>4, <2>2 DEF TypeInv, VmType, ImageType, OpType, SetType, disk, ghosts
<1>6. OthersSame(v) /\ DirsSame({})
  BY <1>2, <1>4 DEF OthersSame, SameVm, DirsSame, SameDir, disk, ghosts
<1>7. One(v)'
  <2>1. StepKind(op[v])' /\ KindDir(v, op[v])' /\ StepState(v)'
    BY <1>1, <1>3, <1>4 DEF StepKind, KindDir, StepState, Taking, Loading, Idle
  <2>2. BaseInv(v)' /\ AttInv(v)'
    BY <1>1, <1>3, <1>4 DEF One, BaseInv, AttInv, Taken
  <2>3. Held(v)' = Held(v) /\ images' = images /\ truth' = truth
    BY <1>4 DEF Held, disk, ghosts
  <2>4. PublishedInv(v)' /\ LoadInv(v)'
    BY <1>3 DEF PublishedInv, LoadInv
  <2>5. OwedInv(v)'
    BY <1>1, <1>3, <1>4, <2>3 DEF One, OwedInv, ghosts
  <2>6. QED
    BY <2>1, <2>2, <2>4, <2>5 DEF One
<1>8. DirMoves(v)
  BY <1>3, Names DEF DirMoves
<1>9. QED
  BY <1>3, <1>5, <1>6, <1>7, <1>8, Settles
\* The image of a VM that has lasted is removed.
LEMMA SettleStep ==
  ASSUME TypeInv, ExactInv, NEW v \in Vms, Settle(v)
  PROVE  TypeInv' /\ ExactInv'
<1>1. One(v) /\ op[v] = Idle /\ vm[v].st = "running" /\ Idle.step = "none"
  BY DEF Settle, ExactInv, Idle
<1>2. /\ images' \in [Dirs -> Image \cup {Nil}] /\ images'[v] = Nil
      /\ \A e \in Dirs \ {v} : images'[e] = images[e]
  BY Names DEF Settle, TypeInv, ImageType
<1>3. UNCHANGED <<vm, op, att, seed, failed, noted, clock, used, count, ghosts>>
  BY DEF Settle
<1>4. TypeInv'
  BY <1>2, <1>3 DEF TypeInv, VmType, ImageType, OpType, SetType, WarmType, ghosts
<1>5. OthersSame(v) /\ DirsSame({v}) /\ short' = short
  BY <1>2, <1>3 DEF OthersSame, SameVm, DirsSame, SameDir, ghosts
<1>6. BaseInv(v)'
  BY <1>1, <1>3, <1>5 DEF One, BaseInv, Dirty
<1>7. One(v)'
  BY <1>1, <1>3, <1>6, OneIdle
<1>8. DirMoves(v) /\ op'[v].step # "apply"
  BY <1>1, <1>3 DEF DirMoves
<1>9. QED
  BY <1>2, <1>4, <1>5, <1>7, <1>8, OwnDir, Names, Settles

\* A VM is destroyed.
LEMMA DestroyStep ==
  ASSUME TypeInv, ExactInv, NEW v \in Vms, Destroy(v)
  PROVE  TypeInv' /\ ExactInv'
<1>1. op[v] = Idle /\ Idle.step = "none" /\ Off \in VmRec
  BY Blank DEF Destroy, Idle
<1>2. vm' \in [Vms -> VmRec] /\ vm'[v] = Off /\ \A w \in Vms \ {v} : vm'[w] = vm[w]
  BY <1>1 DEF Destroy, TypeInv, VmType
<1>3. /\ images' \in [Dirs -> Image \cup {Nil}] /\ images'[v] = Nil
      /\ \A e \in Dirs \ {v} : images'[e] = images[e]
  BY Names DEF Destroy, TypeInv, ImageType
<1>4. /\ UNCHANGED <<op, att, seed, failed, noted, clock, used, count, truth, short, thin, raced,
                     diedOf>>
      /\ owed' = owed \ {v} /\ adrift' = adrift \ {v} /\ stuck' = stuck \ {v}
  BY DEF Destroy
<1>5. TypeInv'
  BY <1>2, <1>3, <1>4 DEF TypeInv, VmType, ImageType, OpType, SetType, WarmType
<1>6. OthersSame(v) /\ DirsSame({v})
  BY <1>2, <1>3, <1>4 DEF OthersSame, SameVm, DirsSame, SameDir
<1>7. vm'[v].st = "off" /\ vm'[v].base = <<>>
  BY <1>2 DEF Off
<1>8. BaseInv(v)'
  BY <1>1, <1>4, <1>7 DEF BaseInv, Taken
<1>9. One(v)'
  BY <1>1, <1>4, <1>7, <1>8, OneIdle
<1>10. DirMoves(v) /\ op'[v].step # "apply"
  BY <1>1, <1>4 DEF DirMoves
<1>11. QED
  BY <1>3, <1>5, <1>6, <1>9, <1>10, OwnDir, Names, Settles

\* Steps that touch neither a VM nor an image change nothing of this.
LEMMA NothingMoves ==
  ASSUME TypeInv, ExactInv, UNCHANGED <<vm, images, op, att, clock, used, truth, owed, adrift,
                                        stuck, short, thin, raced>>,
         WarmType'
  PROVE  TypeInv' /\ ExactInv'
<1>1. TypeInv'
  BY DEF TypeInv, VmType, ImageType, OpType, SetType
<1>2. \A w \in Vms : One(w)'
  <2>1. ASSUME NEW w \in Vms PROVE One(w)'
    BY <2>1, OneKept DEF SameVm, SameDir, ExactInv
  <2>2. QED
    BY <2>1
<1>3. TagInv' /\ ApplyInv' /\ WarmExact'
  BY DEF ExactInv, TagInv, ApplyInv, WarmExact
<1>4. ImageInv'
  BY DEF ExactInv, ImageInv, Exact
<1>5. QED
  BY <1>1, <1>2, <1>3, <1>4 DEF ExactInv

\* A VM as it was, that may be forking or starting from an image.
Uses(w, t) == SameVm(w) /\ (op[w].dir = t => op[w].kind \in {"fork", "warm"})

\* An image that others are only forking or starting from goes, or is replaced
\* by one as exact and whole.
LEMMA ImageGoes ==
  ASSUME TypeInv, ExactInv, NEW t \in Tags \cup {Warm},
         used' = used, truth' = truth, thin' = thin, raced' = raced,
         \A e \in Dirs \ {t} : images'[e] = images[e],
         \A w \in Vms : One(w)' \/ Uses(w, t),
         images'[t] # Nil => /\ t = Warm /\ Exact(t)'
                             /\ images'[t].chain = <<Zero>> /\ images'[t].disk = 0
                             /\ images'[t].asm = Nil
  PROVE  /\ \A w \in Vms : One(w)'
         /\ ImageInv' /\ WarmExact' /\ \A s \in Tags : images'[s] # Nil => s \in used'
<1>1. Len(<<Zero>>) = 1
  BY OneFile, Blank
<1>2. ASSUME NEW w \in Vms PROVE One(w)'
  <2>1. CASE One(w)'
    BY <2>1
  <2>2. CASE ~One(w)' /\ op[w].dir = t
    <3>1. SameDir(w) /\ One(w) /\ SameVm(w) /\ op[w].kind \in {"fork", "warm"}
      BY <2>2, Names DEF SameDir, ExactInv, Uses
    <3>2. op[w].step = "apply" /\ images'[t] # Nil => t \in raced'
      <4>1. StepKind(op[w]) /\ KindDir(w, op[w])
        BY <3>1 DEF One
      <4>2. t = Warm => op[w].kind = "warm"
        BY <2>2, <3>1, <4>1, Names DEF KindDir
      <4>3. QED
        BY <4>1, <4>2 DEF StepKind
    <3>3. images'[t] # Nil => Len(images'[t].chain) = 1
      BY <1>1
    <3>4. QED
      BY <2>2, <3>1, <3>2, <3>3, OneShared
  <2>3. CASE ~One(w)' /\ op[w].dir # t
    <3>1. SameDir(w) /\ One(w) /\ SameVm(w) /\ (op[w].dir = Nil \/ SameDir(op[w].dir))
      BY <2>3, Names, Parts DEF SameDir, ExactInv, Uses
    <3>2. QED
      BY <3>1, OneKept
  <2>4. QED
    BY <2>1, <2>2, <2>3
<1>3. ImageInv'
  <2>1. ASSUME NEW e \in Dirs, images'[e] # Nil PROVE Exact(e)'
    <3>1. CASE e = t
      BY <2>1, <3>1
    <3>2. CASE e # t
      BY <2>1, <3>2, ExactKept DEF SameDir, ExactInv, ImageInv
    <3>3. QED
      BY <3>1, <3>2
  <2>2. QED
    BY <2>1 DEF ImageInv
<1>4. WarmExact'
  <2>1. images'[Warm] # Nil => /\ images'[Warm].chain = <<Zero>> /\ images'[Warm].disk = 0
                               /\ images'[Warm].asm = Nil
    BY NameAssumption DEF ExactInv, WarmExact, Dirs
  <2>2. QED
    BY <2>1 DEF ExactInv, WarmExact
<1>5. \A s \in Tags : images'[s] # Nil => s \in used'
  BY NameAssumption DEF ExactInv, TagInv, Dirs
<1>6. QED
  BY <1>2, <1>3, <1>4, <1>5
\* A tag that only forks use is dropped.
LEMMA DropTagStep ==
  ASSUME TypeInv, ExactInv, NEW t \in Tags, DropTag(t)
  PROVE  TypeInv' /\ ExactInv'
<1>1. UNCHANGED <<vm, op, att, seed, failed, noted, clock, used, count, ghosts>>
  BY DEF DropTag
<1>2. /\ images' \in [Dirs -> Image \cup {Nil}] /\ images'[t] = Nil
      /\ \A e \in Dirs \ {t} : images'[e] = images[e]
  BY DEF DropTag, TypeInv, ImageType, Dirs
<1>3. TypeInv'
  BY <1>1, <1>2 DEF TypeInv, VmType, ImageType, OpType, SetType, WarmType, ghosts
<1>4. \A w \in Vms : Uses(w, t)
  BY <1>1 DEF Uses, SameVm, ghosts, DropTag
<1>5. /\ \A w \in Vms : One(w)'
      /\ ImageInv' /\ WarmExact' /\ \A s \in Tags : images'[s] # Nil => s \in used'
  <2>1. used' = used /\ truth' = truth /\ thin' = thin /\ raced' = raced
    BY <1>1 DEF ghosts
  <2>2. QED
    BY <1>2, <1>4, <2>1, ImageGoes
<1>6. TagInv' /\ ApplyInv'
  BY <1>1, <1>5 DEF ExactInv, TagInv, ApplyInv, ghosts
<1>7. QED
  BY <1>3, <1>5, <1>6 DEF ExactInv

\* Only a warm start works on the warm image.
LEMMA WarmDir ==
  ASSUME TypeInv, ExactInv, NEW w \in Vms
  PROVE  op[w].dir = Warm => op[w].kind = "warm"
<1>1. KindDir(w, op[w]) /\ op[w].kind \in Kinds
  BY Parts DEF ExactInv, One
<1>2. QED
  BY <1>1, Names DEF KindDir, Kinds

\* The warm image is exact.
LEMMA WarmIsExact ==
  ASSUME TypeInv, ExactInv, NEW gen \in Nat, images'[Warm] = WarmImage(gen), truth' = truth
  PROVE  /\ Exact(Warm)' /\ images'[Warm].chain = <<Zero>> /\ images'[Warm].disk = 0
         /\ images'[Warm].asm = Nil
<1>1. images'[Warm].chain = <<Zero>> /\ images'[Warm].disk = 0 /\ images'[Warm].asm = Nil
  BY DEF WarmImage
<1>2. truth'[Warm].mem = Zero /\ truth'[Warm].disk = 0
  BY DEF ExactInv, WarmExact
<1>3. Chain(<<Zero>>) /\ Stands(<<Zero>>, Zero)
  BY OneFile, Blank
<1>4. QED
  BY <1>1, <1>2, <1>3 DEF Exact

\* A sandbox is created, cold or from the warm image, which goes if the sandbox
\* had just died of it.
LEMMA CreateColdStep ==
  ASSUME TypeInv, ExactInv, NEW v \in Vms, NEW young \in BOOLEAN, NEW spare \in BOOLEAN,
         CreateCold(v, young, spare)
  PROVE  TypeInv' /\ ExactInv'
<1>1. PICK kind, dir, step :
        /\ Begin(v, kind, dir, step)
        /\ \/ kind = "warm" /\ dir = Warm /\ step = "take"
           \/ kind = "cold" /\ dir = Nil /\ step = "boot"
  <2>1. PICK r : r = (Distrust(v)[Warm] # Nil)
    OBVIOUS
  <2>2. Begin(v, IF r THEN "warm" ELSE "cold", IF r THEN Warm ELSE Nil, IF r THEN "take" ELSE "boot")
    BY <2>1, Zenon DEF CreateCold
  <2>3. CASE r
    <3>1. Begin(v, "warm", Warm, "take")
      BY <2>2, <2>3
    <3>2. QED
      BY <3>1
  <2>4. CASE ~r
    <3>1. Begin(v, "cold", Nil, "boot")
      BY <2>2, <2>4
    <3>2. QED
      BY <3>1
  <2>5. QED
    BY <2>3, <2>4
<1>2. /\ UNCHANGED <<vm, att, clock, used, truth, stuck, short, thin, raced, diedOf>>
      /\ images' = Distrust(v) /\ noted' = [noted EXCEPT ![v] = 0]
      /\ seed' \in {"boot", seed}
  BY DEF CreateCold
<1>3. /\ VmType' /\ OpType' /\ SetType' /\ count' \in [faults : Nat, crashes : Nat, seeds : Nat, ops : Nat]
      /\ OthersSame(v) /\ One(v)'
      /\ op'[v].kind = kind /\ op'[v].dir = dir /\ op'[v].step = step
  BY <1>1, <1>2, Begins, Names
<1>4. /\ images' \in [Dirs -> Image \cup {Nil}] /\ \A e \in Dirs \ {Warm} : images'[e] = images[e]
      /\ images'[Warm] # Nil => images'[Warm] = images[Warm]
  BY <1>2, Names DEF Distrust, TypeInv, ImageType
<1>5. TypeInv'
  <2>1. WarmType'
    BY <1>2, <1>3 DEF TypeInv, WarmType
  <2>2. QED
    BY <1>2, <1>3, <1>4, <2>1 DEF TypeInv, ImageType
<1>6. \A w \in Vms \ {v} : Uses(w, Warm)
  BY <1>3, WarmDir DEF OthersSame, Uses
<1>7. images'[Warm] # Nil => /\ Exact(Warm)' /\ images'[Warm].chain = <<Zero>>
                             /\ images'[Warm].disk = 0 /\ images'[Warm].asm = Nil
  <2>1. images'[Warm] # Nil => Exact(Warm) /\ SameDir(Warm)
    BY <1>2, <1>4, Names DEF ExactInv, ImageInv, SameDir
  <2>2. QED
    BY <1>4, <2>1, ExactKept DEF ExactInv, WarmExact
<1>8. /\ \A w \in Vms : One(w)'
      /\ ImageInv' /\ WarmExact' /\ \A s \in Tags : images'[s] # Nil => s \in used'
  <2>1. used' = used /\ truth' = truth /\ thin' = thin /\ raced' = raced
    BY <1>2
  <2>2. \A w \in Vms : One(w)' \/ Uses(w, Warm)
    BY <1>3, <1>6
  <2>3. \A e \in Dirs \ {Warm} : images'[e] = images[e]
    BY <1>4
  <2>4. Warm \in Tags \cup {Warm}
    OBVIOUS
  <2>5. CASE images'[Warm] = Nil
    BY <2>1, <2>2, <2>3, <2>4, <2>5, ImageGoes
  <2>6. CASE images'[Warm] # Nil
    <3>1. /\ Exact(Warm)' /\ images'[Warm].chain = <<Zero>> /\ images'[Warm].disk = 0
          /\ images'[Warm].asm = Nil
      BY <1>7, <2>6
    <3>2. QED
      BY <2>1, <2>2, <2>3, <2>4, <3>1, ImageGoes
  <2>7. QED
    BY <2>5, <2>6
<1>9. \A w \in Vms \ {v} : op'[w] = op[w]
  BY <1>3 DEF OthersSame, SameVm
<1>10. TagInv'
  <2>1. \A w \in Vms : op[w].kind \in {"branch", "back"} => op[w].dir \in Tags
    BY DEF ExactInv, One, KindDir, TypeInv, SetType
  <2>2. op'[v].kind \notin {"branch", "back"} /\ op'[v].dir \notin Tags
    BY <1>1, <1>3, Names
  <2>3. QED
    BY <1>8, <1>9, <2>1, <2>2 DEF ExactInv, TagInv
<1>11. ApplyInv'
  BY <1>1, <1>2, <1>3, <1>9 DEF ExactInv, ApplyInv
<1>12. QED
  BY <1>5, <1>8, <1>10, <1>11 DEF ExactInv

\* The seed's image is renamed into place.
LEMMA SeedPublishesStep ==
  ASSUME TypeInv, ExactInv, SeedPublishes
  PROVE  TypeInv' /\ ExactInv'
<1>1. UNCHANGED <<vm, op, att, failed, noted, clock, used, count, ghosts>> /\ seed' = "none"
  BY DEF SeedPublishes
<1>2. count.seeds \in Nat /\ WarmImage(count.seeds) \in Image
  BY Blank DEF TypeInv, WarmType
<1>3. /\ images' \in [Dirs -> Image \cup {Nil}] /\ images'[Warm] = WarmImage(count.seeds)
      /\ \A e \in Dirs \ {Warm} : images'[e] = images[e]
  BY <1>2 DEF SeedPublishes, TypeInv, ImageType, Dirs
<1>4. TypeInv'
  BY <1>1, <1>3 DEF TypeInv, VmType, ImageType, OpType, SetType, WarmType, ghosts
<1>5. \A w \in Vms : Uses(w, Warm)
  BY <1>1, WarmDir DEF Uses, SameVm, ghosts
<1>6. /\ Exact(Warm)' /\ images'[Warm].chain = <<Zero>> /\ images'[Warm].disk = 0
      /\ images'[Warm].asm = Nil
  BY <1>1, <1>2, <1>3, WarmIsExact DEF ghosts
<1>7. /\ \A w \in Vms : One(w)'
      /\ ImageInv' /\ WarmExact' /\ \A s \in Tags : images'[s] # Nil => s \in used'
  <2>1. used' = used /\ truth' = truth /\ thin' = thin /\ raced' = raced
    BY <1>1 DEF ghosts
  <2>2. QED
    BY <1>3, <1>5, <1>6, <2>1, ImageGoes
<1>8. TagInv' /\ ApplyInv'
  BY <1>1, <1>7 DEF ExactInv, TagInv, ApplyInv, ghosts
<1>9. QED
  BY <1>4, <1>7, <1>8 DEF ExactInv

\* The rest of the seed's steps, and the end of a warm start's trial.
LEMMA SeedStep ==
  ASSUME TypeInv, ExactInv,
         SeedClears \/ SeedFails \/ FailedLapses \/ \E v \in Vms : WarmLasts(v)
  PROVE  TypeInv' /\ ExactInv'
<1>1. UNCHANGED <<vm, images, op, att, clock, used, truth, owed, adrift, stuck, short, thin, raced>>
  BY DEF SeedClears, SeedFails, FailedLapses, WarmLasts, ghosts
<1>2. WarmType'
  <2>1. CASE SeedClears
    BY <2>1 DEF SeedClears, TypeInv, WarmType, ghosts
  <2>2. CASE SeedFails
    BY <2>2 DEF SeedFails, Faulty, TypeInv, WarmType, ghosts
  <2>3. CASE FailedLapses
    BY <2>3 DEF FailedLapses, TypeInv, WarmType, ghosts
  <2>4. CASE \E v \in Vms : WarmLasts(v)
    BY <2>4 DEF WarmLasts, TypeInv, WarmType
  <2>5. QED
    BY <2>1, <2>2, <2>3, <2>4
<1>3. QED
  BY <1>1, <1>2, NothingMoves

\* The node restarts.
LEMMA CrashStep ==
  ASSUME TypeInv, ExactInv, Crash
  PROVE  TypeInv' /\ ExactInv'
<1>1. /\ op' = [v \in Vms |-> Idle] /\ att' = [v \in Vms |-> Nil]
      /\ stuck' = {v \in Vms : vm[v].st = "paused"}
      /\ short' = short \cup {v \in Vms : LosesPages(v)}
      /\ owed' = owed
      /\ adrift' = adrift \cup {v \in owed : op[v].kind = "back" /\ vm[v].st = "off"}
      /\ UNCHANGED <<vm, failed, clock, used, truth, thin, raced>>
  BY DEF Crash
<1>2. \A v \in Vms : op'[v] = Idle
  BY <1>1
<1>3. /\ \A d \in Dirs : images[d] = Nil => images'[d] = Nil
      /\ \A d \in Dirs : images[d] # Nil =>
           /\ images'[d] \in Image /\ images'[d] # Nil /\ images'[d].chain = images[d].chain
           /\ images'[d].disk = images[d].disk /\ images'[d].asm = images[d].asm
  <2>1. ASSUME NEW d \in Dirs, images[d] # Nil
        PROVE  /\ images'[d] \in Image /\ images'[d] # Nil /\ images'[d].chain = images[d].chain
               /\ images'[d].disk = images[d].disk /\ images'[d].asm = images[d].asm
    <3>1. images[d] \in Image /\ images'[d] = [images[d] EXCEPT !.tmp = Nil]
      BY <2>1 DEF Crash, TypeInv, ImageType
    <3>2. QED
      BY <3>1, NilAssumption DEF Image
  <2>2. ASSUME NEW d \in Dirs, images[d] = Nil PROVE images'[d] = Nil
    BY <2>2 DEF Crash
  <2>3. QED
    BY <2>1, <2>2
<1>4. TypeInv'
  <2>1. images' \in [Dirs -> Image \cup {Nil}]
    <3>1. images' = [d \in Dirs |-> images'[d]]
      BY DEF Crash
    <3>2. \A d \in Dirs : images'[d] \in Image \cup {Nil}
      BY <1>3
    <3>3. QED
      BY <3>1, <3>2
  <2>2. OpType'
    BY <1>1, Blank DEF OpType
  <2>3. WarmType'
    <3>1. /\ count' = [count EXCEPT !.crashes = @ + 1, !.faults = @ + 1] /\ seed' = "none"
          /\ noted' = [v \in Vms |-> 0] /\ diedOf' = [v \in Vms |-> 0]
      BY DEF Crash
    <3>2. count' \in [faults : Nat, crashes : Nat, seeds : Nat, ops : Nat]
      <4>1. count \in [faults : Nat, crashes : Nat, seeds : Nat, ops : Nat]
        BY DEF TypeInv, WarmType
      <4>2. PICK f, c : f = count.faults + 1 /\ c = count.crashes + 1
        OBVIOUS
      <4>3. f \in Nat /\ c \in Nat
        BY <4>1, <4>2
      <4>4. count' = [count EXCEPT !.crashes = c, !.faults = f]
        BY <3>1, <4>1, <4>2
      <4>5. QED
        BY <4>1, <4>3, <4>4
    <3>3. noted' \in [Vms -> Nat] /\ diedOf' \in [Vms -> Nat] /\ seed' \in {"none", "boot", "clear"}
      BY <3>1
    <3>4. QED
      BY <3>2, <3>3 DEF WarmType
  <2>4. QED
    BY <1>1, <2>1, <2>2, <2>3 DEF TypeInv, VmType, ImageType, SetType
<1>5. ASSUME NEW v \in Vms PROVE One(v)'
  <2>1. One(v) /\ op[v].kind \in Kinds /\ v \in Dirs
    BY Parts DEF ExactInv
  <2>2. BaseInv(v)'
    BY <1>1, <1>2, <2>1, GivenUp
  <2>3. vm'[v].st = "paused" => v \in stuck'
    BY <1>1
  <2>4. ASSUME v \in owed' \ adrift', vm'[v].st = "off", v \notin short' \cup thin' \cup raced'
        PROVE  images'[v] # Nil /\ truth'[v] = Held(v)'
    <3>1. op[v].kind \in {"idle", "own"}
      BY <1>1, <2>1, <2>4 DEF One, OwedInv, Kinds
    <3>2. images[v] # Nil /\ truth[v] = Held(v)
      BY <1>1, <2>1, <2>4, <3>1 DEF One, OwedInv
    <3>3. QED
      BY <1>1, <1>3, <2>1, <3>2 DEF Held
  <2>5. QED
    BY <1>2, <2>2, <2>3, <2>4, OneIdle
<1>6. TagInv' /\ ApplyInv'
  <2>1. Idle.kind = "idle" /\ Idle.step = "none"
    BY DEF Idle
  <2>2. \A t \in Tags : images'[t] # Nil => t \in used'
    BY <1>1, <1>3 DEF ExactInv, TagInv, Dirs
  <2>3. QED
    BY <1>2, <2>1, <2>2 DEF TagInv, ApplyInv
<1>7. ImageInv'
  <2>1. ASSUME NEW d \in Dirs, images'[d] # Nil PROVE Exact(d)'
    BY <1>1, <1>3, <2>1 DEF ExactInv, ImageInv, Exact
  <2>2. QED
    BY <2>1 DEF ImageInv
<1>8. WarmExact'
  BY <1>1, <1>3 DEF ExactInv, WarmExact, Dirs
<1>9. QED
  BY <1>4, <1>5, <1>6, <1>7, <1>8 DEF ExactInv
(***************************************************************************)
(* The invariant.                                                          *)
(***************************************************************************)
\* It holds of a node with nothing on it but, perhaps, a warm image.
LEMMA InitExact ==
  ASSUME Init
  PROVE  TypeInv /\ ExactInv
<1>1. PICK gen \in 0..MaxSeeds :
        /\ images = [d \in Dirs |-> IF d = Warm /\ gen # 0 THEN WarmImage(gen) ELSE Nil]
        /\ count = [faults |-> 0, crashes |-> 0, seeds |-> gen, ops |-> 0]
  BY DEF Init
<1>2. gen \in Nat /\ WarmImage(gen) \in Image /\ Zero \in Memory /\ Off \in VmRec /\ Idle \in OpRec
  BY SeedAssumption, Blank
<1>3. /\ vm = [v \in Vms |-> Off] /\ op = [v \in Vms |-> Idle] /\ att = [v \in Vms |-> Nil]
      /\ truth = [d \in Dirs |-> [mem |-> Zero, disk |-> 0]]
      /\ owed = {} /\ adrift = {} /\ stuck = {} /\ short = {} /\ thin = {} /\ raced = {}
      /\ used = {} /\ clock = 0
      /\ noted = [v \in Vms |-> 0] /\ diedOf = [v \in Vms |-> 0] /\ seed = "none"
  BY DEF Init
<1>4. Warm \in Dirs /\ \A t \in Tags : t # Warm
  BY NameAssumption DEF Dirs
<1>5. TypeInv
  <2>1. VmType /\ OpType /\ SetType
    BY <1>2, <1>3 DEF VmType, OpType, SetType
  <2>2. ImageType
    BY <1>1, <1>2, <1>3 DEF ImageType, Moment
  <2>3. WarmType
    BY <1>1, <1>2, <1>3 DEF WarmType
  <2>4. QED
    BY <2>1, <2>2, <2>3 DEF TypeInv
<1>6. Idle.kind = "idle" /\ Idle.step = "none" /\ Idle.dir = Nil /\ Off.st = "off" /\ Off.base = <<>>
  BY DEF Idle, Off
<1>7. ASSUME NEW v \in Vms PROVE One(v)
  <2>1. op[v] = Idle /\ vm[v] = Off /\ v \notin owed \ adrift
    BY <1>3
  <2>2. StepKind(op[v]) /\ KindDir(v, op[v]) /\ StepState(v)
    BY <1>6, <2>1 DEF StepKind, KindDir, StepState, Taking, Loading
  <2>3. BaseInv(v) /\ AttInv(v)
    BY <1>6, <2>1 DEF BaseInv, AttInv, Taken
  <2>4. PublishedInv(v) /\ LoadInv(v) /\ OwedInv(v)
    BY <1>6, <2>1 DEF PublishedInv, LoadInv, OwedInv
  <2>5. QED
    BY <2>2, <2>3, <2>4 DEF One
<1>8. images[Warm] # Nil => images[Warm] = WarmImage(gen)
  BY <1>1, <1>4
<1>9. \A d \in Dirs \ {Warm} : images[d] = Nil
  BY <1>1
<1>10. TagInv /\ ApplyInv
  BY <1>3, <1>4, <1>6, <1>9 DEF TagInv, ApplyInv, Dirs
<1>11. truth[Warm].mem = Zero /\ truth[Warm].disk = 0 /\ truth[Warm] = [mem |-> Zero, disk |-> 0]
  BY <1>3, <1>4
<1>12. WarmExact
  BY <1>8, <1>11 DEF WarmExact, WarmImage
<1>13. ImageInv
  <2>1. Chain(<<Zero>>) /\ Stands(<<Zero>>, Zero)
    BY <1>2, OneFile
  <2>2. images[Warm] # Nil => Exact(Warm)
    BY <1>11, <1>12, <2>1 DEF WarmExact, Exact
  <2>3. QED
    BY <1>9, <2>2 DEF ImageInv
<1>14. QED
  BY <1>5, <1>7, <1>10, <1>12, <1>13 DEF ExactInv

\* Every step keeps it.
LEMMA NextExact ==
  ASSUME TypeInv, ExactInv, [Next]_vars
  PROVE  TypeInv' /\ ExactInv'
<1>1. ASSUME NEW v \in Vms, Step(v) PROVE TypeInv' /\ ExactInv'
  <2>1. CASE \E p \in Pages : GuestWrites(v, p)
    BY <2>1, GuestStep
  <2>2. CASE \E t \in Tags : BranchStart(v, t) \/ CreateFork(v, t)
    BY <2>2, BranchStartStep, CreateForkStep
  <2>3. CASE SnapshotStart(v) \/ CkptMemory(v) \/ CkptDisk(v) \/ CkptFails(v)
    BY <2>3, SnapshotStartStep, CkptMemoryStep, CkptDiskStep, CkptFailsStep
  <2>4. CASE CkptPublish(v) \/ PublishFails(v) \/ SnapshotEnds(v)
    BY <2>4, CkptPublishStep, PublishFailsStep, SnapshotEndsStep
  <2>5. CASE BranchResumes(v) \/ BranchRestores(v)
    BY <2>5, BranchResumesStep, BranchRestoresStep
  <2>6. CASE RestoreDisk(v) \/ AssembleNone(v) \/ Load(v) \/ RestoreEnds(v)
    BY <2>6, RestoreDiskStep, AssembleNoneStep, LoadStep, RestoreEndsStep
  <2>7. CASE AssembleStart(v) \/ AssembleApply(v) \/ AssembleEnds(v)
    BY <2>7, AssembleStartStep, AssembleApplyStep, AssembleEndsStep
  <2>8. CASE \E saved \in BOOLEAN : RestoreFails(v, saved)
    BY <2>8, RestoreFailsStep, BackFailsStep
  <2>9. CASE \E young, spare \in BOOLEAN : CreateCold(v, young, spare)
    BY <2>9, CreateColdStep
  <2>10. CASE Boot(v) \/ BootFails(v) \/ Wake(v) \/ Settle(v) \/ Destroy(v)
    BY <2>10, BootStep, BootFailsStep, WakeStep, SettleStep, DestroyStep
  <2>11. CASE WarmLasts(v) \/ Dies(v)
    BY <2>11, SeedStep, DiesStep
  <2>12. CASE \E kind \in {"branch", "snapshot"} : PauseFails(v, kind)
    BY <2>12, PauseFailsStep
  <2>13. QED
    BY <1>1, <2>1, <2>2, <2>3, <2>4, <2>5, <2>6, <2>7, <2>8, <2>9, <2>10, <2>11, <2>12, Zenon
       DEF Step
<1>2. CASE \E t \in Tags : DropTag(t)
  BY <1>2, DropTagStep
<1>3. CASE SeedClears \/ SeedFails \/ FailedLapses
  BY <1>3, SeedStep
<1>4. CASE SeedPublishes
  BY <1>4, SeedPublishesStep
<1>5. CASE Crash
  BY <1>5, CrashStep
<1>6. CASE AtRest \/ UNCHANGED vars
  <2>1. UNCHANGED <<vm, images, op, att, clock, used, truth, owed, adrift, stuck, short, thin,
                    raced>>
        /\ UNCHANGED <<noted, diedOf, count, seed>>
    BY <1>6 DEF AtRest, vars
  <2>2. WarmType'
    BY <2>1 DEF TypeInv, WarmType
  <2>3. QED
    BY <2>1, <2>2, NothingMoves
<1>7. QED
  BY <1>1, <1>2, <1>3, <1>4, <1>5, <1>6, Zenon DEF Next

\* Whatever is branched, snapshotted, restored, dropped or fails, the types and
\* the invariant above hold.
THEOREM VmSafety == Spec => [](TypeInv /\ ExactInv)
<1>1. Init => TypeInv /\ ExactInv
  BY InitExact
<1>2. TypeInv /\ ExactInv /\ [Next]_vars => (TypeInv /\ ExactInv)'
  BY NextExact
<1>3. QED
  BY <1>1, <1>2, PTL DEF Spec

\* checkpoint, link_chain: an image's chain applied in order is the guest's
\* memory at the pause, its disk is that moment's, and the cache assembled from
\* it is that memory.
THEOREM ImagesExact == Spec => []ImageExact
<1>1. TypeInv /\ ExactInv => ImageExact
  <2>1. SUFFICES ASSUME TypeInv, ExactInv, NEW d \in Dirs, images[d] # Nil, d \notin thin
        PROVE  /\ Len(images[d].chain) <= MaxChain
               /\ Stands(images[d].chain, truth[d].mem)
               /\ images[d].disk = truth[d].disk
               /\ images[d].asm # Nil /\ d \notin raced => images[d].asm = truth[d].mem
    BY DEF ImageExact
  <2>2. Exact(d)
    BY <2>1 DEF ExactInv, ImageInv
  <2>3. QED
    BY <2>1, <2>2 DEF Exact, Chain
<1>2. QED
  BY <1>1, VmSafety, PTL

\* load: what a restore is about to run is the memory and the disk one image was
\* taken with.
THEOREM ForksExact == Spec => []ForkExact
<1>1. TypeInv /\ ExactInv => ForkExact
  <2>1. SUFFICES ASSUME TypeInv, ExactInv, NEW v \in Vms, op[v].step = "loaded",
                        op[v].dir \notin thin \cup raced
        PROVE  vm[v].mem = truth[op[v].dir].mem /\ vm[v].disk = truth[op[v].dir].disk
    BY DEF ForkExact
  <2>2. truth[op[v].dir] = Held(v)
    BY <2>1 DEF ExactInv, One, LoadInv
  <2>3. QED
    BY <2>2 DEF Held
<1>2. QED
  BY <1>1, VmSafety, PTL

\* resume_after_checkpoint, track_writes: a page the tracker does not show is
\* still what the base chain holds for it.
THEOREM BasesCurrent == Spec => []BaseCurrent
<1>1. TypeInv /\ ExactInv => BaseCurrent
  BY DEF ExactInv, One, BaseInv, BaseCurrent
<1>2. QED
  BY <1>1, VmSafety, PTL

\* checkpoint: a VM that no operation holds is not paused, unless the pause or the
\* resume after it failed, the seal or the publish did, or the node restarted.
THEOREM NoneLeftPaused == Spec => []NotLeftPaused
<1>1. TypeInv /\ ExactInv => NotLeftPaused
  BY DEF ExactInv, One, StepState, NotLeftPaused
<1>2. QED
  BY <1>1, VmSafety, PTL

\* branch: a sandbox that is not running, and neither died nor was destroyed, has
\* its last memory and disk in its own snapshot; except a branched parent that a
\* restart met between its removal and its restore, or whose image could not be
\* moved (adrift), and images that lack pages or were raced for (short, thin, raced).
THEOREM StatesKept == Spec => []StateKept
<1>1. TypeInv /\ ExactInv => StateKept
  <2>1. SUFFICES ASSUME TypeInv, ExactInv, NEW v \in owed \ adrift, vm[v].st = "off", op[v] = Idle,
                        v \notin short \cup thin \cup raced
        PROVE  images[v] # Nil /\ truth[v] = [mem |-> vm[v].mem, disk |-> vm[v].disk]
    BY DEF StateKept
  <2>2. v \in Vms /\ Idle.kind = "idle"
    BY <2>1 DEF TypeInv, SetType, Idle
  <2>3. QED
    BY <2>1, <2>2 DEF ExactInv, One, OwedInv, Held
<1>2. QED
  BY <1>1, VmSafety, PTL
(***************************************************************************)
(* Warm images.                                                            *)
(***************************************************************************)
\* A step that neither takes, replaces nor notes a warm image.
WarmSame ==
  /\ noted' = noted /\ diedOf' = diedOf /\ (seed' = seed \/ seed' \in {"none", "boot"})
  /\ count'.seeds = count.seeds
  /\ images'[Warm] # Nil => images[Warm] # Nil /\ images'[Warm].gen = images[Warm].gen
  /\ \A w \in Vms : op'[w].kind = "warm" => op[w].kind = "warm"

LEMMA WarmSameKeeps ==
  ASSUME WarmInv, WarmSame
  PROVE  WarmInv'
<1>1. GenInv'
  BY DEF WarmInv, GenInv, WarmSame
<1>2. ASSUME NEW v \in Vms PROVE DiedInv(v)'
  BY DEF WarmInv, DiedInv, WarmSame
<1>3. QED
  BY <1>1, <1>2 DEF WarmInv

\* The operation of one VM is not a warm start, or already was.
LEMMA WarmKinds ==
  ASSUME TypeInv, NEW v \in Vms, NEW o, op' = [op EXCEPT ![v] = o],
         o.kind = "warm" => op[v].kind = "warm"
  PROVE  \A w \in Vms : op'[w].kind = "warm" => op[w].kind = "warm"
  BY DEF TypeInv, OpType

\* A fault or a call that is counted takes no warm image.
LEMMA CountSame ==
  ASSUME TypeInv, Asked \/ Faulty \/ UNCHANGED count
  PROVE  count'.seeds = count.seeds
  BY DEF Asked, Faulty, TypeInv, WarmType

\* The guest and a checkpoint have nothing to do with the warm image.
LEMMA TakingWarm ==
  ASSUME TypeInv, ExactInv, NEW v \in Vms,
         \/ \E p \in Pages : GuestWrites(v, p)
         \/ \E t \in Tags : BranchStart(v, t)
         \/ \E kind \in {"branch", "snapshot"} : PauseFails(v, kind)
         \/ SnapshotStart(v) \/ CkptMemory(v) \/ CkptDisk(v) \/ CkptFails(v)
         \/ CkptPublish(v) \/ PublishFails(v) \/ SnapshotEnds(v)
         \/ BranchResumes(v) \/ BranchRestores(v)
  PROVE  WarmSame
<1>1. op[v] \in OpRec /\ Warm \in Dirs /\ v # Warm
  BY Parts, Names
<1>2. Idle.kind = "idle"
  BY DEF Idle
<1>3. CASE \E p \in Pages : GuestWrites(v, p)
  BY <1>3 DEF GuestWrites, ghosts, WarmSame
<1>4. ASSUME NEW kind \in {"branch", "snapshot"}, NEW dir, CkptStart(v, kind, dir) PROVE WarmSame
  <2>1. count'.seeds = count.seeds
    BY <1>4, CountSame DEF CkptStart
  <2>2. \A w \in Vms : op'[w].kind = "warm" => op[w].kind = "warm"
    BY <1>4, WarmKinds DEF CkptStart
  <2>3. images'[Warm] = images[Warm]
    BY <1>1, <1>4 DEF CkptStart, TypeInv, ImageType
  <2>4. QED
    BY <1>4, <2>1, <2>2, <2>3 DEF CkptStart, WarmSame
<1>5. CASE \E t \in Tags : BranchStart(v, t)
  BY <1>4, <1>5 DEF BranchStart
<1>6. CASE SnapshotStart(v)
  BY <1>4, <1>6 DEF SnapshotStart
<1>7. CASE CkptMemory(v) \/ CkptDisk(v)
  <2>1. \A w \in Vms : op'[w].kind = "warm" => op[w].kind = "warm"
    BY <1>1, <1>7 DEF CkptMemory, CkptDisk, TypeInv, OpType, OpRec
  <2>2. QED
    BY <1>7, <2>1 DEF CkptMemory, CkptDisk, WarmSame, ghosts
<1>8. CASE CkptFails(v) \/ PublishFails(v)
  <2>1. \A w \in Vms : op'[w].kind = "warm" => op[w].kind = "warm"
    BY <1>2, <1>8, WarmKinds DEF CkptFails, PublishFails
  <2>2. count'.seeds = count.seeds
    BY <1>8, CountSame DEF CkptFails, PublishFails
  <2>3. QED
    BY <1>8, <2>1, <2>2 DEF CkptFails, PublishFails, WarmSame
<1>9. CASE SnapshotEnds(v) \/ BranchResumes(v)
  <2>1. \A w \in Vms : op'[w].kind = "warm" => op[w].kind = "warm"
    BY <1>2, <1>9, WarmKinds DEF SnapshotEnds, BranchResumes
  <2>2. QED
    BY <1>9, <2>1 DEF SnapshotEnds, BranchResumes, WarmSame, disk, ghosts
<1>10. CASE BranchRestores(v)
  <2>1. \A w \in Vms : op'[w].kind = "warm" => op[w].kind = "warm"
    BY <1>1, <1>10 DEF BranchRestores, TypeInv, OpType, OpRec
  <2>2. count'.seeds = count.seeds
    BY <1>10, CountSame DEF BranchRestores
  <2>3. QED
    BY <1>10, <2>1, <2>2 DEF BranchRestores, WarmSame, disk, ghosts
<1>11. CASE CkptPublish(v)
  <2>1. \A w \in Vms : op'[w].kind = "warm" => op[w].kind = "warm"
    BY <1>1, <1>11 DEF CkptPublish, TypeInv, OpType, OpRec
  <2>2. op[v].kind \in {"branch", "snapshot"}
    BY <1>11 DEF CkptPublish, ExactInv, One, StepKind, Taking
  <2>3. op[v].dir # Warm
    BY <2>2, OwnImage
  <2>4. images'[Warm] = images[Warm]
    BY <1>1, <1>11, <2>3 DEF CkptPublish, TypeInv, ImageType
  <2>5. QED
    BY <1>11, <2>1, <2>4 DEF CkptPublish, WarmSame
<1>12. CASE \E kind \in {"branch", "snapshot"} : PauseFails(v, kind)
  <2>1. images'[Warm] = images[Warm]
    BY <1>1, <1>12 DEF PauseFails, TypeInv, ImageType
  <2>2. count'.seeds = count.seeds
    BY <1>12, CountSame DEF PauseFails
  <2>3. QED
    BY <1>12, <2>1, <2>2 DEF PauseFails, WarmSame
<1>13. QED
  BY <1>3, <1>5, <1>6, <1>7, <1>8, <1>9, <1>10, <1>11, <1>12

\* Nor has a restore, but at its end.
LEMMA LoadingWarm ==
  ASSUME TypeInv, ExactInv, NEW v \in Vms,
         \/ RestoreDisk(v) \/ AssembleNone(v) \/ Load(v)
         \/ AssembleStart(v) \/ AssembleApply(v) \/ AssembleEnds(v)
         \/ \E saved \in BOOLEAN : RestoreFails(v, saved)
  PROVE  WarmSame
<1>1. op[v] \in OpRec /\ Warm \in Dirs /\ v # Warm
  BY Parts, Names
<1>2. CASE RestoreDisk(v) \/ AssembleNone(v) \/ Load(v)
  <2>1. \A w \in Vms : op'[w].kind = "warm" => op[w].kind = "warm"
    <3>1. \E s \in Steps : op' = [op EXCEPT ![v].step = s]
      BY <1>2 DEF RestoreDisk, AssembleNone, Load, Steps, Loading
    <3>2. QED
      BY <3>1, StepSet
  <2>2. QED
    BY <1>2, <2>1 DEF RestoreDisk, AssembleNone, Load, WarmSame, disk, ghosts
<1>3. CASE AssembleStart(v) \/ AssembleApply(v) \/ AssembleEnds(v)
  <2>1. \A w \in Vms : op'[w].kind = "warm" => op[w].kind = "warm"
    <3>1. CASE AssembleStart(v)
      BY <1>1, <3>1 DEF AssembleStart, TypeInv, OpType, OpRec
    <3>2. CASE AssembleApply(v)
      BY <1>1, <3>2 DEF AssembleApply, TypeInv, OpType, OpRec
    <3>3. CASE AssembleEnds(v)
      BY <1>1, <3>3 DEF AssembleEnds, TypeInv, OpType, OpRec
    <3>4. QED
      BY <1>3, <3>1, <3>2, <3>3
  <2>2. op[v].dir # Warm
    BY <1>3, AssembledNotWarm DEF AssembleStart, AssembleApply, AssembleEnds
  <2>3. images'[Warm] = images[Warm]
    BY <1>1, <1>3, <2>2 DEF AssembleStart, AssembleApply, AssembleEnds, TypeInv, ImageType
  <2>4. QED
    BY <1>3, <2>1, <2>3 DEF AssembleStart, AssembleApply, AssembleEnds, WarmSame, ghosts
<1>4. ASSUME NEW saved \in BOOLEAN, RestoreFails(v, saved) PROVE WarmSame
  <2>1. PICK o : /\ op' = [op EXCEPT ![v] = o] /\ o.kind # "warm"
    <3>1. [Idle EXCEPT !.kind = "cold", !.step = "boot"].kind # "warm" /\ Idle.kind # "warm"
      BY DEF Idle
    <3>2. CASE op[v].kind = "warm"
      <4>1. op' = [op EXCEPT ![v] = [Idle EXCEPT !.kind = "cold", !.step = "boot"]]
        BY <1>4, <3>2 DEF RestoreFails
      <4>2. QED
        BY <3>1, <4>1, Zenon
    <3>3. CASE op[v].kind # "warm"
      <4>1. op' = [op EXCEPT ![v] = Idle]
        BY <1>4, <3>3 DEF RestoreFails
      <4>2. QED
        BY <3>1, <4>1, Zenon
    <3>4. QED
      BY <3>2, <3>3
  <2>2. \A w \in Vms : op'[w].kind = "warm" => op[w].kind = "warm"
    BY <2>1, WarmKinds
  <2>3. count'.seeds = count.seeds
    BY <1>4, CountSame DEF RestoreFails
  <2>4. images'[Warm] = images[Warm]
    <3>1. CASE op[v].kind = "back"
      <4>1. op[v].dir # Warm
        BY <3>1, OwnImage
      <4>2. QED
        BY <1>1, <1>4, <3>1, <4>1 DEF RestoreFails, Preserve, TypeInv, ImageType
    <3>2. CASE op[v].kind # "back"
      BY <1>4, <3>2 DEF RestoreFails
    <3>3. QED
      BY <3>1, <3>2
  <2>5. QED
    BY <1>4, <2>2, <2>3, <2>4 DEF RestoreFails, WarmSame
<1>5. QED
  BY <1>2, <1>3, <1>4

\* Nor has a fork, a boot, a wake or a removal.
LEMMA OtherWarm ==
  ASSUME TypeInv, ExactInv,
         \/ \E v \in Vms : \/ \E t \in Tags : CreateFork(v, t)
                           \/ Boot(v) \/ BootFails(v) \/ Wake(v) \/ Settle(v) \/ Destroy(v)
         \/ \E t \in Tags : DropTag(t)
         \/ SeedFails \/ FailedLapses \/ AtRest \/ UNCHANGED vars
  PROVE  WarmSame
<1>1. Idle.kind = "idle" /\ Warm \in Dirs
  BY DEF Idle, Dirs
<1>2. ASSUME NEW v \in Vms, \E t \in Tags : CreateFork(v, t) PROVE WarmSame
  <2>1. PICK t \in Tags : CreateFork(v, t)
    BY <1>2
  <2>2. \A w \in Vms : op'[w].kind = "warm" => op[w].kind = "warm"
    BY <2>1, WarmKinds DEF CreateFork, Begin
  <2>3. count'.seeds = count.seeds
    BY <2>1, CountSame DEF CreateFork, Begin
  <2>4. QED
    BY <2>1, <2>2, <2>3 DEF CreateFork, WarmSame, disk
<1>3. ASSUME NEW v \in Vms, Boot(v) \/ BootFails(v) PROVE WarmSame
  <2>1. \A w \in Vms : op'[w].kind = "warm" => op[w].kind = "warm"
    BY <1>1, <1>3, WarmKinds DEF Boot, BootFails
  <2>2. count'.seeds = count.seeds
    BY <1>3, CountSame DEF Boot, BootFails
  <2>3. QED
    BY <1>3, <2>1, <2>2 DEF Boot, BootFails, WarmSame, disk, ghosts
<1>4. ASSUME NEW v \in Vms, Wake(v) PROVE WarmSame
  <2>1. \A w \in Vms : op'[w].kind = "warm" => op[w].kind = "warm"
    BY <1>4, WarmKinds DEF Wake
  <2>2. count'.seeds = count.seeds
    BY <1>4, CountSame DEF Wake
  <2>3. QED
    BY <1>4, <2>1, <2>2 DEF Wake, WarmSame, disk, ghosts
<1>5. ASSUME NEW v \in Vms, Settle(v) \/ Destroy(v) PROVE WarmSame
  <2>1. images'[Warm] = images[Warm]
    BY <1>1, <1>5, Names DEF Settle, Destroy, TypeInv, ImageType
  <2>2. QED
    BY <1>5, <2>1 DEF Settle, Destroy, WarmSame, ghosts
<1>6. CASE \E t \in Tags : DropTag(t)
  <2>1. images'[Warm] = images[Warm]
    BY <1>1, <1>6, NameAssumption DEF DropTag, TypeInv, ImageType
  <2>2. QED
    BY <1>6, <2>1 DEF DropTag, WarmSame, ghosts
<1>7. CASE SeedFails \/ FailedLapses \/ AtRest \/ UNCHANGED vars
  <2>1. count'.seeds = count.seeds
    BY <1>7, CountSame DEF SeedFails, FailedLapses, AtRest, vars
  <2>2. QED
    BY <1>7, <2>1 DEF SeedFails, FailedLapses, AtRest, vars, WarmSame, ghosts
<1>8. QED
  BY <1>2, <1>3, <1>4, <1>5, <1>6, <1>7
\* A warm image's number, and what VMs remember, are numbers.
LEMMA WarmParts ==
  ASSUME TypeInv
  PROVE  /\ count.seeds \in Nat /\ Warm \in Dirs
         /\ \A v \in Vms : noted[v] \in Nat /\ diedOf[v] \in Nat
         /\ images[Warm] # Nil => images[Warm].gen \in Nat
<1>1. Warm \in Dirs
  BY DEF Dirs
<1>2. QED
  BY <1>1 DEF TypeInv, WarmType, ImageType, Image

\* A VM dies, of the image it is noted with if it is.
LEMMA DiesWarm ==
  ASSUME TypeInv, WarmInv, NEW v \in Vms, Dies(v)
  PROVE  WarmInv'
<1>1. /\ noted' = noted /\ seed' = seed /\ images' = images /\ op' = op
      /\ diedOf' = [diedOf EXCEPT ![v] = noted[v]] /\ count'.seeds = count.seeds
  BY CountSame DEF Dies, disk
<1>2. diedOf'[v] = noted[v] /\ \A w \in Vms \ {v} : diedOf'[w] = diedOf[w]
  BY <1>1 DEF TypeInv, WarmType
<1>3. GenInv'
  BY <1>1, <1>2 DEF WarmInv, GenInv
<1>4. ASSUME NEW w \in Vms PROVE DiedInv(w)'
  BY <1>1, <1>2 DEF WarmInv, DiedInv
<1>5. QED
  BY <1>3, <1>4 DEF WarmInv

\* A warm start that has ended is noted with the image that is there now.
LEMMA RestoreEndsWarm ==
  ASSUME TypeInv, WarmInv, NEW v \in Vms, RestoreEnds(v)
  PROVE  WarmInv'
<1>1. PICK n : n = IF op[v].kind # "warm" THEN noted[v]
                   ELSE IF images[Warm] = Nil THEN 0 ELSE images[Warm].gen
  OBVIOUS
<1>2. /\ noted' = [noted EXCEPT ![v] = n] /\ op' = [op EXCEPT ![v] = Idle]
      /\ UNCHANGED <<images, seed, count, diedOf>>
  BY <1>1 DEF RestoreEnds, TypeInv, WarmType
<1>3. noted'[v] = n /\ \A w \in Vms \ {v} : noted'[w] = noted[w]
  BY <1>2 DEF TypeInv, WarmType
<1>4. op'[v] = Idle /\ Idle.kind = "idle" /\ \A w \in Vms \ {v} : op'[w] = op[w]
  BY <1>2, OpOver DEF Idle
<1>5. /\ n <= count.seeds
      /\ seed = "clear" => n < count.seeds
  BY <1>1, WarmParts DEF WarmInv, GenInv, DiedInv
<1>6. GenInv'
  BY <1>2, <1>3, <1>5 DEF WarmInv, GenInv
<1>7. DiedInv(v)'
  <2>1. diedOf[v] # 0 /\ n # diedOf[v] =>
          /\ images[Warm] # Nil => images[Warm].gen # diedOf[v]
          /\ seed = "clear" => diedOf[v] < count.seeds
    BY <1>1 DEF WarmInv, GenInv, DiedInv
  <2>2. QED
    BY <1>2, <1>3, <1>4, <1>5, <2>1 DEF WarmInv, DiedInv
<1>8. ASSUME NEW w \in Vms \ {v} PROVE DiedInv(w)'
  BY <1>2, <1>3, <1>4 DEF WarmInv, DiedInv
<1>9. QED
  BY <1>6, <1>7, <1>8 DEF WarmInv

\* A sandbox created again distrusts the image it had just died of.
LEMMA CreateColdWarm ==
  ASSUME TypeInv, WarmInv, NEW v \in Vms, NEW young \in BOOLEAN, NEW spare \in BOOLEAN,
         CreateCold(v, young, spare)
  PROVE  WarmInv'
<1>1. /\ images' = Distrust(v) /\ noted' = [noted EXCEPT ![v] = 0] /\ diedOf' = diedOf
      /\ seed' = seed \/ seed' = "boot"
  BY DEF CreateCold
<1>2. count'.seeds = count.seeds
  BY CountSame DEF CreateCold, Begin
<1>3. PICK o : op' = [op EXCEPT ![v] = o]
  BY DEF CreateCold, Begin
<1>4. \A w \in Vms \ {v} : op'[w] = op[w]
  BY <1>3 DEF TypeInv, OpType
<1>5. noted'[v] = 0 /\ \A w \in Vms \ {v} : noted'[w] = noted[w]
  BY <1>1 DEF TypeInv, WarmType
<1>6. images'[Warm] # Nil => /\ images'[Warm] = images[Warm]
                             /\ noted[v] = 0 \/ images[Warm].gen # noted[v]
  BY <1>1, WarmParts DEF Distrust, TypeInv, ImageType
<1>7. GenInv'
  BY <1>1, <1>2, <1>5, <1>6, WarmParts DEF WarmInv, GenInv
<1>8. DiedInv(v)'
  BY <1>1, <1>2, <1>5, <1>6, WarmParts DEF WarmInv, GenInv, DiedInv
<1>9. ASSUME NEW w \in Vms \ {v} PROVE DiedInv(w)'
  BY <1>1, <1>2, <1>4, <1>5, <1>6 DEF WarmInv, DiedInv
<1>10. QED
  BY <1>7, <1>8, <1>9 DEF WarmInv

\* A warm start that lasts is forgotten.
LEMMA WarmLastsWarm ==
  ASSUME TypeInv, WarmInv, NEW v \in Vms, WarmLasts(v)
  PROVE  WarmInv'
<1>1. /\ noted' = [noted EXCEPT ![v] = 0] /\ diedOf' = [diedOf EXCEPT ![v] = 0]
      /\ UNCHANGED <<images, op, seed, count>>
  BY DEF WarmLasts
<1>2. /\ noted'[v] = 0 /\ diedOf'[v] = 0
      /\ \A w \in Vms \ {v} : noted'[w] = noted[w] /\ diedOf'[w] = diedOf[w]
  BY <1>1 DEF TypeInv, WarmType
<1>3. GenInv'
  BY <1>1, <1>2, WarmParts DEF WarmInv, GenInv
<1>4. DiedInv(v)'
  BY <1>1, <1>2, WarmParts DEF WarmInv, DiedInv
<1>5. ASSUME NEW w \in Vms \ {v} PROVE DiedInv(w)'
  BY <1>1, <1>2 DEF WarmInv, DiedInv
<1>6. QED
  BY <1>3, <1>4, <1>5 DEF WarmInv

\* The image being taken has a number of its own, and is not one that any VM
\* has died of.
LEMMA SeedWarm ==
  ASSUME TypeInv, WarmInv, SeedClears \/ SeedPublishes
  PROVE  WarmInv'
<1>1. CASE SeedClears
  <2>1. /\ images[Warm] = Nil /\ seed' = "clear" /\ UNCHANGED <<images, op, noted, diedOf>>
        /\ count'.seeds = count.seeds + 1
    BY <1>1 DEF SeedClears, ghosts, TypeInv, WarmType
  <2>2. GenInv'
    BY <2>1, WarmParts DEF WarmInv, GenInv, DiedInv
  <2>3. ASSUME NEW v \in Vms PROVE DiedInv(v)'
    BY <2>1, WarmParts DEF WarmInv, DiedInv
  <2>4. QED
    BY <2>2, <2>3 DEF WarmInv
<1>2. CASE SeedPublishes
  <2>1. /\ seed = "clear" /\ seed' = "none" /\ UNCHANGED <<op, noted, diedOf, count>>
        /\ images'[Warm].gen = count.seeds
    BY <1>2, WarmParts DEF SeedPublishes, ghosts, TypeInv, ImageType, WarmImage
  <2>2. GenInv'
    BY <2>1, WarmParts DEF GenInv
  <2>3. ASSUME NEW v \in Vms PROVE DiedInv(v)'
    BY <2>1, WarmParts DEF WarmInv, GenInv, DiedInv
  <2>4. QED
    BY <2>2, <2>3 DEF WarmInv
<1>3. QED
  BY <1>1, <1>2

\* A node that restarts remembers no warm start.
LEMMA CrashWarm ==
  ASSUME TypeInv, WarmInv, Crash
  PROVE  WarmInv'
<1>1. /\ op' = [v \in Vms |-> Idle] /\ noted' = [v \in Vms |-> 0] /\ diedOf' = [v \in Vms |-> 0]
      /\ seed' = "none"
  BY DEF Crash
<1>2. count'.seeds = count.seeds
  BY DEF Crash, TypeInv, WarmType
<1>3. images'[Warm] # Nil => images[Warm] # Nil /\ images'[Warm].gen = images[Warm].gen
  <2>1. images[Warm] # Nil => images[Warm] \in Image /\ images'[Warm] = [images[Warm] EXCEPT !.tmp = Nil]
    BY WarmParts DEF Crash, TypeInv, ImageType
  <2>2. images[Warm] = Nil => images'[Warm] = Nil
    BY WarmParts DEF Crash
  <2>3. QED
    BY <2>1, <2>2 DEF Image
<1>4. GenInv'
  BY <1>1, <1>2, <1>3 DEF WarmInv, GenInv
<1>5. ASSUME NEW v \in Vms PROVE DiedInv(v)'
  <2>1. noted'[v] = 0 /\ diedOf'[v] = 0
    BY <1>1
  <2>2. QED
    BY <1>2, <2>1, WarmParts DEF DiedInv
<1>6. QED
  BY <1>4, <1>5 DEF WarmInv

\* Every step keeps it.
LEMMA NextWarm ==
  ASSUME TypeInv, ExactInv, WarmInv, [Next]_vars
  PROVE  WarmInv'
<1>1. ASSUME NEW v \in Vms, Step(v) PROVE WarmInv'
  <2>1. CASE \/ \E p \in Pages : GuestWrites(v, p)
             \/ \E t \in Tags : BranchStart(v, t)
             \/ \E kind \in {"branch", "snapshot"} : PauseFails(v, kind)
             \/ SnapshotStart(v) \/ CkptMemory(v) \/ CkptDisk(v) \/ CkptFails(v)
             \/ CkptPublish(v) \/ PublishFails(v) \/ SnapshotEnds(v)
             \/ BranchResumes(v) \/ BranchRestores(v)
    BY <2>1, TakingWarm, WarmSameKeeps
  <2>2. CASE \/ RestoreDisk(v) \/ AssembleNone(v) \/ Load(v)
             \/ AssembleStart(v) \/ AssembleApply(v) \/ AssembleEnds(v)
             \/ \E saved \in BOOLEAN : RestoreFails(v, saved)
    BY <2>2, LoadingWarm, WarmSameKeeps
  <2>3. CASE \/ \E t \in Tags : CreateFork(v, t)
             \/ Boot(v) \/ BootFails(v) \/ Wake(v) \/ Settle(v) \/ Destroy(v)
    BY <2>3, OtherWarm, WarmSameKeeps
  <2>4. CASE \E young, spare \in BOOLEAN : CreateCold(v, young, spare)
    BY <2>4, CreateColdWarm
  <2>5. CASE RestoreEnds(v) \/ WarmLasts(v) \/ Dies(v)
    BY <2>5, RestoreEndsWarm, WarmLastsWarm, DiesWarm
  <2>6. QED
    BY <1>1, <2>1, <2>2, <2>3, <2>4, <2>5, Zenon DEF Step
<1>2. CASE (\E t \in Tags : DropTag(t)) \/ SeedFails \/ FailedLapses \/ AtRest \/ UNCHANGED vars
  BY <1>2, OtherWarm, WarmSameKeeps
<1>3. CASE SeedClears \/ SeedPublishes
  BY <1>3, SeedWarm
<1>4. CASE Crash
  BY <1>4, CrashWarm
<1>5. QED
  BY <1>1, <1>2, <1>3, <1>4, Zenon DEF Next

\* It holds of a node with nothing on it but, perhaps, a warm image.
LEMMA InitWarm ==
  ASSUME Init
  PROVE  WarmInv
<1>1. PICK gen \in 0..MaxSeeds :
        /\ images = [d \in Dirs |-> IF d = Warm /\ gen # 0 THEN WarmImage(gen) ELSE Nil]
        /\ count = [faults |-> 0, crashes |-> 0, seeds |-> gen, ops |-> 0]
  BY DEF Init
<1>2. gen \in Nat /\ count.seeds = gen /\ Warm \in Dirs
  BY <1>1, SeedAssumption DEF Dirs
<1>3. images[Warm] # Nil => images[Warm].gen = gen
  BY <1>1, <1>2 DEF WarmImage
<1>4. /\ \A v \in Vms : noted[v] = 0 /\ diedOf[v] = 0 /\ op[v] = Idle
      /\ seed = "none" /\ Idle.kind = "idle"
  BY DEF Init, Idle
<1>5. GenInv
  BY <1>2, <1>3, <1>4 DEF GenInv
<1>6. \A v \in Vms : DiedInv(v)
  BY <1>2, <1>4 DEF DiedInv
<1>7. QED
  BY <1>5, <1>6 DEF WarmInv

\* distrust_warm_image: no sandbox starts a second time from the warm image it
\* has just died of, whatever seeds and restarts come between.
THEOREM NoneTwice == Spec => []NotOfItTwice
<1>1. Init => WarmInv
  BY InitWarm
<1>2. TypeInv /\ ExactInv /\ WarmInv /\ [Next]_vars => WarmInv'
  BY NextWarm
<1>3. WarmInv => NotOfItTwice
  BY DEF WarmInv, DiedInv, NotOfItTwice
<1>4. QED
  BY <1>1, <1>2, <1>3, VmSafety, PTL DEF Spec
=============================================================================
