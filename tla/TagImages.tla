----------------------------- MODULE TagImages -----------------------------
(***************************************************************************)
(* Snapshot tags: a branch writes an image on one node and the master      *)
(* records it; forks restore from it on any node of the same fingerprint,  *)
(* which fetches the image from the node that baked it; deleting the tag   *)
(* removes the record, and each node that still reports the image is told  *)
(* to drop it.                                                             *)
(*                                                                         *)
(* An image is named by the branch call that produced it and is made of    *)
(* pieces, its files.  Nodes here share one fingerprint; which pool a node *)
(* is in is the business of Fleet.  Backoff and quarantine of the creates  *)
(* are the business of Reconcile: here a create that fails is just offered *)
(* again.                                                                  *)
(***************************************************************************)
EXTENDS Naturals, Sequences, FiniteSets

CONSTANTS
  Nodes,
  Listening,  \* nodes the master connects to; others have no address to fetch from
  Tags,
  Calls,      \* calls of branch_sandbox
  Children,   \* sandboxes forked from tags
  Pieces,     \* the files of an image
  Nil,
  MaxFaults   \* bound: restarts, lost answers and failed steps

ASSUME TagImagesAssumption ==
  /\ Listening \subseteq Nodes /\ MaxFaults \in Nat
  /\ IsFiniteSet(Tags) /\ IsFiniteSet(Calls) /\ IsFiniteSet(Children)
  /\ Pieces # {}
  /\ Nil \notin Nodes \cup Tags \cup Calls \cup Children
  /\ Nil \notin [Pieces -> Calls] /\ Nil \notin [node : Nodes, image : Calls]

VARIABLES
  snapshots,  \* the master's record of each tag: where it is (and, as history, whose)
  row,        \* the master's row of each child
  call,       \* each call of branch_sandbox
  queue,      \* exec_queue: the branches waiting for each node's next poll
  batch,      \* the commands each node is still to run
  disk,       \* tags/<tag> on each node: whose bytes each piece holds
  aged,       \* tags held at least REPORT_MIN_AGE
  fetch,      \* Fetches: each node's fetch of each tag
  ran,        \* what each running child was restored from, and where
  written,    \* history: the images ever written under each tag
  faults

vars == <<snapshots, row, call, queue, batch, disk, aged, fetch, ran, written, faults>>

Whole(c)  == [p \in Pieces |-> c]
NoFetch   == [st |-> "none", from |-> Nil, of |-> Nil, got |-> [p \in Pieces |-> Nil]]
Fault     == faults < MaxFaults /\ faults' = faults + 1

Init ==
  /\ snapshots = [t \in Tags |-> Nil]
  /\ row = [s \in Children |-> [st |-> "new", node |-> Nil, tag |-> Nil, image |-> Nil]]
  /\ call = [c \in Calls |-> [pc |-> "new", node |-> Nil, tag |-> Nil]]
  /\ queue = [n \in Nodes |-> <<>>]
  /\ batch = [n \in Nodes |-> <<>>]
  /\ disk = [n \in Nodes |-> [t \in Tags |-> Nil]]
  /\ aged = [n \in Nodes |-> {}]
  /\ fetch = [n \in Nodes |-> [t \in Tags |-> NoFetch]]
  /\ ran = [s \in Children |-> Nil]
  /\ written = [t \in Tags |-> {}]
  /\ faults = 0

-----------------------------------------------------------------------------
(* The master's API. *)

\* branch_sandbox, up to where it waits: refused if the tag is on record, else
\* queued for the node of its sandbox, which is running there.
BranchAsked(c, t, n) ==
  /\ call[c].pc = "new" /\ snapshots[t] = Nil
  /\ call' = [call EXCEPT ![c] = [pc |-> "waiting", node |-> n, tag |-> t]]
  /\ queue' = [queue EXCEPT ![n] = Append(@, c)]
  /\ UNCHANGED <<snapshots, row, batch, disk, aged, fetch, ran, written, faults>>

\* The caller has waited 180 seconds.  The command stays queued, or running.
BranchTimesOut(c) ==
  /\ call[c].pc = "waiting"
  /\ call' = [call EXCEPT ![c].pc = "failed"]
  /\ UNCHANGED <<snapshots, row, queue, batch, disk, aged, fetch, ran, written, faults>>

\* The handler resumes on the node's answer and records the tag.  A record of
\* the same name made meanwhile is overwritten.
BranchRecorded(c) ==
  /\ call[c].pc = "answered"
  /\ call' = [call EXCEPT ![c].pc = "done"]
  /\ snapshots' = [snapshots EXCEPT ![call[c].tag] = [node |-> call[c].node, image |-> c]]
  /\ UNCHANGED <<row, queue, batch, disk, aged, fetch, ran, written, faults>>

\* create_sandbox with snapshot_tag: on the node that baked it, or on another
\* if that one can be fetched from.
Fork(s, t, n) ==
  /\ row[s].st = "new" /\ snapshots[t] # Nil
  /\ n = snapshots[t].node \/ snapshots[t].node \in Listening
  /\ row' = [row EXCEPT ![s] = [st |-> "live", node |-> n, tag |-> t,
                                image |-> snapshots[t].image]]
  /\ UNCHANGED <<snapshots, call, queue, batch, disk, aged, fetch, ran, written, faults>>

DeleteChild(s) ==
  /\ row[s].st = "live"
  /\ row' = [row EXCEPT ![s].st = "gone"]
  /\ UNCHANGED <<snapshots, call, queue, batch, disk, aged, fetch, ran, written, faults>>

ChildrenOf(t) == {s \in Children : row[s].st = "live" /\ row[s].tag = t}

\* Mutant: deleted without counting what is forked from it.
DeleteSnapshotInUse(t) ==
  /\ snapshots[t] # Nil
  /\ snapshots' = [snapshots EXCEPT ![t] = Nil]
  /\ UNCHANGED <<row, call, queue, batch, disk, aged, fetch, ran, written, faults>>

\* delete_snapshot: refused while sandboxes are forked from it.
DeleteSnapshot(t) ==
  /\ snapshots[t] # Nil /\ ChildrenOf(t) = {}
  /\ snapshots' = [snapshots EXCEPT ![t] = Nil]
  /\ UNCHANGED <<row, call, queue, batch, disk, aged, fetch, ran, written, faults>>

-----------------------------------------------------------------------------
(* A poll: the node's report, and the commands it is answered with. *)

\* fetch_from: nowhere when the tag is gone, is on this node, or is on one the
\* master cannot reach.
FetchFrom(n, t) ==
  IF snapshots[t] # Nil /\ snapshots[t].node # n /\ snapshots[t].node \in Listening
  THEN snapshots[t].node ELSE Nil

\* The orders a set of commands may come in.
Orders(S) == {q \in [1 .. Cardinality(S) -> S] : \A i, j \in DOMAIN q : q[i] = q[j] => i = j}

Missing(n) == {s \in Children : row[s].st = "live" /\ row[s].node = n /\ ran[s] = Nil}
Unwanted(n) == {s \in Children : row[s].st = "gone" /\ ran[s] # Nil /\ row[s].node = n}

\* held, as the report has it, less what is on record.
Dropped(n) == {t \in aged[n] : disk[n][t] # Nil /\ snapshots[t] = Nil}

\* diff: a create for each row not observed, a destroy for each sandbox without
\* a row, a drop for each tag held and not on record; then take_execs.
Commands(n, creates, destroys, drops) ==
  [i \in DOMAIN creates |-> [op |-> "create", of |-> creates[i],
                             from |-> FetchFrom(n, row[creates[i]].tag)]]
  \o [i \in DOMAIN destroys |-> [op |-> "destroy", of |-> destroys[i], from |-> Nil]]
  \o [i \in DOMAIN drops |-> [op |-> "drop", of |-> drops[i], from |-> Nil]]
  \o [i \in DOMAIN queue[n] |-> [op |-> "branch", of |-> queue[n][i], from |-> Nil]]

Poll(n) ==
  /\ batch[n] = <<>>
  /\ \E cr \in Orders(Missing(n)), de \in Orders(Unwanted(n)), dr \in Orders(Dropped(n)) :
       /\ Commands(n, cr, de, dr) # <<>>
       /\ batch' = [batch EXCEPT ![n] = Commands(n, cr, de, dr)]
  /\ queue' = [queue EXCEPT ![n] = <<>>]
  /\ UNCHANGED <<snapshots, row, call, disk, aged, fetch, ran, written, faults>>

\* The answer to the poll is lost, and with it the branches taken for it.
PollLost(n) ==
  /\ batch[n] = <<>> /\ queue[n] # <<>> /\ Fault
  /\ queue' = [queue EXCEPT ![n] = <<>>]
  /\ UNCHANGED <<snapshots, row, call, batch, disk, aged, fetch, ran, written>>

-----------------------------------------------------------------------------
(* The node runs its commands in order. *)

Now(n, op) == batch[n] # <<>> /\ Head(batch[n]).op = op
Advance(n) == batch' = [batch EXCEPT ![n] = Tail(@)]

\* The node's answer reaches a caller that still waits.
Answer(c, pc) ==
  call' = IF call[c].pc = "waiting" THEN [call EXCEPT ![c].pc = pc] ELSE call

\* Runtime::branch writes the image under the tag's name.  Sealed elsewhere
\* and renamed, so it is there whole or not at all.
RunBranch(n) ==
  LET c == Head(batch[n]).of
      t == call[c].tag IN
  /\ Now(n, "branch") /\ disk[n][t] = Nil
  /\ disk' = [disk EXCEPT ![n][t] = Whole(c)]
  /\ aged' = [aged EXCEPT ![n] = @ \ {t}]
  /\ written' = [written EXCEPT ![t] = @ \cup {c}]
  /\ Answer(c, "answered")
  /\ Advance(n)
  /\ UNCHANGED <<snapshots, row, queue, fetch, ran, faults>>

\* The tag is here already, or the checkpoint or the parent's restore fails;
\* the image then goes to the parent, and the tag is left as it was.
RunBranchFails(n) ==
  LET c == Head(batch[n]).of IN
  /\ Now(n, "branch")
  /\ IF disk[n][call[c].tag] # Nil THEN UNCHANGED faults ELSE Fault
  /\ Answer(c, "failed")
  /\ Advance(n)
  /\ UNCHANGED <<snapshots, row, queue, disk, aged, fetch, ran, written>>

\* The image is written, and its answer lost on the way.
RunBranchUnheard(n) ==
  LET c == Head(batch[n]).of
      t == call[c].tag IN
  /\ Now(n, "branch") /\ disk[n][t] = Nil /\ Fault
  /\ disk' = [disk EXCEPT ![n][t] = Whole(c)]
  /\ aged' = [aged EXCEPT ![n] = @ \ {t}]
  /\ written' = [written EXCEPT ![t] = @ \cup {c}]
  /\ Advance(n)
  /\ UNCHANGED <<snapshots, row, call, queue, fetch, ran>>

\* Mutant: the drop is run on the hidden copy only.
RunDropNothing(n) ==
  /\ Now(n, "drop") /\ Advance(n)
  /\ UNCHANGED <<snapshots, row, call, queue, disk, aged, fetch, ran, written, faults>>

RunDrop(n) ==
  LET t == Head(batch[n]).of IN
  /\ Now(n, "drop")
  /\ disk' = [disk EXCEPT ![n][t] = Nil]
  /\ aged' = [aged EXCEPT ![n] = @ \ {t}]
  /\ Advance(n)
  /\ UNCHANGED <<snapshots, row, call, queue, fetch, ran, written, faults>>

RunDestroy(n) ==
  /\ Now(n, "destroy")
  /\ ran' = [ran EXCEPT ![Head(batch[n]).of] = Nil]
  /\ Advance(n)
  /\ UNCHANGED <<snapshots, row, call, queue, disk, aged, fetch, written, faults>>

-----------------------------------------------------------------------------
(* Creating a child: ensure, then restore from the node's own copy. *)

\* Nothing to fetch, or the image is here: restored from the node's copy.
RunCreate(n) ==
  LET s == Head(batch[n]).of
      t == row[s].tag IN
  /\ Now(n, "create") /\ disk[n][t] # Nil
  /\ ran' = [ran EXCEPT ![s] = disk[n][t]]
  /\ Advance(n)
  /\ UNCHANGED <<snapshots, row, call, queue, disk, aged, fetch, written, faults>>

\* ensure with no fetch under way: one is started, and the create is put off.
RunCreateFetches(n) ==
  LET t == row[Head(batch[n]).of].tag IN
  /\ Now(n, "create") /\ disk[n][t] = Nil /\ Head(batch[n]).from # Nil
  /\ fetch[n][t].st = "none"
  /\ fetch' = [fetch EXCEPT ![n][t] = [NoFetch EXCEPT !.st = "asking",
                                       !.from = Head(batch[n]).from]]
  /\ Advance(n)
  /\ UNCHANGED <<snapshots, row, call, queue, disk, aged, ran, written, faults>>

\* The fetch is under way (put off), has failed (reported once, and the next
\* create starts again), or there is nowhere to fetch from: the create fails.
RunCreateNot(n) ==
  LET t == row[Head(batch[n]).of].tag IN
  /\ Now(n, "create") /\ disk[n][t] = Nil
  /\ Head(batch[n]).from = Nil \/ fetch[n][t].st # "none"
  /\ fetch' = IF Head(batch[n]).from # Nil /\ fetch[n][t].st = "failed"
              THEN [fetch EXCEPT ![n][t] = NoFetch] ELSE fetch
  /\ Advance(n)
  /\ UNCHANGED <<snapshots, row, call, queue, disk, aged, ran, written, faults>>

-----------------------------------------------------------------------------
(* The fetch, on a task of its own. *)

FetchEnds(n, t, st) == fetch' = [fetch EXCEPT ![n][t] = [NoFetch EXCEPT !.st = st]]

\* The manifest: the names and sizes of what the source holds now.
FetchManifest(n, t) ==
  LET f == fetch[n][t] IN
  /\ f.st = "asking" /\ disk[f.from][t] # Nil
  /\ fetch' = [fetch EXCEPT ![n][t].st = "copying",
                            ![n][t].of = disk[f.from][t]]
  /\ UNCHANGED <<snapshots, row, call, queue, batch, disk, aged, ran, written, faults>>

\* One file, as the source has it now.  Its size is checked against the
\* manifest, which another image of the same name may pass.
FetchPiece(n, t, p) ==
  LET f == fetch[n][t] IN
  /\ f.st = "copying" /\ f.got[p] = Nil /\ disk[f.from][t] # Nil
  /\ fetch' = [fetch EXCEPT ![n][t].got[p] = disk[f.from][t][p]]
  /\ UNCHANGED <<snapshots, row, call, queue, batch, disk, aged, ran, written, faults>>

\* Mutant: moved into place before every file is there.
FetchPlacedEarly(n, t) ==
  LET f == fetch[n][t] IN
  /\ f.st = "copying" /\ \E p \in Pieces : f.got[p] # Nil
  /\ disk' = IF disk[n][t] = Nil THEN [disk EXCEPT ![n][t] = f.got] ELSE disk
  /\ FetchEnds(n, t, "none")
  /\ UNCHANGED <<snapshots, row, call, queue, batch, aged, ran, written, faults>>

\* Every file complete: renamed into place, unless another copy is there.
FetchPlaced(n, t) ==
  LET f == fetch[n][t] IN
  /\ f.st = "copying" /\ \A p \in Pieces : f.got[p] # Nil
  /\ disk' = IF disk[n][t] = Nil THEN [disk EXCEPT ![n][t] = f.got] ELSE disk
  /\ FetchEnds(n, t, "none")
  /\ UNCHANGED <<snapshots, row, call, queue, batch, aged, ran, written, faults>>

\* The source has dropped it, a size does not agree, or the transfer stalls.
FetchFails(n, t) ==
  LET f == fetch[n][t] IN
  /\ f.st \in {"asking", "copying"}
  /\ \/ disk[f.from][t] = Nil /\ UNCHANGED faults
     \/ f.st = "copying" /\ disk[f.from][t] \notin {Nil, f.of} /\ UNCHANGED faults
     \/ Fault
  /\ FetchEnds(n, t, "failed")
  /\ UNCHANGED <<snapshots, row, call, queue, batch, disk, aged, ran, written>>

-----------------------------------------------------------------------------
(* Time, and restarts. *)

\* REPORT_MIN_AGE (300 s) passes for an image.  A branch's caller waits 180 s
\* from before the image is written, so by then it has its answer or has left.
Age(n, t) ==
  /\ disk[n][t] # Nil /\ t \notin aged[n]
  /\ \A c \in Calls : call[c].pc \in {"waiting", "answered"} => disk[n][t] # Whole(c)
  /\ aged' = [aged EXCEPT ![n] = @ \cup {t}]
  /\ UNCHANGED <<snapshots, row, call, queue, batch, disk, fetch, ran, written, faults>>

\* The node restarts: its commands, its fetches and their hidden copies are
\* gone; images and running sandboxes are as they were.
NodeRestarts(n) ==
  /\ Fault
  /\ batch' = [batch EXCEPT ![n] = <<>>]
  /\ fetch' = [fetch EXCEPT ![n] = [t \in Tags |-> NoFetch]]
  /\ UNCHANGED <<snapshots, row, call, queue, disk, aged, ran, written>>

\* The master restarts: callers are cut off, queued branches forgotten.
MasterRestarts ==
  /\ Fault
  /\ call' = [c \in Calls |-> IF call[c].pc \in {"waiting", "answered"}
                               THEN [call[c] EXCEPT !.pc = "failed"] ELSE call[c]]
  /\ queue' = [n \in Nodes |-> <<>>]
  /\ UNCHANGED <<snapshots, row, batch, disk, aged, fetch, ran, written>>

-----------------------------------------------------------------------------
Run(n) ==
  \/ RunBranch(n) \/ RunBranchFails(n) \/ RunBranchUnheard(n) \/ RunDrop(n)
  \/ RunDestroy(n) \/ RunCreate(n) \/ RunCreateFetches(n) \/ RunCreateNot(n)

FetchStep(n, t) ==
  \/ FetchManifest(n, t) \/ FetchPlaced(n, t) \/ FetchFails(n, t)
  \/ \E p \in Pieces : FetchPiece(n, t, p)

Api ==
  \/ \E c \in Calls, t \in Tags, n \in Nodes : BranchAsked(c, t, n)
  \/ \E s \in Children, t \in Tags, n \in Nodes : Fork(s, t, n)
  \/ \E s \in Children : DeleteChild(s)
  \/ \E t \in Tags : DeleteSnapshot(t)

\* No call open, no command to run, no fetch under way.
AtRest ==
  /\ \A c \in Calls : call[c].pc \notin {"waiting", "answered"}
  /\ \A n \in Nodes : batch[n] = <<>> /\ queue[n] = <<>>
  /\ \A n \in Nodes, t \in Tags : fetch[n][t].st \notin {"asking", "copying"}
  /\ UNCHANGED vars

Next ==
  \/ Api
  \/ \E c \in Calls : BranchRecorded(c) \/ BranchTimesOut(c)
  \/ \E n \in Nodes : Poll(n) \/ PollLost(n) \/ Run(n) \/ NodeRestarts(n)
  \/ \E n \in Nodes, t \in Tags : FetchStep(n, t) \/ Age(n, t)
  \/ MasterRestarts \/ AtRest

Spec == Init /\ [][Next]_vars

\* Nodes poll and work through their commands, images grow old, answered
\* handlers resume, and a waiting caller is answered or times out.
Fairness ==
  /\ \A n \in Nodes : WF_vars(Poll(n)) /\ WF_vars(Run(n))
  /\ \A n \in Nodes, t \in Tags : WF_vars(FetchStep(n, t)) /\ WF_vars(Age(n, t))
  /\ \A c \in Calls : WF_vars(BranchRecorded(c)) /\ WF_vars(BranchTimesOut(c))

FairSpec == Spec /\ Fairness

-----------------------------------------------------------------------------
(* Properties. *)

\* delete_snapshot, REPORT_MIN_AGE and branch_sandbox together: a tag on record
\* has its whole image on the node the record names, and a tag something is
\* forked from is on record, so a fork can always still be started.
TagKept ==
  /\ \A t \in Tags : snapshots[t] # Nil =>
       disk[snapshots[t].node][t] = Whole(snapshots[t].image)
  /\ \A s \in Children : row[s].st = "live" => snapshots[row[s].tag] # Nil

\* What a child runs is the image its tag named when it was forked.
RunsItsTag(s) == ran[s] # Nil => ran[s] = Whole(row[s].image)

\* fetch and clear_partial: however fetches fail, stall, race with drops and
\* are cut short, a fork of a tag whose name was only ever used once runs that
\* tag's image, all of it.
ForkWhole ==
  \A s \in Children : ran[s] # Nil /\ Cardinality(written[row[s].tag]) <= 1 => RunsItsTag(s)

\* diff and drop_tag: an image without a record - its tag deleted, or its
\* branch given up on by the caller - does not stay on any node's disk.
OrphansGo ==
  \A n \in Nodes, t \in Tags :
    disk[n][t] # Nil /\ snapshots[t] = Nil ~> disk[n][t] = Nil \/ snapshots[t] # Nil
=============================================================================
