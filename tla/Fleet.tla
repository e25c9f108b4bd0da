------------------------------- MODULE Fleet -------------------------------
(***************************************************************************)
(* The fleet as the master knows it: how a node joins a pool, how it moves *)
(* when its fingerprint changes, how sandboxes are placed and given slots, *)
(* and how a node is moved to another backend.                             *)
(*                                                                         *)
(* A fingerprint is the engine a node runs and its build.  A pool is a     *)
(* name asked for, or that name with the fingerprint of the group that was *)
(* split off it.  A handler that lets the store's lock go between two      *)
(* steps is two actions.  The failing of commands, and what a create does  *)
(* on the node, are the business of Reconcile and SandboxDisk.             *)
(***************************************************************************)
EXTENDS Integers, FiniteSets, Functions

CONSTANTS
  Nodes, Tokens, Sandboxes, Tags,
  Pool,       \* the pool tokens are minted for
  Engines, Builds,
  Cap,        \* max_sandboxes of every node; 0 is no cap
  MaxIndex,   \* max_net_index
  Ports,      \* how many gateway ports a node has
  Nil,
  Limits      \* how much of each Budget the environment may spend: any one of these

(***************************************************************************)
(* Bounds of TLC's runs: tokens minted and nodes added; creates; deletes;  *)
(* branches; switches asked for; upgrades; revocations; restarts of the    *)
(* master.                                                                 *)
(***************************************************************************)
Budget == {"join", "create", "delete", "bake", "switch", "upgrade", "revoke", "restart"}

ASSUME FleetAssumption ==
  /\ Cap \in Nat /\ MaxIndex \in Nat /\ Ports \in Nat /\ Builds \subseteq Nat
  /\ Nil \notin Nodes \cup Tokens \cup Sandboxes \cup Tags \cup Engines
  /\ Nil \notin 0 .. MaxIndex /\ IsFiniteSet(Sandboxes)
  /\ Limits \subseteq [Budget -> Nat]

VARIABLES
  \* The store.
  nodes,      \* each node's row
  tokens,     \* registration tokens
  rows,       \* the sandboxes' rows
  tags,       \* the snapshots' rows
  \* The master's memory.
  joins,      \* registrations and additions under way
  switching,  \* the backend each node is being moved to
  call,       \* set_node_backend, where it waits
  baking,     \* branch_sandbox, for each tag, where it waits
  queue,      \* exec_queue: the switch waiting for each node's next report
  parked,     \* the fingerprint a parked poll came with
  \* The nodes.
  host,       \* the fingerprint each node really has
  leaving,    \* SWITCHING: the backend an accepted switch will restart onto
  batch,      \* the commands a node has been given
  held,       \* the engine each sandbox on a node was created on
  \* History: pools were changed while a node was joining; nodes let back into
  \* placement with a switch of theirs under way; tags recorded on a node that
  \* a switch had been asked of while they were baked.
  raced, lapsed, late,
  spent

store  == <<nodes, tokens, rows, tags>>
memory == <<joins, switching, call, baking, queue, parked>>
onNode == <<host, leaving, batch, held>>
vars   == <<store, memory, onNode, raced, lapsed, late, spent>>

Fingerprint == [engine : Engines, build : Builds]
Pools   == {Pool} \X (Fingerprint \cup {Nil})
NodeRow == [pool : Pools, fp : Fingerprint, connected : BOOLEAN, agent : BOOLEAN,
            revoked : BOOLEAN, cert : BOOLEAN]

ASSUME NilAssumption == Nil \notin Fingerprint \cup NodeRow

NotJoining == [pc |-> "none", added |-> FALSE, print |-> Nil, pool |-> Nil]
NoCall   == [pc |-> "none", to |-> Nil]
NotBaking == [pc |-> "none", of |-> Nil, node |-> Nil, image |-> Nil]
NoBatch  == [creates |-> {}, bakes |-> {}, to |-> Nil]

Spend(b) ==
  /\ spent' = [spent EXCEPT ![b] = @ + 1]
  /\ \E limit \in Limits : \A x \in Budget : spent'[x] <= limit[x]

Init ==
  /\ nodes = [n \in Nodes |-> Nil]
  /\ tokens = [k \in Tokens |-> "none"]
  /\ rows = [s \in Sandboxes |-> Nil]
  /\ tags = [t \in Tags |-> Nil]
  /\ joins = [n \in Nodes |-> NotJoining]
  /\ switching = [n \in Nodes |-> Nil]
  /\ call = [n \in Nodes |-> NoCall]
  /\ baking = [t \in Tags |-> NotBaking]
  /\ queue = [n \in Nodes |-> Nil]
  /\ parked = [n \in Nodes |-> Nil]
  /\ host \in [Nodes -> {p \in Fingerprint : \A b \in Builds : p.build <= b}]
  /\ leaving = [n \in Nodes |-> Nil]
  /\ batch = [n \in Nodes |-> NoBatch]
  /\ held = [n \in Nodes |-> [s \in Sandboxes |-> Nil]]
  /\ raced = FALSE
  /\ lapsed = {}
  /\ late = {}
  /\ spent = [b \in Budget |-> 0]

Known(n) == nodes[n] # Nil
On(n)    == {s \in Sandboxes : rows[s] # Nil /\ rows[s].node = n}

-----------------------------------------------------------------------------
(* Joining. *)

\* create_node_token and node_bootstrap.
MintToken(k) ==
  /\ tokens[k] = "none" /\ Spend("join")
  /\ tokens' = [tokens EXCEPT ![k] = "minted"]
  /\ UNCHANGED <<nodes, rows, tags, memory, onNode, raced, lapsed, late>>

TokenExpires(k) ==
  /\ tokens[k] = "minted"
  /\ tokens' = [tokens EXCEPT ![k] = "expired"]
  /\ UNCHANGED <<nodes, rows, tags, memory, onNode, raced, lapsed, late, spent>>

\* register, its first step: a token is good once, and only while it lasts.  A
\* node registers when it starts, before it polls.
Redeem(n, k) ==
  /\ joins[n].pc = "none" /\ tokens[k] = "minted"
  /\ parked[n] = Nil /\ batch[n] = NoBatch /\ leaving[n] = Nil
  /\ tokens' = [tokens EXCEPT ![k] = "used"]
  /\ joins' = [joins EXCEPT ![n] = [pc |-> "asked", added |-> FALSE, print |-> host[n],
                                    pool |-> Nil]]
  /\ UNCHANGED <<nodes, rows, tags, switching, call, baking, queue, parked, onNode, raced, lapsed,
                 late, spent>>

Registering(n) == joins[n].pc # "none" /\ ~joins[n].added

\* add_node, up to pool_for: hello tells the fingerprint; a node that is polling
\* right now under this id is not taken over.
Hello(n) ==
  /\ joins[n].pc = "none" /\ Spend("join")
  /\ Known(n) => ~nodes[n].connected \/ (nodes[n].agent /\ ~nodes[n].revoked)
  /\ joins' = [joins EXCEPT ![n] = [pc |-> "asked", added |-> TRUE, print |-> host[n],
                                    pool |-> Nil]]
  /\ UNCHANGED <<store, switching, call, baking, queue, parked, onNode, raced, lapsed, late>>

\* Joins that have chosen a pool and are not through.
Choosing == {n \in Nodes : joins[n].pc \in {"pooled", "written"}}

\* The fingerprints of a pool's nodes that are not revoked, but for one.
Prints(p, but) ==
  {nodes[m].fp : m \in {x \in Nodes \ {but} : Known(x) /\ ~nodes[x].revoked
                                               /\ nodes[x].pool = p}}

Base(p)       == <<p[1], Nil>>
Derived(p, f) == <<p[1], f>>

\* Mutant: a node joins the pool it asks for.
PoolForAny(f) == <<Pool, Nil>>

\* pool_for: the pool asked for if all in it match, else the group of one's own.
PoolFor(f) ==
  IF Prints(<<Pool, Nil>>, Nil) \subseteq {f} THEN <<Pool, Nil>> ELSE <<Pool, f>>

ChoosePool(n) ==
  /\ joins[n].pc = "asked"
  /\ joins' = [joins EXCEPT ![n].pc = "pooled", ![n].pool = PoolFor(joins[n].print)]
  /\ raced' = (raced \/ Choosing # {})
  /\ UNCHANGED <<store, switching, call, baking, queue, parked, onNode, lapsed, late, spent>>

\* upsert_node.  A node that registers is connected, one that was added is not
\* until its driver has reached it; set_node_agent lifts a revocation at once.
Upsert(n) ==
  LET j == joins[n] IN
  /\ j.pc = "pooled"
  /\ nodes' = [nodes EXCEPT ![n] =
       [pool |-> j.pool, fp |-> j.print, connected |-> ~j.added,
        agent |-> j.added \/ (Known(n) /\ nodes[n].agent),
        revoked |-> ~j.added /\ Known(n) /\ nodes[n].revoked,
        cert |-> Known(n) /\ nodes[n].cert]]
  /\ joins' = [joins EXCEPT ![n] = IF j.added THEN NotJoining ELSE [j EXCEPT !.pc = "written"]]
  /\ UNCHANGED <<tokens, rows, tags, switching, call, baking, queue, parked, onNode, raced, lapsed,
                 late, spent>>

\* register ends: set_node_cert, which lifts a revocation.
SetNodeCert(n) ==
  /\ joins[n].pc = "written"
  /\ nodes' = [nodes EXCEPT ![n].cert = TRUE, ![n].revoked = FALSE]
  /\ joins' = [joins EXCEPT ![n] = NotJoining]
  /\ UNCHANGED <<tokens, rows, tags, switching, call, baking, queue, parked, onNode, raced, lapsed,
                 late, spent>>

\* revoke_node: its parked poll is woken (Resume may always happen), its driver
\* stopped.
Revoke(n) ==
  /\ Known(n) /\ Spend("revoke")
  /\ nodes' = [nodes EXCEPT ![n].revoked = TRUE, ![n].connected = FALSE]
  /\ UNCHANGED <<tokens, rows, tags, memory, onNode, raced, lapsed, late>>

-----------------------------------------------------------------------------
(* A report, and what it does to the fleet. *)

\* refingerprint_node: into the pool's own name if every other node there
\* matches, and the group that went ahead with it; else into the group.
Refingerprint(n, f) ==
  LET p    == nodes[n].pool
      back == Prints(Base(p), n) \subseteq {f}
      to   == IF back THEN Base(p) ELSE Derived(p, f) IN
  IF nodes[n].fp = f THEN nodes
  ELSE [m \in Nodes |->
         IF m = n THEN [nodes[n] EXCEPT !.fp = f, !.pool = to]
         ELSE IF back /\ Known(m) /\ nodes[m].pool = Derived(p, f)
         THEN [nodes[m] EXCEPT !.pool = Base(p)] ELSE nodes[m]]

\* The head of diff: the node is healthy and connected, back from a switch if
\* its engine says so, and in the pool its fingerprint belongs to.
Report(n, f) ==
  /\ nodes' = [Refingerprint(n, f) EXCEPT ![n].connected = TRUE]
  /\ switching' = [switching EXCEPT ![n] = IF @ = f.engine THEN Nil ELSE @]
  /\ raced' = (raced \/ (nodes[n].fp # f /\ Choosing # {}))

Queued(n) == {t \in Tags : baking[t].pc = "queued" /\ baking[t].node = n}

\* diff's creates, and take_execs: the branches and the switch queued for it.
Commands(n) ==
  [creates |-> {s \in On(n) : held[n][s] = Nil}, bakes |-> Queued(n), to |-> queue[n]]

Handed(n) ==
  /\ batch' = [batch EXCEPT ![n] = Commands(n)]
  /\ queue' = [queue EXCEPT ![n] = Nil]
  /\ baking' = [t \in Tags |-> IF t \in Queued(n) THEN [baking[t] EXCEPT !.pc = "given"]
                                                ELSE baking[t]]

\* require_node_cert and authorises for a poll; a driver runs while its node is
\* not revoked.
Admitted(n) == Known(n) /\ ~nodes[n].revoked /\ (nodes[n].agent \/ nodes[n].cert)

\* poll and the driver's sync: answered at once if there is work; a poll
\* without any is parked.
Poll(n) ==
  /\ Admitted(n) /\ ~Registering(n) /\ batch[n] = NoBatch /\ parked[n] = Nil
  /\ Report(n, host[n])
  /\ Handed(n)
  /\ parked' = [parked EXCEPT ![n] = IF Commands(n) = NoBatch /\ ~nodes[n].agent
                                     THEN host[n] ELSE Nil]
  /\ UNCHANGED <<tokens, rows, tags, joins, call, host, leaving, held, lapsed, late, spent>>

\* The poll's second diff, on the same report, when it is woken or its hold
\* ends.  Nothing asks for its certificate again.
Resume(n) ==
  /\ parked[n] # Nil
  /\ Report(n, parked[n])
  /\ Handed(n)
  /\ parked' = [parked EXCEPT ![n] = Nil]
  /\ UNCHANGED <<tokens, rows, tags, joins, call, host, leaving, held, lapsed, late, spent>>

\* The driver cannot reach its node.
DriverLoses(n) ==
  /\ Known(n) /\ nodes[n].agent /\ ~nodes[n].revoked /\ nodes[n].connected
  /\ nodes' = [nodes EXCEPT ![n].connected = FALSE]
  /\ UNCHANGED <<tokens, rows, tags, memory, onNode, raced, lapsed, late, spent>>

-----------------------------------------------------------------------------
(* Placing sandboxes. *)

\* Mutant: the walk does not stop at a gap.
AllocateSlotPastGaps(used, lo, hi) ==
  LET want == lo + Cardinality(used) IN IF want <= hi THEN want ELSE Nil

\* allocate_slot: the walk over the used ones in order begins at the lowest and
\* goes on from one past each, up to the first that the next is not.
AllocateSlot(used, lo, hi) ==
  LET taken == used \cap (lo .. hi)
      stops == ({lo} \cup {u + 1 : u \in taken}) \ taken
      want  == CHOOSE w \in stops : \A v \in stops : w <= v
  IN IF want <= hi THEN want ELSE Nil

Place == [index : 0 .. MaxIndex, port : (1 .. Ports) \cup {Nil}]

\* Where the next child goes, with some of them placed: its network slot, and
\* its gateway port if one is left.
Placed(n, placed) ==
  LET there == placed \cup {rows[s] : s \in On(n)} IN
  [index |-> AllocateSlot({p.index : p \in there}, 0, MaxIndex),
   port  |-> AllocateSlot({p.port : p \in there} \ {Nil}, 1, Ports)]

\* The transaction: all of the children, placed one after the other, or none
\* when a slot runs out.
Insert(children, n, asked) ==
  \E order \in Injection(children, 1 .. Cardinality(children)), at \in [children -> Place] :
    /\ \A s \in children :
         rows[s] = Nil /\ at[s] = Placed(n, {at[r] : r \in {c \in children : order[c] < order[s]}})
    /\ rows' = [s \in Sandboxes |->
                  IF s \in children
                  THEN [node |-> n, index |-> at[s].index, port |-> at[s].port, asked |-> asked]
                  ELSE rows[s]]

\* pick_node_where: connected, not being switched, and not over its cap with the
\* batch.  Memory and pressure may refuse any node, so any of these may be the
\* least loaded that is left.
RoomFor(n, count) ==
  nodes[n].connected /\ switching[n] = Nil /\ (Cap > 0 => Cardinality(On(n)) + count <= Cap)

\* create_sandbox in a pool: every child on one node of the pool or of a group
\* split off it, and on the backend asked for if one was.
CreateInPool(children, n, backend) ==
  /\ Spend("create")
  /\ Known(n) /\ nodes[n].pool[1] = Pool /\ backend \in {Nil, nodes[n].fp.engine}
  /\ RoomFor(n, Cardinality(children))
  /\ Insert(children, n, [by |-> "pool", engine |-> backend, tag |-> Nil, blind |-> FALSE])
  /\ UNCHANGED <<nodes, tokens, tags, memory, onNode, raced, lapsed, late>>

\* create_sandbox with node_id: its backend is compared with what the node last
\* said, and nobody asks whether it is connected or being switched.
CreateOnNode(s, n, backend) ==
  /\ Spend("create") /\ Known(n) /\ backend \in {Nil, nodes[n].fp.engine}
  /\ Insert({s}, n, [by |-> "name", engine |-> backend, tag |-> Nil,
                     blind |-> ~nodes[n].connected \/ switching[n] # Nil])
  /\ UNCHANGED <<nodes, tokens, tags, memory, onNode, raced, lapsed, late>>

\* create_sandbox from a tag: on a node of the tag's fingerprint if its image
\* can be fetched, else where it lives.
Fork(s, n, t) ==
  /\ Spend("create") /\ tags[t] # Nil /\ Known(n)
  /\ IF Known(tags[t].node) /\ nodes[tags[t].node].agent /\ ~nodes[tags[t].node].revoked
     THEN nodes[n].fp = tags[t].fp /\ RoomFor(n, 1)
     ELSE n = tags[t].node
  /\ Insert({s}, n, [by |-> "tag", engine |-> Nil, tag |-> tags[t].fp, blind |-> FALSE])
  /\ UNCHANGED <<nodes, tokens, tags, memory, onNode, raced, lapsed, late>>

Delete(s) ==
  /\ rows[s] # Nil /\ Spend("delete")
  /\ rows' = [rows EXCEPT ![s] = Nil]
  /\ UNCHANGED <<nodes, tokens, tags, memory, onNode, raced, lapsed, late>>

\* branch_sandbox, up to the command: what the store says of the tag and of the
\* sandbox's node is read once.
Branch(t, s) ==
  /\ tags[t] = Nil /\ baking[t] = NotBaking /\ rows[s] # Nil /\ Spend("bake")
  /\ baking' = [baking EXCEPT ![t] = [pc |-> "queued", of |-> s, node |-> rows[s].node,
                                      image |-> Nil]]
  /\ UNCHANGED <<store, joins, switching, call, queue, parked, onNode, raced, lapsed, late>>

\* Three minutes without an answer, or the answer that it failed.
GiveUp(t) ==
  /\ baking[t].pc # "none"
  /\ baking' = [baking EXCEPT ![t] = NotBaking]
  /\ UNCHANGED <<store, joins, switching, call, queue, parked, onNode, raced, lapsed, late, spent>>

\* A switch of the node has been asked for and not refused.
Pending(n) == queue[n] # Nil \/ batch[n].to # Nil \/ leaving[n] # Nil

\* branch_sandbox's record, when the answer is there: the node it asked, and the
\* fingerprint that node has by now.  Nothing asks about a switch.
Record(t) ==
  LET b == baking[t] IN
  /\ b.pc = "made"
  /\ tags' = [tags EXCEPT ![t] = [node |-> b.node, fp |-> nodes[b.node].fp, image |-> b.image]]
  /\ baking' = [baking EXCEPT ![t] = NotBaking]
  /\ late' = IF Pending(b.node) \/ {host[b.node].engine, nodes[b.node].fp.engine} # {b.image}
             THEN late \cup {t} ELSE late \ {t}
  /\ UNCHANGED <<nodes, tokens, rows, joins, switching, call, queue, parked, onNode, raced, lapsed,
                 spent>>

DeleteTag(t) ==
  /\ tags[t] # Nil /\ \A s \in Sandboxes : rows[s] # Nil => rows[s].asked.by # "tag"
  /\ tags' = [tags EXCEPT ![t] = Nil]
  /\ UNCHANGED <<nodes, tokens, rows, memory, onNode, raced, lapsed, late, spent>>

-----------------------------------------------------------------------------
(* Moving a node to another backend: set_node_backend. *)

\* Mutant: counted first, and out of placement only when the count is through.
SwitchMarksLate(n, e) ==
  /\ call[n] = NoCall /\ switching[n] = Nil /\ Spend("switch")
  /\ call' = [call EXCEPT ![n] = [pc |-> "marked", to |-> e]]
  /\ UNCHANGED <<store, joins, switching, baking, queue, parked, onNode, raced, lapsed, late>>

\* Out of placement before the count.
SwitchMarks(n, e) ==
  /\ call[n] = NoCall /\ switching[n] = Nil /\ Spend("switch")
  /\ switching' = [switching EXCEPT ![n] = e]
  /\ call' = [call EXCEPT ![n] = [pc |-> "marked", to |-> e]]
  /\ UNCHANGED <<store, joins, baking, queue, parked, onNode, raced, lapsed, late>>

Empty(n) == On(n) = {} /\ \A t \in Tags : tags[t] # Nil => tags[t].node # n

\* The count, under the store's lock: refused, or nothing to do, and let back
\* into placement; else the command is queued.
SwitchCounts(n) ==
  /\ call[n].pc = "marked"
  /\ IF Known(n) /\ nodes[n].connected /\ Empty(n) /\ nodes[n].fp.engine # call[n].to
     THEN /\ call' = [call EXCEPT ![n].pc = "asked"]
          /\ queue' = [queue EXCEPT ![n] = call[n].to]
          /\ UNCHANGED switching
     ELSE /\ call' = [call EXCEPT ![n] = NoCall]
          /\ switching' = [switching EXCEPT ![n] = Nil]
          /\ UNCHANGED queue
  /\ UNCHANGED <<store, joins, baking, parked, onNode, raced, lapsed, late, spent>>

\* A minute without an answer: the node stays out of placement.
SwitchTimesOut(n) ==
  /\ call[n].pc = "asked"
  /\ call' = [call EXCEPT ![n] = NoCall]
  /\ UNCHANGED <<store, joins, switching, baking, queue, parked, onNode, raced, lapsed, late,
                 spent>>

\* A switch that has been asked for and whose end has not been reported.
UnderWay(n) ==
  \/ queue[n] # Nil \/ batch[n].to # Nil \/ leaving[n] # Nil
  \/ switching[n] = host[n].engine

\* SWITCH_HOLD is over, which is longer than the call waits: switching_to lets
\* the node back in, whatever has become of the command.
SwitchHoldOver(n) ==
  /\ switching[n] # Nil /\ call[n] = NoCall
  /\ switching' = [switching EXCEPT ![n] = Nil]
  /\ lapsed' = lapsed \cup {m \in {n} : UnderWay(m)}
  /\ UNCHANGED <<store, joins, call, baking, queue, parked, onNode, raced, late, spent>>

\* The node's answer, if its caller still waits: a refusal ends the switch.
Answer(n, ok) ==
  /\ call' = [call EXCEPT ![n] = IF @.pc = "asked" THEN NoCall ELSE @]
  /\ switching' = [switching EXCEPT ![n] = IF call[n].pc = "asked" /\ ~ok THEN Nil ELSE @]

-----------------------------------------------------------------------------
(* The node. *)

\* run_one's creates; nothing is started once a switch is accepted.
RunCreate(n, s) ==
  /\ s \in batch[n].creates
  /\ held' = IF leaving[n] = Nil /\ held[n][s] = Nil
             THEN [held EXCEPT ![n][s] = host[n].engine] ELSE held
  /\ batch' = [batch EXCEPT ![n].creates = @ \ {s}]
  /\ UNCHANGED <<store, memory, host, leaving, raced, lapsed, late, spent>>

\* diff's Destroy of what has no row on the node that reports it, run there.
RunDestroy(n, s) ==
  /\ held[n][s] # Nil /\ s \notin On(n) /\ Admitted(n)
  /\ held' = [held EXCEPT ![n][s] = Nil]
  /\ UNCHANGED <<store, memory, host, leaving, batch, raced, lapsed, late, spent>>

\* A branch, in its place in the batch: the image is in the node's engine.  One
\* that fails, or whose caller has given up, leaves nothing the master knows of.
RunBranch(n, t) ==
  LET b == baking[t] IN
  /\ batch[n].creates = {} /\ t \in batch[n].bakes
  /\ batch' = [batch EXCEPT ![n].bakes = @ \ {t}]
  /\ baking' = IF b.pc = "given" /\ b.node = n /\ held[n][b.of] # Nil
               THEN [baking EXCEPT ![t].pc = "made", ![t].image = host[n].engine] ELSE baking
  /\ UNCHANGED <<store, joins, switching, call, queue, parked, host, leaving, held, raced, lapsed,
                 late, spent>>

\* Mutant: only the master's records are asked whether the node is empty.
BundlesNot(n) == {}

\* rt.bundles().
Bundles(n) == {s \in Sandboxes : held[n][s] # Nil}

\* switch: after the batch's creates, before or after its branches, whichever
\* was asked for first.  Refused while anything is on disk, or
\* one is under way, or the host cannot run it.
RunSwitch(n) ==
  /\ batch[n].creates = {} /\ batch[n].to # Nil
  /\ batch' = [batch EXCEPT ![n].to = Nil]
  /\ \/ /\ batch[n].to # host[n].engine /\ leaving[n] = Nil /\ Bundles(n) = {}
        /\ leaving' = [leaving EXCEPT ![n] = batch[n].to]
        /\ Answer(n, TRUE)
     \/ Answer(n, batch[n].to = host[n].engine) /\ UNCHANGED leaving
  /\ UNCHANGED <<store, joins, baking, queue, parked, host, held, raced, lapsed, late, spent>>

\* The process exits and comes back: on what the backend file names, or, when it
\* is upgraded, with another build.
Restart(n) ==
  /\ \/ /\ leaving[n] # Nil /\ UNCHANGED spent
        /\ host' = [host EXCEPT ![n].engine = leaving[n]]
     \/ /\ leaving[n] = Nil /\ Spend("upgrade")
        /\ \E b \in Builds : b > host[n].build /\ host' = [host EXCEPT ![n].build = b]
  /\ leaving' = [leaving EXCEPT ![n] = Nil]
  /\ batch' = [batch EXCEPT ![n] = NoBatch]
  /\ parked' = [parked EXCEPT ![n] = Nil]
  /\ UNCHANGED <<store, joins, switching, call, baking, queue, held, raced, lapsed, late>>

\* The master restarts: nobody is connected, its memory is gone, and so are the
\* registrations it was in the middle of.
MasterRestarts ==
  /\ Spend("restart")
  /\ nodes' = [n \in Nodes |-> IF Known(n) THEN [nodes[n] EXCEPT !.connected = FALSE] ELSE Nil]
  /\ joins' = [n \in Nodes |-> NotJoining]
  /\ switching' = [n \in Nodes |-> Nil]
  /\ call' = [n \in Nodes |-> NoCall]
  /\ baking' = [t \in Tags |-> NotBaking]
  /\ queue' = [n \in Nodes |-> Nil]
  /\ parked' = [n \in Nodes |-> Nil]
  /\ lapsed' = lapsed \cup {n \in Nodes : switching[n] # Nil /\ UnderWay(n)}
  /\ UNCHANGED <<tokens, rows, tags, onNode, raced, late>>

-----------------------------------------------------------------------------
Join(n) ==
  \/ \E k \in Tokens : Redeem(n, k)
  \/ Hello(n) \/ ChoosePool(n) \/ Upsert(n) \/ SetNodeCert(n) \/ Revoke(n)

Create(n) ==
  \E e \in Engines \cup {Nil} :
    \/ \E children \in (SUBSET Sandboxes) \ {{}} : CreateInPool(children, n, e)
    \/ \E s \in Sandboxes : CreateOnNode(s, n, e)

Switch(n) ==
  \/ \E e \in Engines : SwitchMarks(n, e)
  \/ SwitchCounts(n) \/ SwitchTimesOut(n) \/ SwitchHoldOver(n)

Node(n) ==
  \/ Poll(n) \/ Resume(n) \/ DriverLoses(n) \/ RunSwitch(n) \/ Restart(n)
  \/ \E s \in Sandboxes : RunCreate(n, s) \/ RunDestroy(n, s)
  \/ \E t \in Tags : RunBranch(n, t)

\* No node may report, and none is joining.
AtRest ==
  /\ \A n \in Nodes : ~Admitted(n) /\ joins[n].pc = "none" /\ parked[n] = Nil
  /\ UNCHANGED vars

Next ==
  \/ \E k \in Tokens : MintToken(k) \/ TokenExpires(k)
  \/ \E n \in Nodes : Join(n) \/ Create(n) \/ Switch(n) \/ Node(n)
  \/ \E s \in Sandboxes, t \in Tags : Branch(t, s) \/ \E n \in Nodes : Fork(s, n, t)
  \/ \E s \in Sandboxes : Delete(s)
  \/ \E t \in Tags : GiveUp(t) \/ Record(t) \/ DeleteTag(t)
  \/ MasterRestarts \/ AtRest

Spec == Init /\ [][Next]_vars

-----------------------------------------------------------------------------
(* Properties. *)

\* pool_for and refingerprint_node: "every node in it must be able to restore
\* every other's checkpoints".  Through joins, upgrades one node at a time,
\* switches and revocations, the nodes of a pool have one fingerprint, unless
\* pools changed while a node was between choosing its pool and being written.
PoolsPure ==
  \A n, m \in Nodes :
    Known(n) /\ Known(m) /\ nodes[n].pool = nodes[m].pool
      /\ ~nodes[n].revoked /\ ~nodes[m].revoked => nodes[n].fp = nodes[m].fp \/ raced

\* allocate_slot under the store's lock: two sandboxes of a node never share a
\* network slot or a gateway port, however creates, deletes and a range that
\* runs out follow each other.
SlotsDistinct ==
  \A r, s \in Sandboxes :
    r # s /\ rows[r] # Nil /\ rows[s] # Nil /\ rows[r].node = rows[s].node =>
      rows[r].index # rows[s].index /\ (rows[r].port # rows[s].port \/ rows[r].port = Nil)

\* set_node_backend: "a create either finished first and is counted, or comes
\* after and passes this node by".  What was asked for on a backend, of a pool or
\* of a node by name, runs on that backend though nodes are switched meanwhile,
\* unless its node was let back into placement with a switch still under way (by
\* a restart of the master, or when the hold ended before the command did), or
\* it named a node that was not connected or was being switched, which nobody
\* asks then.
BackendHonoured ==
  \A s \in Sandboxes :
    /\ rows[s] # Nil
    /\ rows[s].asked.engine # Nil /\ ~rows[s].asked.blind /\ rows[s].node \notin lapsed
    => held[rows[s].node][s] \in {Nil, rows[s].asked.engine}

\* switch.rs: a sandbox or a tag on a node is in its engine's format, so none
\* is left behind that its node can never restore.  Not so a tag recorded after
\* a switch of its node was asked for, its sandbox deleted while it was baked:
\* neither the master's count nor the node's sees a branch on its way.
NothingStranded ==
  /\ \A n \in Nodes, s \in Sandboxes : held[n][s] \in {Nil, host[n].engine}
  /\ \A t \in Tags : tags[t] # Nil /\ t \notin late =>
       tags[t].image = host[tags[t].node].engine /\ tags[t].fp.engine = tags[t].image
=============================================================================
