---------------------------- MODULE FleetProofs ----------------------------
(***************************************************************************)
(* Theorems about Fleet, for any sets of nodes, sandboxes, tags, engines   *)
(* and builds, and all bounds.                                             *)
(***************************************************************************)
EXTENDS Fleet, FiniteSetTheorems, WellFoundedInduction, TLAPS

(***************************************************************************)
(* Types.  Slots and ports are left open: not even SlotsDistinct, whose    *)
(* proof is about the walk of allocate_slot, depends on theirs.            *)
(***************************************************************************)
Engine == Engines \cup {Nil}
Joining == [pc : {"none", "asked", "pooled", "written"}, added : BOOLEAN,
            print : Fingerprint \cup {Nil}, pool : Pools \cup {Nil}]

StoreType ==
  /\ nodes \in [Nodes -> NodeRow \cup {Nil}]
  /\ rows = [s \in Sandboxes |-> rows[s]]
  /\ \A s \in Sandboxes : rows[s] # Nil => rows[s].node \in Nodes
  /\ tags = [t \in Tags |-> tags[t]]
  /\ \A t \in Tags : tags[t] # Nil => tags[t].node \in Nodes /\ tags[t].fp \in Fingerprint

Batch == [creates : SUBSET Sandboxes, bakes : SUBSET Tags, to : Engine]

MemoryType ==
  /\ joins \in [Nodes -> Joining]
  /\ switching \in [Nodes -> Engine]
  /\ call \in [Nodes -> [pc : {"none", "marked", "asked"}, to : Engine]]
  /\ queue \in [Nodes -> Engine]
  /\ parked \in [Nodes -> Fingerprint \cup {Nil}]

NodeType ==
  /\ host \in [Nodes -> Fingerprint]
  /\ leaving \in [Nodes -> Engine]
  /\ batch \in [Nodes -> Batch]
  /\ held \in [Nodes -> [Sandboxes -> Engine]]

TypeInv == StoreType /\ MemoryType /\ NodeType /\ raced \in BOOLEAN /\ lapsed \subseteq Nodes

\* Nodes are never forgotten, so a sandbox's node, and the node a branch was
\* asked of, are known.
KnownInv ==
  /\ \A s \in Sandboxes : rows[s] # Nil => Known(rows[s].node)
  /\ baking = [t \in Tags |-> baking[t]]
  /\ \A t \in Tags : baking[t].pc # "none" => baking[t].node \in Nodes /\ Known(baking[t].node)

\* A registration has its fingerprint from the start, its pool from pool_for on
\* and its row from upsert_node on; a poll is parked by a node that is known.
AskedInv ==
  /\ \A n \in Nodes : joins[n].pc # "none" => joins[n].print \in Fingerprint
  /\ \A n \in Choosing : joins[n].pool \in Pools
  /\ \A n \in Nodes : parked[n] # Nil \/ joins[n].pc = "written" => Known(n)

(***************************************************************************)
(* What a report does to the nodes' rows.                                  *)
(***************************************************************************)
\* Nil is no fingerprint and no row.
LEMMA Nils ==
  /\ \A f \in Fingerprint : f # Nil /\ f.engine \in Engines /\ f.engine # Nil
  /\ \A r \in NodeRow : r # Nil
BY FleetAssumption, NilAssumption DEF Fingerprint

\* refingerprint_node changes the one node's fingerprint and pool, and brings
\* the group that went ahead back into the pool's own name.
LEMMA ReportRows ==
  ASSUME TypeInv, NEW n \in Nodes, Known(n), NEW f \in Fingerprint, Report(n, f)
  PROVE  /\ nodes' \in [Nodes -> NodeRow \cup {Nil}]
         /\ Known(n)'
         /\ nodes'[n].fp = f /\ nodes'[n].connected /\ nodes'[n].revoked = nodes[n].revoked
         /\ \A m \in Nodes \ {n} :
              /\ Known(m)' <=> Known(m)
              /\ Known(m) => /\ nodes'[m].fp = nodes[m].fp
                             /\ (nodes'[m].connected <=> nodes[m].connected)
                             /\ nodes'[m].revoked = nodes[m].revoked
              /\ Known(m) /\ nodes'[m].pool # nodes[m].pool =>
                   /\ nodes[n].fp # f /\ Prints(<<Pool, Nil>>, n) \subseteq {f}
                   /\ nodes[m].pool = <<Pool, f>> /\ nodes'[m].pool = <<Pool, Nil>>
         /\ nodes[n].fp = f => nodes'[n].pool = nodes[n].pool
         /\ nodes[n].fp # f =>
              nodes'[n].pool = IF Prints(<<Pool, Nil>>, n) \subseteq {f}
                               THEN <<Pool, Nil>> ELSE <<Pool, f>>
<1> DEFINE p    == nodes[n].pool
           back == Prints(<<Pool, Nil>>, n) \subseteq {f}
           to   == IF back THEN <<Pool, Nil>> ELSE <<Pool, f>>
<1>1. nodes[n] \in NodeRow /\ p \in Pools /\ p[1] = Pool
  BY DEF TypeInv, StoreType, Known, NodeRow, Pools
<1>2. Base(p) = <<Pool, Nil>> /\ Derived(p, f) = <<Pool, f>>
  BY <1>1 DEF Base, Derived
<1>3. <<Pool, Nil>> \in Pools /\ <<Pool, f>> \in Pools /\ to \in Pools
  BY DEF Pools
<1> DEFINE R == Refingerprint(n, f)
<1>4. R = IF nodes[n].fp = f THEN nodes
          ELSE [m \in Nodes |->
                 IF m = n THEN [nodes[n] EXCEPT !.fp = f, !.pool = to]
                 ELSE IF back /\ Known(m) /\ nodes[m].pool = <<Pool, f>>
                 THEN [nodes[m] EXCEPT !.pool = <<Pool, Nil>>] ELSE nodes[m]]
  BY <1>2 DEF Refingerprint
<1>5. nodes' = [R EXCEPT ![n].connected = TRUE]
  BY DEF Report
<1> HIDE DEF R, p, back, to
<1>6. /\ DOMAIN R = Nodes
      /\ R[n] = IF nodes[n].fp = f THEN nodes[n] ELSE [nodes[n] EXCEPT !.fp = f, !.pool = to]
      /\ \A m \in Nodes \ {n} :
           R[m] = IF nodes[n].fp # f /\ back /\ Known(m) /\ nodes[m].pool = <<Pool, f>>
                  THEN [nodes[m] EXCEPT !.pool = <<Pool, Nil>>] ELSE nodes[m]
  BY <1>4 DEF TypeInv, StoreType
<1>7. R = [m \in Nodes |-> R[m]]
  BY <1>4, <1>6 DEF TypeInv, StoreType
<1>8. R[n] \in NodeRow
  BY <1>1, <1>3, <1>6 DEF NodeRow
<1>9. /\ nodes' = [m \in Nodes |-> nodes'[m]]
      /\ nodes'[n] = [R[n] EXCEPT !.connected = TRUE]
      /\ \A m \in Nodes \ {n} : nodes'[m] = R[m]
  BY <1>5, <1>7
<1>10. /\ nodes'[n] \in NodeRow /\ nodes'[n].fp = R[n].fp /\ nodes'[n].pool = R[n].pool
       /\ nodes'[n].revoked = R[n].revoked /\ nodes'[n].connected
  BY <1>8, <1>9 DEF NodeRow
<1>11. /\ R[n].fp = f /\ R[n].revoked = nodes[n].revoked
       /\ R[n].pool = IF nodes[n].fp = f THEN nodes[n].pool ELSE to
  BY <1>1, <1>6 DEF NodeRow
<1>12. ASSUME NEW m \in Nodes \ {n}
       PROVE  /\ nodes'[m] \in NodeRow \cup {Nil}
              /\ Known(m)' <=> Known(m)
              /\ Known(m) => /\ nodes'[m].fp = nodes[m].fp
                             /\ (nodes'[m].connected <=> nodes[m].connected)
                             /\ nodes'[m].revoked = nodes[m].revoked
              /\ Known(m) /\ nodes'[m].pool # nodes[m].pool =>
                   /\ nodes[n].fp # f /\ back
                   /\ nodes[m].pool = <<Pool, f>> /\ nodes'[m].pool = <<Pool, Nil>>
  <2>1. nodes[m] \in NodeRow \cup {Nil}
    BY DEF TypeInv, StoreType
  <2>2. CASE nodes'[m] = nodes[m]
    BY <2>1, <2>2 DEF Known
  <2>3. CASE /\ nodes[n].fp # f /\ back /\ Known(m) /\ nodes[m].pool = <<Pool, f>>
             /\ nodes'[m] = [nodes[m] EXCEPT !.pool = <<Pool, Nil>>]
    <3>1. nodes[m] \in NodeRow
      BY <2>1, <2>3 DEF Known
    <3>2. nodes'[m] \in NodeRow
      BY <3>1, <2>3, <1>3 DEF NodeRow
    <3>3. nodes'[m] # Nil
      BY <3>2, Nils
    <3> QED BY <3>1, <3>2, <3>3, <2>3 DEF Known, NodeRow
  <2> QED BY <1>6, <1>9, <2>2, <2>3
<1>13. nodes' \in [Nodes -> NodeRow \cup {Nil}]
  BY <1>9, <1>10, <1>12
<1> QED BY <1>10, <1>11, <1>12, <1>13, Nils DEF back, to, Known

(***************************************************************************)
(* Type correctness.                                                       *)
(***************************************************************************)
TypesOK == TypeInv /\ AskedInv

\* pool_for gives one of the pools there are.
LEMMA PoolForType ==
  ASSUME NEW f \in Fingerprint PROVE PoolFor(f) \in Pools /\ PoolFor(f)[2] \in {Nil, f}
BY DEF PoolFor, Pools

\* Joining keeps the types.
LEMMA JoinTypes ==
  ASSUME TypesOK, NEW n \in Nodes, Join(n) PROVE TypesOK'
<1> USE DEF TypesOK, TypeInv, MemoryType, AskedInv
<1>1. ASSUME NEW k \in Tokens, Redeem(n, k) PROVE TypesOK'
  <2>1. host[n] \in Fingerprint
    BY DEF NodeType
  <2>2. /\ joins' \in [Nodes -> Joining]
        /\ \A m \in Nodes \ {n} : joins'[m] = joins[m]
        /\ joins'[n].pc = "asked" /\ joins'[n].print = host[n]
    BY <1>1, <2>1 DEF Redeem, Joining
  <2> QED BY <1>1, <2>1, <2>2 DEF Redeem, onNode, StoreType, NodeType, Known, Choosing
<1>2. CASE Hello(n)
  <2>1. host[n] \in Fingerprint
    BY DEF NodeType
  <2>2. /\ joins' \in [Nodes -> Joining]
        /\ \A m \in Nodes \ {n} : joins'[m] = joins[m]
        /\ joins'[n].pc = "asked" /\ joins'[n].print = host[n]
    BY <1>2, <2>1 DEF Hello, Joining
  <2> QED BY <1>2, <2>1, <2>2 DEF Hello, store, onNode, StoreType, NodeType, Known, Choosing
<1>3. CASE ChoosePool(n)
  <2>1. joins[n].print \in Fingerprint
    BY <1>3 DEF ChoosePool
  <2>2. /\ joins' \in [Nodes -> Joining]
        /\ \A m \in Nodes \ {n} : joins'[m] = joins[m]
        /\ joins'[n].pc = "pooled" /\ joins'[n].print = joins[n].print
        /\ joins'[n].pool \in Pools
    BY <1>3, <2>1, PoolForType DEF ChoosePool, Joining
  <2>3. raced' \in BOOLEAN
    BY <1>3 DEF ChoosePool
  <2> QED BY <1>3, <2>1, <2>2, <2>3
          DEF ChoosePool, store, onNode, StoreType, NodeType, Known, Choosing
<1>4. CASE Upsert(n)
  <2> DEFINE j == joins[n]
             r == [pool |-> j.pool, fp |-> j.print, connected |-> ~j.added,
                   agent |-> j.added \/ (Known(n) /\ nodes[n].agent),
                   revoked |-> ~j.added /\ Known(n) /\ nodes[n].revoked,
                   cert |-> Known(n) /\ nodes[n].cert]
  <2>1. j \in Joining /\ j.print \in Fingerprint /\ j.pool \in Pools
    BY <1>4 DEF Upsert, Choosing
  <2>2. r \in NodeRow
    BY <2>1 DEF NodeRow, Joining, StoreType
  <2>3. nodes' = [nodes EXCEPT ![n] = r]
    BY <1>4 DEF Upsert
  <2>4. nodes' \in [Nodes -> NodeRow \cup {Nil}] /\ \A m \in Nodes : Known(m) => Known(m)'
    BY <2>2, <2>3, Nils DEF StoreType, Known
  <2>5. Known(n)'
    BY <2>2, <2>3, Nils DEF StoreType, Known
  <2>6. /\ joins' \in [Nodes -> Joining]
        /\ \A m \in Nodes \ {n} : joins'[m] = joins[m]
        /\ joins'[n].pc # "none" => joins'[n].print = j.print /\ joins'[n].pool = j.pool
    <3>1. joins' = [joins EXCEPT ![n] = IF j.added THEN NotJoining
                                        ELSE [j EXCEPT !.pc = "written"]]
      BY <1>4 DEF Upsert
    <3>2. CASE j.added
      <4>1. NotJoining \in Joining /\ NotJoining.pc = "none"
        BY DEF Joining, NotJoining
      <4>2. joins' = [joins EXCEPT ![n] = NotJoining]
        BY <3>1, <3>2
      <4>3. joins'[n] = NotJoining /\ \A m \in Nodes \ {n} : joins'[m] = joins[m]
        BY <4>2
      <4>4. joins' \in [Nodes -> Joining]
        BY <4>1, <4>2
      <4> QED BY <4>1, <4>3, <4>4
    <3>3. CASE ~j.added
      <4>1. [j EXCEPT !.pc = "written"] \in Joining
        BY <2>1 DEF Joining
      <4>2. joins' = [joins EXCEPT ![n] = [j EXCEPT !.pc = "written"]]
        BY <3>1, <3>3
      <4> QED BY <2>1, <4>1, <4>2 DEF Joining
    <3> QED BY <3>2, <3>3
  <2>7. joins'[n].pc # "none" => joins'[n].print \in Fingerprint /\ joins'[n].pool \in Pools
    BY <2>1, <2>6
  <2> QED BY <1>4, <2>4, <2>6, <2>7, <2>5 DEF Upsert, onNode, StoreType, NodeType, Choosing
<1>5. CASE SetNodeCert(n)
  <2>1. nodes' \in [Nodes -> NodeRow \cup {Nil}] /\ \A m \in Nodes : Known(m) => Known(m)'
    <3>1. nodes[n] \in NodeRow
      BY <1>5 DEF SetNodeCert, Known, StoreType
    <3>2. nodes' = [nodes EXCEPT ![n].cert = TRUE, ![n].revoked = FALSE]
      BY <1>5 DEF SetNodeCert
    <3>3. /\ nodes' = [m \in Nodes |-> nodes'[m]]
          /\ nodes'[n] = [nodes[n] EXCEPT !.cert = TRUE, !.revoked = FALSE]
          /\ \A m \in Nodes \ {n} : nodes'[m] = nodes[m]
      BY <3>2 DEF StoreType
    <3>4. nodes'[n] \in NodeRow
      BY <3>1, <3>3 DEF NodeRow
    <3> QED BY <3>3, <3>4, Nils DEF StoreType, Known
  <2>2. /\ joins' \in [Nodes -> Joining]
        /\ \A m \in Nodes \ {n} : joins'[m] = joins[m]
        /\ joins'[n].pc = "none"
    BY <1>5 DEF SetNodeCert, Joining, NotJoining
  <2> QED BY <1>5, <2>1, <2>2 DEF SetNodeCert, onNode, StoreType, NodeType, Choosing
<1>6. CASE Revoke(n)
  <2>1. nodes[n] \in NodeRow
    BY <1>6 DEF Revoke, Known, StoreType
  <2>2. nodes' \in [Nodes -> NodeRow \cup {Nil}] /\ \A m \in Nodes : Known(m) => Known(m)'
    BY <1>6, <2>1, Nils DEF Revoke, StoreType, Known, NodeRow
  <2> QED BY <1>6, <2>2 DEF Revoke, memory, onNode, StoreType, NodeType, Choosing
<1> QED BY <1>1, <1>2, <1>3, <1>4, <1>5, <1>6 DEF Join
\* A report and its answer keep the types.
LEMMA ReportTypes ==
  ASSUME TypesOK, NEW n \in Nodes, Poll(n) \/ Resume(n) PROVE TypesOK'
<1> USE DEF TypesOK, TypeInv, MemoryType, AskedInv
<1>1. PICK f \in Fingerprint : /\ Known(n) /\ Report(n, f)
                               /\ parked' = [parked EXCEPT ![n] = Nil]
                                    \/ parked' = [parked EXCEPT ![n] = f]
  <2>1. CASE Poll(n)
    <3>1. host[n] \in Fingerprint /\ Known(n) /\ Report(n, host[n])
      BY <2>1 DEF Poll, Admitted, NodeType
    <3> QED BY <2>1, <3>1 DEF Poll
  <2>2. CASE Resume(n)
    <3>1. parked[n] \in Fingerprint /\ Known(n) /\ Report(n, parked[n])
      BY <2>2 DEF Resume
    <3> QED BY <2>2, <3>1 DEF Resume
  <2> QED BY <2>1, <2>2
<1>2. /\ nodes' \in [Nodes -> NodeRow \cup {Nil}] /\ Known(n)'
      /\ \A m \in Nodes \ {n} : Known(m)' <=> Known(m)
  BY <1>1, ReportRows
<1>3. /\ batch' = [batch EXCEPT ![n] = Commands(n)] /\ queue' = [queue EXCEPT ![n] = Nil]
      /\ UNCHANGED <<tokens, rows, tags, joins, call, host, leaving, held, lapsed, spent>>
  BY DEF Poll, Resume, Handed
<1>4. /\ batch' \in [Nodes -> Batch]
      /\ queue' \in [Nodes -> Engine]
  BY <1>3 DEF NodeType, Batch, Commands, Queued, On, Engine
<1>5. switching' \in [Nodes -> Engine] /\ raced' \in BOOLEAN
  BY <1>1 DEF Report, Engine
<1>6. parked' \in [Nodes -> Fingerprint \cup {Nil}]
  BY <1>1
<1>7. \A m \in Nodes : parked'[m] # Nil => Known(m)'
  BY <1>1, <1>2, Nils
<1> QED BY <1>2, <1>3, <1>4, <1>5, <1>6, <1>7 DEF StoreType, NodeType, Choosing

\* Placing, deleting and branching sandboxes keeps the types.
LEMMA PlaceTypes ==
  ASSUME TypesOK, KnownInv,
         \/ \E n \in Nodes : Create(n)
         \/ \E s \in Sandboxes, t \in Tags : Branch(t, s) \/ \E n \in Nodes : Fork(s, n, t)
         \/ \E s \in Sandboxes : Delete(s)
         \/ \E t \in Tags : GiveUp(t) \/ Record(t) \/ DeleteTag(t)
  PROVE  TypesOK'
<1> USE DEF TypesOK, TypeInv, MemoryType, AskedInv, memory, onNode
<1>1. ASSUME NEW children, NEW n \in Nodes, NEW asked, Insert(children, n, asked),
             UNCHANGED <<nodes, tokens, tags, memory, onNode, raced, lapsed>>
      PROVE  TypesOK'
  <2>1. rows' = [s \in Sandboxes |-> rows'[s]]
    BY <1>1 DEF Insert
  <2>2. \A s \in Sandboxes : rows'[s] = rows[s] \/ rows'[s].node = n
    BY <1>1 DEF Insert
  <2> QED BY <1>1, <2>1, <2>2 DEF StoreType, NodeType, Known, Choosing
<1>2. ASSUME NEW n \in Nodes, Create(n) PROVE TypesOK'
  BY <1>1, <1>2 DEF Create, CreateInPool, CreateOnNode
<1>3. ASSUME NEW s \in Sandboxes, NEW t \in Tags, NEW n \in Nodes, Fork(s, n, t) PROVE TypesOK'
  BY <1>1, <1>3 DEF Fork
<1>4. ASSUME NEW t \in Tags, GiveUp(t) \/ \E s \in Sandboxes : Branch(t, s) PROVE TypesOK'
  BY <1>4 DEF Branch, GiveUp, store, StoreType, NodeType, Known, Choosing
<1>5. ASSUME NEW t \in Tags, Record(t) PROVE TypesOK'
  <2> DEFINE b == baking[t]
  <2>1. b.node \in Nodes /\ nodes[b.node] \in NodeRow
    BY <1>5 DEF Record, KnownInv, Known, StoreType
  <2>2. nodes[b.node].fp \in Fingerprint
    BY <2>1 DEF NodeRow
  <2>3. tags' = [tags EXCEPT ![t] = [node |-> b.node, fp |-> nodes[b.node].fp, image |-> b.image]]
    BY <1>5 DEF Record
  <2>4. /\ tags' = [u \in Tags |-> tags'[u]]
        /\ \A u \in Tags : tags'[u] # Nil =>
             tags'[u].node \in Nodes /\ tags'[u].fp \in Fingerprint
    BY <2>1, <2>2, <2>3 DEF StoreType
  <2> HIDE DEF b
  <2> QED BY <1>5, <2>4 DEF Record, StoreType, NodeType, Known, Choosing
<1>6. ASSUME NEW s \in Sandboxes, Delete(s) PROVE TypesOK'
  <2>1. /\ rows' = [x \in Sandboxes |-> rows'[x]]
        /\ \A x \in Sandboxes : rows'[x] \in {Nil, rows[x]}
    BY <1>6 DEF Delete, StoreType
  <2> QED BY <1>6, <2>1 DEF Delete, StoreType, NodeType, Known, Choosing
<1>7. ASSUME NEW t \in Tags, DeleteTag(t) PROVE TypesOK'
  <2>1. /\ tags' = [u \in Tags |-> tags'[u]]
        /\ \A u \in Tags : tags'[u] \in {Nil, tags[u]}
    BY <1>7 DEF DeleteTag, StoreType
  <2>2. UNCHANGED <<nodes, rows, joins, switching, call, queue, parked, host, leaving, batch, held,
                    raced, lapsed>>
    BY <1>7 DEF DeleteTag
  <2>3. StoreType'
    BY <2>1, <2>2 DEF StoreType
  <2> QED BY <2>2, <2>3 DEF NodeType, Known, Choosing
<1> QED BY <1>2, <1>3, <1>4, <1>6, <1>7, <1>5

\* A switch, and everything on the node, keeps the types.
LEMMA NodeTypes ==
  ASSUME TypesOK, NEW n \in Nodes,
         \/ Switch(n) \/ DriverLoses(n) \/ RunSwitch(n) \/ Restart(n)
         \/ \E s \in Sandboxes : RunCreate(n, s) \/ RunDestroy(n, s)
         \/ \E t \in Tags : RunBranch(n, t)
  PROVE  TypesOK'
<1> USE DEF TypesOK, TypeInv, AskedInv, store, memory, onNode
<1>1. CASE Switch(n)
  <2>1. /\ UNCHANGED <<store, joins, parked, onNode, raced>>
    BY <1>1 DEF Switch, SwitchMarks, SwitchCounts, SwitchTimesOut, SwitchHoldOver
  <2>2. switching' \in [Nodes -> Engine]
    BY <1>1 DEF Switch, SwitchMarks, SwitchCounts, SwitchTimesOut, SwitchHoldOver, MemoryType,
                Engine
  <2>3. queue' \in [Nodes -> Engine]
    BY <1>1 DEF Switch, SwitchMarks, SwitchCounts, SwitchTimesOut, SwitchHoldOver, MemoryType
  <2>4. call' \in [Nodes -> [pc : {"none", "marked", "asked"}, to : Engine]]
    BY <1>1 DEF Switch, SwitchMarks, SwitchCounts, SwitchTimesOut, SwitchHoldOver, MemoryType,
                Engine, NoCall
  <2>5. lapsed' \subseteq Nodes
    BY <1>1 DEF Switch, SwitchMarks, SwitchCounts, SwitchTimesOut, SwitchHoldOver
  <2> QED BY <2>1, <2>2, <2>3, <2>4, <2>5 DEF StoreType, MemoryType, NodeType, Known, Choosing
<1>2. CASE DriverLoses(n)
  <2>1. nodes[n] \in NodeRow
    BY <1>2 DEF DriverLoses, Known, StoreType
  <2>2. nodes' \in [Nodes -> NodeRow \cup {Nil}] /\ \A m \in Nodes : Known(m) => Known(m)'
    BY <1>2, <2>1, Nils DEF DriverLoses, StoreType, Known, NodeRow
  <2> QED BY <1>2, <2>2 DEF DriverLoses, StoreType, MemoryType, NodeType, Choosing
<1>3. CASE RunSwitch(n)
  <2>1. batch' \in [Nodes -> Batch]
    <3>1. batch' = [batch EXCEPT ![n] = [batch[n] EXCEPT !.to = Nil]] /\ batch[n] \in Batch
      BY <1>3 DEF RunSwitch, NodeType
    <3>2. [batch[n] EXCEPT !.to = Nil] \in Batch
      BY <3>1 DEF Batch, Engine
    <3> QED BY <3>1, <3>2 DEF NodeType
  <2>2. leaving' \in [Nodes -> Engine]
    BY <1>3 DEF RunSwitch, NodeType, Batch
  <2>3. call' \in [Nodes -> [pc : {"none", "marked", "asked"}, to : Engine]]
    <3>1. PICK c \in {NoCall, call[n]} : call' = [call EXCEPT ![n] = c]
      BY <1>3 DEF RunSwitch, Answer
    <3> QED BY <3>1 DEF MemoryType, NoCall, Engine
  <2>4. switching' \in [Nodes -> Engine]
    BY <1>3 DEF RunSwitch, Answer, MemoryType, Engine
  <2> QED BY <1>3, <2>1, <2>2, <2>3, <2>4
          DEF RunSwitch, StoreType, MemoryType, NodeType, Known, Choosing
<1>4. CASE Restart(n)
  <2>1. host' \in [Nodes -> Fingerprint]
    BY <1>4 DEF Restart, NodeType, Fingerprint, Engine
  <2>2. /\ leaving' \in [Nodes -> Engine]
        /\ batch' \in [Nodes -> Batch]
        /\ parked' \in [Nodes -> Fingerprint \cup {Nil}]
        /\ \A m \in Nodes : parked'[m] # Nil => parked[m] # Nil
    BY <1>4 DEF Restart, MemoryType, NodeType, Batch, NoBatch, Engine
  <2> QED BY <1>4, <2>1, <2>2 DEF Restart, StoreType, MemoryType, NodeType, Known, Choosing
<1>5. ASSUME NEW s \in Sandboxes, RunCreate(n, s) PROVE TypesOK'
  <2>1. held' \in [Nodes -> [Sandboxes -> Engine]]
    BY <1>5 DEF RunCreate, NodeType, Fingerprint, Engine
  <2>2. batch' \in [Nodes -> Batch]
    BY <1>5 DEF RunCreate, NodeType, Batch
  <2> QED BY <1>5, <2>1, <2>2 DEF RunCreate, StoreType, MemoryType, NodeType, Known, Choosing
<1>6. ASSUME NEW s \in Sandboxes, RunDestroy(n, s) PROVE TypesOK'
  <2>1. held' \in [Nodes -> [Sandboxes -> Engine]]
    BY <1>6 DEF RunDestroy, NodeType, Engine
  <2> QED BY <1>6, <2>1 DEF RunDestroy, StoreType, MemoryType, NodeType, Known, Choosing
<1>7. ASSUME NEW t \in Tags, RunBranch(n, t) PROVE TypesOK'
  <2>1. batch' \in [Nodes -> Batch]
    <3>1. batch' = [batch EXCEPT ![n] = [batch[n] EXCEPT !.bakes = @ \ {t}]] /\ batch[n] \in Batch
      BY <1>7 DEF RunBranch, NodeType
    <3>2. [batch[n] EXCEPT !.bakes = @ \ {t}] \in Batch
      BY <3>1 DEF Batch
    <3> QED BY <3>1, <3>2 DEF NodeType
  <2>2. UNCHANGED <<store, joins, switching, call, queue, parked, host, leaving, held, raced,
                    lapsed>>
    BY <1>7 DEF RunBranch
  <2> QED BY <2>1, <2>2 DEF StoreType, MemoryType, NodeType, Known, Choosing
<1> QED BY <1>1, <1>2, <1>3, <1>4, <1>5, <1>6, <1>7

\* So does every step.
LEMMA TypeStep ==
  ASSUME TypesOK, KnownInv, [Next]_vars PROVE TypesOK'
<1> USE DEF TypesOK, TypeInv, AskedInv, store, memory, onNode
<1>1. CASE UNCHANGED vars
  BY <1>1 DEF vars, StoreType, MemoryType, NodeType, Known, Choosing
<1>2. ASSUME NEW k \in Tokens, MintToken(k) \/ TokenExpires(k) PROVE TypesOK'
  BY <1>2 DEF MintToken, TokenExpires, StoreType, MemoryType, NodeType, Known, Choosing
<1>3. ASSUME NEW n \in Nodes, Join(n) \/ Create(n) \/ Switch(n) \/ Node(n) PROVE TypesOK'
  BY <1>3, JoinTypes, PlaceTypes, NodeTypes, ReportTypes DEF Node
<1>4. CASE MasterRestarts
  <2>1. ASSUME NEW n \in Nodes
        PROVE  nodes'[n] \in NodeRow \cup {Nil} /\ (Known(n)' <=> Known(n))
    <3>1. CASE nodes[n] = Nil
      BY <1>4, <3>1 DEF MasterRestarts, Known
    <3>2. CASE nodes[n] # Nil
      <4>1. nodes[n] \in NodeRow /\ nodes'[n] = [nodes[n] EXCEPT !.connected = FALSE]
        BY <1>4, <3>2 DEF MasterRestarts, Known, StoreType
      <4>2. nodes'[n] \in NodeRow
        BY <4>1 DEF NodeRow
      <4> QED BY <3>2, <4>2, Nils DEF Known
    <3> QED BY <3>1, <3>2
  <2>2. nodes' \in [Nodes -> NodeRow \cup {Nil}]
    BY <1>4, <2>1 DEF MasterRestarts
  <2>3. MemoryType'
    BY <1>4 DEF MasterRestarts, MemoryType, Joining, NotJoining, NoCall, Engine
  <2>4. \A n \in Nodes : joins'[n].pc = "none" /\ parked'[n] = Nil
    BY <1>4 DEF MasterRestarts, NotJoining
  <2>5. lapsed' \subseteq Nodes
    BY <1>4 DEF MasterRestarts
  <2> QED BY <1>4, <2>2, <2>3, <2>4, <2>5 DEF MasterRestarts, StoreType, NodeType, Choosing
<1>5. CASE AtRest
  BY <1>1, <1>5 DEF AtRest
<1>6. CASE \/ \E s \in Sandboxes, t \in Tags : Branch(t, s) \/ \E n \in Nodes : Fork(s, n, t)
           \/ \E s \in Sandboxes : Delete(s)
           \/ \E t \in Tags : GiveUp(t) \/ Record(t) \/ DeleteTag(t)
  BY <1>6, PlaceTypes
<1> QED BY <1>1, <1>2, <1>3, <1>4, <1>5, <1>6 DEF Next

\* No step forgets a node, and what is placed or branched is on a known one.
LEMMA KnownStep ==
  ASSUME TypesOK, KnownInv, [Next]_vars PROVE KnownInv'
<1> USE DEF store, memory, onNode
<1>1. \A m \in Nodes : Known(m) => Known(m)'
  <2>1. ASSUME NEW n \in Nodes, NEW f \in Fingerprint, Known(n), Report(n, f)
        PROVE  \A m \in Nodes : Known(m) => Known(m)'
    BY <2>1, ReportRows DEF TypesOK
  <2>2. ASSUME NEW n \in Nodes, Poll(n) \/ Resume(n)
        PROVE  \A m \in Nodes : Known(m) => Known(m)'
    <3>1. host[n] \in Fingerprint /\ (parked[n] # Nil => parked[n] \in Fingerprint /\ Known(n))
      BY DEF TypesOK, TypeInv, MemoryType, NodeType, AskedInv
    <3> QED BY <2>1, <2>2, <3>1 DEF Poll, Resume, Admitted
  <2>3. ASSUME NEW n \in Nodes, NEW r, r \in NodeRow, nodes' = [nodes EXCEPT ![n] = r]
        PROVE  \A m \in Nodes : Known(m) => Known(m)'
    BY <2>3, Nils DEF Known, TypesOK, TypeInv, StoreType
  <2>4. ASSUME NEW n \in Nodes, Upsert(n) PROVE \A m \in Nodes : Known(m) => Known(m)'
    <3>1. TypesOK'
      BY <2>4, JoinTypes DEF Join
    <3> DEFINE j == joins[n]
               r == [pool |-> j.pool, fp |-> j.print, connected |-> ~j.added,
                     agent |-> j.added \/ (Known(n) /\ nodes[n].agent),
                     revoked |-> ~j.added /\ Known(n) /\ nodes[n].revoked,
                     cert |-> Known(n) /\ nodes[n].cert]
    <3>2. nodes' = [nodes EXCEPT ![n] = r]
      BY <2>4 DEF Upsert
    <3>3. j \in Joining /\ j.print \in Fingerprint /\ j.pool \in Pools
      BY <2>4 DEF Upsert, Choosing, TypesOK, TypeInv, MemoryType, AskedInv
    <3>4. r \in NodeRow
      BY <3>3 DEF NodeRow, Joining, TypesOK, TypeInv, StoreType
    <3> HIDE DEF r
    <3> QED BY <2>3, <3>2, <3>4
  <2>5. ASSUME NEW n \in Nodes, Known(n), NEW r, nodes' = [nodes EXCEPT ![n] = r],
               \/ r = [nodes[n] EXCEPT !.cert = TRUE, !.revoked = FALSE]
               \/ r = [nodes[n] EXCEPT !.revoked = TRUE, !.connected = FALSE]
               \/ r = [nodes[n] EXCEPT !.connected = FALSE]
        PROVE  \A m \in Nodes : Known(m) => Known(m)'
    <3>1. nodes[n] \in NodeRow
      BY <2>5 DEF Known, TypesOK, TypeInv, StoreType
    <3>2. r \in NodeRow
      BY <2>5, <3>1 DEF NodeRow
    <3> QED BY <2>3, <2>5, <3>2
  <2>6. ASSUME NEW n \in Nodes, SetNodeCert(n) \/ Revoke(n) \/ DriverLoses(n)
        PROVE  \A m \in Nodes : Known(m) => Known(m)'
    <3>1. Known(n)
      BY <2>6 DEF SetNodeCert, Revoke, DriverLoses, TypesOK, AskedInv
    <3>2. CASE SetNodeCert(n)
      <4>1. nodes' = [nodes EXCEPT ![n] = [nodes[n] EXCEPT !.cert = TRUE, !.revoked = FALSE]]
        BY <3>2 DEF SetNodeCert, TypesOK, TypeInv, StoreType
      <4> QED BY <2>5, <3>1, <4>1
    <3>3. CASE Revoke(n)
      <4>1. nodes' = [nodes EXCEPT ![n] = [nodes[n] EXCEPT !.revoked = TRUE, !.connected = FALSE]]
        BY <3>3 DEF Revoke, TypesOK, TypeInv, StoreType
      <4> QED BY <2>5, <3>1, <4>1
    <3>4. CASE DriverLoses(n)
      <4>1. nodes' = [nodes EXCEPT ![n] = [nodes[n] EXCEPT !.connected = FALSE]]
        BY <3>4 DEF DriverLoses, TypesOK, TypeInv, StoreType
      <4> QED BY <2>5, <3>1, <4>1
    <3> QED BY <2>6, <3>2, <3>3, <3>4
  <2>7. CASE MasterRestarts
    <3> SUFFICES ASSUME NEW m \in Nodes, Known(m) PROVE Known(m)'
      OBVIOUS
    <3>1. nodes[m] \in NodeRow /\ nodes'[m] = [nodes[m] EXCEPT !.connected = FALSE]
      BY <2>7 DEF MasterRestarts, Known, TypesOK, TypeInv, StoreType
    <3>2. nodes'[m] \in NodeRow
      BY <3>1 DEF NodeRow
    <3> QED BY <3>2, Nils DEF Known
  <2>8. ASSUME nodes' = nodes PROVE \A m \in Nodes : Known(m) => Known(m)'
    BY <2>8 DEF Known
  <2>9. ASSUME NEW n \in Nodes, Join(n) \/ Create(n) \/ Switch(n) \/ Node(n)
        PROVE  \A m \in Nodes : Known(m) => Known(m)'
    <3>1. \/ Upsert(n) \/ SetNodeCert(n) \/ Revoke(n) \/ DriverLoses(n) \/ Poll(n) \/ Resume(n)
          \/ nodes' = nodes
      BY <2>9 DEF Join, Redeem, Hello, ChoosePool, Create, CreateInPool, CreateOnNode, Switch,
                  SwitchMarks, SwitchCounts, SwitchTimesOut, SwitchHoldOver, Node, RunSwitch,
                  Restart, RunCreate, RunDestroy, RunBranch
    <3> QED BY <2>2, <2>4, <2>6, <2>8, <3>1
  <2>10. CASE \/ UNCHANGED vars \/ AtRest
              \/ \E k \in Tokens : MintToken(k) \/ TokenExpires(k)
              \/ \E s \in Sandboxes, t \in Tags : Branch(t, s) \/ \E n \in Nodes : Fork(s, n, t)
              \/ \E s \in Sandboxes : Delete(s)
              \/ \E t \in Tags : GiveUp(t) \/ Record(t) \/ DeleteTag(t)
    <3>1. nodes' = nodes
      BY <2>10 DEF vars, AtRest, MintToken, TokenExpires, Branch, Fork, Delete, GiveUp, Record,
                   DeleteTag
    <3> QED BY <2>8, <3>1
  <2> QED BY <2>7, <2>9, <2>10 DEF Next
<1>2. \A s \in Sandboxes : rows[s] # Nil => rows[s].node \in Nodes
  BY DEF TypesOK, TypeInv, StoreType
<1>3. ASSUME \A s \in Sandboxes : rows'[s] # Nil =>
               rows'[s] = rows[s] \/ (rows'[s].node \in Nodes /\ Known(rows'[s].node)),
             baking' = [t \in Tags |-> baking'[t]],
             \A t \in Tags : baking'[t].pc # "none" =>
               \/ baking[t].pc # "none" /\ baking'[t].node = baking[t].node
               \/ baking'[t].node \in Nodes /\ Known(baking'[t].node)
      PROVE  KnownInv'
  <2>1. ASSUME NEW s \in Sandboxes, rows'[s] # Nil PROVE nodes'[rows'[s].node] # Nil
    <3>1. rows'[s].node \in Nodes /\ Known(rows'[s].node)
      BY <1>2, <1>3, <2>1 DEF KnownInv
    <3> QED BY <1>1, <3>1 DEF Known
  <2>2. ASSUME NEW t \in Tags, baking'[t].pc # "none"
        PROVE  baking'[t].node \in Nodes /\ nodes'[baking'[t].node] # Nil
    <3>1. baking'[t].node \in Nodes /\ Known(baking'[t].node)
      BY <1>3, <2>2 DEF KnownInv
    <3> QED BY <1>1, <3>1 DEF Known
  <2> QED BY <1>3, <2>1, <2>2 DEF KnownInv, Known
<1>4. ASSUME rows' = rows, baking' = baking PROVE KnownInv'
  BY <1>3, <1>4 DEF KnownInv
<1>5. ASSUME NEW children, NEW n \in Nodes, NEW asked, Known(n), Insert(children, n, asked),
             baking' = baking
      PROVE  KnownInv'
  <2>1. \A s \in Sandboxes : rows'[s] = rows[s] \/ rows'[s].node = n
    BY <1>5 DEF Insert
  <2> QED BY <1>3, <1>5, <2>1 DEF KnownInv
<1>6. ASSUME NEW n \in Nodes, Create(n) PROVE KnownInv'
  BY <1>5, <1>6 DEF Create, CreateInPool, CreateOnNode
<1>7. ASSUME NEW s \in Sandboxes, NEW t \in Tags, NEW n \in Nodes, Fork(s, n, t) PROVE KnownInv'
  <2>1. Known(n)
    BY <1>7 DEF Fork
  <2> QED BY <1>5, <1>7, <2>1 DEF Fork
<1>8. ASSUME NEW s \in Sandboxes, NEW t \in Tags, Branch(t, s) PROVE KnownInv'
  <2>1. /\ rows' = rows /\ rows[s] # Nil
        /\ baking' = [baking EXCEPT ![t] = [pc |-> "queued", of |-> s, node |-> rows[s].node,
                                            image |-> Nil]]
    BY <1>8 DEF Branch
  <2>2. rows[s].node \in Nodes /\ Known(rows[s].node)
    BY <1>2, <2>1 DEF KnownInv
  <2> QED BY <1>3, <2>1, <2>2 DEF KnownInv
<1>9. ASSUME NEW t \in Tags, GiveUp(t) \/ Record(t) PROVE KnownInv'
  <2>1. rows' = rows /\ baking' = [baking EXCEPT ![t] = NotBaking]
    BY <1>9 DEF GiveUp, Record
  <2> QED BY <1>3, <2>1 DEF KnownInv, NotBaking
<1>10. ASSUME NEW s \in Sandboxes, Delete(s) PROVE KnownInv'
  <2>1. baking' = baking /\ \A x \in Sandboxes : rows'[x] \in {Nil, rows[x]}
    BY <1>10 DEF Delete, TypesOK, TypeInv, StoreType
  <2> QED BY <1>3, <2>1 DEF KnownInv
<1>11. ASSUME NEW n \in Nodes, Poll(n) \/ Resume(n) PROVE KnownInv'
  <2>1. /\ rows' = rows
        /\ baking' = [t \in Tags |-> IF t \in Queued(n) THEN [baking[t] EXCEPT !.pc = "given"]
                                      ELSE baking[t]]
    BY <1>11 DEF Poll, Resume, Handed
  <2>2. ASSUME NEW t \in Tags, baking'[t].pc # "none"
        PROVE  baking[t].pc # "none" /\ baking'[t].node = baking[t].node
    <3>1. CASE t \in Queued(n)
      BY <2>1, <3>1 DEF Queued
    <3>2. CASE t \notin Queued(n)
      BY <2>1, <2>2, <3>2
    <3> QED BY <3>1, <3>2
  <2> QED BY <1>3, <2>1, <2>2
<1>12. ASSUME NEW n \in Nodes, NEW t \in Tags, RunBranch(n, t) PROVE KnownInv'
  <2>1. /\ rows' = rows
        /\ \/ baking' = baking
           \/ /\ baking[t].pc = "given"
              /\ baking' = [baking EXCEPT ![t].pc = "made", ![t].image = host[n].engine]
    BY <1>12 DEF RunBranch
  <2>2. CASE baking' = baking
    BY <1>4, <2>1, <2>2
  <2>3. CASE /\ baking[t].pc = "given"
             /\ baking' = [baking EXCEPT ![t].pc = "made", ![t].image = host[n].engine]
    <3>1. \A u \in Tags : baking'[u].pc # "none" =>
            baking[u].pc # "none" /\ baking'[u].node = baking[u].node
      BY <2>3 DEF KnownInv
    <3>2. baking' = [u \in Tags |-> baking'[u]]
      BY <2>3 DEF KnownInv
    <3> QED BY <1>3, <2>1, <3>1, <3>2
  <2> QED BY <2>1, <2>2, <2>3
<1>13. CASE MasterRestarts
  <2>1. rows' = rows /\ baking' = [t \in Tags |-> NotBaking]
    BY <1>13 DEF MasterRestarts
  <2> QED BY <1>3, <2>1 DEF NotBaking
<1>14. ASSUME NEW n \in Nodes, Join(n) \/ Switch(n) PROVE KnownInv'
  <2>1. rows' = rows /\ baking' = baking
    BY <1>14 DEF Join, Switch, Redeem, Hello, ChoosePool, Upsert, SetNodeCert, Revoke,
                 SwitchMarks, SwitchCounts, SwitchTimesOut, SwitchHoldOver
  <2> QED BY <1>4, <2>1
<1>15. ASSUME NEW n \in Nodes, Node(n) PROVE KnownInv'
  <2>1. CASE DriverLoses(n) \/ RunSwitch(n) \/ Restart(n)
               \/ \E s \in Sandboxes : RunCreate(n, s) \/ RunDestroy(n, s)
    <3>1. rows' = rows /\ baking' = baking
      BY <2>1 DEF DriverLoses, RunSwitch, Restart, RunCreate, RunDestroy
    <3> QED BY <1>4, <3>1
  <2> QED BY <1>11, <1>12, <1>15, <2>1 DEF Node
<1>16. CASE \/ UNCHANGED vars \/ AtRest
            \/ \E k \in Tokens : MintToken(k) \/ TokenExpires(k)
            \/ \E t \in Tags : DeleteTag(t)
  <2>1. rows' = rows /\ baking' = baking
    BY <1>16 DEF vars, AtRest, MintToken, TokenExpires, DeleteTag
  <2> QED BY <1>4, <2>1
<1> QED BY <1>6, <1>7, <1>8, <1>9, <1>10, <1>13, <1>14, <1>15, <1>16 DEF Next

\* The types hold at the start.
LEMMA TypeInit == Init => TypesOK /\ KnownInv
<1> SUFFICES ASSUME Init PROVE TypesOK /\ KnownInv
  OBVIOUS
<1>1. StoreType
  BY DEF Init, StoreType
<1>2. MemoryType
  BY DEF Init, MemoryType, Joining, NotJoining, NoCall, Engine
<1>3. NodeType
  BY DEF Init, NodeType, Batch, NoBatch, Engine
<1>4. KnownInv
  BY DEF Init, KnownInv, NotBaking
<1>5. AskedInv
  BY DEF Init, AskedInv, NotJoining, Choosing
<1> QED BY <1>1, <1>2, <1>3, <1>5, <1>4 DEF Init, TypesOK, TypeInv
(***************************************************************************)
(* Pools.  A group that was split off is named for its fingerprint, so     *)
(* only the pool's own name can come to mix.  Nobody enters it but through *)
(* a look at everyone in it, and what was looked at still stands when the  *)
(* row is written, as long as nothing else was changing pools.             *)
(***************************************************************************)
InBase(m) == Known(m) /\ ~nodes[m].revoked /\ nodes[m].pool = <<Pool, Nil>>

GroupInv ==
  /\ \A n \in Nodes : Known(n) => nodes[n].pool[2] \in {Nil, nodes[n].fp}
  /\ \A n \in Choosing : joins[n].pool[2] \in {Nil, joins[n].print}

ChosenInv ==
  \A n \in Choosing :
    /\ \A m \in Choosing : m = n
    /\ joins[n].pool = <<Pool, Nil>> =>
         \A m \in Nodes \ {n} : InBase(m) => nodes[m].fp = joins[n].print
    /\ joins[n].pc = "written" =>
         nodes[n].fp = joins[n].print /\ nodes[n].pool = joins[n].pool

BasePure == \A n, m \in Nodes : InBase(n) /\ InBase(m) => nodes[n].fp = nodes[m].fp

PoolInv == GroupInv /\ (~raced => ChosenInv /\ BasePure)

\* A step that moves no node, lifts no revocation and lets nobody choose leaves
\* the pools as they were.
LEMMA PoolsSame ==
  ASSUME TypesOK', PoolInv, raced' = raced,
         \A m \in Nodes : Known(m)' => /\ Known(m)
                                       /\ nodes'[m].fp = nodes[m].fp
                                       /\ nodes'[m].pool = nodes[m].pool
                                       /\ nodes[m].revoked => nodes'[m].revoked,
         \A m \in Choosing' : m \in Choosing /\ joins'[m] = joins[m]
  PROVE  PoolInv'
<1>1. GroupInv'
  BY DEF PoolInv, GroupInv, Choosing
<1>2. \A m \in Nodes : InBase(m)' => InBase(m) /\ nodes'[m].fp = nodes[m].fp
  BY DEF InBase
<1>3. ASSUME ~raced PROVE ChosenInv'
  <2>1. ChosenInv
    BY <1>3 DEF PoolInv
  <2>2. \A m \in Choosing' : m \in Nodes /\ (joins'[m].pc = "written" => joins[m].pc = "written")
    BY DEF Choosing
  <2>3. \A m \in Choosing' : joins[m].pc = "written" =>
          nodes[m].fp = joins[m].print /\ nodes[m].pool = joins[m].pool
    BY <2>1 DEF ChosenInv
  <2>4. \A m \in Choosing' : joins'[m].pc = "written" => Known(m)'
    BY <2>2 DEF TypesOK, AskedInv
  <2> QED BY <1>2, <2>1, <2>2, <2>3, <2>4 DEF ChosenInv
<1>4. ASSUME ~raced PROVE BasePure'
  BY <1>2, <1>4 DEF PoolInv, BasePure
<1> QED BY <1>1, <1>3, <1>4 DEF PoolInv
\* pool_for looks at everyone in the pool's own name.
LEMMA ChoosePools ==
  ASSUME TypesOK, PoolInv, NEW n \in Nodes, ChoosePool(n) PROVE PoolInv'
<1>1. /\ nodes' = nodes
      /\ raced' = (raced \/ Choosing # {})
      /\ \A m \in Nodes \ {n} : joins'[m] = joins[m]
      /\ joins[n].pc = "asked"
      /\ joins'[n].pc = "pooled" /\ joins'[n].print = joins[n].print
      /\ joins'[n].pool = PoolFor(joins[n].print)
  BY DEF ChoosePool, store, TypesOK, TypeInv, MemoryType, Joining
<1>2. joins[n].print \in Fingerprint
  BY <1>1 DEF TypesOK, AskedInv
<1>3. Choosing' = Choosing \cup {n}
  BY <1>1 DEF Choosing
<1>4. GroupInv'
  BY <1>1, <1>2, <1>3, PoolForType DEF PoolInv, GroupInv, Known, Choosing
<1>5. ASSUME ~raced' PROVE ChosenInv' /\ BasePure'
  <2>1. ~raced /\ Choosing' = {n} /\ BasePure
    BY <1>1, <1>3, <1>5 DEF PoolInv
  <2>2. ASSUME PoolFor(joins[n].print) = <<Pool, Nil>>, NEW m \in Nodes, InBase(m)
        PROVE  nodes[m].fp = joins[n].print
    <3>1. Prints(<<Pool, Nil>>, Nil) \subseteq {joins[n].print}
      BY <1>2, <2>2, Nils DEF PoolFor
    <3>2. nodes[m].fp \in Prints(<<Pool, Nil>>, Nil)
      BY <2>2, FleetAssumption DEF Prints, InBase
    <3> QED BY <3>1, <3>2
  <2>3. ChosenInv'
    BY <1>1, <2>1, <2>2 DEF ChosenInv, InBase, Known
  <2> QED BY <1>1, <2>1, <2>3 DEF BasePure, InBase, Known
<1> QED BY <1>4, <1>5 DEF PoolInv

\* What was looked at still stands when the row is written.
LEMMA UpsertPools ==
  ASSUME TypesOK, PoolInv, NEW n \in Nodes, Upsert(n) PROVE PoolInv'
<1> DEFINE j == joins[n]
<1>1. /\ n \in Choosing /\ j \in Joining
      /\ raced' = raced
      /\ \A m \in Nodes \ {n} : joins'[m] = joins[m] /\ nodes'[m] = nodes[m]
      /\ nodes'[n].pool = j.pool /\ nodes'[n].fp = j.print
  BY DEF Upsert, Choosing, TypesOK, TypeInv, MemoryType, StoreType
<1>2. /\ joins'[n].pc \in {"none", "written"}
      /\ joins'[n].pc = "written" => joins'[n].print = j.print /\ joins'[n].pool = j.pool
  <2>1. CASE j.added
    BY <2>1 DEF Upsert, NotJoining, TypesOK, TypeInv, MemoryType
  <2>2. CASE ~j.added
    BY <1>1, <2>2 DEF Upsert, Joining, TypesOK, TypeInv, MemoryType
  <2> QED BY <2>1, <2>2
<1>3. Choosing' \subseteq Choosing /\ (n \in Choosing' => joins'[n].pc = "written")
  BY <1>1, <1>2 DEF Choosing
<1>4. GroupInv'
  BY <1>1, <1>2, <1>3 DEF PoolInv, GroupInv, Choosing, Known
<1>5. \A m \in Nodes \ {n} : InBase(m)' <=> InBase(m)
  BY <1>1 DEF InBase, Known
<1>6. ASSUME ~raced PROVE ChosenInv' /\ BasePure'
  <2>1. Choosing = {n} /\ BasePure
    BY <1>1, <1>6 DEF PoolInv, ChosenInv
  <2>2. j.pool = <<Pool, Nil>> => \A m \in Nodes \ {n} : InBase(m) => nodes[m].fp = j.print
    BY <1>1, <1>6 DEF PoolInv, ChosenInv
  <2>3. InBase(n)' => j.pool = <<Pool, Nil>>
    BY <1>1 DEF InBase
  <2>4. BasePure'
    BY <1>1, <1>5, <2>1, <2>2, <2>3 DEF BasePure
  <2>5. ChosenInv'
    BY <1>1, <1>2, <1>3, <1>5, <2>1, <2>2 DEF ChosenInv
  <2> QED BY <2>4, <2>5
<1> QED BY <1>1, <1>4, <1>6 DEF PoolInv

\* And when set_node_cert lifts the revocation.
LEMMA CertPools ==
  ASSUME TypesOK, PoolInv, NEW n \in Nodes, SetNodeCert(n) PROVE PoolInv'
<1>1. Known(n) /\ nodes[n] \in NodeRow
  BY DEF SetNodeCert, TypesOK, TypeInv, AskedInv, StoreType, Known
<1>2. /\ n \in Choosing /\ joins[n].pc = "written"
      /\ raced' = raced
      /\ \A m \in Nodes \ {n} : joins'[m] = joins[m] /\ nodes'[m] = nodes[m]
      /\ joins'[n].pc = "none"
      /\ nodes'[n] = [nodes[n] EXCEPT !.cert = TRUE, !.revoked = FALSE]
  BY DEF SetNodeCert, Choosing, NotJoining, TypesOK, TypeInv, MemoryType, StoreType
<1>3. nodes'[n].pool = nodes[n].pool /\ nodes'[n].fp = nodes[n].fp
  BY <1>1, <1>2 DEF NodeRow
<1>4. Choosing' = Choosing \ {n}
  BY <1>2 DEF Choosing
<1>5. GroupInv'
  BY <1>1, <1>2, <1>3, <1>4 DEF PoolInv, GroupInv, Choosing, Known
<1>6. \A m \in Nodes \ {n} : InBase(m)' <=> InBase(m)
  BY <1>2 DEF InBase, Known
<1>7. ASSUME ~raced PROVE ChosenInv' /\ BasePure'
  <2>1. Choosing = {n} /\ BasePure
    BY <1>2, <1>7 DEF PoolInv, ChosenInv
  <2>2. /\ nodes[n].fp = joins[n].print /\ nodes[n].pool = joins[n].pool
        /\ joins[n].pool = <<Pool, Nil>> =>
             \A m \in Nodes \ {n} : InBase(m) => nodes[m].fp = joins[n].print
    BY <1>2, <1>7 DEF PoolInv, ChosenInv
  <2>3. InBase(n)' => joins[n].pool = <<Pool, Nil>>
    BY <1>3, <2>2 DEF InBase
  <2>4. \A m \in Nodes \ {n} : InBase(m)' => InBase(m) /\ nodes'[m].fp = nodes[m].fp
    BY <1>2, <1>6
  <2>5. InBase(n)' => \A m \in Nodes \ {n} : InBase(m) => nodes[m].fp = nodes'[n].fp
    BY <1>3, <2>2, <2>3
  <2>6. BasePure'
    BY <2>1, <2>4, <2>5 DEF BasePure
  <2> QED BY <1>4, <2>1, <2>6 DEF ChosenInv
<1> QED BY <1>2, <1>5, <1>7 DEF PoolInv

\* refingerprint_node looks at everyone else in it.
LEMMA ReportPools ==
  ASSUME TypesOK, TypesOK', PoolInv, NEW n \in Nodes, Known(n), NEW f \in Fingerprint,
         Report(n, f), joins' = joins
  PROVE  PoolInv'
<1>1. raced' = (raced \/ (nodes[n].fp # f /\ Choosing # {})) /\ Choosing' = Choosing
  BY DEF Report, Choosing
<1> DEFINE back == Prints(<<Pool, Nil>>, n) \subseteq {f}
<1>2. /\ nodes'[n].fp = f /\ nodes'[n].revoked = nodes[n].revoked
      /\ \A m \in Nodes \ {n} :
           /\ Known(m)' <=> Known(m)
           /\ Known(m) => nodes'[m].fp = nodes[m].fp /\ nodes'[m].revoked = nodes[m].revoked
           /\ Known(m) /\ nodes'[m].pool # nodes[m].pool =>
                /\ nodes[n].fp # f /\ back
                /\ nodes[m].pool = <<Pool, f>> /\ nodes'[m].pool = <<Pool, Nil>>
      /\ nodes[n].fp = f => nodes'[n].pool = nodes[n].pool
      /\ nodes[n].fp # f => nodes'[n].pool = IF back THEN <<Pool, Nil>> ELSE <<Pool, f>>
  BY ReportRows DEF TypesOK
<1>3. back => \A m \in Nodes \ {n} : InBase(m) => nodes[m].fp = f
  BY DEF Prints, InBase
<1> HIDE DEF back
<1>4. CASE nodes[n].fp = f
  <2>1. raced' = raced
    BY <1>1, <1>4 DEF TypesOK, TypeInv
  <2>2. \A m \in Nodes : Known(m)' => /\ Known(m)
                                      /\ nodes'[m].fp = nodes[m].fp
                                      /\ nodes'[m].pool = nodes[m].pool
                                      /\ nodes[m].revoked => nodes'[m].revoked
    BY <1>2, <1>4
  <2>3. \A m \in Choosing' : m \in Choosing /\ joins'[m] = joins[m]
    BY <1>1
  <2> QED BY <2>1, <2>2, <2>3, PoolsSame
<1>5. CASE nodes[n].fp # f
  <2>1. \A m \in Nodes : Known(m)' => nodes'[m].pool[2] \in {Nil, nodes'[m].fp}
    <3>1. nodes'[n].pool[2] \in {Nil, f}
      BY <1>2, <1>5
    <3>2. ASSUME NEW m \in Nodes \ {n}, Known(m)' PROVE nodes'[m].pool[2] \in {Nil, nodes'[m].fp}
      <4>1. nodes[m].pool[2] \in {Nil, nodes[m].fp} /\ nodes'[m].fp = nodes[m].fp
        BY <1>2, <3>2 DEF PoolInv, GroupInv
      <4>2. nodes'[m].pool = nodes[m].pool \/ nodes'[m].pool = <<Pool, Nil>>
        BY <1>2, <3>2
      <4> QED BY <4>1, <4>2
    <3> QED BY <1>2, <3>1, <3>2
  <2>2. GroupInv'
    BY <1>1, <2>1 DEF PoolInv, GroupInv, Choosing
  <2>3. ASSUME ~raced' PROVE BasePure'
    <3>1. BasePure
      BY <1>1, <2>3 DEF PoolInv
    <3>2. ASSUME NEW m \in Nodes \ {n}, InBase(m)' PROVE InBase(m) \/ (back /\ nodes'[m].fp = f)
      <4>1. CASE nodes'[m].pool = nodes[m].pool
        BY <1>2, <3>2, <4>1 DEF InBase
      <4>2. CASE nodes'[m].pool # nodes[m].pool
        <5>1. Known(m) /\ back /\ nodes[m].pool = <<Pool, f>>
          BY <1>2, <3>2, <4>2 DEF InBase
        <5>2. nodes[m].fp = f
          BY <5>1, Nils DEF PoolInv, GroupInv
        <5> QED BY <1>2, <5>1, <5>2
      <4> QED BY <4>1, <4>2
    <3>3. CASE back
      BY <1>2, <1>3, <3>2, <3>3 DEF BasePure, InBase
    <3>4. CASE ~back
      <4>1. ~InBase(n)'
        BY <1>2, <1>5, <3>4, Nils DEF InBase
      <4>2. \A m \in Nodes \ {n} : InBase(m)' => InBase(m) /\ nodes'[m].fp = nodes[m].fp
        BY <1>2, <3>2, <3>4 DEF InBase
      <4> QED BY <3>1, <4>1, <4>2 DEF BasePure
    <3> QED BY <3>3, <3>4
  <2>4. ASSUME ~raced' PROVE ChosenInv'
    BY <1>1, <1>5, <2>4 DEF ChosenInv
  <2> QED BY <2>2, <2>3, <2>4 DEF PoolInv
<1> QED BY <1>4, <1>5

\* The pools are as they should be from the start, after every step.
LEMMA PoolStep ==
  ASSUME TypesOK, TypesOK', PoolInv, [Next]_vars PROVE PoolInv'
<1> USE DEF store, memory, onNode
<1>1. CASE UNCHANGED <<nodes, joins, raced>>
  BY <1>1, PoolsSame DEF Known, Choosing
<1>2. ASSUME NEW n \in Nodes, Join(n) PROVE PoolInv'
  <2>1. ASSUME NEW k \in Tokens, Redeem(n, k) PROVE PoolInv'
    <3>1. UNCHANGED <<nodes, raced>> /\ \A m \in Choosing' : m \in Choosing /\ joins'[m] = joins[m]
      BY <2>1 DEF Redeem, Choosing, TypesOK, TypeInv, MemoryType
    <3> QED BY <3>1, PoolsSame DEF Known
  <2>2. CASE Hello(n)
    <3>1. UNCHANGED <<nodes, raced>> /\ \A m \in Choosing' : m \in Choosing /\ joins'[m] = joins[m]
      BY <2>2 DEF Hello, Choosing, TypesOK, TypeInv, MemoryType
    <3> QED BY <3>1, PoolsSame DEF Known
  <2>3. CASE Revoke(n)
    <3>1. nodes[n] \in NodeRow /\ UNCHANGED <<joins, raced>>
      BY <2>3 DEF Revoke, Known, TypesOK, TypeInv, StoreType
    <3>2. \A m \in Nodes : Known(m)' => /\ Known(m)
                                        /\ nodes'[m].fp = nodes[m].fp
                                        /\ nodes'[m].pool = nodes[m].pool
                                        /\ nodes[m].revoked => nodes'[m].revoked
      BY <2>3, <3>1 DEF Revoke, Known, TypesOK, TypeInv, StoreType, NodeRow
    <3> QED BY <3>1, <3>2, PoolsSame DEF Choosing
  <2> QED BY <1>2, <2>1, <2>2, <2>3, ChoosePools, UpsertPools, CertPools DEF Join
<1>3. ASSUME NEW n \in Nodes, Poll(n) \/ Resume(n) PROVE PoolInv'
  <2>1. CASE Poll(n)
    BY <2>1, ReportPools DEF Poll, Admitted, TypesOK, TypeInv, NodeType
  <2>2. CASE Resume(n)
    <3>1. parked[n] \in Fingerprint /\ Known(n) /\ Report(n, parked[n]) /\ joins' = joins
      BY <2>2 DEF Resume, TypesOK, TypeInv, MemoryType, AskedInv
    <3> QED BY <3>1, ReportPools
  <2> QED BY <1>3, <2>1, <2>2
<1>4. ASSUME NEW n \in Nodes, DriverLoses(n) PROVE PoolInv'
  <2>1. nodes[n] \in NodeRow /\ UNCHANGED <<joins, raced>>
    BY <1>4 DEF DriverLoses, Known, TypesOK, TypeInv, StoreType
  <2>2. \A m \in Nodes : Known(m)' => /\ Known(m)
                                      /\ nodes'[m].fp = nodes[m].fp
                                      /\ nodes'[m].pool = nodes[m].pool
                                      /\ nodes[m].revoked => nodes'[m].revoked
    BY <1>4, <2>1 DEF DriverLoses, Known, TypesOK, TypeInv, StoreType, NodeRow
  <2> QED BY <2>1, <2>2, PoolsSame DEF Choosing
<1>5. CASE MasterRestarts
  <2>1. ASSUME NEW m \in Nodes, Known(m)'
        PROVE  /\ Known(m) /\ nodes'[m].fp = nodes[m].fp /\ nodes'[m].pool = nodes[m].pool
               /\ nodes[m].revoked => nodes'[m].revoked
    <3>1. Known(m) /\ nodes'[m] = [nodes[m] EXCEPT !.connected = FALSE]
      BY <1>5, <2>1 DEF MasterRestarts, Known
    <3>2. nodes[m] \in NodeRow
      BY <3>1 DEF Known, TypesOK, TypeInv, StoreType
    <3> QED BY <3>1, <3>2 DEF NodeRow
  <2>2. Choosing' = {} /\ raced' = raced
    BY <1>5 DEF MasterRestarts, Choosing, NotJoining
  <2> QED BY <2>1, <2>2, PoolsSame
<1>6. ASSUME NEW n \in Nodes,
             \/ Create(n) \/ Switch(n) \/ RunSwitch(n) \/ Restart(n)
             \/ \E s \in Sandboxes : RunCreate(n, s) \/ RunDestroy(n, s)
             \/ \E t \in Tags : RunBranch(n, t)
      PROVE  UNCHANGED <<nodes, joins, raced>>
  BY <1>6 DEF Create, CreateInPool, CreateOnNode, Switch, SwitchMarks, SwitchCounts,
              SwitchTimesOut, SwitchHoldOver, RunSwitch, Restart, RunCreate, RunDestroy, RunBranch
<1>7. CASE \/ UNCHANGED vars \/ AtRest
           \/ \E k \in Tokens : MintToken(k) \/ TokenExpires(k)
           \/ \E s \in Sandboxes, t \in Tags : Branch(t, s) \/ \E n \in Nodes : Fork(s, n, t)
           \/ \E s \in Sandboxes : Delete(s)
           \/ \E t \in Tags : GiveUp(t) \/ Record(t) \/ DeleteTag(t)
  <2>1. UNCHANGED <<nodes, joins, raced>>
    BY <1>7 DEF AtRest, vars, MintToken, TokenExpires, Branch, Fork, Delete, GiveUp, Record,
                DeleteTag
  <2> QED BY <1>1, <2>1
<1> QED BY <1>1, <1>2, <1>3, <1>4, <1>5, <1>6, <1>7 DEF Next, Node

\* Nobody is in a pool at the start.
LEMMA PoolInit == Init => PoolInv
BY DEF Init, PoolInv, GroupInv, ChosenInv, BasePure, InBase, Known, Choosing, NotJoining

\* pool_for and refingerprint_node: the nodes of a pool have one fingerprint,
\* unless pools changed while a node was joining.
LEMMA PurePools == TypesOK /\ PoolInv => PoolsPure
<1> SUFFICES ASSUME TypesOK, PoolInv, NEW n \in Nodes, NEW m \in Nodes, Known(n), Known(m),
                    nodes[n].pool = nodes[m].pool, ~nodes[n].revoked, ~nodes[m].revoked, ~raced
             PROVE  nodes[n].fp = nodes[m].fp
  BY DEF PoolsPure
<1>1. nodes[n].pool \in Pools
  BY DEF TypesOK, TypeInv, StoreType, Known, NodeRow
<1>2. CASE nodes[n].pool[2] = Nil
  <2>1. nodes[n].pool = <<Pool, Nil>>
    BY <1>1, <1>2 DEF Pools
  <2> QED BY <2>1 DEF PoolInv, BasePure, InBase
<1>3. CASE nodes[n].pool[2] # Nil
  BY <1>3 DEF PoolInv, GroupInv
<1> QED BY <1>2, <1>3

(***************************************************************************)
(* Switches.  Everything is about one node at a time.  A switch that is    *)
(* queued, handed over or accepted keeps its node out of placement, and is *)
(* for an engine the node does not have yet; so what is placed meanwhile   *)
(* is placed elsewhere, and what was there before was counted.             *)
(***************************************************************************)
\* A node that registers has just started and does nothing else; a parked poll
\* left it without commands.  Both say what it runs.
ReportOK(n) ==
  /\ Registering(n) => /\ joins[n].print.engine = host[n].engine
                       /\ batch[n] = NoBatch /\ leaving[n] = Nil /\ parked[n] = Nil
  /\ parked[n] # Nil => parked[n].engine = host[n].engine /\ batch[n] = NoBatch

\* The command is in one place, and the master knows of it.
PendingOK(n) ==
  /\ queue[n] \in {Nil, switching[n]}
  /\ batch[n].to \in {Nil, switching[n]}
  /\ leaving[n] \in {Nil, switching[n]}
  /\ queue[n] # Nil => batch[n].to = Nil /\ leaving[n] = Nil
  /\ batch[n].to # Nil => leaving[n] = Nil
  /\ Pending(n) => switching[n] # host[n].engine /\ call[n].pc # "marked"

\* A call that is about to count is for the engine its node was marked with,
\* or for one that its node has already.  A connected node's row is out of date
\* only between a switch and the report of it.
MarkedOK(n) ==
  /\ call[n].pc = "marked" => call[n].to \in {switching[n], host[n].engine}
  /\ Known(n) /\ nodes[n].connected =>
       \/ nodes[n].fp.engine = host[n].engine
       \/ switching[n] = host[n].engine /\ call[n].pc # "marked"

\* What was asked for on a backend is on a node that has it and stays on it.
OnBackend(s, n) ==
  rows[s] # Nil /\ rows[s].node = n /\ ~rows[s].asked.blind /\ rows[s].asked.engine # Nil

RowsOK(n) ==
  \A s \in Sandboxes : OnBackend(s, n) => rows[s].asked.engine = host[n].engine /\ ~Pending(n)

HeldOK(n) ==
  /\ \A s \in Sandboxes : held[n][s] \in {Nil, host[n].engine}
  /\ leaving[n] # Nil => \A s \in Sandboxes : held[n][s] = Nil
  /\ /\ Known(n) /\ nodes[n].connected
     /\ batch[n].creates # {} \/ \E s \in Sandboxes : held[n][s] # Nil
     => nodes[n].fp.engine = host[n].engine

TagsOK(n) ==
  \A t \in Tags : tags[t] # Nil /\ tags[t].node = n /\ t \notin late =>
    ~Pending(n) /\ tags[t].fp.engine = host[n].engine /\ tags[t].image = host[n].engine

NodeOK(n) ==
  /\ ReportOK(n) /\ HeldOK(n) /\ TagsOK(n)
  /\ n \notin lapsed => PendingOK(n) /\ MarkedOK(n) /\ RowsOK(n)

SwitchInv == \A n \in Nodes : NodeOK(n)

\* A step that has nothing to do with a node, or only forgets it was connected
\* or joining.
Apart(m) ==
  /\ Known(m)' => /\ Known(m)
                  /\ nodes'[m].fp = nodes[m].fp
                  /\ nodes'[m].connected => nodes[m].connected
  /\ joins'[m] = joins[m] \/ joins'[m].pc = "none"
  /\ switching'[m] = switching[m] /\ call'[m] = call[m] /\ queue'[m] = queue[m]
  /\ parked'[m] \in {Nil, parked[m]}
  /\ host'[m] = host[m] /\ leaving'[m] = leaving[m] /\ batch'[m] = batch[m]
  /\ held'[m] = held[m]

\* No row or tag comes to the node.
NoneNew(m) ==
  /\ \A s \in Sandboxes : rows'[s] # Nil /\ rows'[s].node = m => rows'[s] = rows[s]
  /\ \A t \in Tags : tags'[t] # Nil /\ tags'[t].node = m /\ t \notin late' =>
       tags'[t] = tags[t] /\ t \notin late
  /\ lapsed \subseteq lapsed'

\* Such a step keeps what is known of the node.
LEMMA ApartOK ==
  ASSUME NEW m \in Nodes, NodeOK(m), Apart(m), NoneNew(m) PROVE NodeOK(m)'
<1>1. Pending(m)' <=> Pending(m)
  BY DEF Pending, Apart
<1>2. ReportOK(m)'
  BY DEF NodeOK, ReportOK, Registering, Apart
<1>3. HeldOK(m)'
  BY DEF NodeOK, HeldOK, Apart
<1>4. TagsOK(m)'
  BY <1>1 DEF NodeOK, TagsOK, Apart, NoneNew
<1>5. ASSUME m \notin lapsed' PROVE PendingOK(m)' /\ MarkedOK(m)' /\ RowsOK(m)'
  <2>1. PendingOK(m) /\ MarkedOK(m) /\ RowsOK(m)
    BY <1>5 DEF NodeOK, NoneNew
  <2>2. PendingOK(m)'
    BY <1>1, <2>1 DEF PendingOK, Apart
  <2>3. MarkedOK(m)'
    BY <2>1 DEF MarkedOK, Apart
  <2>4. RowsOK(m)'
    BY <1>1, <2>1 DEF RowsOK, OnBackend, Apart, NoneNew
  <2> QED BY <2>2, <2>3, <2>4
<1> QED BY <1>2, <1>3, <1>4, <1>5 DEF NodeOK

\* A step of one node: it is enough to look at that node.
LEMMA OneNode ==
  ASSUME SwitchInv, NEW n \in Nodes, \A m \in Nodes \ {n} : Apart(m) /\ NoneNew(m), NodeOK(n)'
  PROVE  SwitchInv'
BY ApartOK DEF SwitchInv

\* Joining tells what the node runs.
LEMMA JoinSwitch ==
  ASSUME TypesOK, TypesOK', SwitchInv, NEW n \in Nodes, Join(n) PROVE SwitchInv'
<1> USE DEF TypesOK, TypeInv, store, memory, onNode
<1>1. UNCHANGED <<rows, tags, switching, call, queue, parked, onNode, lapsed, late>>
  BY DEF Join, Redeem, Hello, ChoosePool, Upsert, SetNodeCert, Revoke
<1>2. \A m \in Nodes \ {n} : nodes'[m] = nodes[m] /\ joins'[m] = joins[m]
  BY DEF Join, Redeem, Hello, ChoosePool, Upsert, SetNodeCert, Revoke, StoreType, MemoryType
<1>3. \A m \in Nodes : NoneNew(m)
  BY <1>1 DEF NoneNew
<1>4. \A m \in Nodes \ {n} : Apart(m)
  BY <1>1, <1>2 DEF Apart, Known
<1>5. NodeOK(n)
  BY DEF SwitchInv
<1>6. Pending(n)' <=> Pending(n)
  BY <1>1 DEF Pending
<1>7. TagsOK(n)' /\ (n \notin lapsed => PendingOK(n)' /\ RowsOK(n)')
  BY <1>1, <1>5, <1>6 DEF NodeOK, TagsOK, PendingOK, RowsOK, OnBackend
<1>8. ASSUME ReportOK(n)',
             /\ Known(n)' /\ nodes'[n].connected =>
                  \/ nodes'[n].fp.engine = host[n].engine
                  \/ Known(n) /\ nodes[n].connected /\ nodes'[n].fp = nodes[n].fp
      PROVE  SwitchInv'
  <2>1. HeldOK(n)'
    BY <1>1, <1>5, <1>8 DEF NodeOK, HeldOK
  <2>2. n \notin lapsed => MarkedOK(n)'
    BY <1>1, <1>5, <1>8 DEF NodeOK, MarkedOK
  <2> QED BY <1>1, <1>3, <1>4, <1>7, <1>8, <2>1, <2>2, OneNode DEF NodeOK
<1>9. ASSUME nodes' = nodes, ~Registering(n)' \/ (Registering(n) /\ joins'[n].print = joins[n].print)
      PROVE  SwitchInv'
  <2>1. ReportOK(n)'
    BY <1>1, <1>5, <1>9 DEF NodeOK, ReportOK
  <2> QED BY <1>8, <1>9, <2>1 DEF Known
<1>10. ASSUME NEW k \in Tokens, Redeem(n, k) PROVE SwitchInv'
  <2>1. nodes' = nodes /\ joins'[n].print = host[n]
    BY <1>10 DEF Redeem, MemoryType
  <2>2. ReportOK(n)'
    BY <1>1, <1>5, <1>10, <2>1 DEF Redeem, NodeOK, ReportOK
  <2> QED BY <1>8, <2>1, <2>2 DEF Known
<1>11. CASE Hello(n)
  <2>1. nodes' = nodes /\ joins'[n].added
    BY <1>11 DEF Hello, MemoryType
  <2> QED BY <1>9, <2>1 DEF Registering
<1>12. CASE ChoosePool(n)
  <2>1. /\ nodes' = nodes /\ joins[n].pc = "asked"
        /\ joins'[n].added = joins[n].added /\ joins'[n].print = joins[n].print
    BY <1>12 DEF ChoosePool, MemoryType, Joining
  <2> QED BY <1>9, <2>1 DEF Registering
<1>13. CASE Upsert(n)
  <2>1. /\ nodes'[n].fp = joins[n].print /\ nodes'[n].connected = ~joins[n].added
        /\ joins[n].pc = "pooled" /\ joins[n] \in Joining
    BY <1>13 DEF Upsert, StoreType, MemoryType
  <2>2. joins[n].added => joins'[n].pc = "none"
    BY <1>13 DEF Upsert, MemoryType, NotJoining
  <2>3. ~joins[n].added => joins'[n].print = joins[n].print
    BY <1>13, <2>1 DEF Upsert, MemoryType, Joining
  <2>4. ~joins[n].added => joins[n].print.engine = host[n].engine
    BY <1>5, <2>1 DEF NodeOK, ReportOK, Registering
  <2>5. ReportOK(n)'
    BY <1>1, <1>5, <2>1, <2>2, <2>3 DEF NodeOK, ReportOK, Registering
  <2> QED BY <1>8, <2>1, <2>4, <2>5
<1>14. CASE SetNodeCert(n)
  <2>1. nodes[n] \in NodeRow
    BY <1>14 DEF SetNodeCert, Known, StoreType, AskedInv
  <2>2. nodes'[n] = [nodes[n] EXCEPT !.cert = TRUE, !.revoked = FALSE] /\ joins'[n].pc = "none"
    BY <1>14 DEF SetNodeCert, StoreType, MemoryType, NotJoining
  <2>3. nodes'[n].fp = nodes[n].fp /\ nodes'[n].connected = nodes[n].connected /\ Known(n)
    BY <2>1, <2>2, Nils DEF NodeRow, Known
  <2>4. ReportOK(n)'
    BY <1>1, <1>5, <2>2 DEF NodeOK, ReportOK, Registering
  <2> QED BY <1>8, <2>3, <2>4
<1>15. CASE Revoke(n)
  <2>1. nodes[n] \in NodeRow
    BY <1>15 DEF Revoke, Known, StoreType
  <2>2. ~nodes'[n].connected /\ joins' = joins
    BY <1>15, <2>1 DEF Revoke, StoreType, NodeRow
  <2>3. ReportOK(n)'
    BY <1>1, <1>5, <2>2 DEF NodeOK, ReportOK, Registering
  <2> QED BY <1>8, <2>2, <2>3
<1> QED BY <1>10, <1>11, <1>12, <1>13, <1>14, <1>15 DEF Join
\* A report brings the node's row up to date, ends a switch that is over, and
\* hands a queued one over.
LEMMA ReportSwitch ==
  ASSUME TypesOK, SwitchInv, NEW n \in Nodes, Poll(n) \/ Resume(n) PROVE SwitchInv'
<1> USE DEF TypesOK, TypeInv
<1>1. NodeOK(n) /\ ReportOK(n) /\ HeldOK(n) /\ TagsOK(n)
  BY DEF SwitchInv, NodeOK
<1>2. PICK f \in Fingerprint :
        /\ f.engine = host[n].engine /\ Known(n) /\ Report(n, f) /\ batch[n] = NoBatch
        /\ parked' = [parked EXCEPT ![n] = Nil]
             \/ (parked' = [parked EXCEPT ![n] = f] /\ Commands(n) = NoBatch)
  <2>1. CASE Poll(n)
    <3>1. host[n] \in Fingerprint /\ Known(n) /\ Report(n, host[n]) /\ batch[n] = NoBatch
      BY <2>1 DEF Poll, Admitted, NodeType
    <3> QED BY <2>1, <3>1 DEF Poll
  <2>2. CASE Resume(n)
    <3>1. parked[n] \in Fingerprint /\ Known(n) /\ Report(n, parked[n])
      BY <2>2 DEF Resume, MemoryType, AskedInv
    <3>2. parked[n].engine = host[n].engine /\ batch[n] = NoBatch
      BY <1>1, <2>2 DEF Resume, ReportOK
    <3> QED BY <2>2, <3>1, <3>2 DEF Resume
  <2> QED BY <2>1, <2>2
<1>3. /\ batch' = [batch EXCEPT ![n] = Commands(n)] /\ queue' = [queue EXCEPT ![n] = Nil]
      /\ UNCHANGED <<rows, tags, joins, call, host, leaving, held, lapsed, late>>
  BY DEF Poll, Resume, Handed
<1>4. ~Registering(n)
  BY <1>1 DEF Poll, Resume, ReportOK
<1>5. /\ nodes'[n].fp = f
      /\ \A m \in Nodes \ {n} :
           /\ Known(m)' <=> Known(m)
           /\ Known(m) => nodes'[m].fp = nodes[m].fp /\ (nodes'[m].connected <=> nodes[m].connected)
  <2> HIDE DEF TypeInv, TypesOK
  <2>1. TypeInv
    BY DEF TypesOK
  <2>2. Known(n) /\ Report(n, f)
    BY <1>2
  <2>3. ASSUME NEW m \in Nodes \ {n}
        PROVE  /\ Known(m)' <=> Known(m)
               /\ Known(m) => /\ nodes'[m].fp = nodes[m].fp
                              /\ (nodes'[m].connected <=> nodes[m].connected)
    BY <2>1, <2>2, ReportRows
  <2>4. nodes'[n].fp = f
    BY <2>1, <2>2, ReportRows
  <2> QED BY <2>3, <2>4
<1>6. switching' = [switching EXCEPT ![n] = IF @ = f.engine THEN Nil ELSE @]
  BY <1>2 DEF Report
<1>7. \A m \in Nodes \ {n} : /\ switching'[m] = switching[m] /\ queue'[m] = queue[m]
                             /\ batch'[m] = batch[m] /\ parked'[m] = parked[m]
  BY <1>2, <1>3, <1>6 DEF MemoryType, NodeType
<1>8. \A m \in Nodes \ {n} : Apart(m) /\ NoneNew(m)
  BY <1>3, <1>5, <1>7 DEF Apart, NoneNew
<1>9. /\ batch'[n] = Commands(n) /\ batch'[n].to = queue[n] /\ queue'[n] = Nil
      /\ switching'[n] = IF switching[n] = host[n].engine THEN Nil ELSE switching[n]
  BY <1>2, <1>3, <1>6 DEF MemoryType, NodeType, Commands
<1>10. Pending(n)' <=> Pending(n)
  BY <1>2, <1>3, <1>9 DEF Pending, NoBatch
<1>11. ReportOK(n)'
  <2>1. ~Registering(n)'
    BY <1>3, <1>4 DEF Registering
  <2>2. parked'[n] # Nil => parked'[n] = f /\ batch'[n] = NoBatch
    BY <1>2, <1>9 DEF MemoryType
  <2> QED BY <1>2, <1>3, <2>1, <2>2 DEF ReportOK
<1>12. HeldOK(n)'
  BY <1>1, <1>2, <1>3, <1>5 DEF HeldOK
<1>13. TagsOK(n)'
  BY <1>1, <1>3, <1>10 DEF TagsOK
<1>14. ASSUME n \notin lapsed PROVE PendingOK(n)' /\ MarkedOK(n)' /\ RowsOK(n)'
  <2>1. PendingOK(n) /\ MarkedOK(n) /\ RowsOK(n)
    BY <1>1, <1>14 DEF NodeOK
  <2>2. host[n].engine # Nil
    BY Nils DEF NodeType
  <2>3. Pending(n) => switching'[n] = switching[n]
    BY <1>9, <2>1 DEF PendingOK
  <2>4. PendingOK(n)'
    BY <1>2, <1>3, <1>9, <1>10, <2>1, <2>2, <2>3 DEF PendingOK, Pending, NoBatch
  <2>5. MarkedOK(n)'
    BY <1>2, <1>3, <1>5, <1>9, <2>1 DEF MarkedOK
  <2>6. RowsOK(n)'
    BY <1>3, <1>10, <2>1 DEF RowsOK, OnBackend
  <2> QED BY <2>4, <2>5, <2>6
<1>15. NodeOK(n)'
  BY <1>3, <1>11, <1>12, <1>13, <1>14 DEF NodeOK
<1> QED BY <1>8, <1>15, OneNode

\* What is asked for on a backend is placed on a node that has it, and that no
\* switch is taking away.
LEMMA PlaceSwitch ==
  ASSUME TypesOK, KnownInv, SwitchInv,
         \/ \E n \in Nodes : Create(n)
         \/ \E s \in Sandboxes, t \in Tags : Branch(t, s) \/ \E n \in Nodes : Fork(s, n, t)
         \/ \E s \in Sandboxes : Delete(s)
         \/ \E t \in Tags : GiveUp(t) \/ Record(t) \/ DeleteTag(t)
  PROVE  SwitchInv'
<1> USE DEF TypesOK, TypeInv, memory, onNode
<1>1. UNCHANGED <<nodes, joins, switching, call, queue, parked, onNode, lapsed>>
  BY DEF Create, CreateInPool, CreateOnNode, Branch, GiveUp, Record, Fork, Delete, DeleteTag, store
<1>2. \A m \in Nodes : Apart(m)
  BY <1>1 DEF Apart, Known
<1>3. \A m \in Nodes : /\ Pending(m)' <=> Pending(m)
                       /\ ReportOK(m)' /\ HeldOK(m)'
                       /\ m \notin lapsed => PendingOK(m)' /\ MarkedOK(m)'
  BY <1>1 DEF SwitchInv, NodeOK, Pending, ReportOK, Registering, HeldOK, PendingOK, MarkedOK,
              Known
<1>4. ASSUME NEW children, NEW n \in Nodes, NEW asked, Insert(children, n, asked), tags' = tags,
             late' = late, ~asked.blind /\ asked.engine # Nil /\ n \notin lapsed =>
               asked.engine = host[n].engine /\ ~Pending(n)
      PROVE  SwitchInv'
  <2>1. \A s \in Sandboxes : rows'[s] = rows[s] \/ (rows'[s].node = n /\ rows'[s].asked = asked)
    BY <1>4 DEF Insert
  <2>2. \A m \in Nodes \ {n} : NoneNew(m)
    BY <1>1, <1>4, <2>1 DEF NoneNew
  <2>3. TagsOK(n)'
    BY <1>1, <1>3, <1>4 DEF SwitchInv, NodeOK, TagsOK
  <2>4. n \notin lapsed => RowsOK(n)'
    BY <1>1, <1>3, <1>4, <2>1 DEF SwitchInv, NodeOK, RowsOK, OnBackend
  <2> QED BY <1>1, <1>2, <1>3, <2>2, <2>3, <2>4, OneNode DEF NodeOK
<1>5. ASSUME NEW n \in Nodes, Create(n) PROVE SwitchInv'
  <2>1. PICK e, children, asked :
          /\ Insert(children, n, asked) /\ asked.engine = e
          /\ ~asked.blind => nodes[n].connected /\ switching[n] = Nil
          /\ Known(n) /\ e \in {Nil, nodes[n].fp.engine}
          /\ tags' = tags /\ late' = late
    <3>1. ASSUME NEW e, NEW children, CreateInPool(children, n, e)
          PROVE  \E asked :
                   /\ Insert(children, n, asked) /\ asked.engine = e
                   /\ ~asked.blind => nodes[n].connected /\ switching[n] = Nil
                   /\ Known(n) /\ e \in {Nil, nodes[n].fp.engine}
                   /\ tags' = tags /\ late' = late
      <4> WITNESS [by |-> "pool", engine |-> e, tag |-> Nil, blind |-> FALSE]
      <4> QED BY <3>1 DEF CreateInPool, RoomFor
    <3>2. ASSUME NEW e, NEW s, CreateOnNode(s, n, e)
          PROVE  \E asked :
                   /\ Insert({s}, n, asked) /\ asked.engine = e
                   /\ ~asked.blind => nodes[n].connected /\ switching[n] = Nil
                   /\ Known(n) /\ e \in {Nil, nodes[n].fp.engine}
                   /\ tags' = tags /\ late' = late
      <4> WITNESS [by |-> "name", engine |-> e, tag |-> Nil,
                   blind |-> ~nodes[n].connected \/ switching[n] # Nil]
      <4> QED BY <3>2 DEF CreateOnNode
    <3> QED BY <1>5, <3>1, <3>2 DEF Create
  <2>2. host[n].engine # Nil
    BY Nils DEF NodeType
  <2>3. ASSUME ~asked.blind, n \notin lapsed, e # Nil PROVE e = host[n].engine /\ ~Pending(n)
    <3>1. PendingOK(n) /\ MarkedOK(n)
      BY <2>3 DEF SwitchInv, NodeOK
    <3> QED BY <2>1, <2>2, <2>3, <3>1 DEF PendingOK, MarkedOK, Pending
  <2> QED BY <1>4, <2>1, <2>3
<1>6. ASSUME NEW s \in Sandboxes, NEW t \in Tags, NEW n \in Nodes, Fork(s, n, t) PROVE SwitchInv'
  <2>1. PICK asked : asked.engine = Nil /\ Insert({s}, n, asked) /\ tags' = tags /\ late' = late
    BY <1>6 DEF Fork
  <2> QED BY <1>4, <2>1
<1>7. ASSUME NEW t \in Tags, Record(t) PROVE SwitchInv'
  <2> DEFINE b == baking[t]
  <2> PICK n \in Nodes : n = b.node
    BY <1>7 DEF Record, KnownInv
  <2>1. rows' = rows
    BY <1>7 DEF Record
  <2>2. \A u \in Tags \ {t} : tags'[u] = tags[u] /\ (u \in late' <=> u \in late)
    BY <1>7 DEF Record, StoreType
  <2>3. /\ tags'[t] = [node |-> n, fp |-> nodes[n].fp, image |-> b.image]
        /\ t \notin late' =>
             ~Pending(n) /\ host[n].engine = b.image /\ nodes[n].fp.engine = b.image
    BY <1>7 DEF Record, StoreType
  <2> HIDE DEF b
  <2>4. \A m \in Nodes \ {n} : NoneNew(m)
    BY <1>1, <2>1, <2>2, <2>3 DEF NoneNew
  <2>5. TagsOK(n)'
    BY <1>1, <1>3, <2>2, <2>3 DEF SwitchInv, NodeOK, TagsOK
  <2>6. n \notin lapsed => RowsOK(n)'
    BY <1>1, <1>3, <2>1 DEF SwitchInv, NodeOK, RowsOK, OnBackend
  <2> QED BY <1>1, <1>2, <1>3, <2>4, <2>5, <2>6, OneNode DEF NodeOK
<1>8. ASSUME \/ \E s \in Sandboxes : Delete(s) \/ \E t \in Tags : Branch(t, s)
             \/ \E t \in Tags : GiveUp(t) \/ DeleteTag(t)
      PROVE  SwitchInv'
  <2>1. /\ \A s \in Sandboxes : rows'[s] \in {Nil, rows[s]}
        /\ \A t \in Tags : tags'[t] \in {Nil, tags[t]}
        /\ late' = late
    BY <1>8 DEF Delete, Branch, GiveUp, DeleteTag, StoreType, store
  <2>2. \A m \in Nodes : NoneNew(m)
    BY <1>1, <2>1 DEF NoneNew
  <2> QED BY <1>2, <2>2, ApartOK DEF SwitchInv
<1> QED BY <1>5, <1>6, <1>7, <1>8
\* set_node_backend marks first, counts under the store's lock, and queues the
\* command only for a node that is empty and not on that engine.
LEMMA CallSwitch ==
  ASSUME TypesOK, SwitchInv, NEW n \in Nodes, Switch(n) PROVE SwitchInv'
<1> USE DEF TypesOK, TypeInv, store, onNode
<1>1. UNCHANGED <<store, joins, parked, onNode, late>> /\ lapsed \subseteq lapsed'
  BY DEF Switch, SwitchMarks, SwitchCounts, SwitchTimesOut, SwitchHoldOver
<1>2. \A m \in Nodes \ {n} : /\ switching'[m] = switching[m] /\ call'[m] = call[m]
                             /\ queue'[m] = queue[m]
  BY DEF Switch, SwitchMarks, SwitchCounts, SwitchTimesOut, SwitchHoldOver, MemoryType
<1>3. \A m \in Nodes \ {n} : Apart(m) /\ NoneNew(m)
  BY <1>1, <1>2 DEF Apart, NoneNew, Known
<1>4. NodeOK(n) /\ host[n].engine # Nil
  BY Nils DEF SwitchInv, NodeType
<1>5. ReportOK(n)' /\ HeldOK(n)'
  BY <1>1, <1>4 DEF NodeOK, ReportOK, Registering, HeldOK, Known
<1>6. ASSUME queue' = queue, n \notin lapsed' => PendingOK(n)' /\ MarkedOK(n)' PROVE SwitchInv'
  <2>1. Pending(n)' <=> Pending(n)
    BY <1>1, <1>6 DEF Pending
  <2>2. TagsOK(n)'
    BY <1>1, <1>4, <2>1 DEF NodeOK, TagsOK
  <2>3. n \notin lapsed' => RowsOK(n)'
    BY <1>1, <1>4, <2>1 DEF NodeOK, RowsOK, OnBackend
  <2> QED BY <1>3, <1>5, <1>6, <2>2, <2>3, OneNode DEF NodeOK
<1>7. ASSUME NEW e \in Engines, SwitchMarks(n, e) PROVE SwitchInv'
  <2>1. /\ queue' = queue /\ lapsed' = lapsed /\ switching[n] = Nil
        /\ switching'[n] = e /\ call'[n].pc = "marked" /\ call'[n].to = e
    BY <1>7 DEF SwitchMarks, MemoryType
  <2>2. ASSUME n \notin lapsed PROVE PendingOK(n)' /\ MarkedOK(n)'
    <3>1. PendingOK(n) /\ MarkedOK(n)
      BY <1>4, <2>2 DEF NodeOK
    <3>2. ~Pending(n)
      BY <2>1, <3>1 DEF PendingOK, Pending
    <3>3. PendingOK(n)'
      BY <1>1, <2>1, <3>2 DEF PendingOK, Pending
    <3>4. MarkedOK(n)'
      BY <1>1, <1>4, <2>1, <3>1 DEF MarkedOK, Known
    <3> QED BY <3>3, <3>4
  <2> QED BY <1>6, <2>1, <2>2
<1>8. CASE SwitchCounts(n)
  <2>1. call[n].pc = "marked" /\ lapsed' = lapsed
    BY <1>8 DEF SwitchCounts
  <2>2. n \notin lapsed => PendingOK(n) /\ MarkedOK(n) /\ ~Pending(n)
    BY <1>4, <2>1 DEF NodeOK, PendingOK
  <2>3. CASE Known(n) /\ nodes[n].connected /\ Empty(n) /\ nodes[n].fp.engine # call[n].to
    <3>1. /\ call'[n].pc = "asked" /\ switching' = switching
          /\ queue'[n] = call[n].to
      BY <1>8, <2>3 DEF SwitchCounts, MemoryType
    <3>2. TagsOK(n)'
      BY <1>1, <2>3 DEF TagsOK, Empty
    <3>3. RowsOK(n)'
      BY <1>1, <2>3 DEF RowsOK, OnBackend, Empty, On
    <3>4. ASSUME n \notin lapsed PROVE PendingOK(n)' /\ MarkedOK(n)'
      <4>1. nodes[n].fp.engine = host[n].engine
        BY <2>1, <2>2, <2>3, <3>4 DEF MarkedOK
      <4>2. call[n].to = switching[n] /\ switching[n] # host[n].engine
        BY <2>1, <2>2, <2>3, <3>4, <4>1 DEF MarkedOK
      <4>3. PendingOK(n)'
        BY <1>1, <2>2, <3>1, <3>4, <4>2 DEF PendingOK, Pending
      <4>4. MarkedOK(n)'
        BY <1>1, <3>1, <4>1 DEF MarkedOK, Known
      <4> QED BY <4>3, <4>4
    <3> QED BY <1>3, <1>5, <2>1, <3>2, <3>3, <3>4, OneNode DEF NodeOK
  <2>4. CASE ~(Known(n) /\ nodes[n].connected /\ Empty(n) /\ nodes[n].fp.engine # call[n].to)
    <3>1. call'[n].pc = "none" /\ switching'[n] = Nil /\ queue' = queue
      BY <1>8, <2>4 DEF SwitchCounts, MemoryType, NoCall
    <3>2. ASSUME n \notin lapsed PROVE PendingOK(n)' /\ MarkedOK(n)'
      <4>1. PendingOK(n)'
        BY <1>1, <2>2, <3>1, <3>2 DEF PendingOK, Pending
      <4>2. MarkedOK(n)'
        BY <1>1, <2>1, <2>2, <3>1, <3>2 DEF MarkedOK, Known
      <4> QED BY <4>1, <4>2
    <3> QED BY <1>6, <2>1, <3>1, <3>2
  <2> QED BY <2>3, <2>4
<1>9. CASE SwitchTimesOut(n)
  <2>1. /\ call[n].pc = "asked" /\ call'[n].pc = "none" /\ switching' = switching /\ queue' = queue
        /\ lapsed' = lapsed
    BY <1>9 DEF SwitchTimesOut, MemoryType, NoCall
  <2>2. n \notin lapsed => PendingOK(n)' /\ MarkedOK(n)'
    BY <1>1, <1>4, <2>1 DEF NodeOK, PendingOK, MarkedOK, Pending, Known
  <2> QED BY <1>6, <2>1, <2>2
<1>10. CASE SwitchHoldOver(n)
  <2>1. /\ switching'[n] = Nil /\ call' = call /\ queue' = queue /\ call[n].pc = "none"
        /\ UnderWay(n) => n \in lapsed'
    BY <1>10 DEF SwitchHoldOver, MemoryType, NoCall
  <2>2. ASSUME n \notin lapsed' PROVE PendingOK(n)' /\ MarkedOK(n)'
    <3>1. ~Pending(n) /\ switching[n] # host[n].engine
      BY <2>1, <2>2 DEF UnderWay, Pending
    <3>2. MarkedOK(n)
      BY <1>1, <1>4, <2>2 DEF NodeOK
    <3>3. PendingOK(n)'
      BY <1>1, <2>1, <3>1 DEF PendingOK, Pending
    <3>4. MarkedOK(n)'
      BY <1>1, <2>1, <3>1, <3>2 DEF MarkedOK, Known
    <3> QED BY <3>3, <3>4
  <2> QED BY <1>6, <2>1, <2>2
<1> QED BY <1>7, <1>8, <1>9, <1>10 DEF Switch

\* On the node: a switch is refused while anything is there, and once it is
\* accepted nothing is started; the engine changes in the restart.
LEMMA NodeSwitch ==
  ASSUME TypesOK, SwitchInv, NEW n \in Nodes,
         \/ DriverLoses(n) \/ RunSwitch(n) \/ Restart(n)
         \/ \E s \in Sandboxes : RunCreate(n, s) \/ RunDestroy(n, s)
         \/ \E t \in Tags : RunBranch(n, t)
  PROVE  SwitchInv'
<1> USE DEF TypesOK, TypeInv, store, memory, onNode
<1>1. UNCHANGED <<rows, tags, joins, queue, lapsed, late>>
  BY DEF DriverLoses, RunSwitch, Restart, RunCreate, RunDestroy, RunBranch
<1>2. \A m \in Nodes : NoneNew(m)
  BY <1>1 DEF NoneNew
<1>3. \A m \in Nodes \ {n} : Apart(m)
  <2>1. UNCHANGED <<joins, queue>> /\ \A m \in Nodes \ {n} :
          /\ Known(m)' => /\ Known(m)
                          /\ nodes'[m].fp = nodes[m].fp
                          /\ nodes'[m].connected => nodes[m].connected
          /\ switching'[m] = switching[m] /\ call'[m] = call[m]
          /\ parked'[m] \in {Nil, parked[m]}
    BY DEF DriverLoses, RunSwitch, Answer, Restart, RunCreate, RunDestroy, RunBranch, Known,
           StoreType, MemoryType
  <2>2. \A m \in Nodes \ {n} : /\ host'[m] = host[m] /\ leaving'[m] = leaving[m]
                               /\ batch'[m] = batch[m] /\ held'[m] = held[m]
    BY DEF DriverLoses, RunSwitch, Restart, RunCreate, RunDestroy, RunBranch, NodeType
  <2> QED BY <2>1, <2>2 DEF Apart
<1>4. NodeOK(n) /\ ReportOK(n) /\ HeldOK(n) /\ TagsOK(n) /\ host[n].engine # Nil
  BY Nils DEF SwitchInv, NodeOK, NodeType
<1>5. ASSUME NodeOK(n)' PROVE SwitchInv'
  BY <1>2, <1>3, <1>5, OneNode
<1>6. CASE DriverLoses(n)
  <2>1. nodes[n] \in NodeRow
    BY <1>6 DEF DriverLoses, Known, StoreType
  <2>2. ~nodes'[n].connected
    BY <1>6, <2>1 DEF DriverLoses, StoreType, NodeRow
  <2>3. Apart(n)
    BY <1>6, <2>2 DEF DriverLoses, Apart, Known, StoreType, NodeRow
  <2> QED BY <1>2, <1>4, <1>5, <2>3, ApartOK
<1>7. CASE RunSwitch(n)
  <2>1. /\ batch[n].to # Nil /\ batch'[n].to = Nil /\ batch'[n].creates = {}
        /\ UNCHANGED <<nodes, parked, host, held>>
    BY <1>7 DEF RunSwitch, NodeType, Batch
  <2>2. ~Registering(n) /\ parked[n] = Nil
    BY <1>4, <2>1 DEF ReportOK, NoBatch
  <2>3. /\ leaving'[n] # Nil => \/ leaving'[n] = leaving[n]
                                \/ leaving'[n] = batch[n].to /\ leaving[n] = Nil /\ Bundles(n) = {}
    BY <1>7 DEF RunSwitch, NodeType
  <2>4. ReportOK(n)'
    BY <1>1, <1>4, <2>1, <2>2 DEF ReportOK, Registering
  <2>5. HeldOK(n)'
    BY <1>4, <2>1, <2>3 DEF HeldOK, Bundles, Known
  <2>6. Pending(n)
    BY <2>1 DEF Pending
  <2>7. TagsOK(n)'
    BY <1>1, <1>4, <2>1, <2>6 DEF TagsOK
  <2>8. ASSUME n \notin lapsed PROVE PendingOK(n)' /\ MarkedOK(n)' /\ RowsOK(n)'
    <3>1. PendingOK(n) /\ MarkedOK(n) /\ RowsOK(n)
      BY <1>4, <2>8 DEF NodeOK
    <3>2. /\ queue[n] = Nil /\ leaving[n] = Nil /\ batch[n].to = switching[n]
          /\ switching[n] # host[n].engine /\ call[n].pc # "marked"
      BY <2>1, <2>6, <3>1 DEF PendingOK
    <3>3. /\ call'[n].pc # "marked"
          /\ \/ leaving'[n] = batch[n].to /\ switching'[n] = switching[n]
             \/ leaving'[n] = Nil
      <4>1. call'[n].pc # "marked"
        BY <1>7, <3>2 DEF RunSwitch, Answer, MemoryType, NoCall
      <4>2. \/ leaving'[n] = batch[n].to /\ switching'[n] = switching[n]
            \/ leaving'[n] = Nil
        BY <1>7, <3>2 DEF RunSwitch, Answer, MemoryType, NodeType
      <4> QED BY <4>1, <4>2
    <3>4. PendingOK(n)'
      BY <1>1, <2>1, <3>2, <3>3 DEF PendingOK, Pending
    <3>5. MarkedOK(n)'
      BY <2>1, <3>1, <3>2, <3>3 DEF MarkedOK, Known
    <3>6. RowsOK(n)'
      BY <1>1, <2>6, <3>1 DEF RowsOK, OnBackend
    <3> QED BY <3>4, <3>5, <3>6
  <2> QED BY <1>1, <1>5, <2>4, <2>5, <2>7, <2>8 DEF NodeOK
<1>8. CASE Restart(n)
  <2>1. /\ batch'[n] = NoBatch /\ batch'[n].to = Nil /\ batch'[n].creates = {}
        /\ leaving'[n] = Nil /\ parked'[n] = Nil
        /\ UNCHANGED <<nodes, switching, call, held>>
    BY <1>8 DEF Restart, MemoryType, NodeType, Batch, NoBatch
  <2>2. \/ leaving[n] # Nil /\ host'[n].engine = leaving[n]
        \/ leaving[n] = Nil /\ host'[n].engine = host[n].engine
    BY <1>8 DEF Restart, NodeType, Fingerprint
  <2>3. leaving[n] # Nil => ~Registering(n) /\ Pending(n)
    BY <1>4 DEF ReportOK, Pending
  <2>4. Pending(n)' => Pending(n)
    BY <1>1, <2>1 DEF Pending
  <2>5. ReportOK(n)'
    BY <1>1, <1>4, <2>1, <2>2, <2>3 DEF ReportOK, Registering
  <2>6. HeldOK(n)'
    BY <1>4, <2>1, <2>2 DEF HeldOK, Known
  <2>7. TagsOK(n)'
    BY <1>1, <1>4, <2>2, <2>3, <2>4 DEF TagsOK
  <2>8. ASSUME n \notin lapsed PROVE PendingOK(n)' /\ MarkedOK(n)' /\ RowsOK(n)'
    <3>1. PendingOK(n) /\ MarkedOK(n) /\ RowsOK(n)
      BY <1>4, <2>8 DEF NodeOK
    <3>2. PendingOK(n)'
      BY <1>1, <2>1, <2>2, <3>1 DEF PendingOK, Pending
    <3>3. MarkedOK(n)'
      BY <2>1, <2>2, <2>3, <3>1 DEF MarkedOK, PendingOK, Known
    <3>4. RowsOK(n)'
      BY <1>1, <2>2, <2>3, <2>4, <3>1 DEF RowsOK, OnBackend
    <3> QED BY <3>2, <3>3, <3>4
  <2> QED BY <1>1, <1>5, <2>5, <2>6, <2>7, <2>8 DEF NodeOK
<1>9. ASSUME NEW s \in Sandboxes, RunCreate(n, s) \/ RunDestroy(n, s) PROVE SwitchInv'
  <2>1. /\ UNCHANGED <<nodes, switching, call, parked, host, leaving>>
        /\ batch'[n].to = batch[n].to /\ batch'[n].creates \subseteq batch[n].creates
        /\ batch[n] = NoBatch => batch'[n] = NoBatch
    <3>1. CASE RunCreate(n, s)
      BY <3>1 DEF RunCreate, NodeType, Batch, NoBatch
    <3>2. CASE RunDestroy(n, s)
      BY <3>2 DEF RunDestroy
    <3> QED BY <1>9, <3>1, <3>2
  <2>2. \A r \in Sandboxes :
          \/ held'[n][r] \in {Nil, held[n][r]}
          \/ held'[n][r] = host[n].engine /\ leaving[n] = Nil /\ batch[n].creates # {}
    BY <1>9 DEF RunCreate, RunDestroy, NodeType
  <2>3. ReportOK(n)'
    BY <1>1, <1>4, <2>1 DEF ReportOK, Registering
  <2>4. HeldOK(n)'
    BY <1>4, <2>1, <2>2 DEF HeldOK, Known
  <2>5. Pending(n)' <=> Pending(n)
    BY <1>1, <2>1 DEF Pending
  <2>6. TagsOK(n)'
    BY <1>1, <1>4, <2>1, <2>5 DEF TagsOK
  <2>7. n \notin lapsed => PendingOK(n)' /\ MarkedOK(n)' /\ RowsOK(n)'
    BY <1>1, <1>4, <2>1, <2>5 DEF NodeOK, PendingOK, MarkedOK, RowsOK, OnBackend, Known
  <2> QED BY <1>1, <1>5, <2>3, <2>4, <2>6, <2>7 DEF NodeOK
<1>10. ASSUME NEW t \in Tags, RunBranch(n, t) PROVE SwitchInv'
  <2>1. /\ UNCHANGED <<nodes, switching, call, parked, host, leaving, held>>
        /\ batch[n].bakes # {} /\ batch'[n].to = batch[n].to
        /\ batch'[n].creates = batch[n].creates
    BY <1>10 DEF RunBranch, NodeType, Batch
  <2>2. ~Registering(n) /\ parked[n] = Nil
    BY <1>4, <2>1 DEF ReportOK, NoBatch
  <2>3. ReportOK(n)' /\ HeldOK(n)'
    BY <1>1, <1>4, <2>1, <2>2 DEF ReportOK, Registering, HeldOK, Known
  <2>4. Pending(n)' <=> Pending(n)
    BY <1>1, <2>1 DEF Pending
  <2>5. TagsOK(n)'
    BY <1>1, <1>4, <2>1, <2>4 DEF TagsOK
  <2>6. n \notin lapsed => PendingOK(n)' /\ MarkedOK(n)' /\ RowsOK(n)'
    BY <1>1, <1>4, <2>1, <2>4 DEF NodeOK, PendingOK, MarkedOK, RowsOK, OnBackend, Known
  <2> QED BY <1>1, <1>5, <2>3, <2>5, <2>6 DEF NodeOK
<1> QED BY <1>6, <1>7, <1>8, <1>9, <1>10

\* Every step keeps what is known of the nodes.
LEMMA SwitchStep ==
  ASSUME TypesOK, TypesOK', KnownInv, SwitchInv, [Next]_vars PROVE SwitchInv'
<1> USE DEF store, memory, onNode
<1>1. CASE \/ UNCHANGED vars \/ AtRest
           \/ \E k \in Tokens : MintToken(k) \/ TokenExpires(k)
  <2>1. UNCHANGED <<nodes, rows, tags, memory, onNode, lapsed, late>>
    BY <1>1 DEF vars, AtRest, MintToken, TokenExpires
  <2>2. \A m \in Nodes : Apart(m) /\ NoneNew(m)
    BY <2>1 DEF Apart, NoneNew, Known
  <2> QED BY <2>2, ApartOK DEF SwitchInv
<1>2. CASE MasterRestarts
  <2> SUFFICES ASSUME NEW n \in Nodes PROVE NodeOK(n)'
    BY DEF SwitchInv
  <2>1. /\ joins'[n].pc = "none" /\ switching'[n] = Nil /\ call'[n].pc = "none"
        /\ queue'[n] = Nil /\ parked'[n] = Nil
        /\ UNCHANGED <<rows, tags, onNode, late>>
        /\ lapsed \subseteq lapsed' /\ (switching[n] # Nil /\ UnderWay(n) => n \in lapsed')
    BY <1>2 DEF MasterRestarts, NotJoining, NoCall
  <2>2. Known(n)' => ~nodes'[n].connected
    <3>1. Known(n)' => Known(n) /\ nodes'[n] = [nodes[n] EXCEPT !.connected = FALSE]
      BY <1>2 DEF MasterRestarts, Known
    <3>2. Known(n) => nodes[n] \in NodeRow
      BY DEF Known, TypesOK, TypeInv, StoreType
    <3> QED BY <3>1, <3>2 DEF NodeRow
  <2>3. NodeOK(n)
    BY DEF SwitchInv
  <2>4. Pending(n)' => Pending(n)
    BY <2>1 DEF Pending
  <2>5. ReportOK(n)' /\ HeldOK(n)' /\ TagsOK(n)'
    BY <2>1, <2>2, <2>3, <2>4 DEF NodeOK, ReportOK, Registering, HeldOK, TagsOK
  <2>6. ASSUME n \notin lapsed' PROVE PendingOK(n)' /\ MarkedOK(n)' /\ RowsOK(n)'
    <3>1. PendingOK(n) /\ RowsOK(n)
      BY <2>1, <2>3, <2>6 DEF NodeOK
    <3>2. ~Pending(n)
      BY <2>1, <2>6, <3>1 DEF PendingOK, Pending, UnderWay
    <3>3. PendingOK(n)'
      BY <2>1, <2>4, <3>2 DEF PendingOK, Pending
    <3>4. MarkedOK(n)'
      BY <2>1, <2>2 DEF MarkedOK
    <3>5. RowsOK(n)'
      BY <2>1, <2>4, <3>1 DEF RowsOK, OnBackend
    <3> QED BY <3>3, <3>4, <3>5
  <2> QED BY <2>5, <2>6 DEF NodeOK
<1>3. ASSUME NEW n \in Nodes, Join(n) \/ Create(n) \/ Switch(n) \/ Node(n) PROVE SwitchInv'
  BY <1>3, JoinSwitch, PlaceSwitch, CallSwitch, ReportSwitch, NodeSwitch DEF Node
<1>4. CASE \/ \E s \in Sandboxes, t \in Tags : Branch(t, s) \/ \E n \in Nodes : Fork(s, n, t)
           \/ \E s \in Sandboxes : Delete(s)
           \/ \E t \in Tags : GiveUp(t) \/ Record(t) \/ DeleteTag(t)
  BY <1>4, PlaceSwitch
<1> QED BY <1>1, <1>2, <1>3, <1>4 DEF Next

\* Nothing is under way at the start.
LEMMA SwitchInit == Init => SwitchInv
<1> SUFFICES ASSUME Init, NEW n \in Nodes PROVE NodeOK(n)
  BY DEF SwitchInv
<1>1. /\ ~Known(n) /\ ~Pending(n) /\ ~Registering(n) /\ parked[n] = Nil
      /\ queue[n] = Nil /\ batch[n].to = Nil /\ leaving[n] = Nil /\ call[n].pc = "none"
      /\ \A s \in Sandboxes : rows[s] = Nil /\ held[n][s] = Nil
      /\ \A t \in Tags : tags[t] = Nil
  BY DEF Init, Known, Pending, Registering, NotJoining, NoBatch, NoCall
<1> QED BY <1>1 DEF NodeOK, ReportOK, HeldOK, TagsOK, PendingOK, MarkedOK, RowsOK, OnBackend

(***************************************************************************)
(* Slots and ports.                                                        *)
(***************************************************************************)
\* The least-number principle, from the well-foundedness of < on Nat.
LEMMA Least ==
  ASSUME NEW S \in SUBSET Nat, S # {}
  PROVE  \E w \in S : \A v \in S : w <= v
<1> DEFINE R == {p \in Nat \X Nat : p[1] < p[2]}
<1>1. IsWellFoundedOn(R, Nat)
  BY NatLessThanWellFounded DEF OpToRel
<1>2. PICK w \in S : \A v \in S : <<v, w>> \notin R
  <2> HIDE DEF R
  <2> QED BY <1>1, WFMin
<1>3. \A v \in S : v \in Nat /\ w \in Nat
  OBVIOUS
<1>4. \A v \in S : ~(v < w)
  BY <1>2, <1>3
<1> QED BY <1>3, <1>4

\* allocate_slot: where the walk stops is in the range and is not used,
\* whatever the used ones are.  The first that is not used is lo or one past
\* a used one, so the walk stops there.
LEMMA SlotIsFree ==
  ASSUME NEW used, NEW lo \in Nat, NEW hi \in Nat, AllocateSlot(used, lo, hi) # Nil
  PROVE  AllocateSlot(used, lo, hi) \in (lo .. hi) \ used
<1> DEFINE taken == used \cap (lo .. hi)
           stops == ({lo} \cup {u + 1 : u \in taken}) \ taken
           free  == {w \in Nat : lo <= w /\ w \notin taken}
           want  == CHOOSE w \in stops : \A v \in stops : w <= v
<1>1. stops \subseteq free
  OBVIOUS
<1>2. lo + hi + 1 \in free
  OBVIOUS
<1>3. PICK w \in free : \A v \in free : w <= v
  <2>1. free \in SUBSET Nat
    OBVIOUS
  <2> HIDE DEF free
  <2> QED BY <1>2, <2>1, Least
<1>4. w \in stops
  <2>1. CASE w = lo
    BY <2>1
  <2>2. CASE w # lo
    <3>1. w - 1 \in Nat /\ lo <= w - 1 /\ w - 1 \notin free
      BY <2>2, <1>3
    <3>2. w - 1 \in taken /\ w = (w - 1) + 1
      BY <3>1
    <3> QED BY <3>2
  <2> QED BY <2>1, <2>2
<1>5. want \in free
  <2>1. want \in stops
    <3> HIDE DEF stops, free
    <3> QED BY <1>1, <1>3, <1>4
  <2> HIDE DEF stops, free, want
  <2> QED BY <1>1, <2>1
<1>6. want <= hi
  BY DEF AllocateSlot
<1> HIDE DEF want
<1>7. want \in (lo .. hi) \ used
  BY <1>5, <1>6
<1> QED BY <1>6, <1>7 DEF AllocateSlot, want

\* create_sandbox: a child shares its slot and its port with no sandbox of the
\* node, and with no child placed before it.
LEMMA PlacedFree ==
  ASSUME NEW n \in Nodes, NEW placed, Placed(n, placed) \in Place,
         NEW q \in placed \cup {rows[s] : s \in On(n)}
  PROVE  /\ Placed(n, placed).index # q.index
         /\ Placed(n, placed).port # q.port \/ q.port = Nil
<1> DEFINE there == placed \cup {rows[s] : s \in On(n)}
           slots == {p.index : p \in there}
           ports == {p.port : p \in there} \ {Nil}
           index == AllocateSlot(slots, 0, MaxIndex)
           port  == AllocateSlot(ports, 1, Ports)
<1>1. Placed(n, placed).index = index /\ Placed(n, placed).port = port
  BY DEF Placed
<1>2. index # Nil
  BY <1>1, FleetAssumption DEF Place
<1>3. q.index \in slots /\ (q.port # Nil => q.port \in ports)
  OBVIOUS
<1> HIDE DEF there, slots, ports
<1>4. index \notin slots
  BY <1>2, SlotIsFree, FleetAssumption
<1>5. port # Nil => port \notin ports
  BY SlotIsFree, FleetAssumption
<1> HIDE DEF index, port
<1> QED BY <1>1, <1>3, <1>4, <1>5

\* The transaction of create_sandbox gives no two rows one slot.
LEMMA InsertSlots ==
  ASSUME SlotsDistinct, NEW n \in Nodes, NEW children \in SUBSET Sandboxes, NEW asked,
         Insert(children, n, asked)
  PROVE  SlotsDistinct'
<1>1. PICK order \in Injection(children, 1 .. Cardinality(children)), at \in [children -> Place] :
        /\ \A s \in children :
             /\ rows[s] = Nil
             /\ at[s] = Placed(n, {at[r] : r \in {c \in children : order[c] < order[s]}})
        /\ rows' = [s \in Sandboxes |->
                      IF s \in children
                      THEN [node |-> n, index |-> at[s].index, port |-> at[s].port, asked |-> asked]
                      ELSE rows[s]]
  BY DEF Insert
<1> DEFINE Differ(p, q) == p.index # q.index /\ (p.port # q.port \/ q.port = Nil)
<1> DEFINE before(s) == {at[r] : r \in {c \in children : order[c] < order[s]}}
<1>2. ASSUME NEW s \in children
      PROVE  \A q \in before(s) \cup {rows[x] : x \in On(n)} : Differ(at[s], q)
  <2>1. at[s] = Placed(n, before(s)) /\ at[s] \in Place
    BY <1>1
  <2> HIDE DEF before
  <2>2. ASSUME NEW q \in before(s) \cup {rows[x] : x \in On(n)} PROVE Differ(at[s], q)
    BY <2>1, PlacedFree
  <2> QED BY <2>1, <2>2
<1>3. \A s \in children, x \in On(n) : Differ(at[s], rows[x])
  <2> HIDE DEF Differ, before
  <2> QED BY <1>2
<1>4. \A s, r \in children : order[r] < order[s] => Differ(at[s], at[r])
  <2>1. \A s, r \in children : order[r] < order[s] => at[r] \in before(s)
    OBVIOUS
  <2> HIDE DEF Differ, before
  <2> QED BY <1>2, <2>1
<1>5. \A s, r \in children : r # s => order[r] < order[s] \/ order[s] < order[r]
  <2>1. IsFiniteSet(children)
    BY FS_Subset, FleetAssumption
  <2>2. Cardinality(children) \in Nat
    BY <2>1, FS_CardinalityType
  <2>3. /\ order \in [children -> 1 .. Cardinality(children)]
        /\ \A s, r \in children : order[s] = order[r] => s = r
    BY DEF Injection, IsInjective
  <2>4. \A s \in children : order[s] \in Int
    BY <2>2, <2>3
  <2> QED BY <2>3, <2>4
<1>6. SUFFICES ASSUME NEW r \in Sandboxes, NEW s \in Sandboxes, r # s,
                      rows'[r] # Nil, rows'[s] # Nil, rows'[r].node = rows'[s].node
               PROVE  /\ rows'[r].index # rows'[s].index
                      /\ rows'[r].port # rows'[s].port \/ rows'[r].port = Nil
  BY DEF SlotsDistinct
<1>7. \A x \in children : rows'[x].node = n /\ rows'[x].index = at[x].index
                                           /\ rows'[x].port = at[x].port
  BY <1>1
<1>8. \A x \in Sandboxes \ children : rows'[x] = rows[x]
  BY <1>1
<1>9. CASE r \in children /\ s \in children
  BY <1>4, <1>5, <1>6, <1>7, <1>9
<1>10. CASE r \in children /\ s \notin children
  <2>1. s \in On(n)
    BY <1>6, <1>7, <1>8, <1>10 DEF On
  <2> QED BY <1>7, <1>8, <1>10, <1>3, <2>1
<1>11. CASE r \notin children /\ s \in children
  <2>1. r \in On(n)
    BY <1>6, <1>7, <1>8, <1>11 DEF On
  <2> QED BY <1>7, <1>8, <1>11, <1>3, <2>1
<1>12. CASE r \notin children /\ s \notin children
  BY <1>6, <1>8, <1>12 DEF SlotsDistinct
<1> QED BY <1>9, <1>10, <1>11, <1>12

\* No step gives two sandboxes of a node one slot: create inserts, delete takes
\* a row away, and nothing else changes the rows.
LEMMA SlotStep ==
  ASSUME TypesOK, SlotsDistinct, [Next]_vars PROVE SlotsDistinct'
<1>1. ASSUME rows' = rows PROVE SlotsDistinct'
  BY <1>1 DEF SlotsDistinct
<1>2. CASE UNCHANGED vars
  BY <1>1, <1>2 DEF vars, store
<1>3. ASSUME NEW n \in Nodes, Create(n) PROVE SlotsDistinct'
  BY <1>3, InsertSlots DEF Create, CreateInPool, CreateOnNode
<1>4. ASSUME NEW s \in Sandboxes, NEW t \in Tags, NEW n \in Nodes, Fork(s, n, t)
      PROVE  SlotsDistinct'
  BY <1>4, InsertSlots DEF Fork
<1>5. ASSUME NEW s \in Sandboxes, Delete(s) PROVE SlotsDistinct'
  <2>1. \A x \in Sandboxes : rows'[x] \in {Nil, rows[x]}
    BY <1>5 DEF Delete, TypesOK, TypeInv, StoreType
  <2> QED BY <2>1 DEF SlotsDistinct
<1>6. ASSUME NEW n \in Nodes, Join(n) \/ Switch(n) PROVE SlotsDistinct'
  BY <1>1, <1>6 DEF Join, Switch, Redeem, Hello, ChoosePool, Upsert, SetNodeCert, Revoke,
                   SwitchMarks, SwitchCounts, SwitchTimesOut, SwitchHoldOver, store
<1>7. ASSUME NEW n \in Nodes, Node(n) PROVE SlotsDistinct'
  BY <1>1, <1>7 DEF Node, Poll, Resume, DriverLoses, RunSwitch, Restart, RunCreate, RunDestroy,
                   RunBranch, store
<1>8. CASE \/ \E k \in Tokens : MintToken(k) \/ TokenExpires(k)
           \/ \E s \in Sandboxes, t \in Tags : Branch(t, s)
           \/ \E t \in Tags : GiveUp(t) \/ Record(t) \/ DeleteTag(t)
           \/ MasterRestarts
  BY <1>1, <1>8 DEF MintToken, TokenExpires, Branch, GiveUp, Record, DeleteTag, MasterRestarts,
                   store
<1>9. CASE AtRest
  BY <1>2, <1>9 DEF AtRest
<1> QED BY <1>2, <1>3, <1>4, <1>5, <1>6, <1>7, <1>8, <1>9 DEF Next

\* The inductive invariant of joins, pools and switches.
THEOREM FleetSafety == Spec => [](TypesOK /\ KnownInv /\ PoolInv /\ SwitchInv)
<1>1. Init => TypesOK /\ KnownInv /\ PoolInv /\ SwitchInv
  BY TypeInit, PoolInit, SwitchInit
<1>2. TypesOK /\ KnownInv /\ PoolInv /\ SwitchInv /\ [Next]_vars
        => (TypesOK /\ KnownInv /\ PoolInv /\ SwitchInv)'
  BY TypeStep, KnownStep, PoolStep, SwitchStep
<1> QED BY <1>1, <1>2, PTL DEF Spec

\* pool_for and refingerprint_node: the nodes of a pool have one fingerprint,
\* unless pools changed while a node was joining.
THEOREM PoolsStayPure == Spec => []PoolsPure
BY FleetSafety, PurePools, PTL

\* allocate_slot under the store's lock: two sandboxes of a node never share a
\* network slot or a gateway port.
THEOREM SlotsStayDistinct == Spec => []SlotsDistinct
<1>1. Init => SlotsDistinct
  BY DEF Init, SlotsDistinct
<1>2. TypesOK /\ SlotsDistinct /\ [Next]_vars => SlotsDistinct'
  BY SlotStep
<1> QED BY <1>1, <1>2, FleetSafety, PTL DEF Spec

\* switch.rs: nothing is left on a node in a format it cannot restore, but for
\* a tag recorded after a switch of its node was asked for.
THEOREM NoneStranded == Spec => []NothingStranded
<1>1. TypesOK /\ SwitchInv => NothingStranded
  <2> SUFFICES ASSUME TypesOK, SwitchInv PROVE NothingStranded
    OBVIOUS
  <2>1. \A t \in Tags : tags[t] # Nil => tags[t].node \in Nodes
    BY DEF TypesOK, TypeInv, StoreType
  <2> QED BY <2>1 DEF NothingStranded, SwitchInv, NodeOK, HeldOK, TagsOK
<1> QED BY <1>1, FleetSafety, PTL

\* set_node_backend and create: what was asked for on a backend runs on it,
\* unless its node was let back into placement with a switch under way, or was
\* asked for by name while it was being switched or away.
THEOREM BackendsHonoured == Spec => []BackendHonoured
<1>1. TypesOK /\ SwitchInv => BackendHonoured
  <2> SUFFICES ASSUME TypesOK, SwitchInv, NEW s \in Sandboxes, rows[s] # Nil,
                      rows[s].asked.engine # Nil, ~rows[s].asked.blind,
                      rows[s].node \notin lapsed
               PROVE  held[rows[s].node][s] \in {Nil, rows[s].asked.engine}
    BY DEF BackendHonoured
  <2>1. PICK n \in Nodes : n = rows[s].node
    BY DEF TypesOK, TypeInv, StoreType
  <2>2. RowsOK(n) /\ HeldOK(n) /\ OnBackend(s, n)
    BY <2>1 DEF SwitchInv, NodeOK, OnBackend
  <2> QED BY <2>1, <2>2 DEF RowsOK, HeldOK
<1> QED BY <1>1, FleetSafety, PTL
=============================================================================
