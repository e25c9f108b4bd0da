------------------------------ MODULE NodeNet ------------------------------
(***************************************************************************)
(* The network of one node: a namespace and a veth pair for each sandbox,  *)
(* the pool of namespaces built ahead of them, the egress and refusal      *)
(* rules, which go by address, and the gateway's listeners.                *)
(*                                                                         *)
(* The kernel is one record: what each namespace is called, and each host  *)
(* end (Ifs) with the namespace its peer is in, its addresses, whether it  *)
(* is up, and of the end inside its address and whether that is up.  A     *)
(* host end is called after the sandbox it was built for (sst..h), or      *)
(* after the namespace the pool built it with (sp..h), for good: a         *)
(* namespace that is used again keeps it.                                  *)
(*                                                                         *)
(* A slot of the master's plan stands for the address and for the gateway  *)
(* port.  The master hands one on as soon as a row is deleted, and in one  *)
(* batch a create comes before the destroy of the slot's last holder.      *)
(***************************************************************************)
EXTENDS Integers, Sequences, SequencesExt, FiniteSets, FiniteSetsExt

CONSTANTS
  Ids,        \* sandboxes, each created once
  Slots,      \* the /30s of the plan, and the ports
  Namespaces, \* enough for every sandbox and a full pool
  Targets,    \* netns_pool: 0 is no pool
  Rules,      \* what a sandbox may be allowed to reach
  Nil,
  Limits      \* how much of each Budget may be spent: any one of these

\* Bounds of TLC's runs: failures and deaths, tier changes, rules given or
\* changed, restarts of the node.
Budget == {"fault", "tier", "egress", "crash"}

ASSUME NetAssumption ==
  /\ Slots \subseteq Nat \ {0} /\ Namespaces \subseteq Nat /\ Targets \subseteq Nat
  /\ IsFiniteSet(Ids) /\ Ids \cap Namespaces = {} /\ Ids \cap {"pool", "dead"} = {}
  /\ Nil \notin Ids \cup Rules \cup Namespaces \cup Slots /\ Nil \notin {"pool", "dead"}
  /\ Limits \subseteq [Budget -> Nat]

Ifs  == Ids \cup Namespaces
Link == [in : Namespaces, addrs : SUBSET Slots, up : BOOLEAN,
         inner : Slots \cup {Nil}, open : BOOLEAN]
Have == [slot : Slots, rules : Rules]     \* what EgressRules notes of a sandbox

ASSUME NilAssumption == Nil \notin Link \cup Have

VARIABLES
  \* The master's rows: a slot, and what each sandbox may reach.
  row, wanted,
  \* The kernel, the machine's memory and the disk: these outlive the node.
  kernel,     \* [ns, ifs, tracked]
  names,      \* VETH_NAMES: the host end on record for each sandbox
  tier,       \* nothing, a bundle whose sandbox is dead, or a tier
  index,      \* net-index, in the bundle
  chain,      \* how often each address's rules are in the egress chain
  cold,       \* the addresses in the cold chain
  \* The node's memory.
  target, ready, retired,   \* the pool
  installed,  \* EgressRules: what each sandbox has, and for which address
  op, todo,   \* what holds each sandbox's lock, and what is left of its setup
  slot,       \* the slot it works on, while it does
  running,    \* the gateway's listeners, by sandbox
  due,        \* created in this batch, their listeners still to be opened
  \* History, and what has been spent of the bounds.
  astray,     \* "in place": a node with a pool has set a sandbox up without it;
              \* "late": a sandbox whose row has gone has been woken
  orphaned,   \* sandboxes left with a network when no bundle names them
  refused,    \* addresses refused by a change of tier that is under way or
              \* has failed, or whose refusal could not be lifted
  unheard,    \* sandboxes whose listener has still to be opened, could not
              \* be, or went with a restart
  spent

master == <<row, wanted>>
pool   == <<ready, retired>>
locks  == <<op, todo, slot>>
rules  == <<chain, installed>>
refusals == <<cold, refused>>
gateway == <<running, due, unheard>>
place  == <<tier, index>>
marks  == <<astray, orphaned>>
past   == <<astray, orphaned, spent>>
vars == <<row, wanted, kernel, names, tier, index, chain, cold, target, ready,
          retired, installed, op, todo, slot, running, due, astray, orphaned, refused,
          unheard, spent>>

Unborn == 0
Gone == -1
Dead(i) == tier[i] = "dead"
Observed(i) == tier[i] \in {"hot", "frozen", "snapshot"}
Wanted(i) == row[i] \in Slots
Creating == {i \in Ids : op[i] = "create"}

\* The node's loop is past a batch's creates: it reports, or does what comes
\* next.
Turn == Creating = {} /\ due = {}
Pooled == target > 0
Spend(b) ==
  /\ spent' = [spent EXCEPT ![b] = @ + 1]
  /\ \E l \in Limits : \A c \in Budget : spent'[c] <= l[c]

Init ==
  /\ row = [i \in Ids |-> Unborn] /\ wanted = [i \in Ids |-> Nil]
  /\ kernel = [ns |-> [n \in Namespaces |-> Nil], ifs |-> [f \in Ifs |-> Nil],
               tracked |-> [n \in Namespaces |-> {}]]
  /\ names = [i \in Ids |-> Nil]
  /\ tier = [i \in Ids |-> "none"] /\ index = [i \in Ids |-> Nil]
  /\ chain = [x \in Have |-> 0] /\ cold = {}
  /\ target \in Targets /\ ready = <<>> /\ retired = <<>>
  /\ installed = [i \in Ids |-> Nil]
  /\ op = [i \in Ids |-> "idle"] /\ todo = [i \in Ids |-> {}] /\ slot = [i \in Ids |-> Nil]
  /\ running = [i \in Ids |-> Nil] /\ due = {}
  /\ astray = {} /\ orphaned = {} /\ refused = {} /\ unheard = {}
  /\ spent = [b \in Budget |-> 0]

-----------------------------------------------------------------------------
(***************************************************************************)
(* The kernel's operations, as functions of the kernel's state.            *)
(***************************************************************************)
NoNs(k) == {n \in Namespaces : k.ns[n] = Nil}
NewNs(k) == CHOOSE n \in NoNs(k) : TRUE
NsOf(k, name) == {n \in Namespaces : k.ns[n] = name}
Holding(k, s) == {f \in Ifs : k.ifs[f] # Nil /\ s \in k.ifs[f].addrs}

\* ip link del: both ends go.
DelLinks(k, F) == [k EXCEPT !.ifs = [f \in Ifs |-> IF f \in F THEN Nil ELSE @[f]]]

\* ip netns del: the peer goes with the namespace, and the host end with it.
DelNs(k, N) ==
  [DelLinks(k, {f \in Ifs : k.ifs[f] # Nil /\ k.ifs[f].in \in N}) EXCEPT
     !.ns = [n \in Namespaces |-> IF n \in N THEN Nil ELSE @[n]],
     !.tracked = [n \in Namespaces |-> IF n \in N THEN {} ELSE @[n]]]

AddNs(k, n, name) == [k EXCEPT !.ns[n] = name]

AddVeth(k, f, n) ==
  [k EXCEPT !.ifs[f] = [in |-> n, addrs |-> {}, up |-> FALSE, inner |-> Nil, open |-> FALSE]]

\* rename_netns.
Rename(k, n, name) == [k EXCEPT !.ns[n] = name]

\* A sandbox that runs has connections tracked in its namespace.
Tracking(k, i) ==
  [k EXCEPT !.tracked = [n \in Namespaces |-> IF n \in NsOf(k, i) THEN @[n] \cup {i} ELSE @[n]]]

\* ifconf::down takes the connected route; the address stays.
Down(k, f) == IF k.ifs[f] = Nil THEN k ELSE [k EXCEPT !.ifs[f].up = FALSE]

-----------------------------------------------------------------------------
(***************************************************************************)
(* Setting a sandbox's network up and taking it down.                      *)
(***************************************************************************)
\* named: the host end on record, or the sandbox's own.
HostIf(i) == IF names[i] = Nil THEN i ELSE names[i]

Blank(n, f) == [ns |-> n, host |-> f]

\* claim, as far as the namespace's name and the record of its interfaces.
Claim(i) ==
  LET b == Last(ready) IN
  /\ Pooled /\ NsOf(kernel, i) = {} /\ ready # <<>>
  /\ ready' = Front(ready)
  /\ kernel' = Rename(kernel, b.ns, i)
  /\ names' = [names EXCEPT ![i] = b.host]
  /\ todo' = [todo EXCEPT ![i] = {"address", "egress", "pooled"}]
  /\ UNCHANGED <<retired, astray>>

\* Building in place: the namespace if there is none, the veth if none has
\* its name.
Built(k, i, f) ==
  LET k1 == IF NsOf(k, i) # {} THEN k ELSE AddNs(k, NewNs(k), i)
      n  == CHOOSE m \in NsOf(k1, i) : TRUE
  IN IF k.ifs[f] # Nil THEN k1 ELSE AddVeth(k1, f, n)

Strays == astray' = astray \cup {way \in {"in place"} : Pooled}

\* The pool is empty, there is none, or the sandbox has its namespace.
Build(i) ==
  /\ NsOf(kernel, i) = {} => NoNs(kernel) # {} /\ (Pooled => ready = <<>>)
  /\ Strays
  /\ kernel' = Built(kernel, i, HostIf(i))
  /\ todo' = [todo EXCEPT ![i] = {"address", "egress"}]
  /\ UNCHANGED <<ready, retired, names>>

\* A claim that fails is cleaned up after, and the namespace built in place.
ClaimFails(i) ==
  LET b == Last(ready)
      k == DelLinks(DelNs(kernel, {b.ns}), {b.host})
  IN /\ Pooled /\ NsOf(kernel, i) = {} /\ ready # <<>>
     /\ ready' = Front(ready)
     /\ names' = [names EXCEPT ![i] = Nil]
     /\ kernel' = Built(k, i, HostIf(i))
     /\ todo' = [todo EXCEPT ![i] = {"address", "egress"}]
     /\ Strays
     /\ UNCHANGED retired

Setup(i) ==
  /\ UNCHANGED orphaned
  /\ \/ (Claim(i) \/ Build(i)) /\ UNCHANGED spent
     \/ ClaimFails(i) /\ Spend("fault")

\* Mutant: a veth left behind is not looked for.
HoldersNone(k, i, s) == {}

\* Interfaces other than its own that hold a slot: in place they are found by
\* address and an sst name, from the pool by route and either name.
Holders(k, i, s) ==
  IF "pooled" \in todo[i]
  THEN {f \in Holding(k, s) \ {HostIf(i)} : k.ifs[f].up}
  ELSE (Holding(k, s) \cap Ids) \ {HostIf(i)}

\* The two ends addressed and brought up.  In place an address is added to
\* the ones there are, from the pool it replaces them; in place the inner end
\* is looked for in the sandbox's own namespace.
Addressed(k, i, s) ==
  LET f == HostIf(i)
      l == k.ifs[f]
      outer == [l EXCEPT !.up = TRUE,
                         !.addrs = IF "pooled" \in todo[i] THEN {s} ELSE @ \cup {s}]
      own == l.in \in NsOf(k, i)
  IN IF l = Nil THEN k
     ELSE [k EXCEPT !.ifs[f] = IF own THEN [outer EXCEPT !.inner = s, !.open = TRUE] ELSE outer]

\* The rest of setup, on a thread of its own for a claim: what holds the slot
\* is removed, and the ends addressed.  Without its veth it fails, and with
\* it what it was for.
Address(i) ==
  LET s == slot[i]
      k == DelLinks(kernel, Holders(kernel, i, s))
      k1 == Addressed(k, i, s)
      ok == k.ifs[HostIf(i)] # Nil /\ k.ifs[HostIf(i)].in \in NsOf(k, i)
  IN /\ "address" \in todo[i]
     /\ kernel' = k1
     /\ todo' = [todo EXCEPT ![i] = IF ok /\ "failed" \notin @ THEN @ \ {"address"} ELSE {}]
     /\ op' = [op EXCEPT ![i] = IF ok /\ "failed" \notin todo[i] THEN @ ELSE "idle"]
     /\ astray' = astray \cup (IF op[i] = "wake" /\ ~Wanted(i) THEN {"late"} ELSE {})
     /\ slot' = [slot EXCEPT ![i] = IF op'[i] = "idle" THEN Nil ELSE @]
     /\ orphaned' = orphaned \cup {j \in {i} : op'[i] = "idle" /\ tier[i] = "none"}
     /\ UNCHANGED <<master, names, place, rules, refusals, target, pool, gateway, spent>>

\* quiesce.
Quiesced(k, i) == IF NsOf(k, i) = {} THEN k ELSE Down(k, HostIf(i))

\* teardown, release: the record goes first; with a pool the namespace is
\* retired, its host end down; otherwise both are deleted.
Teardown(i) ==
  LET f == HostIf(i)
      N == NsOf(kernel, i)
      retire == Pooled /\ kernel.ifs[f] # Nil
  IN /\ names' = [names EXCEPT ![i] = Nil]
     /\ UNCHANGED ready
     /\ \/ N = {} /\ UNCHANGED <<kernel, retired>>
        \/ /\ N # {} /\ retire
           /\ \E n \in N : /\ kernel' = Rename(Down(kernel, f), n, "dead")
                          /\ retired' = Append(retired, Blank(n, f))
        \/ /\ N # {} /\ ~retire
           /\ kernel' = DelLinks(DelNs(kernel, N), {f})
           /\ UNCHANGED retired

-----------------------------------------------------------------------------
(***************************************************************************)
(* The pool's thread.                                                      *)
(***************************************************************************)
Low == Len(ready) < Max({target \div 4, 2})

\* Mutant: the connections tracked in a namespace are left.
ScrubbedHalf(k, b) == [k EXCEPT !.ifs[b.host].open = FALSE]

\* scrub: the inner end down, which takes its routes but not its address, and
\* conntrack emptied.
Scrubbed(k, b) == [k EXCEPT !.ifs[b.host].open = FALSE, !.tracked[b.ns] = {}]

\* A retired namespace is a blank again, or is deleted if it cannot be.
Recycle ==
  LET b == Last(retired)
      l == kernel.ifs[b.host]
      ok == l # Nil /\ l.in = b.ns
  IN /\ Pooled /\ Len(ready) < target /\ retired # <<>>
     /\ retired' = Front(retired)
     /\ \/ /\ ok
           /\ kernel' = Rename(Scrubbed(kernel, b), b.ns, "pool")
           /\ ready' = Append(ready, b)
        \/ /\ ~ok
           /\ kernel' = DelLinks(DelNs(kernel, {b.ns}), {b.host})
           /\ UNCHANGED ready
     /\ UNCHANGED <<master, names, place, rules, refusals, target, locks, gateway, past>>

\* With the pool full and not low, a retired one is deleted.
RemoveRetired ==
  LET b == Last(retired)
  IN /\ Pooled /\ Len(ready) >= target /\ retired # <<>> /\ ~Low
     /\ retired' = Front(retired)
     /\ kernel' = DelLinks(DelNs(kernel, {b.ns}), {b.host})
     /\ UNCHANGED <<master, names, place, rules, refusals, target, ready, locks, gateway, past>>

\* One is built when there is none to use again.
FillBuild ==
  LET n == NewNs(kernel)
  IN /\ Pooled /\ Len(ready) < target /\ retired = <<>> /\ NoNs(kernel) # {}
     /\ kernel' = AddVeth(AddNs(kernel, n, "pool"), n, n)
     /\ ready' = Append(ready, Blank(n, n))
     /\ UNCHANGED <<master, names, place, rules, refusals, target, retired, locks, gateway, past>>

Fill == Recycle \/ RemoveRetired \/ FillBuild

-----------------------------------------------------------------------------
(***************************************************************************)
(* Egress rules, by address.                                               *)
(***************************************************************************)
Count(have, x) == IF have = x THEN 1 ELSE 0

\* egress_script and restore: one transaction from the old rules to the new.
Swapped(have, want) ==
  [x \in Have |-> chain[x] - Count(have, x) + Count(want, x)]

Want(s, r) == IF r = Nil THEN Nil ELSE [slot |-> s, rules |-> r]

\* Mutant: what is installed already is forgotten, not replaced.
EgressSetAnew(i, want) ==
  /\ chain' = Swapped(Nil, want)
  /\ installed' = [installed EXCEPT ![i] = want]

\* EgressRules::set, and clear with nothing wanted.
EgressSet(i, want) ==
  /\ chain' = Swapped(installed[i], want)
  /\ installed' = [installed EXCEPT ![i] = want]

-----------------------------------------------------------------------------
(***************************************************************************)
(* The gateway.                                                            *)
(***************************************************************************)
Exposed(i) == Observed(i) /\ index[i] # Nil

\* Whatever has the port now is on its way out.
Opened(i) ==
  [j \in Ids |-> IF j = i THEN index[i] ELSE IF running[j] = index[i] THEN Nil ELSE running[j]]

\* expose_created, expose: a batch's creates have their listeners opened once
\* all of them have run; a port that cannot be bound is logged.
Expose(i) ==
  /\ i \in due /\ Creating = {}
  /\ due' = due \ {i}
  /\ \/ /\ running' = IF running[i] # Nil THEN running ELSE Opened(i)
        /\ unheard' = unheard \ {i}
        /\ UNCHANGED spent
     \/ /\ running[i] = Nil /\ Spend("fault")
        /\ running' = [Opened(i) EXCEPT ![i] = Nil]
        /\ UNCHANGED unheard
  /\ UNCHANGED <<master, kernel, names, place, rules, refusals, target, pool, locks, marks>>

\* reconcile: stale listeners go, then each wanted one is opened whose port
\* is free and can be bound; of two that want one port, the first reported.
Reconciled(r) ==
  LET kept == [i \in Ids |-> IF Exposed(i) /\ running[i] = index[i] THEN running[i] ELSE Nil]
      free(i) == \A j \in Ids : kept[j] # index[i]
  IN /\ \A i \in Ids : r[i] \in {kept[i]} \cup (IF Exposed(i) /\ free(i) THEN {index[i]} ELSE {})
     /\ \A i \in Ids : kept[i] # Nil => r[i] = kept[i]
     /\ \A i, j \in Ids : r[i] = r[j] /\ r[i] # Nil => i = j

Report ==
  \E r \in [Ids -> Slots \cup {Nil}] :
    /\ Turn /\ Reconciled(r)
    /\ r # running /\ running' = r
    /\ unheard' = {i \in unheard : r[i] = Nil}
    /\ UNCHANGED <<due, master, kernel, names, place, rules, refusals, target, pool, locks, past>>

-----------------------------------------------------------------------------
(***************************************************************************)
(* What the master asks for.                                               *)
(***************************************************************************)
Used == {row[i] : i \in Ids}

RowCreated(i, r) ==
  /\ row[i] = Unborn
  /\ IF r = Nil THEN UNCHANGED spent ELSE Spend("egress")
  /\ \E s \in Slots \ Used : /\ \A t \in Slots \ Used : s <= t
                             /\ row' = [row EXCEPT ![i] = s]
  /\ wanted' = [wanted EXCEPT ![i] = r]
  /\ UNCHANGED <<kernel, names, place, rules, refusals, target, pool, locks, gateway, marks>>

RowEgress(i, r) ==
  /\ Wanted(i) /\ wanted[i] # r /\ Spend("egress")
  /\ wanted' = [wanted EXCEPT ![i] = r]
  /\ UNCHANGED <<row, kernel, names, place, rules, refusals, target, pool, locks, gateway, marks>>

RowDeleted(i) ==
  /\ Wanted(i) /\ row' = [row EXCEPT ![i] = Gone]
  /\ UNCHANGED <<wanted, kernel, names, place, rules, refusals, target, pool, locks, gateway, past>>

-----------------------------------------------------------------------------
(***************************************************************************)
(* Create.                                                                 *)
(***************************************************************************)
\* The creates of a batch run together; one batch has a slot once, and the
\* next is asked for when it is done.
Create(i) ==
  /\ Wanted(i) /\ ~Observed(i) /\ op[i] = "idle"
  /\ \A j \in Creating : slot[j] # row[i]
  /\ \A j \in due : index[j] # row[i]
  /\ Setup(i)
  /\ op' = [op EXCEPT ![i] = "create"] /\ slot' = [slot EXCEPT ![i] = row[i]]
  /\ UNCHANGED <<master, place, rules, refusals, target, gateway>>

\* Its rules, and then its index on record.  What fails here waits for the
\* thread that addresses the veth, and fails the create.
CreateEgress(i) ==
  /\ op[i] = "create" /\ "egress" \in todo[i] /\ "failed" \notin todo[i]
  /\ "address" \in todo[i] => "pooled" \in todo[i]
  /\ \/ /\ EgressSet(i, Want(slot[i], wanted[i]))
        /\ index' = [index EXCEPT ![i] = slot[i]]
        /\ tier' = [tier EXCEPT ![i] = "dead"]
        /\ todo' = [todo EXCEPT ![i] = @ \ {"egress"}]
        /\ UNCHANGED <<op, past>>
     \/ /\ Spend("fault") /\ orphaned' = orphaned \cup {i}
        /\ IF "address" \in todo[i]
           THEN todo' = [todo EXCEPT ![i] = @ \cup {"failed"}] /\ UNCHANGED op
           ELSE todo' = [todo EXCEPT ![i] = {}] /\ op' = [op EXCEPT ![i] = "idle"]
        /\ UNCHANGED <<rules, place, astray>>
  /\ slot' = [slot EXCEPT ![i] = IF op'[i] = "idle" THEN Nil ELSE @]
  /\ UNCHANGED <<master, kernel, names, refusals, target, pool, gateway>>

\* accept_connections: a failure is only logged.
Accept(s) ==
  \/ cold' = cold \ {s} /\ refused' = refused \ {s}
  \/ s \in cold /\ UNCHANGED cold /\ refused' = refused \cup {s}

Refuse(s) == cold' = cold \cup {s}

\* The engine starts it, or does not.
Start(i) ==
  /\ op[i] = "create" /\ todo[i] \subseteq {"pooled"}
  /\ op' = [op EXCEPT ![i] = "idle"] /\ todo' = [todo EXCEPT ![i] = {}]
  /\ slot' = [slot EXCEPT ![i] = Nil]
  /\ \/ /\ tier' = [tier EXCEPT ![i] = "hot"]
        /\ kernel' = Tracking(kernel, i)
        /\ Accept(index[i])
        /\ due' = due \cup {i} /\ unheard' = unheard \cup {i}
        /\ UNCHANGED spent
     \/ /\ Spend("fault")
        /\ UNCHANGED <<tier, kernel, refusals, due, unheard>>
  /\ UNCHANGED <<master, names, index, rules, target, pool, running, marks>>

-----------------------------------------------------------------------------
(***************************************************************************)
(* Tiers, and egress changed while a sandbox is there.                     *)
(***************************************************************************)
SetEgress(i) ==
  /\ Wanted(i) /\ Observed(i) /\ op[i] = "idle" /\ Turn
  /\ installed[i] # Want(index[i], wanted[i])
  /\ EgressSet(i, Want(index[i], wanted[i]))
  /\ UNCHANGED <<master, kernel, names, place, refusals, target, pool, locks, gateway, past>>

\* A tier the master asks for: its batch is older than any create of a
\* sandbox that has the slot next.
Asked(i) ==
  /\ op[i] = "idle" /\ Turn
  /\ \A j \in Ids \ {i} : row[j] = index[i] => tier[j] = "none" /\ op[j] = "idle"

\* set_tier refuses first and lifts the refusal only where it arrives: a step
\* that fails leaves it.
Freeze(i) ==
  /\ tier[i] = "hot" /\ Asked(i) /\ Spend("tier")
  /\ Refuse(index[i])
  /\ \/ tier' = [tier EXCEPT ![i] = "frozen"] /\ UNCHANGED refused
     \/ UNCHANGED tier /\ refused' = refused \cup {index[i]}
  /\ UNCHANGED <<master, kernel, names, index, rules, target, pool, locks, gateway,
                 marks>>

Thaw(i) ==
  /\ tier[i] = "frozen" /\ op[i] = "idle"
  /\ tier' = [tier EXCEPT ![i] = "hot"]
  /\ Accept(index[i])
  /\ UNCHANGED <<master, kernel, names, index, rules, target, pool, locks, gateway, past>>

\* A request to a sandbox that refuses it: found hot, it is let through.
Requested(i) ==
  /\ tier[i] = "hot" /\ op[i] = "idle" /\ running[i] # Nil /\ index[i] \in cold
  /\ Accept(index[i])
  /\ UNCHANGED <<master, kernel, names, place, rules, target, pool, locks, gateway, past>>

\* To Snapshot, for the master or for the room.
Checkpoint(i) ==
  /\ tier[i] \in {"hot", "frozen"} /\ op[i] = "idle" /\ Spend("tier")
  /\ Refuse(index[i]) /\ refused' = refused \cup {index[i]}
  /\ op' = [op EXCEPT ![i] = "put"]
  /\ UNCHANGED <<master, kernel, names, place, rules, target, pool, todo, slot, gateway,
                 marks>>

\* With the image written the network is released.
Snapshot(i) ==
  /\ op[i] = "put" /\ op' = [op EXCEPT ![i] = "idle"]
  /\ tier' = [tier EXCEPT ![i] = "snapshot"]
  /\ Teardown(i)
  /\ Accept(index[i])
  /\ UNCHANGED <<master, index, rules, target, todo, slot, gateway, past>>

\* The thaw before the image fails, or the image, which may have been the end
\* of it; or the release does, with the image there.
SnapshotFails(i) ==
  /\ op[i] = "put" /\ op' = [op EXCEPT ![i] = "idle"]
  /\ \E t \in {tier[i], "hot", "snapshot", "dead"} : tier' = [tier EXCEPT ![i] = t]
  /\ UNCHANGED <<master, kernel, names, index, rules, refusals, target, pool, todo, slot,
                 gateway, past>>

\* restore: ensure_net, the whole of setup, and then the engine.
Wake(i) ==
  /\ tier[i] = "snapshot" /\ op[i] = "idle"
  /\ Setup(i)
  /\ op' = [op EXCEPT ![i] = "wake"] /\ slot' = [slot EXCEPT ![i] = index[i]]
  /\ UNCHANGED <<master, place, rules, refusals, target, gateway>>

\* A restore that fails leaves the network up.
Woken(i) ==
  /\ op[i] = "wake" /\ "address" \notin todo[i]
  /\ op' = [op EXCEPT ![i] = "idle"] /\ todo' = [todo EXCEPT ![i] = {}]
  /\ slot' = [slot EXCEPT ![i] = Nil]
  /\ \/ /\ tier' = [tier EXCEPT ![i] = "hot"]
        /\ kernel' = Tracking(kernel, i)
        /\ Accept(index[i])
     \/ UNCHANGED <<tier, kernel, refusals>>
  /\ UNCHANGED <<master, names, index, rules, target, pool, gateway, past>>

\* To Detached: refused first, while the bundle says the address.  The archive
\* may fail; so may the clearing of the rules, with the bundle gone.
Detach(i) ==
  /\ tier[i] = "snapshot" /\ Asked(i)
  /\ Refuse(index[i])
  /\ \/ /\ tier' = [tier EXCEPT ![i] = "none"] /\ index' = [index EXCEPT ![i] = Nil]
        /\ \/ /\ EgressSet(i, Nil)
              /\ orphaned' = orphaned \cup {j \in {i} : NsOf(kernel, i) # {}}
           \/ installed[i] # Nil /\ orphaned' = orphaned \cup {i} /\ UNCHANGED rules
     \/ UNCHANGED <<place, rules, orphaned>>
  /\ UNCHANGED <<master, kernel, names, target, pool, locks, gateway, refused, astray, spent>>

-----------------------------------------------------------------------------
(***************************************************************************)
(* Destroy, on a thread of its own once the address is freed.              *)
(***************************************************************************)
Destroy(i) ==
  /\ ~Wanted(i) /\ Observed(i) /\ op[i] = "idle" /\ Turn
  /\ kernel' = Quiesced(kernel, i)
  /\ op' = [op EXCEPT ![i] = "kill"] /\ slot' = [slot EXCEPT ![i] = index[i]]
  /\ UNCHANGED <<master, names, place, rules, refusals, target, pool, todo, gateway, past>>

\* reap_dead: what the master cannot ask for is cleared away the same way,
\* but for the freeing of the address.
Reap(i) ==
  /\ Dead(i) /\ op[i] = "idle" /\ Turn
  /\ op' = [op EXCEPT ![i] = "kill"] /\ slot' = [slot EXCEPT ![i] = index[i]]
  /\ UNCHANGED <<master, kernel, names, place, rules, refusals, target, pool, todo, gateway, past>>

\* destroy: the engine's part, and the bundle last.
DestroyKill(i) ==
  /\ op[i] = "kill"
  /\ tier' = [tier EXCEPT ![i] = "none"] /\ index' = [index EXCEPT ![i] = Nil]
  /\ op' = [op EXCEPT ![i] = "clear"]
  /\ UNCHANGED <<master, kernel, names, rules, refusals, target, pool, todo, slot, gateway, past>>

\* The rules go, or the destroy ends here.
DestroyClear(i) ==
  /\ op[i] = "clear"
  /\ \/ EgressSet(i, Nil) /\ op' = [op EXCEPT ![i] = "teardown"] /\ UNCHANGED past
     \/ /\ installed[i] # Nil /\ Spend("fault") /\ orphaned' = orphaned \cup {i}
        /\ op' = [op EXCEPT ![i] = "idle"]
        /\ UNCHANGED <<rules, astray>>
  /\ slot' = [slot EXCEPT ![i] = IF op'[i] = "idle" THEN Nil ELSE @]
  /\ UNCHANGED <<master, kernel, names, place, refusals, target, pool, todo, gateway>>

DestroyTeardown(i) ==
  /\ op[i] = "teardown"
  /\ Teardown(i)
  /\ Accept(slot[i])
  /\ op' = [op EXCEPT ![i] = "idle"] /\ slot' = [slot EXCEPT ![i] = Nil]
  /\ UNCHANGED <<master, place, rules, target, todo, gateway, past>>

-----------------------------------------------------------------------------
(***************************************************************************)
(* Faults: a sandbox's process dies; the node restarts.                    *)
(***************************************************************************)
Die(i) ==
  /\ tier[i] \in {"hot", "frozen"} /\ op[i] = "idle" /\ Spend("fault")
  /\ tier' = [tier EXCEPT ![i] = "dead"]
  /\ UNCHANGED <<master, kernel, names, index, rules, refusals, target, pool, locks, gateway,
                 marks>>

\* Mutant: the pool starts without removing what the last run left.
CrashKeepsPool ==
  /\ Spend("crash")
  /\ ready' = <<>> /\ retired' = <<>>
  /\ chain' = [x \in Have |-> 0] /\ cold' = {}
  /\ installed' = [i \in Ids |-> Nil]
  /\ op' = [i \in Ids |-> "idle"] /\ todo' = [i \in Ids |-> {}] /\ slot' = [i \in Ids |-> Nil]
  /\ running' = [i \in Ids |-> Nil] /\ due' = {} /\ refused' = {} /\ unheard' = Ids
  /\ UNCHANGED <<master, kernel, names, place, target, marks>>

\* The chains start empty, the pool without what the last run left, and
\* nothing is listening.  Sandboxes and namespaces stay.
Crash ==
  /\ Spend("crash")
  /\ kernel' = DelNs(kernel, NsOf(kernel, "pool") \cup NsOf(kernel, "dead"))
  /\ ready' = <<>> /\ retired' = <<>>
  /\ chain' = [x \in Have |-> 0] /\ cold' = {}
  /\ installed' = [i \in Ids |-> Nil]
  /\ op' = [i \in Ids |-> "idle"] /\ todo' = [i \in Ids |-> {}] /\ slot' = [i \in Ids |-> Nil]
  /\ running' = [i \in Ids |-> Nil] /\ due' = {} /\ refused' = {} /\ unheard' = Ids
  /\ orphaned' = orphaned \cup {i \in Ids : op[i] # "idle" /\ tier[i] = "none"}
  /\ UNCHANGED <<master, names, place, target, astray>>

-----------------------------------------------------------------------------
Kernel(i) == Address(i) \/ CreateEgress(i) \/ Start(i) \/ Expose(i)
           \/ Snapshot(i) \/ SnapshotFails(i) \/ Woken(i)
           \/ DestroyKill(i) \/ DestroyClear(i) \/ DestroyTeardown(i)

Loop(i) == Create(i) \/ SetEgress(i) \/ Destroy(i) \/ Reap(i)

\* Nothing under way: every lock is free.
AtRest == (\A i \in Ids : op[i] = "idle") /\ UNCHANGED vars

Next ==
  \/ \E i \in Ids : \/ \E r \in Rules \cup {Nil} : RowCreated(i, r) \/ RowEgress(i, r)
                    \/ RowDeleted(i) \/ Kernel(i) \/ Loop(i)
                    \/ Freeze(i) \/ Thaw(i) \/ Requested(i) \/ Checkpoint(i) \/ Wake(i)
                    \/ Detach(i) \/ Die(i)
  \/ Fill \/ Report \/ Crash \/ AtRest

Spec == Init /\ [][Next]_vars

-----------------------------------------------------------------------------
(***************************************************************************)
(* Properties.                                                             *)
(***************************************************************************)
Serving(i) == tier[i] = "hot" /\ op[i] = "idle" /\ Wanted(i)

\* The host end on record is up, its peer is up in the sandbox's namespace with
\* the sandbox's address, and no other interface that is up has it.
Reaches(i) ==
  LET l == kernel.ifs[HostIf(i)]
  IN /\ l # Nil /\ l.in \in NsOf(kernel, i) /\ l.up /\ index[i] \in l.addrs
     /\ l.open /\ l.inner = index[i]
     /\ \A f \in Holding(kernel, index[i]) \ {HostIf(i)} : ~kernel.ifs[f].up

(***************************************************************************)
(* A sandbox that runs and is wanted is reached at its address, whatever   *)
(* is left of the slot's last holder and however far its destroy has got:  *)
(* setup and claim remove what holds the slot, quiesce and teardown let it *)
(* go, and accept_connections lifts the refusal.  No one else's create,    *)
(* change of tier or report takes its listener (expose, reconcile).        *)
(* Excepted: the veth, once a node with a pool has set a sandbox up        *)
(* without it or a sandbox whose row has gone has been woken; the refusal, *)
(* where a change of tier at the address is under way, or has failed and   *)
(* left it (set_tier), or lifting it has; the listener, until the batch's  *)
(* creates are done, and when its port could not be bound or the node has  *)
(* restarted, until a report opens it.                                     *)
(***************************************************************************)
Reached ==
  \A i \in Ids : Serving(i) =>
    /\ astray = {} => Reaches(i)
    /\ index[i] \in cold => index[i] \in refused
    /\ i \notin unheard => running[i] = index[i]

(***************************************************************************)
(* What the node says is installed is what is in the kernel's chain, and   *)
(* every rule there is of a sandbox that is on the node or being worked    *)
(* on, unless clearing it away has failed (orphaned).  Rules at an address *)
(* that is another's now are those of a sandbox deleted since, which the   *)
(* next holder does inherit while that one's destroy has not got to them   *)
(* (EgressRules, install_rules, destroy_with_net).                         *)
(***************************************************************************)
EgressOwned ==
  /\ \A x \in Have : chain[x] = Cardinality({i \in Ids : installed[i] = x})
  /\ \A i \in Ids \ orphaned : installed[i] # Nil => tier[i] # "none" \/ op[i] # "idle"
  /\ \A i \in Ids : \A j \in Ids \ {i} :
       installed[i] # Nil /\ Wanted(j) /\ installed[i].slot = row[j] => row[i] = Gone

(***************************************************************************)
(* A namespace ready to be claimed carries nothing live of the sandbox     *)
(* that had it: no connection, both ends of its veth down, whatever        *)
(* address the one inside still has, and no record of a sandbox names its  *)
(* interface (Pool::retire, recycle, take, start).                         *)
(***************************************************************************)
PoolBlank ==
  \A b \in Range(ready) :
    /\ kernel.ns[b.ns] = "pool" /\ kernel.tracked[b.ns] = {}
    /\ LET l == kernel.ifs[b.host]
       IN astray = {} => /\ l # Nil /\ l.in = b.ns /\ ~l.up /\ ~l.open
                         /\ \A i \in Ids : names[i] # b.host

(***************************************************************************)
(* A sandbox that has been destroyed, or has died and been cleared away,   *)
(* leaves nothing: no namespace, no record of one; nor does a restart      *)
(* leave a namespace no sandbox and no pool knows (teardown, reap_dead,    *)
(* Pool::start).                                                           *)
(***************************************************************************)
NothingLeft ==
  /\ \A i \in Ids \ orphaned :
       row[i] = Gone /\ tier[i] = "none" /\ op[i] = "idle" => NsOf(kernel, i) = {} /\ names[i] = Nil
  /\ {b.ns : b \in Range(ready) \cup Range(retired)}
       = NsOf(kernel, "pool") \cup NsOf(kernel, "dead")
=============================================================================
