--------------------------- MODULE NodeNetProofs ---------------------------

(***************************************************************************)
(* Theorems about NodeNet, for any sandboxes, slots, namespaces, pools and *)
(* rules, and all bounds.                                                  *)
(***************************************************************************)
EXTENDS NodeNet, FiniteSetTheorems, SequenceTheorems, TLAPS

(***************************************************************************)
(* Types.                                                                  *)
(***************************************************************************)
BlankType == [ns : Namespaces, host : Ifs]
Kernels ==
  [ns : [Namespaces -> Ids \cup {"pool", "dead", Nil}], ifs : [Ifs -> Link \cup {Nil}],
   tracked : [Namespaces -> SUBSET Ids]]
SlotOrNil == Slots \cup {Nil}

MasterType == row \in [Ids -> Slots \cup {Unborn, Gone}] /\ wanted \in [Ids -> Rules \cup {Nil}]
KernelType == kernel \in Kernels /\ names \in [Ids -> Ifs \cup {Nil}]
PlaceType ==
  /\ tier \in [Ids -> {"none", "dead", "hot", "frozen", "snapshot"}]
  /\ index \in [Ids -> SlotOrNil]
PoolType == target \in Nat /\ ready \in Seq(BlankType) /\ retired \in Seq(BlankType)
LockType ==
  /\ op \in [Ids -> {"idle", "create", "wake", "put", "kill", "clear", "teardown"}]
  /\ todo \in [Ids -> SUBSET {"address", "egress", "pooled", "failed"}]
  /\ slot \in [Ids -> SlotOrNil]
NodeType ==
  installed \in [Ids -> Have \cup {Nil}] /\ running \in [Ids -> SlotOrNil] /\ due \subseteq Ids
PastType == astray \subseteq {"in place", "late"} /\ orphaned \subseteq Ids /\ spent \in [Budget -> Nat]

TypeOK ==
  MasterType /\ KernelType /\ PlaceType /\ PoolType /\ LockType /\ NodeType /\ PastType

(***************************************************************************)
(* Who may be at which step.                                               *)
(***************************************************************************)
Working(i) == op[i] \in {"create", "wake"}

StepOK(i) ==
  /\ Working(i) => slot[i] # Nil
  /\ ~Working(i) => todo[i] = {}
  /\ op[i] = "create" => tier[i] \in {"none", "dead"}
  /\ op[i] = "wake" => tier[i] = "snapshot"
  /\ op[i] = "put" => tier[i] \in {"hot", "frozen"}
  /\ i \in due => op[i] # "kill" /\ tier[i] # "none"
  /\ op[i] = "kill" => tier[i] = "dead" \/ row[i] = Gone
  /\ op[i] \in {"clear", "teardown"} => tier[i] = "none"
  /\ row[i] = Unborn => tier[i] = "none" /\ op[i] = "idle"
  /\ tier[i] = "none" <=> index[i] = Nil
  /\ op[i] = "create" /\ "egress" \notin todo[i] => tier[i] # "none" /\ index[i] = slot[i]
  /\ op[i] = "teardown" => installed[i] = Nil

\* Two rows never share a slot, and who is created on one is not there beside
\* a sandbox that has been given it next.
Apart(i, j) ==
  /\ Wanted(i) => row[i] # row[j]
  /\ op[j] = "create" /\ row[i] = slot[j] => tier[i] = "none" /\ op[i] = "idle"
  /\ j \in due /\ Wanted(i) /\ row[i] = index[j] => tier[i] = "none" /\ op[i] = "idle"

StepInv == (\A i \in Ids : StepOK(i)) /\ \A i, j \in Ids : i # j => Apart(i, j)

(***************************************************************************)
(* Namespaces and the pool.                                                *)
(***************************************************************************)
Single(list) == \A p, q \in 1..Len(list) : list[p].ns = list[q].ns => p = q

NamedInv ==
  /\ \A m, n \in Namespaces : kernel.ns[m] = kernel.ns[n] /\ kernel.ns[m] \in Ids => m = n
  /\ \A n \in Namespaces : kernel.ns[n] = Nil => kernel.tracked[n] = {}
  /\ \A i \in Ids : names[i] # Nil => NsOf(kernel, i) # {}
  /\ \A i \in Ids \ orphaned : tier[i] = "none" /\ op[i] = "idle" => NsOf(kernel, i) = {}

ListInv ==
  /\ Single(ready) /\ Single(retired)
  /\ {b.ns : b \in Range(ready)} = NsOf(kernel, "pool")
  /\ {b.ns : b \in Range(retired)} = NsOf(kernel, "dead")
  /\ \A b \in Range(ready) : kernel.tracked[b.ns] = {}

NoPoolInv ==
  ~Pooled => ready = <<>> /\ retired = <<>>
             /\ \A i \in Ids : names[i] = Nil /\ "pooled" \notin todo[i]

SpaceInv == NamedInv /\ ListInv /\ NoPoolInv

(***************************************************************************)
(* Links.                                                                  *)
(***************************************************************************)
There(f) == kernel.ifs[f] # Nil

\* Without a pool each link is its sandbox's own.
OwnLink(f) == f \in Ids /\ kernel.ns[kernel.ifs[f].in] = f

\* With one each is in the namespace it was built with.
PoolLink(f) == f \in Namespaces /\ kernel.ifs[f].in = f /\ kernel.ns[f] # Nil

PoolTidy ==
  /\ \A f \in Ifs : There(f) => PoolLink(f)
  /\ \A i \in Ids : names[i] # Nil => names[i] \in Namespaces
  /\ \A i \in Ids, n \in Namespaces : kernel.ns[n] = i <=> names[i] = n
  /\ \A b \in Range(ready) \cup Range(retired) :
       b.host = b.ns /\ There(b.ns) /\ ~kernel.ifs[b.ns].up
  /\ \A b \in Range(ready) : ~kernel.ifs[b.ns].open
  /\ \A i \in Ids : Working(i) => "pooled" \in todo[i]

LinkInv ==
  IF Pooled THEN astray = {} => PoolTidy ELSE \A f \in Ifs : There(f) => OwnLink(f)

(***************************************************************************)
(* A sandbox's one slot.                                                   *)
(***************************************************************************)
Mine(i, s) ==
  /\ row[i] = Unborn => s = Nil
  /\ Wanted(i) => s = row[i]
  /\ index[i] \in {Nil, s} /\ slot[i] \in {Nil, s} /\ running[i] \in {Nil, s}
  /\ installed[i] # Nil => installed[i].slot = s
  /\ (Pooled => astray = {}) /\ There(HostIf(i)) /\ (Pooled => kernel.ifs[HostIf(i)].up)
       => kernel.ifs[HostIf(i)].addrs \subseteq {s}

MineInv == \A i \in Ids : \E s \in SlotOrNil : Mine(i, s)

(***************************************************************************)
(* What a sandbox that is up has.                                          *)
(***************************************************************************)
Up(i) ==
  Wanted(i) /\ (tier[i] \in {"hot", "frozen"} \/ (Working(i) /\ "address" \notin todo[i]))

Joined(i) ==
  /\ There(HostIf(i)) /\ kernel.ifs[HostIf(i)].up
  /\ kernel.ifs[HostIf(i)].inner = row[i] /\ kernel.ifs[HostIf(i)].open
  /\ row[i] \in kernel.ifs[HostIf(i)].addrs
  /\ \A f \in Ifs \ {HostIf(i)} : There(f) /\ row[i] \in kernel.ifs[f].addrs
                                    => ~kernel.ifs[f].up

ReachInv == astray = {} => \A i \in Ids : Up(i) => Joined(i)

\* Served, or with its change of tier under way.
Served(i) == Wanted(i) /\ ((tier[i] = "hot" /\ op[i] = "idle") \/ op[i] = "put")
Excused(s) == s \in cold => s \in refused

PortInv ==
  /\ \A i \in Ids : Served(i) => Excused(index[i])
  /\ \A i \in Ids \ unheard : Observed(i) /\ Wanted(i) => running[i] = index[i]

OwnedInv ==
  /\ \A x \in Have : chain[x] = Cardinality({i \in Ids : installed[i] = x})
  /\ \A i \in Ids \ orphaned : installed[i] # Nil => tier[i] # "none" \/ op[i] # "idle"

NetInv == StepInv /\ SpaceInv /\ LinkInv /\ MineInv /\ ReachInv /\ PortInv /\ OwnedInv

(***************************************************************************)
(* The kernel's operations, field by field.                                *)
(***************************************************************************)
\* The lists' first-in-last-out: what Front and Append leave in them.
LEMMA FrontOf ==
  ASSUME NEW list \in Seq(BlankType), list # <<>>, Single(list)
  PROVE  /\ Front(list) \in Seq(BlankType) /\ Single(Front(list))
         /\ Last(list) \in Range(list) /\ Last(list) \in BlankType
         /\ \A b \in Range(Front(list)) : b \in Range(list) /\ b.ns # Last(list).ns
         /\ \A b \in Range(list) : b = Last(list) \/ b \in Range(Front(list))
<1> DEFINE n == Len(list)
<1>1. n \in Nat /\ n > 0
  BY EmptySeq, LenProperties
<1>2. Front(list) = SubSeq(list, 1, n - 1) /\ Last(list) = list[n]
  BY DEF Front, Last
<1>3. /\ Front(list) \in Seq(BlankType) /\ Len(Front(list)) = n - 1
      /\ \A p \in 1..(n - 1) : Front(list)[p] = list[p]
  <2>1. \A p \in 1..n : list[p] \in BlankType
    BY ElementOfSeq
  <2>2. PICK k \in Int, m \in Int : k = 1 /\ m = n - 1
    BY <1>1
  <2>3. \A p \in k..m : list[p] \in BlankType
    BY <2>1, <2>2, <1>1
  <2>4. /\ SubSeq(list, k, m) \in Seq(BlankType)
        /\ Len(SubSeq(list, k, m)) = IF k <= m THEN m - k + 1 ELSE 0
    BY <2>3, SubSeqProperties, Zenon
  <2>5. \A p \in 1..(n - 1) : SubSeq(list, k, m)[p] = list[p]
    BY <2>2, <1>1
  <2>6. Front(list) = SubSeq(list, k, m)
    BY <2>2, <1>2
  <2> DEFINE s == SubSeq(list, k, m)
  <2> HIDE DEF s
  <2>7. s \in Seq(BlankType) /\ Len(s) = n - 1 /\ \A p \in 1..(n - 1) : s[p] = list[p]
    BY <2>2, <2>4, <2>5, <1>1 DEF s
  <2> QED BY <2>6, <2>7 DEF s
<1>4. \A p \in 1..n : list[p] \in BlankType
  BY ElementOfSeq
<1>5. DOMAIN list = 1..n /\ DOMAIN Front(list) = 1..(n - 1)
  BY <1>1, <1>3, LenProperties
<1>6. Single(Front(list))
  BY <1>1, <1>3 DEF Single
<1>7. \A b \in Range(Front(list)) : b \in Range(list) /\ b.ns # Last(list).ns
  BY <1>1, <1>2, <1>3, <1>5 DEF Single, Range
<1>8. ASSUME NEW b \in Range(list), b # Last(list) PROVE b \in Range(Front(list))
  <2>1. PICK p \in 1..n : b = list[p]
    BY <1>5 DEF Range
  <2>2. p \in 1..(n - 1) /\ b = Front(list)[p]
    BY <2>1, <1>1, <1>2, <1>3, <1>8
  <2> QED BY <2>2, <1>5 DEF Range
<1>9. Last(list) \in Range(list) /\ Last(list) \in BlankType
  BY <1>1, <1>2, <1>4, <1>5 DEF Range
<1> QED BY <1>3, <1>6, <1>7, <1>8, <1>9

\* A list with one more is a list still, and its members are one more.
LEMMA AppendTo ==
  ASSUME NEW list \in Seq(BlankType), Single(list), NEW b \in BlankType,
         \A c \in Range(list) : c.ns # b.ns
  PROVE  /\ Append(list, b) \in Seq(BlankType) /\ Single(Append(list, b))
         /\ Range(Append(list, b)) = Range(list) \cup {b}
<1> DEFINE n == Len(list)
<1>1. n \in Nat /\ DOMAIN list = 1..n
  BY LenProperties
<1>2. /\ Append(list, b) \in Seq(BlankType) /\ Len(Append(list, b)) = n + 1
      /\ \A p \in 1..n : Append(list, b)[p] = list[p]
      /\ Append(list, b)[n + 1] = b
  BY AppendProperties
<1>3. DOMAIN Append(list, b) = 1..(n + 1)
  BY <1>2, LenProperties
<1>4. \A p \in 1..n : list[p].ns # b.ns
  BY <1>1 DEF Range
<1>5. Single(Append(list, b))
  BY <1>1, <1>2, <1>4 DEF Single
<1>6. Range(Append(list, b)) = Range(list) \cup {b}
  BY <1>1, <1>2, <1>3 DEF Range
<1> QED BY <1>2, <1>5, <1>6

\* A blank that is on a list is a blank.
LEMMA InList ==
  ASSUME NEW list \in Seq(BlankType)
  PROVE  /\ \A b \in Range(list) : b \in BlankType /\ b.ns \in Namespaces /\ b.host \in Ifs
         /\ list = <<>> => Range(list) = {} /\ Single(list)
<1>1. DOMAIN list = 1..Len(list) /\ Len(list) \in Nat
  BY LenProperties
<1>2. \A p \in 1..Len(list) : list[p] \in BlankType
  BY ElementOfSeq
<1>3. list = <<>> => Len(list) = 0
  OBVIOUS
<1> QED BY <1>1, <1>2, <1>3 DEF Range, BlankType, Single

\* ip link del and ip netns del take what they name, and the links in it.
LEMMA DelLinksFacts ==
  ASSUME NEW k \in Kernels, NEW F
  PROVE  /\ DelLinks(k, F) \in Kernels
         /\ DelLinks(k, F).ns = k.ns /\ DelLinks(k, F).tracked = k.tracked
         /\ \A f \in Ifs : DelLinks(k, F).ifs[f] = IF f \in F THEN Nil ELSE k.ifs[f]
BY DEF DelLinks, Kernels

\* Namespaces deleted take with them the links whose peer they hold.
LEMMA DelNsFacts ==
  ASSUME NEW k \in Kernels, NEW N
  PROVE  /\ DelNs(k, N) \in Kernels
         /\ \A n \in Namespaces :
              /\ DelNs(k, N).ns[n] = IF n \in N THEN Nil ELSE k.ns[n]
              /\ DelNs(k, N).tracked[n] = IF n \in N THEN {} ELSE k.tracked[n]
         /\ \A f \in Ifs : DelNs(k, N).ifs[f] =
              IF k.ifs[f] # Nil /\ k.ifs[f].in \in N THEN Nil ELSE k.ifs[f]
<1> DEFINE F == {f \in Ifs : k.ifs[f] # Nil /\ k.ifs[f].in \in N}
           d == DelLinks(k, F)
<1>1. /\ d \in Kernels /\ d.ns = k.ns /\ d.tracked = k.tracked
      /\ \A f \in Ifs : d.ifs[f] = IF f \in F THEN Nil ELSE k.ifs[f]
  BY DelLinksFacts
<1>2. DelNs(k, N) = [d EXCEPT !.ns = [n \in Namespaces |-> IF n \in N THEN Nil ELSE @[n]],
                             !.tracked = [n \in Namespaces |-> IF n \in N THEN {} ELSE @[n]]]
  BY DEF DelNs
<1> HIDE DEF d
<1>3. /\ DelNs(k, N).ifs = d.ifs
      /\ DelNs(k, N).ns = [n \in Namespaces |-> IF n \in N THEN Nil ELSE d.ns[n]]
      /\ DelNs(k, N).tracked = [n \in Namespaces |-> IF n \in N THEN {} ELSE d.tracked[n]]
      /\ DelNs(k, N) = [ns |-> DelNs(k, N).ns, ifs |-> DelNs(k, N).ifs,
                        tracked |-> DelNs(k, N).tracked]
  BY <1>1, <1>2 DEF Kernels
<1>4. DelNs(k, N) \in Kernels
  <2>1. d.ifs \in [Ifs -> Link \cup {Nil}]
    BY <1>1 DEF Kernels
  <2>2. [n \in Namespaces |-> IF n \in N THEN Nil ELSE d.ns[n]]
          \in [Namespaces -> Ids \cup {"pool", "dead", Nil}]
    BY <1>1 DEF Kernels
  <2>3. [n \in Namespaces |-> IF n \in N THEN {} ELSE d.tracked[n]]
          \in [Namespaces -> SUBSET Ids]
    BY <1>1 DEF Kernels
  <2> QED BY <1>3, <2>1, <2>2, <2>3 DEF Kernels
<1> QED BY <1>1, <1>3, <1>4

\* A namespace gets a name; no link is touched.
LEMMA NameFacts ==
  ASSUME NEW k \in Kernels, NEW n \in Namespaces, NEW name \in Ids \cup {"pool", "dead"}
  PROVE  /\ Rename(k, n, name) \in Kernels /\ AddNs(k, n, name) = Rename(k, n, name)
         /\ Rename(k, n, name).ifs = k.ifs /\ Rename(k, n, name).tracked = k.tracked
         /\ \A m \in Namespaces : Rename(k, n, name).ns[m] = IF m = n THEN name ELSE k.ns[m]
BY DEF Rename, AddNs, Kernels

\* A new pair is down and has no address.
LEMMA VethFacts ==
  ASSUME NEW k \in Kernels, NEW f \in Ifs, NEW n \in Namespaces
  PROVE  /\ AddVeth(k, f, n) \in Kernels
         /\ AddVeth(k, f, n).ns = k.ns /\ AddVeth(k, f, n).tracked = k.tracked
         /\ \A g \in Ifs : AddVeth(k, f, n).ifs[g] =
              IF g = f THEN [in |-> n, addrs |-> {}, up |-> FALSE, inner |-> Nil, open |-> FALSE]
                ELSE k.ifs[g]
<1>1. [in |-> n, addrs |-> {}, up |-> FALSE, inner |-> Nil, open |-> FALSE] \in Link
  BY DEF Link
<1> QED BY <1>1 DEF AddVeth, Kernels

\* A link brought down keeps all but that.
LEMMA DownFacts ==
  ASSUME NEW k \in Kernels, NEW f \in Ifs
  PROVE  /\ Down(k, f) \in Kernels
         /\ Down(k, f).ns = k.ns /\ Down(k, f).tracked = k.tracked
         /\ \A g \in Ifs : g # f => Down(k, f).ifs[g] = k.ifs[g]
         /\ Down(k, f).ifs[f] = Nil <=> k.ifs[f] = Nil
         /\ k.ifs[f] # Nil => /\ Down(k, f).ifs[f].in = k.ifs[f].in
                              /\ Down(k, f).ifs[f].addrs = k.ifs[f].addrs
                              /\ Down(k, f).ifs[f].inner = k.ifs[f].inner
                              /\ Down(k, f).ifs[f].open = k.ifs[f].open
                              /\ ~Down(k, f).ifs[f].up
<1>1. CASE k.ifs[f] = Nil
  BY <1>1 DEF Down
<1>2. CASE k.ifs[f] # Nil
  <2>1. k.ifs[f] \in Link
    BY <1>2 DEF Kernels
  <2>2. [k.ifs[f] EXCEPT !.up = FALSE] \in Link
    BY <2>1 DEF Link
  <2> DEFINE l == [k.ifs[f] EXCEPT !.up = FALSE]
             e == [k.ifs EXCEPT ![f] = l]
  <2>3. Down(k, f) = [k EXCEPT !.ifs = e]
    BY <1>2, <2>1 DEF Down, Kernels
  <2>4. l.in = k.ifs[f].in /\ l.addrs = k.ifs[f].addrs /\ l.inner = k.ifs[f].inner
        /\ l.open = k.ifs[f].open /\ ~l.up
    BY <2>1 DEF Link
  <2>5. l # Nil
    BY <2>2, NilAssumption
  <2>6. e \in [Ifs -> Link \cup {Nil}]
    BY <2>2 DEF Kernels
  <2>7. e[f] = l /\ \A g \in Ifs : g # f => e[g] = k.ifs[g]
    BY DEF Kernels
  <2> HIDE DEF e
  <2>8. Down(k, f) \in Kernels /\ Down(k, f).ns = k.ns /\ Down(k, f).tracked = k.tracked
        /\ Down(k, f).ifs = e
    BY <2>3, <2>6 DEF Kernels
  <2> QED BY <1>2, <2>4, <2>5, <2>7, <2>8
<1> QED BY <1>1, <1>2

\* A scrubbed namespace keeps its link, and nothing it had inside.
LEMMA ScrubFacts ==
  ASSUME NEW k \in Kernels, NEW b \in BlankType, k.ifs[b.host] # Nil
  PROVE  /\ Scrubbed(k, b) \in Kernels /\ Scrubbed(k, b).ns = k.ns
         /\ \A n \in Namespaces :
              Scrubbed(k, b).tracked[n] = IF n = b.ns THEN {} ELSE k.tracked[n]
         /\ \A f \in Ifs : f # b.host => Scrubbed(k, b).ifs[f] = k.ifs[f]
         /\ Scrubbed(k, b).ifs[b.host] # Nil /\ ~Scrubbed(k, b).ifs[b.host].open
         /\ Scrubbed(k, b).ifs[b.host].in = k.ifs[b.host].in
         /\ Scrubbed(k, b).ifs[b.host].addrs = k.ifs[b.host].addrs
         /\ Scrubbed(k, b).ifs[b.host].up = k.ifs[b.host].up
<1> DEFINE f == b.host
           l == [k.ifs[f] EXCEPT !.open = FALSE]
<1>1. f \in Ifs /\ b.ns \in Namespaces /\ k.ifs[f] \in Link
  BY DEF BlankType, Kernels
<1>2. l \in Link /\ l # Nil
  BY <1>1, NilAssumption DEF Link
<1>3. ~l.open /\ l.in = k.ifs[f].in /\ l.addrs = k.ifs[f].addrs /\ l.up = k.ifs[f].up
  BY <1>1 DEF Link
<1> DEFINE e == [k.ifs EXCEPT ![f] = l]
           t == [k.tracked EXCEPT ![b.ns] = {}]
<1>4. e \in [Ifs -> Link \cup {Nil}] /\ e[f] = l /\ \A g \in Ifs : g # f => e[g] = k.ifs[g]
  BY <1>1, <1>2 DEF Kernels
<1>5. t \in [Namespaces -> SUBSET Ids]
      /\ \A n \in Namespaces : t[n] = IF n = b.ns THEN {} ELSE k.tracked[n]
  BY <1>1 DEF Kernels
<1>6. Scrubbed(k, b) = [[k EXCEPT !.ifs = e] EXCEPT !.tracked = t]
  BY <1>1 DEF Scrubbed, Kernels
<1> HIDE DEF e, t, l
<1>7. Scrubbed(k, b) \in Kernels /\ Scrubbed(k, b).ns = k.ns /\ Scrubbed(k, b).ifs = e
      /\ Scrubbed(k, b).tracked = t
  BY <1>4, <1>5, <1>6 DEF Kernels
<1> QED BY <1>2, <1>3, <1>4, <1>5, <1>7
BuiltAs(k, i, f, n, a) ==
  /\ k.ns[n] = IF NsOf(k, i) = {} THEN Nil ELSE i
  /\ a \in Kernels /\ a.tracked = k.tracked
  /\ \A m \in Namespaces : a.ns[m] = IF m = n THEN i ELSE k.ns[m]
  /\ \A g \in Ifs : a.ifs[g] =
       IF g = f /\ k.ifs[f] = Nil
         THEN [in |-> n, addrs |-> {}, up |-> FALSE, inner |-> Nil, open |-> FALSE]
                ELSE k.ifs[g]

\* Built in place: one namespace is the sandbox's, and the host end it goes by
\* is there, as it was or new and in that namespace.
LEMMA BuiltFacts ==
  ASSUME NEW k \in Kernels, NEW i \in Ids, NEW f \in Ifs, NsOf(k, i) # {} \/ NoNs(k) # {}
  PROVE  \E n \in Namespaces : BuiltAs(k, i, f, n, Built(k, i, f))
<1> DEFINE k1 == IF NsOf(k, i) # {} THEN k ELSE AddNs(k, NewNs(k), i)
           n  == CHOOSE m \in NsOf(k1, i) : TRUE
<1>1. Built(k, i, f) = IF k.ifs[f] # Nil THEN k1 ELSE AddVeth(k1, f, n)
  BY DEF Built
<1>2. /\ k1 \in Kernels /\ k1.ifs = k.ifs /\ k1.tracked = k.tracked
      /\ n \in Namespaces /\ k.ns[n] = IF NsOf(k, i) = {} THEN Nil ELSE i
      /\ \A m \in Namespaces : k1.ns[m] = IF m = n THEN i ELSE k.ns[m]
  <2>1. CASE NsOf(k, i) # {}
    <3>1. k1 = k /\ n \in NsOf(k, i)
      BY <2>1
    <3> QED BY <2>1, <3>1 DEF NsOf
  <2>2. CASE NsOf(k, i) = {}
    <3>1. NewNs(k) \in NoNs(k)
      BY <2>2 DEF NewNs
    <3>2. NewNs(k) \in Namespaces /\ k.ns[NewNs(k)] = Nil
      BY <3>1 DEF NoNs
    <3>3. /\ k1 \in Kernels /\ k1.ifs = k.ifs /\ k1.tracked = k.tracked
          /\ \A m \in Namespaces : k1.ns[m] = IF m = NewNs(k) THEN i ELSE k.ns[m]
      BY <2>2, <3>2, NameFacts
    <3>4. NsOf(k1, i) = {NewNs(k)}
      BY <2>2, <3>2, <3>3 DEF NsOf
    <3>5. n = NewNs(k)
      BY <3>4
    <3> HIDE DEF k1, n
    <3> QED BY <2>2, <3>2, <3>3, <3>5
  <2> QED BY <2>1, <2>2
<1> HIDE DEF k1, n
<1>3. CASE k.ifs[f] # Nil
  BY <1>1, <1>2, <1>3 DEF BuiltAs
<1>4. CASE k.ifs[f] = Nil
  <2>1. Built(k, i, f) = AddVeth(k1, f, n)
    BY <1>1, <1>4
  <2>2. /\ AddVeth(k1, f, n) \in Kernels
        /\ AddVeth(k1, f, n).ns = k1.ns /\ AddVeth(k1, f, n).tracked = k1.tracked
        /\ \A g \in Ifs : AddVeth(k1, f, n).ifs[g] =
             IF g = f THEN [in |-> n, addrs |-> {}, up |-> FALSE, inner |-> Nil, open |-> FALSE]
                ELSE k1.ifs[g]
    BY <1>2, VethFacts
  <2> QED BY <1>2, <1>4, <2>1, <2>2 DEF BuiltAs
<1> QED BY <1>3, <1>4

\* A sandbox's host end is one of the kernel's names.
LEMMA HostIn ==
  ASSUME KernelType, NEW i \in Ids
  PROVE  HostIf(i) \in Ifs /\ HostIf(i) = IF names[i] = Nil THEN i ELSE names[i]
BY DEF HostIf, KernelType, Ifs

AddressedAs(k, i, s, a) ==
  /\ a \in Kernels /\ a.ns = k.ns /\ a.tracked = k.tracked
  /\ \A g \in Ifs : g # HostIf(i) => a.ifs[g] = k.ifs[g]
  /\ a.ifs[HostIf(i)] = Nil <=> k.ifs[HostIf(i)] = Nil
  /\ k.ifs[HostIf(i)] # Nil =>
       /\ a.ifs[HostIf(i)].in = k.ifs[HostIf(i)].in /\ a.ifs[HostIf(i)].up
       /\ a.ifs[HostIf(i)].addrs =
            IF "pooled" \in todo[i] THEN {s} ELSE k.ifs[HostIf(i)].addrs \cup {s}
       /\ k.ifs[HostIf(i)].in \in NsOf(k, i) => a.ifs[HostIf(i)].inner = s /\ a.ifs[HostIf(i)].open

\* The two ends addressed: the host end is up and has the slot's address, and
\* the inner end too if it is in the sandbox's namespace.
LEMMA AddressedFacts ==
  ASSUME KernelType, NEW k \in Kernels, NEW i \in Ids, NEW s \in Slots
  PROVE  AddressedAs(k, i, s, Addressed(k, i, s))
<1> DEFINE f == HostIf(i)
           l == k.ifs[f]
           a == IF "pooled" \in todo[i] THEN {s} ELSE l.addrs \cup {s}
           outer == [l EXCEPT !.up = TRUE,
                         !.addrs = IF "pooled" \in todo[i] THEN {s} ELSE @ \cup {s}]
           own == l.in \in NsOf(k, i)
           new == IF own THEN [outer EXCEPT !.inner = s, !.open = TRUE] ELSE outer
           e == [k.ifs EXCEPT ![f] = new]
<1>1. f \in Ifs
  BY HostIn
<1>2. CASE l = Nil
  BY <1>2 DEF Addressed, AddressedAs
<1>3. CASE l # Nil
  <2>1. l \in Link
    BY <1>1, <1>3 DEF Kernels
  <2>2. Addressed(k, i, s) = [k EXCEPT !.ifs = e]
    BY <1>3, <1>1, <2>1 DEF Addressed, Kernels
  <2>3. outer \in Link /\ outer.in = l.in /\ outer.up /\ outer.addrs = a /\ outer.inner = l.inner
    BY <2>1 DEF Link
  <2> HIDE DEF outer
  <2>4. new \in Link /\ new.in = l.in /\ new.up /\ new.addrs = a /\ (own => new.inner = s /\ new.open)
    BY <2>3 DEF Link
  <2>5. new # Nil
    BY <2>4, NilAssumption
  <2> HIDE DEF new
  <2>6. e \in [Ifs -> Link \cup {Nil}] /\ e[f] = new /\ \A g \in Ifs : g # f => e[g] = k.ifs[g]
    BY <1>1, <2>4 DEF Kernels
  <2> HIDE DEF e
  <2>7. /\ Addressed(k, i, s) \in Kernels /\ Addressed(k, i, s).ns = k.ns
        /\ Addressed(k, i, s).tracked = k.tracked /\ Addressed(k, i, s).ifs = e
    BY <2>2, <2>6 DEF Kernels
  <2> QED BY <1>3, <2>4, <2>5, <2>6, <2>7 DEF AddressedAs
<1> QED BY <1>2, <1>3

\* Connections tracked in a sandbox's namespace change nothing else.
LEMMA TrackFacts ==
  ASSUME NEW k \in Kernels, NEW i \in Ids
  PROVE  /\ Tracking(k, i) \in Kernels /\ Tracking(k, i).ns = k.ns /\ Tracking(k, i).ifs = k.ifs
         /\ \A n \in Namespaces : Tracking(k, i).tracked[n] =
              IF k.ns[n] = i THEN k.tracked[n] \cup {i} ELSE k.tracked[n]
<1> DEFINE t == [n \in Namespaces |->
                   IF n \in NsOf(k, i) THEN k.tracked[n] \cup {i} ELSE k.tracked[n]]
<1>1. t \in [Namespaces -> SUBSET Ids]
  BY DEF Kernels
<1>2. \A n \in Namespaces :
         t[n] = IF k.ns[n] = i THEN k.tracked[n] \cup {i} ELSE k.tracked[n]
  BY DEF NsOf
<1>3. Tracking(k, i) = [k EXCEPT !.tracked = t]
  BY DEF Kernels, Tracking
<1> HIDE DEF t
<1> QED BY <1>1, <1>2, <1>3 DEF Kernels

(***************************************************************************)
(* The types are kept.                                                     *)
(***************************************************************************)
\* A budget that is spent from stays a budget, and a restart is on record.
LEMMA SpendFacts ==
  ASSUME PastType, NEW b \in Budget, Spend(b)
  PROVE  /\ spent' \in [Budget -> Nat]
         /\ spent'["crash"] = 0 => spent["crash"] = 0
         /\ b = "crash" => spent'["crash"] # 0
<1>1. spent \in [Budget -> Nat] /\ spent' = [spent EXCEPT ![b] = @ + 1] /\ "crash" \in Budget
  BY DEF PastType, Spend, Budget
<1> QED BY <1>1

\* What EgressRules notes of a sandbox has a slot and rules.
LEMMA WantType ==
  ASSUME NEW s \in Slots, NEW r \in Rules \cup {Nil}
  PROVE  Want(s, r) \in Have \cup {Nil} /\ (Want(s, r) # Nil => Want(s, r).slot = s)
BY DEF Want, Have

\* One sandbox's note of its rules is replaced.
LEMMA EgressType ==
  ASSUME NodeType, NEW i \in Ids, NEW w \in Have \cup {Nil}, EgressSet(i, w)
  PROVE  installed' \in [Ids -> Have \cup {Nil}]
BY DEF NodeType, EgressSet

\* A claim takes the last of the list and gives it the sandbox's name.
LEMMA ClaimFacts ==
  ASSUME TypeOK, Single(ready), NEW i \in Ids, ready # <<>>
  PROVE  /\ Last(ready) \in BlankType /\ Last(ready) \in Range(ready)
         /\ Last(ready).ns \in Namespaces /\ Last(ready).host \in Ifs
         /\ Front(ready) \in Seq(BlankType)
         /\ Rename(kernel, Last(ready).ns, i) \in Kernels
<1>1. ready \in Seq(BlankType) /\ kernel \in Kernels
  BY DEF TypeOK, PoolType, KernelType
<1>2. Last(ready) \in BlankType /\ Last(ready) \in Range(ready) /\ Front(ready) \in Seq(BlankType)
  BY <1>1, FrontOf
<1>3. Last(ready).ns \in Namespaces /\ Last(ready).host \in Ifs
  BY <1>2 DEF BlankType
<1> QED BY <1>1, <1>2, <1>3, NameFacts

\* What a claim that fails leaves of the blank it took: nothing.
Scrapped(b) == DelLinks(DelNs(kernel, {b.ns}), {b.host})

\* A blank that is scrapped takes its namespace and its links.
LEMMA ScrappedFacts ==
  ASSUME kernel \in Kernels, NEW b \in BlankType
  PROVE  /\ Scrapped(b) \in Kernels
         /\ \A n \in Namespaces :
              /\ Scrapped(b).ns[n] = IF n = b.ns THEN Nil ELSE kernel.ns[n]
              /\ Scrapped(b).tracked[n] = IF n = b.ns THEN {} ELSE kernel.tracked[n]
         /\ \A f \in Ifs : Scrapped(b).ifs[f] =
              IF f = b.host \/ (kernel.ifs[f] # Nil /\ kernel.ifs[f].in = b.ns)
                THEN Nil ELSE kernel.ifs[f]
<1> DEFINE d == DelNs(kernel, {b.ns})
<1>1. /\ d \in Kernels
      /\ \A n \in Namespaces :
           /\ d.ns[n] = IF n \in {b.ns} THEN Nil ELSE kernel.ns[n]
           /\ d.tracked[n] = IF n \in {b.ns} THEN {} ELSE kernel.tracked[n]
      /\ \A f \in Ifs : d.ifs[f] =
           IF kernel.ifs[f] # Nil /\ kernel.ifs[f].in \in {b.ns} THEN Nil ELSE kernel.ifs[f]
  BY DelNsFacts
<1>2. Scrapped(b) = DelLinks(d, {b.host})
  BY DEF Scrapped
<1> HIDE DEF d
<1>3. /\ DelLinks(d, {b.host}) \in Kernels
      /\ DelLinks(d, {b.host}).ns = d.ns /\ DelLinks(d, {b.host}).tracked = d.tracked
      /\ \A f \in Ifs : DelLinks(d, {b.host}).ifs[f] = IF f \in {b.host} THEN Nil ELSE d.ifs[f]
  BY <1>1, DelLinksFacts
<1> QED BY <1>1, <1>2, <1>3

\* The three ways of setting up, each with the kernel it leaves.
LEMMA SetupFacts ==
  ASSUME TypeOK, Single(ready), NEW i \in Ids, Setup(i)
  PROVE  /\ kernel' \in Kernels /\ names' \in [Ids -> Ifs \cup {Nil}]
         /\ ready' \in Seq(BlankType) /\ retired' = retired
         /\ todo' = [todo EXCEPT ![i] = todo'[i]]
         /\ todo'[i] \subseteq {"address", "egress", "pooled"}
         /\ {"address", "egress"} \subseteq todo'[i]
         /\ orphaned' = orphaned /\ spent' \in [Budget -> Nat]
         /\ spent'["crash"] = 0 => spent["crash"] = 0
         /\ astray' \subseteq {"in place", "late"} /\ (astray' = {} => astray = {})
<1>1. /\ kernel \in Kernels /\ names \in [Ids -> Ifs \cup {Nil}] /\ ready \in Seq(BlankType)
      /\ todo \in [Ids -> SUBSET {"address", "egress", "pooled", "failed"}]
      /\ astray \subseteq {"in place", "late"} /\ spent \in [Budget -> Nat] /\ PastType
  BY DEF TypeOK, KernelType, PoolType, LockType, PastType
<1>2. HostIf(i) \in Ifs /\ i \in Ifs
  BY HostIn DEF TypeOK, Ifs
<1>3. ASSUME Claim(i), UNCHANGED <<spent, orphaned>>
      PROVE  /\ kernel' \in Kernels /\ names' \in [Ids -> Ifs \cup {Nil}]
             /\ ready' \in Seq(BlankType) /\ retired' = retired
             /\ todo' = [todo EXCEPT ![i] = {"address", "egress", "pooled"}]
             /\ orphaned' = orphaned /\ spent' = spent /\ astray' = astray
  BY <1>1, <1>3, ClaimFacts DEF Claim
<1>4. ASSUME Build(i), UNCHANGED <<spent, orphaned>>
      PROVE  /\ kernel' \in Kernels /\ names' = names
             /\ ready' = ready /\ retired' = retired
             /\ todo' = [todo EXCEPT ![i] = {"address", "egress"}]
             /\ orphaned' = orphaned /\ spent' = spent /\ astray' \subseteq {"in place", "late"}
             /\ astray' = {} => astray = {}
  <2>1. NsOf(kernel, i) # {} \/ NoNs(kernel) # {}
    BY <1>4 DEF Build
  <2>2. Built(kernel, i, HostIf(i)) \in Kernels
    BY <1>1, <1>2, <2>1, BuiltFacts DEF BuiltAs
  <2> QED BY <1>1, <1>4, <2>2 DEF Build, Strays
<1>5. ASSUME ClaimFails(i), Spend("fault"), UNCHANGED orphaned
      PROVE  /\ kernel' \in Kernels /\ names' = [names EXCEPT ![i] = Nil]
             /\ ready' \in Seq(BlankType) /\ retired' = retired
             /\ todo' = [todo EXCEPT ![i] = {"address", "egress"}]
             /\ orphaned' = orphaned /\ astray' \subseteq {"in place", "late"}
             /\ astray' = {} => astray = {}
  <2> DEFINE b == Last(ready)
             k == Scrapped(b)
  <2>1. b \in BlankType /\ b.ns \in Namespaces /\ Front(ready) \in Seq(BlankType)
    BY <1>5, ClaimFacts DEF ClaimFails
  <2>2. k \in Kernels /\ k.ns[b.ns] = Nil
    BY <1>1, <2>1, ScrappedFacts
  <2>3. NoNs(k) # {}
    BY <2>1, <2>2 DEF NoNs
  <2>4. Built(k, i, HostIf(i)) \in Kernels
    BY <1>2, <2>2, <2>3, BuiltFacts DEF BuiltAs
  <2>5. kernel' = Built(k, i, HostIf(i))
    BY <1>5 DEF ClaimFails, Scrapped
  <2> QED BY <1>1, <1>5, <2>1, <2>4, <2>5 DEF ClaimFails, Strays
<1>6. "fault" \in Budget
  BY DEF Budget
<1> QED BY <1>1, <1>3, <1>4, <1>5, <1>6, SpendFacts DEF Setup

\* A namespace is called after one sandbox at most.
OneNs == \A m, n \in Namespaces : kernel.ns[m] = kernel.ns[n] /\ kernel.ns[m] \in Ids => m = n

TornToPool(i, n) ==
  /\ Pooled /\ There(HostIf(i)) /\ kernel.ns[n] = i
  /\ retired' = Append(retired, Blank(n, HostIf(i)))
  /\ kernel'.tracked = kernel.tracked
  /\ \A m \in Namespaces : kernel'.ns[m] = IF m = n THEN "dead" ELSE kernel.ns[m]
  /\ \A f \in Ifs : f # HostIf(i) => kernel'.ifs[f] = kernel.ifs[f]
  /\ kernel'.ifs[HostIf(i)] # Nil /\ ~kernel'.ifs[HostIf(i)].up
  /\ kernel'.ifs[HostIf(i)].in = kernel.ifs[HostIf(i)].in
  /\ kernel'.ifs[HostIf(i)].addrs = kernel.ifs[HostIf(i)].addrs

TornDown(i, n) ==
  /\ ~Pooled \/ ~There(HostIf(i))
  /\ kernel.ns[n] = i /\ retired' = retired
  /\ \A m \in Namespaces :
       /\ kernel'.ns[m] = IF m = n THEN Nil ELSE kernel.ns[m]
       /\ kernel'.tracked[m] = IF m = n THEN {} ELSE kernel.tracked[m]
  /\ \A f \in Ifs : kernel'.ifs[f] =
       IF f = HostIf(i) \/ (There(f) /\ kernel.ifs[f].in = n) THEN Nil ELSE kernel.ifs[f]

\* A teardown has nothing to do, retires the namespace, or deletes it.
LEMMA TeardownFacts ==
  ASSUME TypeOK, OneNs, NEW i \in Ids, Teardown(i)
  PROVE  /\ kernel' \in Kernels /\ names' = [names EXCEPT ![i] = Nil] /\ ready' = ready
         /\ retired' \in Seq(BlankType)
         /\ \/ NsOf(kernel, i) = {} /\ kernel' = kernel /\ retired' = retired
            \/ \E n \in Namespaces : TornToPool(i, n)
            \/ \E n \in Namespaces : TornDown(i, n)
<1> DEFINE f == HostIf(i)
           N == NsOf(kernel, i)
<1>1. kernel \in Kernels /\ retired \in Seq(BlankType) /\ f \in Ifs
  BY HostIn DEF TypeOK, KernelType, PoolType
<1>2. names' = [names EXCEPT ![i] = Nil] /\ ready' = ready
  BY DEF Teardown
<1> HIDE DEF f
<1>3. ASSUME N # {}, Pooled, kernel.ifs[f] # Nil, NEW n \in N,
             kernel' = Rename(Down(kernel, f), n, "dead"),
             retired' = Append(retired, Blank(n, f))
      PROVE  kernel' \in Kernels /\ retired' \in Seq(BlankType) /\ n \in Namespaces /\ TornToPool(i, n)
  <2> DEFINE d == Down(kernel, f)
  <2>1. n \in Namespaces /\ kernel.ns[n] = i
    BY DEF NsOf
  <2>2. /\ d \in Kernels /\ d.ns = kernel.ns /\ d.tracked = kernel.tracked
        /\ \A g \in Ifs : g # f => d.ifs[g] = kernel.ifs[g]
        /\ d.ifs[f] # Nil /\ ~d.ifs[f].up
        /\ d.ifs[f].in = kernel.ifs[f].in /\ d.ifs[f].addrs = kernel.ifs[f].addrs
    BY <1>1, <1>3, DownFacts
  <2> HIDE DEF d
  <2>3. /\ Rename(d, n, "dead") \in Kernels
        /\ Rename(d, n, "dead").ifs = d.ifs /\ Rename(d, n, "dead").tracked = d.tracked
        /\ \A m \in Namespaces : Rename(d, n, "dead").ns[m] = IF m = n THEN "dead" ELSE d.ns[m]
    BY <2>1, <2>2, NameFacts
  <2>4. Blank(n, f) \in BlankType
    BY <1>1, <2>1 DEF Blank, BlankType
  <2>5. retired' \in Seq(BlankType)
    BY <1>1, <1>3, <2>4, AppendProperties
  <2>6. kernel' = Rename(d, n, "dead")
    BY <1>3 DEF d
  <2> QED BY <1>3, <2>1, <2>2, <2>3, <2>5, <2>6 DEF TornToPool, There, f
<1>4. ASSUME N # {}, ~(Pooled /\ kernel.ifs[f] # Nil),
             kernel' = DelLinks(DelNs(kernel, N), {f}), UNCHANGED retired
      PROVE  kernel' \in Kernels /\ \E n \in Namespaces : TornDown(i, n)
  <2>1. PICK n \in Namespaces : kernel.ns[n] = i
    BY <1>4 DEF NsOf
  <2>2. N = {n}
    BY <2>1 DEF NsOf, OneNs
  <2>3. Blank(n, f) \in BlankType /\ Blank(n, f).ns = n /\ Blank(n, f).host = f
    BY <1>1 DEF Blank, BlankType
  <2>4. kernel' = Scrapped(Blank(n, f))
    BY <1>4, <2>2, <2>3 DEF Scrapped
  <2>5. kernel' \in Kernels
    BY <1>1, <2>3, <2>4, ScrappedFacts
  <2>6. \A m \in Namespaces :
          /\ kernel'.ns[m] = IF m = n THEN Nil ELSE kernel.ns[m]
          /\ kernel'.tracked[m] = IF m = n THEN {} ELSE kernel.tracked[m]
    BY <1>1, <2>3, <2>4, ScrappedFacts
  <2>7. \A g \in Ifs : kernel'.ifs[g] =
          IF g = f \/ (kernel.ifs[g] # Nil /\ kernel.ifs[g].in = n) THEN Nil ELSE kernel.ifs[g]
    BY <1>1, <2>3, <2>4, ScrappedFacts
  <2>8. TornDown(i, n)
    BY <1>4, <2>1, <2>6, <2>7 DEF TornDown, There, f
  <2> QED BY <2>5, <2>8
<1>5. \/ N = {} /\ UNCHANGED <<kernel, retired>>
      \/ /\ N # {} /\ Pooled /\ kernel.ifs[f] # Nil
         /\ \E n \in N : /\ kernel' = Rename(Down(kernel, f), n, "dead")
                        /\ retired' = Append(retired, Blank(n, f))
      \/ /\ N # {} /\ ~(Pooled /\ kernel.ifs[f] # Nil)
         /\ kernel' = DelLinks(DelNs(kernel, N), {f}) /\ UNCHANGED retired
  BY DEF Teardown, f
<1> HIDE DEF N
<1>6. CASE N = {} /\ UNCHANGED <<kernel, retired>>
  BY <1>1, <1>2, <1>6 DEF N
<1> HIDE DEF N
<1>7. CASE /\ N # {} /\ Pooled /\ kernel.ifs[f] # Nil
           /\ \E n \in N : /\ kernel' = Rename(Down(kernel, f), n, "dead")
                          /\ retired' = Append(retired, Blank(n, f))
  BY <1>2, <1>3, <1>7
<1>8. CASE /\ N # {} /\ ~(Pooled /\ kernel.ifs[f] # Nil)
           /\ kernel' = DelLinks(DelNs(kernel, N), {f}) /\ UNCHANGED retired
  BY <1>1, <1>2, <1>4, <1>8
<1> QED BY <1>5, <1>6, <1>7, <1>8

\* What holds the slot is removed before the ends are addressed, and the host
\* end itself never is.
LEMMA AddressFacts ==
  ASSUME TypeOK, NEW i \in Ids, slot[i] \in Slots, Address(i)
  PROVE  /\ kernel' \in Kernels /\ kernel'.ns = kernel.ns /\ kernel'.tracked = kernel.tracked
         /\ \A f \in Ifs \ {HostIf(i)} :
              kernel'.ifs[f] = IF f \in Holders(kernel, i, slot[i]) THEN Nil ELSE kernel.ifs[f]
         /\ There(HostIf(i))' <=> There(HostIf(i))
         /\ There(HostIf(i)) =>
              LET l == kernel.ifs[HostIf(i)]
                  m == kernel'.ifs[HostIf(i)]
              IN /\ m.in = l.in /\ m.up
                 /\ m.addrs = IF "pooled" \in todo[i] THEN {slot[i]} ELSE l.addrs \cup {slot[i]}
                 /\ l.in \in NsOf(kernel, i) => m.inner = slot[i] /\ m.open
<1> DEFINE f == HostIf(i)
           s == slot[i]
           H == Holders(kernel, i, s)
           k == DelLinks(kernel, H)
           a == Addressed(k, i, s)
<1>1. kernel \in Kernels /\ KernelType /\ f \in Ifs /\ names' = names
  BY HostIn DEF TypeOK, KernelType, Address
<1>2. f \notin H
  BY DEF Holders
<1>3. kernel' = a
  BY DEF Address
<1> HIDE DEF f, H
<1>4. /\ k \in Kernels /\ k.ns = kernel.ns /\ k.tracked = kernel.tracked
      /\ \A g \in Ifs : k.ifs[g] = IF g \in H THEN Nil ELSE kernel.ifs[g]
  BY <1>1, DelLinksFacts
<1> HIDE DEF k
<1>5. k.ifs[f] = kernel.ifs[f] /\ NsOf(k, i) = NsOf(kernel, i)
  BY <1>1, <1>2, <1>4 DEF NsOf
<1>6. /\ a \in Kernels /\ a.ns = k.ns /\ a.tracked = k.tracked
      /\ \A g \in Ifs : g # f => a.ifs[g] = k.ifs[g]
      /\ a.ifs[f] = Nil <=> k.ifs[f] = Nil
      /\ k.ifs[f] # Nil =>
           /\ a.ifs[f].in = k.ifs[f].in /\ a.ifs[f].up
           /\ a.ifs[f].addrs = IF "pooled" \in todo[i] THEN {s} ELSE k.ifs[f].addrs \cup {s}
           /\ k.ifs[f].in \in NsOf(k, i) => a.ifs[f].inner = s /\ a.ifs[f].open
  <2>1. AddressedAs(k, i, s, a)
    BY <1>1, <1>4, AddressedFacts
  <2> HIDE DEF a, s
  <2> QED BY <2>1 DEF AddressedAs, f
<1> HIDE DEF a
<1>7. f' = f
  BY <1>1 DEF f, HostIf
<1>8. There(f)' <=> There(f)
  BY <1>3, <1>5, <1>6, <1>7 DEF There
<1>9. \A g \in Ifs \ {f} : kernel'.ifs[g] = IF g \in H THEN Nil ELSE kernel.ifs[g]
  BY <1>3, <1>4, <1>6
<1>10. There(f) =>
         /\ kernel'.ifs[f].in = kernel.ifs[f].in /\ kernel'.ifs[f].up
         /\ kernel'.ifs[f].addrs = IF "pooled" \in todo[i] THEN {s} ELSE kernel.ifs[f].addrs \cup {s}
         /\ kernel.ifs[f].in \in NsOf(kernel, i) => kernel'.ifs[f].inner = s /\ kernel'.ifs[f].open
  BY <1>3, <1>5, <1>6 DEF There
<1>11. kernel' \in Kernels /\ kernel'.ns = kernel.ns /\ kernel'.tracked = kernel.tracked
  BY <1>3, <1>4, <1>6
<1> QED BY <1>8, <1>9, <1>10, <1>11 DEF f, H, s

\* The kernel stays a kernel and the lists lists, whatever is done to them.
LEMMA KernelTypeStep ==
  ASSUME TypeOK, StepInv, OneNs, Single(ready), Single(retired), Next
  PROVE  KernelType' /\ PoolType'
<1>1. /\ kernel \in Kernels /\ names \in [Ids -> Ifs \cup {Nil}]
      /\ ready \in Seq(BlankType) /\ retired \in Seq(BlankType) /\ target \in Nat
  BY DEF TypeOK, KernelType, PoolType
<1>2. target' = target
  BY DEF Next, RowCreated, RowEgress, RowDeleted, Kernel, Loop, Address, CreateEgress, Start,
         DestroyKill, DestroyClear, DestroyTeardown, Create, SetEgress, Destroy, Reap, Freeze, Thaw, Requested,
         Checkpoint, SnapshotFails, Expose, Snapshot, Wake, Woken, Detach, Die, Fill, Recycle,
         RemoveRetired, FillBuild,
         Report, Crash, AtRest, vars
<1> SUFFICES kernel' \in Kernels /\ names' \in [Ids -> Ifs \cup {Nil}]
             /\ ready' \in Seq(BlankType) /\ retired' \in Seq(BlankType)
  BY <1>1, <1>2 DEF KernelType, PoolType
<1> USE <1>1
<1>3. ASSUME NEW i \in Ids, Address(i) PROVE kernel' \in Kernels /\ UNCHANGED <<names, pool>>
  <2>1. todo[i] # {}
    BY <1>3 DEF Address
  <2>2. slot[i] \in Slots
    BY <2>1 DEF StepInv, StepOK, TypeOK, LockType, SlotOrNil
  <2> QED BY <1>3, <2>2, AddressFacts DEF Address
<1>4. ASSUME NEW i \in Ids, Start(i) \/ Woken(i)
      PROVE kernel' \in Kernels /\ UNCHANGED <<names, pool>>
  BY <1>4, TrackFacts DEF Start, Woken, pool
<1>5. ASSUME NEW i \in Ids, Snapshot(i) \/ DestroyTeardown(i)
      PROVE  kernel' \in Kernels /\ names' \in [Ids -> Ifs \cup {Nil}]
             /\ ready' \in Seq(BlankType) /\ retired' \in Seq(BlankType)
  BY <1>5, TeardownFacts DEF Snapshot, DestroyTeardown
<1>6. ASSUME NEW i \in Ids, Create(i) \/ Wake(i)
      PROVE  kernel' \in Kernels /\ names' \in [Ids -> Ifs \cup {Nil}]
             /\ ready' \in Seq(BlankType) /\ retired' \in Seq(BlankType)
  BY <1>6, SetupFacts DEF Create, Wake
<1>7. ASSUME NEW i \in Ids, Destroy(i) PROVE kernel' \in Kernels /\ UNCHANGED <<names, pool>>
  BY <1>7, HostIn, DownFacts DEF Destroy, Quiesced, TypeOK
<1>8. CASE Recycle
  <2> DEFINE b == Last(retired)
  <2>1. b \in BlankType /\ Front(retired) \in Seq(BlankType) /\ b.ns \in Namespaces
    BY <1>8, FrontOf DEF Recycle, BlankType
  <2>2. Scrapped(b) \in Kernels
    BY <2>1, ScrappedFacts
  <2>3. ASSUME kernel.ifs[b.host] # Nil PROVE Rename(Scrubbed(kernel, b), b.ns, "pool") \in Kernels
    <3>1. Scrubbed(kernel, b) \in Kernels
      BY <2>1, <2>3, ScrubFacts
    <3> QED BY <2>1, <3>1, NameFacts
  <2>4. Append(ready, b) \in Seq(BlankType)
    BY <2>1, AppendProperties
  <2> QED BY <1>8, <2>1, <2>2, <2>3, <2>4 DEF Recycle, Scrapped
<1>9. CASE RemoveRetired
  <2>1. Last(retired) \in BlankType /\ Front(retired) \in Seq(BlankType)
    BY <1>9, FrontOf DEF RemoveRetired
  <2> QED BY <1>9, <2>1, ScrappedFacts DEF RemoveRetired, Scrapped
<1>10. CASE FillBuild
  <2> DEFINE n == NewNs(kernel)
  <2>1. n \in Namespaces /\ n \in Ifs
    BY <1>10 DEF FillBuild, NewNs, NoNs, Ifs
  <2> HIDE DEF n
  <2>2. AddNs(kernel, n, "pool") \in Kernels
    BY <2>1, NameFacts
  <2>3. AddVeth(AddNs(kernel, n, "pool"), n, n) \in Kernels
    BY <2>1, <2>2, VethFacts
  <2>4. Append(ready, Blank(n, n)) \in Seq(BlankType)
    BY <2>1, AppendProperties DEF Blank, BlankType
  <2> QED BY <1>10, <2>3, <2>4 DEF FillBuild, n
<1>11. CASE Crash
  BY <1>11, DelNsFacts DEF Crash
<1>12. ASSUME NEW i \in Ids,
              \/ \E r \in Rules \cup {Nil} : RowCreated(i, r) \/ RowEgress(i, r)
              \/ RowDeleted(i) \/ CreateEgress(i) \/ DestroyKill(i) \/ DestroyClear(i)
              \/ SetEgress(i) \/ Reap(i) \/ Freeze(i) \/ Thaw(i) \/ Requested(i)
                 \/ Checkpoint(i) \/ SnapshotFails(i) \/ Expose(i) \/ Detach(i) \/ Die(i)
       PROVE UNCHANGED <<kernel, names, pool>>
  BY <1>12 DEF RowCreated, RowEgress, RowDeleted, CreateEgress, DestroyKill, DestroyClear,
       SetEgress, Reap, Freeze, Thaw, Requested, Checkpoint, SnapshotFails, Expose, Detach, Die
<1>13. CASE Report \/ AtRest
  BY <1>13 DEF Report, AtRest, vars, pool
<1> QED BY <1>3, <1>4, <1>5, <1>6, <1>7, <1>8, <1>9, <1>10, <1>11, <1>12, <1>13
        DEF Next, Kernel, Loop, Fill, pool

\* The steps that leave the kernel, the records of interfaces and the pool's
\* lists alone.
Quiet(i) ==
  \/ \E r \in Rules \cup {Nil} : RowCreated(i, r) \/ RowEgress(i, r)
  \/ RowDeleted(i) \/ CreateEgress(i) \/ DestroyKill(i) \/ DestroyClear(i)
  \/ SetEgress(i) \/ Reap(i) \/ Freeze(i) \/ Thaw(i) \/ Requested(i) \/ Checkpoint(i)
     \/ SnapshotFails(i) \/ Expose(i) \/ Detach(i) \/ Die(i)

\* A quiet step leaves the network alone.
LEMMA QuietFacts ==
  ASSUME NEW i \in Ids, Quiet(i)
  PROVE  UNCHANGED <<kernel, names, target, ready, retired>>
BY DEF Quiet, RowCreated, RowEgress, RowDeleted, CreateEgress, DestroyKill, DestroyClear,
       SetEgress, Reap, Freeze, Thaw, Requested, Checkpoint, SnapshotFails, Expose, Detach, Die,
       pool

\* A step is a quiet one, or one of those that touch the network.
LEMMA StepCases ==
  ASSUME Next
  PROVE  \/ \E i \in Ids :
              \/ Quiet(i) \/ Create(i) \/ Wake(i) \/ Address(i) \/ Start(i) \/ Woken(i)
              \/ Snapshot(i) \/ DestroyTeardown(i) \/ Destroy(i)
         \/ Recycle \/ RemoveRetired \/ FillBuild \/ Report \/ Crash \/ UNCHANGED vars
BY DEF Next, Kernel, Loop, Fill, Quiet, AtRest

\* The master's rows.
LEMMA MasterTypeStep ==
  ASSUME TypeOK, Next
  PROVE  MasterType'
<1>1. row \in [Ids -> Slots \cup {Unborn, Gone}] /\ wanted \in [Ids -> Rules \cup {Nil}]
  BY DEF TypeOK, MasterType
<1>2. ASSUME NEW i \in Ids, Quiet(i) PROVE MasterType'
  <2>1. ASSUME NEW r \in Rules \cup {Nil}, RowCreated(i, r) \/ RowEgress(i, r) PROVE MasterType'
    BY <1>1, <2>1 DEF RowCreated, RowEgress, MasterType
  <2>2. ASSUME RowDeleted(i) PROVE MasterType'
    BY <1>1, <2>2 DEF RowDeleted, MasterType
  <2>3. ASSUME CreateEgress(i) \/ DestroyKill(i) \/ DestroyClear(i) \/ SetEgress(i) \/ Reap(i)
               \/ Freeze(i) \/ Thaw(i) \/ Requested(i) \/ Checkpoint(i) \/ SnapshotFails(i)
                  \/ Expose(i) \/ Detach(i) \/ Die(i)
        PROVE MasterType'
    <3>1. UNCHANGED master
      BY <2>3 DEF CreateEgress, DestroyKill, DestroyClear, SetEgress, Reap, Freeze, Thaw,
           Requested, Checkpoint, SnapshotFails, Expose, Detach, Die
    <3> QED BY <1>1, <3>1 DEF master, MasterType
  <2> QED BY <1>2, <2>1, <2>2, <2>3 DEF Quiet
<1>3. ASSUME \/ \E i \in Ids : \/ Create(i) \/ Wake(i) \/ Address(i) \/ Start(i) \/ Woken(i)
                               \/ Snapshot(i) \/ DestroyTeardown(i) \/ Destroy(i)
             \/ Recycle \/ RemoveRetired \/ FillBuild \/ Report \/ Crash \/ UNCHANGED vars
      PROVE MasterType'
  <2>1. UNCHANGED master
    BY <1>3 DEF Create, Wake, Address, Start, Woken, Snapshot, DestroyTeardown, Destroy,
         Recycle, RemoveRetired, FillBuild, Report, Crash, vars, master
  <2> QED BY <1>1, <2>1 DEF master, MasterType
<1> QED BY <1>2, <1>3, StepCases

\* The bundles, and what each says of its slot.
LEMMA PlaceTypeStep ==
  ASSUME TypeOK, Next
  PROVE  PlaceType'
<1>1. /\ tier \in [Ids -> {"none", "dead", "hot", "frozen", "snapshot"}]
      /\ index \in [Ids -> SlotOrNil] /\ slot \in [Ids -> SlotOrNil] /\ Nil \in SlotOrNil
  BY DEF TypeOK, PlaceType, LockType, SlotOrNil
<1>2. ASSUME NEW i \in Ids, Quiet(i) PROVE PlaceType'
  <2>1. ASSUME CreateEgress(i) PROVE PlaceType'
    BY <1>1, <2>1 DEF CreateEgress, place, PlaceType
  <2>2. ASSUME Freeze(i) \/ Thaw(i) \/ Requested(i) \/ Checkpoint(i) \/ SnapshotFails(i)
                            \/ Expose(i) \/ Die(i) PROVE PlaceType'
    BY <1>1, <2>2 DEF Freeze, Thaw, Requested, Checkpoint, SnapshotFails, Expose, Die, place,
         PlaceType
  <2>3. ASSUME Detach(i) \/ DestroyKill(i) PROVE PlaceType'
    BY <1>1, <2>3 DEF Detach, DestroyKill, place, PlaceType
  <2>4. ASSUME \/ \E r \in Rules \cup {Nil} : RowCreated(i, r) \/ RowEgress(i, r)
               \/ RowDeleted(i) \/ DestroyClear(i) \/ SetEgress(i) \/ Reap(i)
        PROVE PlaceType'
    BY <1>1, <2>4 DEF RowCreated, RowEgress, RowDeleted, DestroyClear, SetEgress, Reap, place, PlaceType
  <2> QED BY <1>2, <2>1, <2>2, <2>3, <2>4 DEF Quiet
<1>3. ASSUME NEW i \in Ids, Start(i) \/ Woken(i) \/ Snapshot(i) PROVE PlaceType'
  BY <1>1, <1>3 DEF Start, Woken, Snapshot, PlaceType
<1>4. ASSUME \/ \E i \in Ids : \/ Create(i) \/ Wake(i) \/ Address(i) \/ DestroyTeardown(i) \/ Destroy(i)
             \/ Recycle \/ RemoveRetired \/ FillBuild \/ Report \/ Crash \/ UNCHANGED vars
      PROVE PlaceType'
  <2>1. UNCHANGED <<tier, index>>
    BY <1>4 DEF Create, Wake, Address, DestroyTeardown, Destroy,
         Recycle, RemoveRetired, FillBuild, Report, Crash, vars, place
  <2> QED BY <1>1, <2>1 DEF PlaceType
<1> QED BY <1>2, <1>3, <1>4, StepCases

\* What holds each lock, and for which slot.
LEMMA LockTypeStep ==
  ASSUME TypeOK, Single(ready), Next
  PROVE  LockType'
<1>1. /\ op \in [Ids -> {"idle", "create", "wake", "put", "kill", "clear", "teardown"}]
      /\ todo \in [Ids -> SUBSET {"address", "egress", "pooled", "failed"}]
      /\ slot \in [Ids -> SlotOrNil] /\ index \in [Ids -> SlotOrNil] /\ Nil \in SlotOrNil
      /\ row \in [Ids -> Slots \cup {Unborn, Gone}]
  BY DEF TypeOK, PlaceType, LockType, SlotOrNil, MasterType
<1>2. ASSUME NEW i \in Ids, Quiet(i) PROVE LockType'
  <2>1. ASSUME CreateEgress(i) PROVE LockType'
    <3>1. \/ todo' = [todo EXCEPT ![i] = @ \ {"egress"}] /\ op' = op
          \/ todo' = [todo EXCEPT ![i] = @ \cup {"failed"}] /\ op' = op
          \/ todo' = [todo EXCEPT ![i] = {}] /\ op' = [op EXCEPT ![i] = "idle"]
      BY <2>1 DEF CreateEgress
    <3>2. slot' = [slot EXCEPT ![i] = IF op'[i] = "idle" THEN Nil ELSE @]
      BY <2>1 DEF CreateEgress
    <3> QED BY <1>1, <3>1, <3>2 DEF LockType
  <2>2. ASSUME Reap(i) \/ DestroyKill(i) PROVE LockType'
    BY <1>1, <2>2 DEF Reap, DestroyKill, LockType
  <2>3. ASSUME DestroyClear(i) PROVE LockType'
    BY <1>1, <2>3 DEF DestroyClear, LockType
  <2>4. ASSUME \/ \E r \in Rules \cup {Nil} : RowCreated(i, r) \/ RowEgress(i, r)
               \/ RowDeleted(i) \/ SetEgress(i) \/ Freeze(i) \/ Thaw(i) \/ Requested(i)
               \/ Expose(i) \/ Die(i) \/ Detach(i)
        PROVE LockType'
    BY <1>1, <2>4 DEF RowCreated, RowEgress, RowDeleted, Detach, SetEgress, Freeze, Thaw,
         Requested, Expose, Die, locks, LockType
  <2>5. ASSUME Checkpoint(i) \/ SnapshotFails(i) PROVE LockType'
    BY <1>1, <2>5 DEF Checkpoint, SnapshotFails, LockType
  <2> QED BY <1>2, <2>1, <2>2, <2>3, <2>4, <2>5 DEF Quiet
<1>3. ASSUME NEW i \in Ids, Create(i) \/ Wake(i) PROVE LockType'
  <2>1. /\ todo' = [todo EXCEPT ![i] = todo'[i]]
        /\ todo'[i] \subseteq {"address", "egress", "pooled"}
    BY <1>3, SetupFacts DEF Create, Wake
  <2>2. /\ op' = [op EXCEPT ![i] = "create"] \/ op' = [op EXCEPT ![i] = "wake"]
        /\ \/ slot' = [slot EXCEPT ![i] = row[i]] /\ row[i] \in Slots
           \/ slot' = [slot EXCEPT ![i] = index[i]]
    BY <1>3 DEF Create, Wake, Wanted
  <2> QED BY <1>1, <2>1, <2>2 DEF LockType, SlotOrNil
<1>4. ASSUME NEW i \in Ids, Address(i) PROVE LockType'
  <2>1. \/ todo' = [todo EXCEPT ![i] = @ \ {"address"}] \/ todo' = [todo EXCEPT ![i] = {}]
    BY <1>1, <1>4 DEF Address
  <2>2. op' = op \/ op' = [op EXCEPT ![i] = "idle"]
    BY <1>1, <1>4 DEF Address
  <2>3. slot' = [slot EXCEPT ![i] = IF op'[i] = "idle" THEN Nil ELSE @]
    BY <1>4 DEF Address
  <2> QED BY <1>1, <2>1, <2>2, <2>3 DEF LockType
<1>5. ASSUME NEW i \in Ids,
             Start(i) \/ Woken(i) \/ Snapshot(i) \/ DestroyTeardown(i) \/ Destroy(i)
      PROVE LockType'
  BY <1>1, <1>5 DEF Start, Woken, Snapshot, DestroyTeardown, Destroy, LockType
<1>6. CASE Crash
  BY <1>1, <1>6 DEF Crash, LockType
<1>7. ASSUME \/ Recycle \/ RemoveRetired \/ FillBuild \/ Report \/ UNCHANGED vars
      PROVE LockType'
  <2>1. UNCHANGED locks
    BY <1>7 DEF Recycle, RemoveRetired, FillBuild, Report, vars, locks
  <2> QED BY <1>1, <2>1 DEF LockType, locks
<1> QED BY <1>2, <1>3, <1>4, <1>5, <1>6, <1>7, StepCases

\* The rules noted, the ports open and the listeners due.
LEMMA NodeTypeStep ==
  ASSUME TypeOK, StepInv, Next
  PROVE  NodeType'
<1>1. /\ installed \in [Ids -> Have \cup {Nil}] /\ running \in [Ids -> SlotOrNil]
      /\ slot \in [Ids -> SlotOrNil] /\ index \in [Ids -> SlotOrNil] /\ Nil \in SlotOrNil
      /\ wanted \in [Ids -> Rules \cup {Nil}] /\ due \subseteq Ids /\ NodeType
  BY DEF TypeOK, PlaceType, LockType, SlotOrNil, MasterType, NodeType
<1>2. ASSUME NEW i \in Ids, Quiet(i) PROVE NodeType'
  <2>1. ASSUME NEW w \in Have \cup {Nil}, EgressSet(i, w), UNCHANGED gateway PROVE NodeType'
    BY <1>1, <2>1, EgressType DEF NodeType, gateway
  <2>2. ASSUME UNCHANGED rules, UNCHANGED gateway PROVE NodeType'
    BY <1>1, <2>2 DEF NodeType, gateway, rules
  <2>3. ASSUME CreateEgress(i) PROVE NodeType'
    <3>1. slot[i] \in Slots
      BY <2>3 DEF CreateEgress, StepInv, StepOK, Working, TypeOK, LockType, SlotOrNil
    <3>2. Want(slot[i], wanted[i]) \in Have \cup {Nil}
      BY <1>1, <3>1, WantType
    <3>3. EgressSet(i, Want(slot[i], wanted[i])) \/ UNCHANGED rules
      BY <2>3 DEF CreateEgress
    <3>4. UNCHANGED gateway
      BY <2>3 DEF CreateEgress
    <3> QED BY <2>1, <2>2, <3>2, <3>3, <3>4
  <2>4. ASSUME SetEgress(i) PROVE NodeType'
    <3>1. index[i] \in Slots
      BY <2>4 DEF SetEgress, Observed, StepInv, StepOK, TypeOK, PlaceType, SlotOrNil
    <3>2. Want(index[i], wanted[i]) \in Have \cup {Nil}
      BY <1>1, <3>1, WantType
    <3> QED BY <2>1, <2>4, <3>2 DEF SetEgress
  <2>5. ASSUME Detach(i) \/ DestroyClear(i) PROVE NodeType'
    <3>1. EgressSet(i, Nil) \/ UNCHANGED rules
      BY <2>5 DEF Detach, DestroyClear
    <3>2. UNCHANGED gateway
      BY <2>5 DEF Detach, DestroyClear
    <3> QED BY <2>1, <2>2, <3>1, <3>2
  <2>6. ASSUME \/ \E r \in Rules \cup {Nil} : RowCreated(i, r) \/ RowEgress(i, r)
               \/ RowDeleted(i) \/ DestroyKill(i) \/ Reap(i) \/ Freeze(i) \/ Thaw(i)
               \/ Requested(i) \/ Checkpoint(i) \/ SnapshotFails(i) \/ Die(i)
        PROVE NodeType'
    <3>1. UNCHANGED rules /\ UNCHANGED gateway
      BY <2>6 DEF RowCreated, RowEgress, RowDeleted, DestroyKill, Reap, Freeze, Thaw, Requested,
           Checkpoint, SnapshotFails, Die
    <3> QED BY <2>2, <3>1
  <2>7. ASSUME Expose(i) PROVE NodeType'
    <3>1. Opened(i) \in [Ids -> SlotOrNil]
      BY <1>1 DEF Opened
    <3>2. running' \in [Ids -> SlotOrNil]
      BY <1>1, <2>7, <3>1 DEF Expose
    <3> QED BY <1>1, <2>7, <3>2 DEF Expose, rules, NodeType
  <2> QED BY <1>2, <2>3, <2>4, <2>5, <2>6, <2>7 DEF Quiet
<1>3. ASSUME NEW i \in Ids, Start(i) PROVE NodeType'
  BY <1>1, <1>3 DEF Start, rules, NodeType
<1>4. CASE Report
  BY <1>1, <1>4 DEF Report, NodeType, rules, SlotOrNil
<1>5. CASE Crash
  BY <1>1, <1>5 DEF Crash, NodeType
<1>6. ASSUME \/ \E i \in Ids : \/ Create(i) \/ Wake(i) \/ Address(i) \/ Woken(i) \/ Snapshot(i)
                               \/ DestroyTeardown(i) \/ Destroy(i)
             \/ Recycle \/ RemoveRetired \/ FillBuild \/ UNCHANGED vars
      PROVE NodeType'
  <2>1. UNCHANGED <<installed, running, due>>
    BY <1>6 DEF Create, Wake, Address, Woken, Snapshot, DestroyTeardown, Destroy,
         Recycle, RemoveRetired, FillBuild, vars, rules, gateway
  <2> QED BY <1>1, <2>1 DEF NodeType
<1> QED BY <1>2, <1>3, <1>4, <1>5, <1>6, StepCases

\* What is on record of the past: it only grows.
LEMMA PastTypeStep ==
  ASSUME TypeOK, Single(ready), Next
  PROVE  /\ PastType' /\ (spent'["crash"] = 0 => spent["crash"] = 0)
         /\ astray' = {} => astray = {}
<1>1. /\ astray \subseteq {"in place", "late"} /\ orphaned \subseteq Ids
      /\ spent \in [Budget -> Nat] /\ PastType
  BY DEF TypeOK, PastType
<1>2. {"fault", "tier", "egress", "crash"} \subseteq Budget
  BY DEF Budget
<1> DEFINE Goal == /\ PastType' /\ (spent'["crash"] = 0 => spent["crash"] = 0)
                   /\ astray' = {} => astray = {}
<1>3. ASSUME orphaned' \subseteq Ids, astray' = astray,
             \/ UNCHANGED spent
             \/ \E b \in {"fault", "tier", "egress", "crash"} : Spend(b)
      PROVE Goal
  BY <1>1, <1>2, <1>3, SpendFacts DEF PastType
<1> HIDE DEF Goal
<1>4. ASSUME NEW i \in Ids, Quiet(i) PROVE Goal
  <2>1. orphaned' \subseteq Ids /\ astray' = astray
    BY <1>1, <1>4 DEF Quiet, RowCreated, RowEgress, RowDeleted, CreateEgress, DestroyKill,
         DestroyClear, SetEgress, Reap, Freeze, Thaw, Requested, Checkpoint, SnapshotFails,
         Expose, Detach, Die, past, marks
  <2>2. \/ UNCHANGED spent
        \/ \E b \in {"fault", "tier", "egress", "crash"} : Spend(b)
    BY <1>4 DEF Quiet, RowCreated, RowEgress, RowDeleted, CreateEgress, DestroyKill,
         DestroyClear, SetEgress, Reap, Freeze, Thaw, Requested, Checkpoint, SnapshotFails,
         Expose, Detach, Die, past, marks
  <2> QED BY <1>3, <2>1, <2>2
<1>5. ASSUME NEW i \in Ids, Create(i) \/ Wake(i) PROVE Goal
  <2>1. Setup(i)
    BY <1>5 DEF Create, Wake
  <2> QED BY <1>1, <2>1, SetupFacts DEF PastType, Goal
<1>6. ASSUME NEW i \in Ids, Address(i) PROVE Goal
  <2>1. /\ spent' = spent /\ orphaned' \subseteq Ids
        /\ astray' \subseteq {"in place", "late"} /\ astray \subseteq astray'
    BY <1>1, <1>6 DEF Address
  <2> QED BY <1>1, <2>1 DEF PastType, Goal
<1>7. ASSUME NEW i \in Ids, Start(i) \/ Woken(i) \/ Snapshot(i) \/ DestroyTeardown(i) \/ Destroy(i)
      PROVE Goal
  <2>1. UNCHANGED <<astray, orphaned>>
    BY <1>7 DEF Start, Woken, Snapshot, DestroyTeardown, Destroy, past, marks
  <2>2. \/ UNCHANGED spent
        \/ \E b \in {"fault", "tier", "egress", "crash"} : Spend(b)
    BY <1>7 DEF Start, Woken, Snapshot, DestroyTeardown, Destroy, past, marks
  <2> QED BY <1>1, <1>3, <2>1, <2>2
<1>8. ASSUME Recycle \/ RemoveRetired \/ FillBuild \/ Report \/ UNCHANGED vars PROVE Goal
  <2>1. UNCHANGED past
    BY <1>8 DEF Recycle, RemoveRetired, FillBuild, Report, vars, past, marks
  <2> QED BY <1>1, <1>3, <2>1 DEF past
<1>9. ASSUME Crash PROVE Goal
  <2>1. orphaned' \subseteq Ids /\ astray' = astray /\ Spend("crash")
    BY <1>1, <1>9 DEF Crash
  <2>2. \E b \in {"fault", "tier", "egress", "crash"} : Spend(b)
    BY <2>1, Zenon
  <2> QED BY <1>3, <2>1, <2>2, Zenon
<1> QED BY <1>4, <1>5, <1>6, <1>7, <1>8, <1>9, StepCases DEF Goal

\* So every variable keeps its type.
LEMMA TypeStep ==
  ASSUME TypeOK, StepInv, SpaceInv, Next
  PROVE  TypeOK'
<1>1. OneNs /\ Single(ready) /\ Single(retired)
  BY DEF SpaceInv, NamedInv, ListInv, OneNs
<1> QED BY <1>1, MasterTypeStep, KernelTypeStep, PlaceTypeStep, LockTypeStep, NodeTypeStep,
           PastTypeStep DEF TypeOK

(***************************************************************************)
(* Who is at which step, and on which slot.                                *)
(***************************************************************************)
\* One sandbox's steps are its own: what the others are at stays as it is.
Only(i) ==
  \A j \in Ids \ {i} :
    /\ row'[j] = row[j] /\ tier'[j] = tier[j] /\ index'[j] = index[j] /\ op'[j] = op[j]
    /\ todo'[j] = todo[j] /\ slot'[j] = slot[j] /\ installed'[j] = installed[j]
    /\ j \in due' => j \in due

\* Whose listener is due was due, or has just been created, on its slot.
DueOwn(i) ==
  i \in due' => \/ i \in due /\ index'[i] = index[i]
                \/ op[i] = "create" /\ index'[i] = slot[i]

\* What a sandbox is at is as it was while nothing of it changes.
LEMMA StepKept ==
  ASSUME StepInv, NEW j \in Ids,
         /\ row'[j] = row[j] /\ tier'[j] = tier[j] /\ index'[j] = index[j] /\ op'[j] = op[j]
         /\ todo'[j] = todo[j] /\ slot'[j] = slot[j] /\ installed'[j] = installed[j]
         /\ j \in due' => j \in due
  PROVE  StepOK(j)'
<1>1. StepOK(j)
  BY DEF StepInv
<1> QED BY <1>1 DEF StepOK, Working

\* A row, and what the sandbox is at, across a step of its own: all that the
\* other rows' slots depend on.
LEMMA ApartStep ==
  ASSUME TypeOK, StepInv, NEW i \in Ids, Only(i), row' = row,
         op'[i] = "create" => \/ op[i] = "create" /\ slot'[i] = slot[i]
                              \/ Wanted(i) /\ slot'[i] = row[i],
         (tier'[i] # "none" \/ op'[i] # "idle")
            => tier[i] # "none" \/ op[i] # "idle"
               \/ \A j \in Ids : /\ op[j] = "create" => slot[j] # row[i]
                                 /\ j \in due => index[j] # row[i],
         DueOwn(i)
  PROVE  \A k, j \in Ids : k # j => Apart(k, j)'
<1> SUFFICES ASSUME NEW k \in Ids, NEW j \in Ids, k # j PROVE Apart(k, j)'
  OBVIOUS
<1>1. Apart(k, j)
  BY DEF StepInv
<1>2. CASE k # i /\ j # i
  BY <1>1, <1>2 DEF Only, Apart, Wanted
<1>3. CASE k = i
  <2>1. /\ j # i /\ op'[j] = op[j] /\ slot'[j] = slot[j] /\ index'[j] = index[j]
        /\ j \in due' => j \in due
    BY <1>3 DEF Only
  <2> QED BY <1>1, <1>3, <2>1 DEF Apart, Wanted
<1>4. CASE j = i
  <2>1. op'[k] = op[k] /\ tier'[k] = tier[k]
    BY <1>4 DEF Only
  <2>2. Wanted(i) => row[k] # row[i]
    BY <1>4 DEF StepInv, Apart
  <2> QED BY <1>1, <1>4, <2>1, <2>2 DEF Apart, Wanted, DueOwn
<1> QED BY <1>2, <1>3, <1>4

\* The steps of one sandbox, by the part of its life.
LEMMA StepStep ==
  ASSUME TypeOK, StepInv, Single(ready), Next
  PROVE  StepInv'
<1>1. /\ op \in [Ids -> {"idle", "create", "wake", "put", "kill", "clear", "teardown"}]
      /\ todo \in [Ids -> SUBSET {"address", "egress", "pooled", "failed"}]
      /\ slot \in [Ids -> SlotOrNil] /\ index \in [Ids -> SlotOrNil]
      /\ row \in [Ids -> Slots \cup {Unborn, Gone}]
      /\ tier \in [Ids -> {"none", "dead", "hot", "frozen", "snapshot"}]
      /\ installed \in [Ids -> Have \cup {Nil}]
  BY DEF TypeOK, PlaceType, LockType, MasterType, NodeType
<1>2. Nil \notin Slots /\ Slots \subseteq Nat \ {0}
  BY NetAssumption
<1>3. \A i \in Ids : StepOK(i)
  BY DEF StepInv
<1>4. ASSUME NEW i \in Ids, Only(i), row' = row, StepOK(i)',
             op'[i] = "create" => \/ op[i] = "create" /\ slot'[i] = slot[i]
                                  \/ Wanted(i) /\ slot'[i] = row[i],
             (tier'[i] # "none" \/ op'[i] # "idle")
                => tier[i] # "none" \/ op[i] # "idle"
                   \/ \A j \in Ids : /\ op[j] = "create" => slot[j] # row[i]
                                     /\ j \in due => index[j] # row[i],
             DueOwn(i)
      PROVE  StepInv'
  <2>1. \A j \in Ids \ {i} : StepOK(j)'
    BY <1>4, StepKept DEF Only
  <2>2. \A k, j \in Ids : k # j => Apart(k, j)'
    BY <1>4, ApartStep
  <2> QED BY <1>4, <2>1, <2>2 DEF StepInv
<1>5. ASSUME row' = row, tier' = tier, index' = index, op' = op, todo' = todo, slot' = slot,
             installed' = installed, due' \subseteq due
      PROVE  StepInv'
  BY <1>5 DEF StepInv, StepOK, Apart, Working, Wanted
<1>6. ASSUME NEW i \in Ids, NEW r \in Rules \cup {Nil}, RowCreated(i, r) PROVE StepInv'
  <2>1. PICK s \in Slots : s \notin Used /\ row' = [row EXCEPT ![i] = s]
    BY <1>6 DEF RowCreated
  <2>2. /\ row[i] = Unborn /\ tier' = tier /\ index' = index /\ op' = op /\ todo' = todo
        /\ slot' = slot /\ installed' = installed /\ due' = due
    BY <1>6 DEF RowCreated, place, locks, rules, gateway
  <2>3. tier[i] = "none" /\ op[i] = "idle"
    BY <1>3, <2>2 DEF StepOK
  <2>4. \A j \in Ids : StepOK(j)'
    BY <1>1, <1>2, <1>3, <2>1, <2>2, <2>3 DEF StepOK, Working, Unborn, Gone
  <2>5. \A j \in Ids : row[j] # s
    BY <2>1 DEF Used
  <2>6. ASSUME NEW k \in Ids, NEW j \in Ids, k # j PROVE Apart(k, j)'
    BY <1>1, <2>1, <2>2, <2>3, <2>5, <2>6 DEF StepInv, Apart, Wanted
  <2> QED BY <2>4, <2>6 DEF StepInv
<1>7. ASSUME NEW i \in Ids, RowDeleted(i) PROVE StepInv'
  <2>1. /\ Wanted(i) /\ row' = [row EXCEPT ![i] = Gone] /\ Gone \notin Slots /\ Gone # Unborn
        /\ tier' = tier /\ index' = index /\ op' = op /\ todo' = todo /\ slot' = slot
        /\ installed' = installed /\ due' = due
    BY <1>7, <1>2 DEF RowDeleted, place, locks, rules, gateway, Gone, Unborn
  <2>2. \A j \in Ids : StepOK(j)'
    BY <1>1, <1>3, <2>1 DEF StepOK, Working
  <2>3. ASSUME NEW k \in Ids, NEW j \in Ids, k # j PROVE Apart(k, j)'
    <3>1. Apart(k, j)
      BY <2>3 DEF StepInv
    <3>2. op[j] = "create" => slot[j] # Gone
      BY <1>1, <1>3, <2>1 DEF StepOK, Working, SlotOrNil
    <3>3. ~Wanted(i)'
      BY <1>1, <2>1 DEF Wanted
    <3> QED BY <1>1, <2>1, <3>1, <3>2, <3>3 DEF Apart, Wanted
  <2> QED BY <2>2, <2>3 DEF StepInv
<1>8. ASSUME NEW i \in Ids, \E r \in Rules \cup {Nil} : RowEgress(i, r) PROVE StepInv'
  BY <1>5, <1>8 DEF RowEgress, place, locks, rules, gateway
<1>9. ASSUME NEW i \in Ids, CreateEgress(i) PROVE StepInv'
  <2>1. /\ row' = row /\ op[i] = "create" /\ "egress" \in todo[i] /\ due' = due
        /\ slot' = [slot EXCEPT ![i] = IF op'[i] = "idle" THEN Nil ELSE @]
    BY <1>9 DEF CreateEgress, master, gateway
  <2>2. StepOK(i) /\ slot[i] # Nil /\ row[i] # Unborn
    BY <1>3, <2>1 DEF StepOK, Working
  <2>3. CASE /\ EgressSet(i, Want(slot[i], wanted[i]))
             /\ index' = [index EXCEPT ![i] = slot[i]] /\ tier' = [tier EXCEPT ![i] = "dead"]
             /\ todo' = [todo EXCEPT ![i] = @ \ {"egress"}] /\ op' = op
    <3>1. Only(i)
      BY <1>1, <2>1, <2>3 DEF Only, EgressSet
    <3>2. StepOK(i)'
      BY <1>1, <2>1, <2>2, <2>3 DEF StepOK, Working
    <3>3. DueOwn(i)
      BY <1>1, <2>1, <2>3 DEF DueOwn
    <3> QED BY <1>1, <1>4, <2>1, <2>3, <3>1, <3>2, <3>3
  <2>4. CASE /\ UNCHANGED <<installed, tier, index>>
             /\ \/ todo' = [todo EXCEPT ![i] = @ \cup {"failed"}] /\ op' = op
                \/ todo' = [todo EXCEPT ![i] = {}] /\ op' = [op EXCEPT ![i] = "idle"]
    <3>1. Only(i)
      BY <1>1, <2>1, <2>4 DEF Only
    <3>2. StepOK(i)'
      BY <1>1, <2>1, <2>2, <2>4 DEF StepOK, Working
    <3>3. DueOwn(i)
      BY <2>1, <2>4 DEF DueOwn
    <3> QED BY <1>1, <1>4, <2>1, <2>4, <3>1, <3>2, <3>3
  <2> QED BY <1>9, <2>3, <2>4 DEF CreateEgress, rules, place
<1>10. ASSUME NEW i \in Ids, DestroyKill(i) \/ DestroyClear(i) \/ Reap(i) PROVE StepInv'
  <2>1. /\ Only(i) /\ row' = row /\ op'[i] # "create" /\ todo' = todo /\ due' = due
    BY <1>1, <1>10 DEF Only, DestroyKill, DestroyClear, Reap, master, rules, place, gateway, EgressSet
  <2>2. tier[i] # "none" \/ op[i] # "idle"
    BY <1>10 DEF DestroyKill, DestroyClear, Reap, Dead
  <2>3. i \notin due
    BY <1>3, <1>10 DEF DestroyKill, DestroyClear, Reap, Turn, StepOK
  <2>4. StepOK(i)'
    BY <1>1, <1>3, <1>10, <2>1, <2>3 DEF DestroyKill, DestroyClear, Reap, Dead, master, rules,
         place, EgressSet, StepOK, Working
  <2>5. DueOwn(i)
    BY <2>1, <2>3 DEF DueOwn
  <2> QED BY <1>4, <2>1, <2>2, <2>4, <2>5
<1>11. ASSUME NEW i \in Ids,
              \/ SetEgress(i) \/ Freeze(i) \/ Thaw(i) \/ Requested(i) \/ Die(i) \/ Detach(i)
       PROVE StepInv'
  <2>1. /\ Only(i) /\ row' = row /\ op' = op /\ op[i] = "idle" /\ todo' = todo /\ slot' = slot
        /\ due' = due
    BY <1>1, <1>11 DEF Only, SetEgress, Freeze, Thaw, Requested, Die, Detach, Asked, master, rules,
         place, locks, gateway, EgressSet
  <2>2. tier[i] # "none" /\ (i \in due => index' = index)
    BY <1>11 DEF SetEgress, Freeze, Thaw, Requested, Die, Detach, Observed, Asked, Turn, place
  <2>3. StepOK(i)'
    BY <1>1, <1>3, <1>11, <2>1, <2>2 DEF SetEgress, Freeze, Thaw, Requested, Die, Detach, Observed,
         Asked, Turn, master, rules, place, locks, EgressSet, StepOK, Working
  <2>4. DueOwn(i)
    BY <2>1, <2>2 DEF DueOwn
  <2> QED BY <1>4, <2>1, <2>2, <2>3, <2>4
<1>19. ASSUME NEW i \in Ids, Checkpoint(i) \/ SnapshotFails(i) PROVE StepInv'
  <2>1. /\ Only(i) /\ row' = row /\ todo' = todo /\ slot' = slot /\ due' = due /\ index' = index
        /\ installed' = installed /\ op'[i] # "create"
    BY <1>1, <1>19 DEF Only, Checkpoint, SnapshotFails, master, rules, place, gateway
  <2>2. tier[i] \in {"hot", "frozen"} /\ op[i] \in {"idle", "put"} /\ op'[i] \in {"idle", "put"}
        /\ (op'[i] = "put" => tier'[i] = tier[i]) /\ tier'[i] # "none"
    BY <1>1, <1>3, <1>19 DEF Checkpoint, SnapshotFails, place, StepOK
  <2>3. StepOK(i)'
    BY <1>1, <1>3, <2>1, <2>2 DEF StepOK, Working
  <2>4. DueOwn(i)
    BY <2>1 DEF DueOwn
  <2> QED BY <1>4, <2>1, <2>2, <2>3, <2>4
<1>20. ASSUME NEW i \in Ids, Expose(i) PROVE StepInv'
  BY <1>5, <1>20 DEF Expose, place, locks, rules, master
<1>12. ASSUME NEW i \in Ids, Create(i) PROVE StepInv'
  <2>1. /\ todo' = [todo EXCEPT ![i] = todo'[i]] /\ "egress" \in todo'[i]
    BY <1>12, SetupFacts DEF Create
  <2>2. /\ Wanted(i) /\ op[i] = "idle" /\ row' = row /\ tier' = tier /\ index' = index
        /\ installed' = installed /\ tier[i] \in {"none", "dead"}
        /\ op' = [op EXCEPT ![i] = "create"] /\ slot' = [slot EXCEPT ![i] = row[i]] /\ due' = due
    BY <1>1, <1>12 DEF Create, master, place, rules, gateway, Observed
  <2>3. \A j \in Ids : /\ op[j] = "create" => slot[j] # row[i]
                       /\ j \in due => index[j] # row[i]
    BY <1>12 DEF Create, Creating
  <2>4. Only(i)
    BY <1>1, <2>1, <2>2 DEF Only
  <2>5. StepOK(i)'
    BY <1>1, <1>2, <1>3, <2>1, <2>2 DEF StepOK, Working, Wanted, Unborn
  <2>6. DueOwn(i)
    BY <2>2 DEF DueOwn
  <2> QED BY <1>1, <1>4, <2>2, <2>3, <2>4, <2>5, <2>6
<1>13. ASSUME NEW i \in Ids, Wake(i) PROVE StepInv'
  <2>1. todo' = [todo EXCEPT ![i] = todo'[i]]
    BY <1>13, SetupFacts DEF Wake
  <2>2. /\ op[i] = "idle" /\ row' = row /\ tier' = tier /\ index' = index
        /\ installed' = installed /\ tier[i] = "snapshot"
        /\ op' = [op EXCEPT ![i] = "wake"] /\ slot' = [slot EXCEPT ![i] = index[i]] /\ due' = due
    BY <1>1, <1>13 DEF Wake, master, place, rules, gateway
  <2>3. Only(i)
    BY <1>1, <2>1, <2>2 DEF Only
  <2>4. StepOK(i)'
    BY <1>1, <1>3, <2>1, <2>2 DEF StepOK, Working
  <2>5. DueOwn(i)
    BY <2>2 DEF DueOwn
  <2> QED BY <1>1, <1>4, <2>2, <2>3, <2>4, <2>5
<1>14. ASSUME NEW i \in Ids, Address(i) PROVE StepInv'
  <2>1. /\ row' = row /\ tier' = tier /\ index' = index /\ installed' = installed /\ due' = due
        /\ "address" \in todo[i] /\ slot' = [slot EXCEPT ![i] = IF op'[i] = "idle" THEN Nil ELSE @]
        /\ \/ todo' = [todo EXCEPT ![i] = @ \ {"address"}] /\ op' = op
           \/ todo' = [todo EXCEPT ![i] = {}] /\ op' = [op EXCEPT ![i] = "idle"]
    BY <1>1, <1>14 DEF Address, master, place, rules, gateway
  <2>2. Only(i)
    BY <1>1, <2>1 DEF Only
  <2>3. StepOK(i)'
    BY <1>1, <1>3, <2>1 DEF StepOK, Working
  <2>4. tier[i] # "none" \/ op[i] # "idle"
    BY <1>3, <2>1 DEF StepOK, Working
  <2>5. DueOwn(i)
    BY <2>1 DEF DueOwn
  <2> QED BY <1>1, <1>4, <2>1, <2>2, <2>3, <2>4, <2>5
<1>15. ASSUME NEW i \in Ids, Start(i) \/ Woken(i) PROVE StepInv'
  <2>1. /\ row' = row /\ index' = index /\ installed' = installed /\ Working(i)
        /\ todo' = [todo EXCEPT ![i] = {}] /\ op' = [op EXCEPT ![i] = "idle"]
        /\ slot' = [slot EXCEPT ![i] = Nil]
        /\ tier' = tier \/ tier' = [tier EXCEPT ![i] = "hot"]
        /\ op[i] = "create" => "egress" \notin todo[i]
        /\ \/ due' = due
           \/ op[i] = "create" /\ due' = due \cup {i} /\ tier' = [tier EXCEPT ![i] = "hot"]
    BY <1>15 DEF Start, Woken, Working, master, rules, gateway, marks, past
  <2>2. Only(i)
    BY <1>1, <2>1 DEF Only
  <2>3. StepOK(i)'
    BY <1>1, <1>3, <2>1 DEF StepOK, Working
  <2>4. DueOwn(i)
    BY <1>3, <2>1 DEF StepOK, DueOwn
  <2> QED BY <1>1, <1>4, <2>1, <2>2, <2>3, <2>4 DEF Working
<1>16. ASSUME NEW i \in Ids, Snapshot(i) \/ DestroyTeardown(i) \/ Destroy(i) PROVE StepInv'
  <2>1. /\ Only(i) /\ row' = row /\ op'[i] # "create" /\ todo' = todo /\ due' = due
        /\ index' = index /\ (tier[i] # "none" \/ op[i] # "idle")
    BY <1>1, <1>16 DEF Only, Snapshot, DestroyTeardown, Destroy, master, rules, place, locks, gateway,
         Observed
  <2>2. StepOK(i)'
    BY <1>1, <1>3, <1>16, <2>1 DEF Snapshot, DestroyTeardown, Destroy, Observed, Wanted, Turn,
         master, rules, place, locks, StepOK, Working, Unborn, Gone
  <2>3. DueOwn(i)
    BY <2>1 DEF DueOwn
  <2> QED BY <1>4, <2>1, <2>2, <2>3
<1>17. ASSUME Crash PROVE StepInv'
  <2>1. /\ row' = row /\ tier' = tier /\ index' = index
        /\ due' = {} /\ \A i \in Ids : op'[i] = "idle" /\ todo'[i] = {}
    BY <1>17 DEF Crash, master, place
  <2> QED BY <1>3, <2>1 DEF StepInv, StepOK, Apart, Working, Wanted
<1>18. ASSUME Recycle \/ RemoveRetired \/ FillBuild \/ Report \/ UNCHANGED vars PROVE StepInv'
  BY <1>5, <1>18 DEF Recycle, RemoveRetired, FillBuild, Report, vars, master, place, locks, rules,
       gateway
<1> QED BY <1>6, <1>7, <1>8, <1>9, <1>10, <1>11, <1>12, <1>13, <1>14, <1>15, <1>16, <1>17, <1>18,
           <1>19, <1>20, StepCases DEF Quiet

(***************************************************************************)
(* Namespaces and the pool's lists.                                        *)
(***************************************************************************)
Nss(list) == {b.ns : b \in Range(list)}

\* Taking the last of a list takes its namespace, and no other.
LEMMA FrontNs ==
  ASSUME NEW list \in Seq(BlankType), list # <<>>, Single(list)
  PROVE  /\ Nss(Front(list)) = Nss(list) \ {Last(list).ns} /\ Last(list).ns \in Nss(list)
         /\ Single(Front(list)) /\ Last(list) \in BlankType /\ Last(list).ns \in Namespaces
BY FrontOf DEF Nss, BlankType

\* Adding a namespace that is not on the list adds just that.
LEMMA AppendNs ==
  ASSUME NEW list \in Seq(BlankType), Single(list), NEW b \in BlankType, b.ns \notin Nss(list)
  PROVE  Single(Append(list, b)) /\ Nss(Append(list, b)) = Nss(list) \cup {b.ns}
<1>1. \A c \in Range(list) : c.ns # b.ns
  BY DEF Nss
<1>2. Single(Append(list, b)) /\ Range(Append(list, b)) = Range(list) \cup {b}
  BY <1>1, AppendTo
<1> QED BY <1>2 DEF Nss

\* The names that are no sandbox's.
LEMMA Names ==
  ASSUME NEW i \in Ids
  PROVE  /\ i # "pool" /\ i # "dead" /\ i # Nil /\ i \notin Namespaces
         /\ Nil # "pool" /\ Nil # "dead" /\ Nil \notin Ids /\ Nil \notin Namespaces
         /\ Nil \notin Ifs
BY NetAssumption DEF Ifs

\* What only renames nothing and tracks in the sandboxes' namespaces keeps the
\* lists true, if nobody ends with a namespace and nothing to show for it.
LEMMA SpaceKept ==
  ASSUME TypeOK, SpaceInv, kernel'.ns = kernel.ns, UNCHANGED <<names, target, ready, retired>>,
         \A n \in Namespaces : kernel'.tracked[n] = kernel.tracked[n] \/ kernel.ns[n] \in Ids,
         \A j \in Ids \ orphaned' : tier'[j] = "none" /\ op'[j] = "idle" =>
           \/ j \notin orphaned /\ tier[j] = "none" /\ op[j] = "idle"
           \/ NsOf(kernel, j) = {},
         \A j \in Ids : "pooled" \in todo'[j] => "pooled" \in todo[j]
  PROVE  SpaceInv'
<1>1. NsOf(kernel, "pool")' = NsOf(kernel, "pool") /\ NsOf(kernel, "dead")' = NsOf(kernel, "dead")
      /\ \A j \in Ids : NsOf(kernel, j)' = NsOf(kernel, j)
  BY DEF NsOf
<1>2. NamedInv'
  BY <1>1, Names DEF SpaceInv, NamedInv
<1>3. \A b \in Range(ready) : kernel'.tracked[b.ns] = {}
  <2> SUFFICES ASSUME NEW b \in Range(ready) PROVE kernel'.tracked[b.ns] = {}
    OBVIOUS
  <2>1. b.ns \in NsOf(kernel, "pool") /\ kernel.tracked[b.ns] = {}
    BY DEF SpaceInv, ListInv
  <2>2. b.ns \in Namespaces /\ kernel.ns[b.ns] \notin Ids
    BY <2>1, Names DEF NsOf
  <2> QED BY <2>1, <2>2
<1>4. ListInv'
  BY <1>1, <1>3 DEF SpaceInv, ListInv
<1>5. NoPoolInv'
  BY DEF SpaceInv, NoPoolInv, Pooled
<1> QED BY <1>2, <1>4, <1>5 DEF SpaceInv

\* One namespace renamed, from what it was called to something else.
Renamed(n, name) ==
  \A m \in Namespaces : kernel'.ns[m] = IF m = n THEN name ELSE kernel.ns[m]

\* The namespaces of each name, when one is called something else.
LEMMA RenamedFacts ==
  ASSUME NEW n \in Namespaces, NEW name, Renamed(n, name)
  PROVE  \A x : NsOf(kernel, x)' = IF x = name THEN NsOf(kernel, x) \cup {n}
                                   ELSE NsOf(kernel, x) \ {n}
BY DEF Renamed, NsOf

\* A namespace of a sandbox or of the pool's gets another name: names are
\* still one to a sandbox, and records still have a namespace.
LEMMA NamedRenamed ==
  ASSUME NamedInv, NEW n \in Namespaces, NEW name \in Ids \cup {"pool", "dead", Nil},
         Renamed(n, name), name \in Ids => NsOf(kernel, name) \subseteq {n},
         \A m \in Namespaces : kernel'.tracked[m] = kernel.tracked[m] \/ kernel'.tracked[m] = {},
         name = Nil => kernel'.tracked[n] = {},
         \A j \in Ids : names'[j] # Nil => j = name \/ (names[j] # Nil /\ kernel.ns[n] # j),
         \A j \in Ids \ orphaned' : tier'[j] = "none" /\ op'[j] = "idle" =>
           \/ j \notin orphaned /\ tier[j] = "none" /\ op[j] = "idle" /\ j # name
           \/ NsOf(kernel, j)' = {}
  PROVE  NamedInv'
<1>1. \A x : NsOf(kernel, x)' = IF x = name THEN NsOf(kernel, x) \cup {n}
                                 ELSE NsOf(kernel, x) \ {n}
  BY RenamedFacts
<1>2. \A m, p \in Namespaces : kernel'.ns[m] = kernel'.ns[p] /\ kernel'.ns[m] \in Ids => m = p
  BY DEF NamedInv, Renamed, NsOf
<1>3. \A m \in Namespaces : kernel'.ns[m] = Nil => kernel'.tracked[m] = {}
  BY DEF NamedInv, Renamed
<1>4. ASSUME NEW j \in Ids, names'[j] # Nil PROVE NsOf(kernel, j)' # {}
  <2>1. CASE j = name
    BY <1>1, <2>1
  <2>2. CASE j # name
    <3>1. NsOf(kernel, j) # {} /\ kernel.ns[n] # j
      BY <1>4, <2>2 DEF NamedInv
    <3> QED BY <1>1, <2>2, <3>1 DEF NsOf
  <2> QED BY <2>1, <2>2
<1>5. \A j \in Ids \ orphaned' : tier'[j] = "none" /\ op'[j] = "idle" => NsOf(kernel, j)' = {}
  BY <1>1 DEF NamedInv
<1> QED BY <1>2, <1>3, <1>4, <1>5 DEF NamedInv

\* What is left of the lists' truth when one namespace changes its name.
LEMMA ListRenamed ==
  ASSUME ListInv, NEW n \in Namespaces, NEW name \in Ids \cup {"pool", "dead", Nil},
         Renamed(n, name),
         Single(ready)', Single(retired)',
         Nss(ready)' = IF name = "pool" THEN Nss(ready) \cup {n} ELSE Nss(ready) \ {n},
         Nss(retired)' = IF name = "dead" THEN Nss(retired) \cup {n} ELSE Nss(retired) \ {n},
         \A m \in Namespaces : kernel'.tracked[m] = kernel.tracked[m] \/ kernel'.tracked[m] = {},
         name = "pool" => kernel'.tracked[n] = {}
  PROVE  ListInv'
<1>1. \A x : NsOf(kernel, x)' = IF x = name THEN NsOf(kernel, x) \cup {n}
                                 ELSE NsOf(kernel, x) \ {n}
  BY RenamedFacts
<1>2. Nss(ready)' = NsOf(kernel, "pool")' /\ Nss(retired)' = NsOf(kernel, "dead")'
  BY <1>1 DEF ListInv, Nss
<1>3. \A m \in Nss(ready)' : kernel'.tracked[m] = {}
  <2>1. \A m \in Nss(ready) : m \in Namespaces /\ kernel.tracked[m] = {}
    BY DEF ListInv, Nss, NsOf
  <2> QED BY <2>1
<1> QED BY <1>2, <1>3 DEF ListInv, Nss

\* Where the lists stay, no namespace may have been on one, nor come on one.
LEMMA OffList ==
  ASSUME TypeOK, ListInv, NEW n \in Namespaces
  PROVE  /\ n \in Nss(ready) <=> kernel.ns[n] = "pool"
         /\ n \in Nss(retired) <=> kernel.ns[n] = "dead"
BY DEF ListInv, Nss, NsOf

\* A setup gives the sandbox its one namespace, from the pool or a free one.
LEMMA SpaceSetup ==
  ASSUME TypeOK, SpaceInv, NEW i \in Ids, Setup(i), target' = target,
         op'[i] # "idle", \A j \in Ids \ {i} : op'[j] = op[j], tier' = tier
  PROVE  SpaceInv'
<1>1. /\ kernel \in Kernels /\ ready \in Seq(BlankType) /\ retired \in Seq(BlankType)
      /\ names \in [Ids -> Ifs \cup {Nil}] /\ i \in Ifs /\ HostIf(i) \in Ifs
      /\ todo \in [Ids -> SUBSET {"address", "egress", "pooled", "failed"}]
  BY HostIn DEF TypeOK, KernelType, PoolType, LockType, Ifs
<1>2. NamedInv /\ ListInv /\ NoPoolInv /\ Single(ready) /\ Single(retired) /\ OneNs
  BY DEF SpaceInv, ListInv, NamedInv, OneNs
<1>3. orphaned' = orphaned /\ retired' = retired /\ Pooled' = Pooled
  BY <1>2, SetupFacts DEF Pooled
<1>4. i \in Ids \cup {"pool", "dead", Nil} /\ i # "pool" /\ i # "dead" /\ i # Nil
      /\ Nil # "pool" /\ Nil # "dead" /\ Nil \notin Ids /\ "pool" \notin Ids /\ "dead" \notin Ids
  BY Names, NetAssumption
<1>5. CASE Claim(i)
  <2> DEFINE b == Last(ready)
             n == b.ns
  <2>1. /\ Pooled /\ NsOf(kernel, i) = {} /\ ready # <<>> /\ ready' = Front(ready)
        /\ kernel' = Rename(kernel, n, i) /\ names' = [names EXCEPT ![i] = b.host]
    BY <1>5 DEF Claim
  <2>2. /\ Nss(ready)' = Nss(ready) \ {n} /\ n \in Nss(ready) /\ Single(ready)'
        /\ b \in BlankType /\ n \in Namespaces
    BY <1>1, <1>2, <2>1, FrontNs DEF Nss
  <2> HIDE DEF b, n
  <2>3. Renamed(n, i) /\ kernel'.tracked = kernel.tracked
    BY <1>1, <2>1, <2>2, NameFacts DEF Renamed
  <2>4. kernel.ns[n] = "pool" /\ n \notin Nss(retired)
    BY <1>2, <2>2, <1>4, OffList
  <2>5. NamedInv'
    <3>1. \A j \in Ids : names'[j] # Nil => j = i \/ (names[j] # Nil /\ kernel.ns[n] # j)
      BY <1>1, <1>4, <2>1, <2>4
    <3>2. \A j \in Ids \ orphaned' : tier'[j] = "none" /\ op'[j] = "idle" =>
            j \notin orphaned /\ tier[j] = "none" /\ op[j] = "idle" /\ j # i
      BY <1>3
    <3> QED BY <1>2, <1>4, <2>1, <2>2, <2>3, <3>1, <3>2, NamedRenamed
  <2>6. ListInv'
    <3>1. Nss(retired)' = Nss(retired) \ {n} /\ Single(retired)'
      BY <1>2, <1>3, <2>4 DEF Nss
    <3> QED BY <1>2, <1>4, <2>2, <2>3, <3>1, ListRenamed
  <2>7. NoPoolInv'
    BY <1>3, <2>1 DEF NoPoolInv
  <2> QED BY <2>5, <2>6, <2>7 DEF SpaceInv
<1>6. CASE Build(i)
  <2>1. /\ kernel' = Built(kernel, i, HostIf(i)) /\ names' = names /\ ready' = ready
        /\ todo' = [todo EXCEPT ![i] = {"address", "egress"}]
        /\ NsOf(kernel, i) # {} \/ NoNs(kernel) # {}
    BY <1>6 DEF Build
  <2>2. PICK n \in Namespaces : BuiltAs(kernel, i, HostIf(i), n, kernel')
    BY <1>1, <2>1, BuiltFacts
  <2>3. /\ kernel.ns[n] = IF NsOf(kernel, i) = {} THEN Nil ELSE i
        /\ kernel'.tracked = kernel.tracked
        /\ \A m \in Namespaces : kernel'.ns[m] = IF m = n THEN i ELSE kernel.ns[m]
    BY <2>2 DEF BuiltAs
  <2>4. Renamed(n, i) /\ kernel'.tracked = kernel.tracked
    BY <2>3 DEF Renamed
  <2>5. n \notin Nss(retired) /\ n \notin Nss(ready)
    BY <1>2, <1>4, <2>3, OffList
  <2>6. NsOf(kernel, i) \subseteq {n}
    BY <1>2, <2>3 DEF NsOf, OneNs
  <2>7. NamedInv'
    <3>1. \A j \in Ids : names'[j] # Nil => j = i \/ (names[j] # Nil /\ kernel.ns[n] # j)
      BY <1>4, <2>1, <2>3
    <3>2. \A j \in Ids \ orphaned' : tier'[j] = "none" /\ op'[j] = "idle" =>
            j \notin orphaned /\ tier[j] = "none" /\ op[j] = "idle" /\ j # i
      BY <1>3
    <3> QED BY <1>2, <1>4, <2>3, <2>4, <2>6, <3>1, <3>2, NamedRenamed
  <2>8. ListInv'
    <3>1. /\ Nss(retired)' = Nss(retired) \ {n} /\ Single(retired)'
          /\ Nss(ready)' = Nss(ready) \ {n} /\ Single(ready)'
      BY <1>2, <1>3, <2>1, <2>5 DEF Nss
    <3> QED BY <1>2, <1>4, <2>4, <3>1, ListRenamed
  <2>9. NoPoolInv'
    BY <1>1, <1>2, <1>3, <2>1 DEF NoPoolInv
  <2> QED BY <2>7, <2>8, <2>9 DEF SpaceInv
<1>7. CASE ClaimFails(i)
  <2> DEFINE b == Last(ready)
             k == Scrapped(b)
  <2>1. /\ Pooled /\ NsOf(kernel, i) = {} /\ ready # <<>> /\ ready' = Front(ready)
        /\ kernel' = Built(k, i, HostIf(i))
        /\ names' = [names EXCEPT ![i] = Nil]
    BY <1>7 DEF ClaimFails, Scrapped
  <2>2. /\ Nss(ready)' = Nss(ready) \ {b.ns} /\ b.ns \in Nss(ready) /\ Single(ready)'
        /\ b \in BlankType /\ b.ns \in Namespaces
    BY <1>1, <1>2, <2>1, FrontNs DEF Nss
  <2> HIDE DEF b
  <2>3. /\ k \in Kernels
        /\ \A m \in Namespaces :
              /\ k.ns[m] = IF m = b.ns THEN Nil ELSE kernel.ns[m]
              /\ k.tracked[m] = IF m = b.ns THEN {} ELSE kernel.tracked[m]
    BY <1>1, <2>2, ScrappedFacts
  <2> HIDE DEF k
  <2>4. NsOf(k, i) = {} /\ NoNs(k) # {}
    BY <1>4, <2>1, <2>2, <2>3 DEF NsOf, NoNs
  <2>5. PICK n \in Namespaces : BuiltAs(k, i, HostIf(i), n, kernel')
    BY <1>1, <2>1, <2>3, <2>4, BuiltFacts
  <2>6. /\ k.ns[n] = IF NsOf(k, i) = {} THEN Nil ELSE i
        /\ kernel'.tracked = k.tracked
        /\ \A m \in Namespaces : kernel'.ns[m] = IF m = n THEN i ELSE k.ns[m]
    BY <2>5 DEF BuiltAs
  <2>7. kernel.ns[b.ns] = "pool"
    BY <1>2, <2>2, OffList
  <2>8. /\ n = b.ns \/ kernel.ns[n] = Nil
        /\ \A m \in Namespaces :
             /\ kernel'.ns[m] = IF m = n THEN i ELSE IF m = b.ns THEN Nil ELSE kernel.ns[m]
             /\ kernel'.tracked[m] = IF m = b.ns THEN {} ELSE kernel.tracked[m]
    BY <2>3, <2>4, <2>6
  <2>9. /\ NsOf(kernel, i)' = {n} /\ NsOf(kernel, "pool")' = NsOf(kernel, "pool") \ {b.ns}
        /\ NsOf(kernel, "dead")' = NsOf(kernel, "dead")
        /\ \A j \in Ids \ {i} : NsOf(kernel, j)' = NsOf(kernel, j)
    BY <1>4, <2>1, <2>2, <2>7, <2>8 DEF NsOf
  <2>10. NamedInv'
    <3>1. \A m, p \in Namespaces : kernel'.ns[m] = kernel'.ns[p] /\ kernel'.ns[m] \in Ids => m = p
      BY <1>2, <1>4, <2>1, <2>8 DEF OneNs, NsOf
    <3>2. \A m \in Namespaces : kernel'.ns[m] = Nil => kernel'.tracked[m] = {}
      BY <1>2, <1>4, <2>8 DEF NamedInv
    <3>3. \A j \in Ids : names'[j] # Nil => NsOf(kernel, j)' # {}
      BY <1>1, <1>2, <2>1, <2>9 DEF NamedInv
    <3>4. \A j \in Ids \ orphaned' : tier'[j] = "none" /\ op'[j] = "idle" => NsOf(kernel, j)' = {}
      BY <1>2, <1>3, <2>9 DEF NamedInv
    <3> QED BY <3>1, <3>2, <3>3, <3>4 DEF NamedInv
  <2>11. ListInv'
    <3>1. Nss(ready)' = NsOf(kernel, "pool")' /\ Nss(retired)' = NsOf(kernel, "dead")'
          /\ Single(retired)'
      BY <1>2, <1>3, <2>2, <2>9 DEF ListInv, Nss
    <3>2. \A m \in Nss(ready)' : kernel'.tracked[m] = {}
      <4>1. \A m \in Nss(ready) : m \in Namespaces /\ kernel.tracked[m] = {}
        BY <1>2 DEF ListInv, Nss, NsOf
      <4> QED BY <2>2, <2>8, <4>1
    <3> QED BY <2>2, <3>1, <3>2 DEF ListInv, Nss
  <2>12. NoPoolInv'
    BY <1>3, <2>1 DEF NoPoolInv
  <2> QED BY <2>10, <2>11, <2>12 DEF SpaceInv
<1> QED BY <1>5, <1>6, <1>7 DEF Setup

\* A teardown leaves the sandbox no namespace: it is free, or retired.
LEMMA SpaceTeardown ==
  ASSUME TypeOK, SpaceInv, NEW i \in Ids, Teardown(i), target' = target, orphaned' = orphaned,
         todo' = todo, \A j \in Ids \ {i} : tier'[j] = tier[j] /\ op'[j] = op[j]
  PROVE  SpaceInv'
<1>1. /\ kernel \in Kernels /\ ready \in Seq(BlankType) /\ retired \in Seq(BlankType)
      /\ names \in [Ids -> Ifs \cup {Nil}] /\ HostIf(i) \in Ifs
  BY HostIn DEF TypeOK, KernelType, PoolType
<1>2. NamedInv /\ ListInv /\ NoPoolInv /\ Single(ready) /\ Single(retired) /\ OneNs
  BY DEF SpaceInv, ListInv, NamedInv, OneNs
<1>3. Pooled' = Pooled
  BY DEF Pooled
<1>4. i \in Ids \cup {"pool", "dead", Nil} /\ i # "pool" /\ i # "dead" /\ i # Nil
      /\ Nil # "pool" /\ Nil # "dead" /\ Nil \notin Ids /\ "pool" \notin Ids /\ "dead" \notin Ids
      /\ \A j \in Ids : j # "pool" /\ j # "dead" /\ j # Nil
  BY Names, NetAssumption
<1>5. /\ names' = [names EXCEPT ![i] = Nil] /\ ready' = ready
      /\ \/ NsOf(kernel, i) = {} /\ kernel' = kernel /\ retired' = retired
         \/ \E n \in Namespaces : TornToPool(i, n)
         \/ \E n \in Namespaces : TornDown(i, n)
  BY <1>2, TeardownFacts
<1>6. CASE NsOf(kernel, i) = {} /\ kernel' = kernel /\ retired' = retired
  <2>1. \A x : NsOf(kernel, x)' = NsOf(kernel, x)
    BY <1>6
  <2>2. NamedInv'
    BY <1>1, <1>2, <1>5, <1>6, <2>1 DEF NamedInv
  <2>3. ListInv' /\ NoPoolInv'
    BY <1>1, <1>2, <1>3, <1>5, <1>6, <2>1 DEF ListInv, NoPoolInv
  <2> QED BY <2>2, <2>3 DEF SpaceInv
<1>7. ASSUME NEW n \in Namespaces, NEW name \in {"dead", Nil}, kernel.ns[n] = i, Renamed(n, name),
             \A m \in Namespaces : kernel'.tracked[m] = kernel.tracked[m] \/ kernel'.tracked[m] = {},
             name = Nil => kernel'.tracked[n] = {}
      PROVE NamedInv'
  <2>1. NsOf(kernel, i)' = {}
    BY <1>2, <1>4, <1>7 DEF NsOf, Renamed, OneNs
  <2>2. \A j \in Ids : names'[j] # Nil => j = name \/ (names[j] # Nil /\ kernel.ns[n] # j)
    BY <1>1, <1>5, <1>7
  <2>3. \A j \in Ids \ orphaned' : tier'[j] = "none" /\ op'[j] = "idle" =>
           \/ j \notin orphaned /\ tier[j] = "none" /\ op[j] = "idle" /\ j # name
           \/ NsOf(kernel, j)' = {}
    BY <2>1, <1>4
  <2>4. name \in Ids \cup {"pool", "dead", Nil} /\ name \notin Ids
    BY <1>4
  <2> QED BY <1>2, <1>7, <2>2, <2>3, <2>4, NamedRenamed
<1>8. ASSUME NEW n \in Namespaces, TornToPool(i, n) PROVE SpaceInv'
  <2> DEFINE b == Blank(n, HostIf(i))
  <2>1. /\ Pooled /\ kernel.ns[n] = i /\ retired' = Append(retired, b)
        /\ kernel'.tracked = kernel.tracked /\ Renamed(n, "dead")
    BY <1>8 DEF TornToPool, Renamed
  <2>2. b \in BlankType /\ b.ns = n
    BY <1>1 DEF Blank, BlankType
  <2> HIDE DEF b
  <2>3. n \notin Nss(ready) /\ n \notin Nss(retired)
    BY <1>2, <1>4, <2>1, OffList
  <2>4. Single(retired)' /\ Nss(retired)' = Nss(retired) \cup {n}
    BY <1>1, <1>2, <2>1, <2>2, <2>3, AppendNs DEF Nss
  <2>5. Nss(ready)' = Nss(ready) \ {n} /\ Single(ready)'
    BY <1>2, <1>5, <2>3 DEF Nss
  <2>6. NamedInv'
    BY <1>4, <1>7, <2>1
  <2>7. ListInv'
    BY <1>2, <2>1, <2>4, <2>5, ListRenamed
  <2>8. NoPoolInv'
    BY <1>3, <2>1 DEF NoPoolInv
  <2> QED BY <2>6, <2>7, <2>8 DEF SpaceInv
<1>9. ASSUME NEW n \in Namespaces, TornDown(i, n) PROVE SpaceInv'
  <2>1. /\ kernel.ns[n] = i /\ retired' = retired /\ Renamed(n, Nil) /\ kernel'.tracked[n] = {}
        /\ \A m \in Namespaces : kernel'.tracked[m] = kernel.tracked[m] \/ kernel'.tracked[m] = {}
    BY <1>9 DEF TornDown, Renamed
  <2>2. n \notin Nss(ready) /\ n \notin Nss(retired)
    BY <1>2, <1>4, <2>1, OffList
  <2>3. /\ Nss(ready)' = Nss(ready) \ {n} /\ Single(ready)'
        /\ Nss(retired)' = Nss(retired) \ {n} /\ Single(retired)'
    BY <1>2, <1>5, <2>1, <2>2 DEF Nss
  <2>4. NamedInv'
    BY <1>7, <2>1
  <2>5. ListInv'
    BY <1>2, <1>4, <2>1, <2>3, ListRenamed
  <2>6. NoPoolInv'
    BY <1>1, <1>2, <1>3, <1>5, <2>1 DEF NoPoolInv
  <2> QED BY <2>4, <2>5, <2>6 DEF SpaceInv
<1> QED BY <1>5, <1>6, <1>8, <1>9

\* The pool's thread moves a namespace from one list to the other, takes one
\* off the machine, or puts one there.
LEMMA SpaceFill ==
  ASSUME TypeOK, SpaceInv, Recycle \/ RemoveRetired \/ FillBuild
  PROVE  SpaceInv'
<1>1. /\ kernel \in Kernels /\ ready \in Seq(BlankType) /\ retired \in Seq(BlankType)
      /\ names \in [Ids -> Ifs \cup {Nil}]
  BY DEF TypeOK, KernelType, PoolType
<1>2. NamedInv /\ ListInv /\ NoPoolInv /\ Single(ready) /\ Single(retired) /\ OneNs
  BY DEF SpaceInv, ListInv, NamedInv, OneNs
<1>3. /\ Pooled /\ Pooled' = Pooled /\ names' = names /\ tier' = tier /\ op' = op
      /\ orphaned' = orphaned
  BY DEF Recycle, RemoveRetired, FillBuild, Pooled, place, locks, past
<1>4. /\ Nil # "pool" /\ Nil # "dead" /\ Nil \notin Ids /\ "pool" \notin Ids /\ "dead" \notin Ids
  BY Names, NetAssumption
<1>5. NoPoolInv'
  BY <1>3 DEF NoPoolInv
<1>6. ASSUME NEW n \in Namespaces, NEW name \in {"pool", Nil}, kernel.ns[n] \notin Ids,
             Renamed(n, name), kernel'.tracked[n] = {},
             \A m \in Namespaces : kernel'.tracked[m] = kernel.tracked[m] \/ kernel'.tracked[m] = {}
      PROVE NamedInv'
  <2>1. \A j \in Ids : names'[j] # Nil => j = name \/ (names[j] # Nil /\ kernel.ns[n] # j)
    BY <1>3, <1>6
  <2>2. \A j \in Ids \ orphaned' : tier'[j] = "none" /\ op'[j] = "idle" =>
           \/ j \notin orphaned /\ tier[j] = "none" /\ op[j] = "idle" /\ j # name
           \/ NsOf(kernel, j)' = {}
    BY <1>3, <1>4
  <2>3. name \in Ids \cup {"pool", "dead", Nil} /\ name \notin Ids
    BY <1>4
  <2> QED BY <1>2, <1>6, <2>1, <2>2, <2>3, NamedRenamed
<1>7. ASSUME retired # <<>>, NEW b, b = Last(retired), retired' = Front(retired)
      PROVE  /\ b \in BlankType /\ b.ns \in Namespaces /\ b.ns \notin Nss(ready)
             /\ Nss(retired)' = Nss(retired) \ {b.ns} /\ Single(retired)' /\ kernel.ns[b.ns] = "dead"
  <2>1. /\ Nss(retired)' = Nss(retired) \ {b.ns} /\ b.ns \in Nss(retired) /\ Single(retired)'
        /\ b \in BlankType /\ b.ns \in Namespaces
    BY <1>1, <1>2, <1>7, FrontNs DEF Nss
  <2> QED BY <1>2, <2>1, OffList
<1>8. ASSUME NEW b, retired # <<>>, b = Last(retired), retired' = Front(retired), ready' = ready,
             kernel' = Scrapped(b)
      PROVE  NamedInv' /\ ListInv'
  <2>1. /\ b \in BlankType /\ b.ns \in Namespaces /\ b.ns \notin Nss(ready)
        /\ Nss(retired)' = Nss(retired) \ {b.ns} /\ Single(retired)' /\ kernel.ns[b.ns] = "dead"
    BY <1>7, <1>8
  <2>2. /\ \A n \in Namespaces :
              /\ kernel'.ns[n] = IF n = b.ns THEN Nil ELSE kernel.ns[n]
              /\ kernel'.tracked[n] = IF n = b.ns THEN {} ELSE kernel.tracked[n]
    BY <1>1, <1>8, <2>1, ScrappedFacts
  <2>3. /\ Renamed(b.ns, Nil) /\ kernel'.tracked[b.ns] = {}
        /\ \A m \in Namespaces : kernel'.tracked[m] = kernel.tracked[m] \/ kernel'.tracked[m] = {}
    BY <2>1, <2>2 DEF Renamed
  <2>4. Nss(ready)' = Nss(ready) \ {b.ns} /\ Single(ready)'
    BY <1>2, <1>8, <2>1 DEF Nss
  <2>5. NamedInv'
    BY <1>4, <1>6, <2>1, <2>3
  <2>6. ListInv'
    BY <1>2, <1>4, <2>1, <2>3, <2>4, ListRenamed
  <2> QED BY <2>5, <2>6
<1>9. CASE Recycle
  <2> DEFINE b == Last(retired)
  <2>1. retired # <<>> /\ retired' = Front(retired)
    BY <1>9 DEF Recycle
  <2>2. \/ /\ kernel.ifs[b.host] # Nil
           /\ kernel' = Rename(Scrubbed(kernel, b), b.ns, "pool") /\ ready' = Append(ready, b)
        \/ kernel' = Scrapped(b) /\ ready' = ready
    BY <1>9 DEF Recycle, Scrapped
  <2> HIDE DEF b
  <2>3. CASE kernel' = Scrapped(b) /\ ready' = ready
    BY <1>5, <1>8, <2>1, <2>3 DEF SpaceInv, b
  <2>4. CASE /\ kernel.ifs[b.host] # Nil
             /\ kernel' = Rename(Scrubbed(kernel, b), b.ns, "pool") /\ ready' = Append(ready, b)
    <3>1. /\ b \in BlankType /\ b.ns \in Namespaces /\ b.ns \notin Nss(ready)
          /\ Nss(retired)' = Nss(retired) \ {b.ns} /\ Single(retired)' /\ kernel.ns[b.ns] = "dead"
      BY <1>7, <2>1 DEF b
    <3> DEFINE k == Scrubbed(kernel, b)
    <3>2. k \in Kernels /\ k.ns = kernel.ns
          /\ \A n \in Namespaces : k.tracked[n] = IF n = b.ns THEN {} ELSE kernel.tracked[n]
      BY <1>1, <2>4, <3>1, ScrubFacts
    <3> HIDE DEF k
    <3>3. /\ Rename(k, b.ns, "pool").tracked = k.tracked
          /\ \A m \in Namespaces : Rename(k, b.ns, "pool").ns[m] = IF m = b.ns THEN "pool" ELSE k.ns[m]
      BY <3>1, <3>2, NameFacts
    <3>4. /\ Renamed(b.ns, "pool") /\ kernel'.tracked[b.ns] = {}
          /\ \A m \in Namespaces : kernel'.tracked[m] = kernel.tracked[m] \/ kernel'.tracked[m] = {}
      BY <2>4, <3>1, <3>2, <3>3 DEF Renamed, k
    <3>5. Single(ready)' /\ Nss(ready)' = Nss(ready) \cup {b.ns}
      BY <1>1, <1>2, <2>4, <3>1, AppendNs DEF Nss
    <3>6. NamedInv'
      BY <1>4, <1>6, <3>1, <3>4
    <3>7. ListInv'
      BY <1>2, <1>4, <3>1, <3>4, <3>5, ListRenamed
    <3> QED BY <1>5, <3>6, <3>7 DEF SpaceInv
  <2> QED BY <2>2, <2>3, <2>4
<1>10. CASE RemoveRetired
  <2>1. /\ retired # <<>> /\ retired' = Front(retired) /\ kernel' = Scrapped(Last(retired))
        /\ ready' = ready
    BY <1>10 DEF RemoveRetired, Scrapped
  <2> QED BY <1>5, <1>8, <2>1 DEF SpaceInv
<1>11. CASE FillBuild
  <2> DEFINE n == NewNs(kernel)
             k == AddNs(kernel, n, "pool")
             b == Blank(n, n)
  <2>1. /\ NoNs(kernel) # {} /\ kernel' = AddVeth(k, n, n) /\ ready' = Append(ready, b)
        /\ retired' = retired
    BY <1>11 DEF FillBuild
  <2>2. n \in NoNs(kernel)
    BY <2>1 DEF NewNs
  <2>3. n \in Namespaces /\ kernel.ns[n] = Nil /\ n \in Ifs
    BY <2>2 DEF NoNs, Ifs
  <2>4. b \in BlankType /\ b.ns = n
    BY <2>3 DEF Blank, BlankType
  <2> HIDE DEF n, b
  <2>5. /\ k \in Kernels /\ k.tracked = kernel.tracked
        /\ \A m \in Namespaces : k.ns[m] = IF m = n THEN "pool" ELSE kernel.ns[m]
    BY <1>1, <2>3, NameFacts
  <2> HIDE DEF k
  <2>6. kernel'.ns = k.ns /\ kernel'.tracked = k.tracked
    BY <2>1, <2>3, <2>5, VethFacts
  <2>7. Renamed(n, "pool") /\ kernel'.tracked = kernel.tracked /\ kernel'.tracked[n] = {}
    BY <1>2, <2>3, <2>5, <2>6 DEF Renamed, NamedInv
  <2>8. n \notin Nss(ready) /\ n \notin Nss(retired)
    BY <1>2, <1>4, <2>3, OffList
  <2>9. Single(ready)' /\ Nss(ready)' = Nss(ready) \cup {n}
    BY <1>1, <1>2, <2>1, <2>4, <2>8, AppendNs DEF Nss
  <2>10. Single(retired)' /\ Nss(retired)' = Nss(retired) \ {n}
    BY <1>2, <2>1, <2>8 DEF Nss
  <2>11. NamedInv'
    BY <1>4, <1>6, <2>3, <2>7
  <2>12. ListInv'
    BY <1>2, <1>4, <2>3, <2>7, <2>9, <2>10, ListRenamed
  <2> QED BY <1>5, <2>11, <2>12 DEF SpaceInv
<1> QED BY <1>9, <1>10, <1>11

\* A restart takes away what the pool had, and knows of nothing else.
LEMMA SpaceCrash ==
  ASSUME TypeOK, SpaceInv, Crash
  PROVE  SpaceInv'
<1>1. kernel \in Kernels /\ NamedInv /\ ListInv /\ NoPoolInv
  BY DEF TypeOK, KernelType, SpaceInv
<1>2. /\ Nil # "pool" /\ Nil # "dead" /\ \A j \in Ids : j # "pool" /\ j # "dead" /\ j # Nil
  BY Names, NetAssumption
<1> DEFINE N == NsOf(kernel, "pool") \cup NsOf(kernel, "dead")
<1>3. /\ kernel' = DelNs(kernel, N) /\ ready' = <<>> /\ retired' = <<>> /\ names' = names
      /\ target' = target /\ tier' = tier /\ \A i \in Ids : op'[i] = "idle" /\ todo'[i] = {}
      /\ orphaned' = orphaned \cup {i \in Ids : op[i] # "idle" /\ tier[i] = "none"}
  BY DEF Crash, place
<1>4. \A n \in Namespaces :
        /\ kernel'.ns[n] = IF n \in N THEN Nil ELSE kernel.ns[n]
        /\ kernel'.tracked[n] = IF n \in N THEN {} ELSE kernel.tracked[n]
  BY <1>1, <1>3, DelNsFacts
<1>5. /\ NsOf(kernel, "pool")' = {} /\ NsOf(kernel, "dead")' = {}
      /\ \A j \in Ids : NsOf(kernel, j)' = NsOf(kernel, j)
  BY <1>2, <1>4 DEF NsOf
<1>6. Range(<<>>) = {} /\ Single(<<>>)
  <2>1. <<>> \in Seq(BlankType)
    OBVIOUS
  <2> QED BY <2>1, InList
<1>7. ListInv'
  BY <1>3, <1>5, <1>6 DEF ListInv
<1>8. NoPoolInv'
  BY <1>1, <1>3 DEF NoPoolInv, Pooled
<1>9. \A m, p \in Namespaces : kernel'.ns[m] = kernel'.ns[p] /\ kernel'.ns[m] \in Ids => m = p
  BY <1>1, <1>2, <1>4 DEF NamedInv
<1>10. \A n \in Namespaces : kernel'.ns[n] = Nil => kernel'.tracked[n] = {}
  BY <1>1, <1>4 DEF NamedInv
<1>11. \A i \in Ids : names'[i] # Nil => NsOf(kernel, i)' # {}
  BY <1>1, <1>3, <1>5 DEF NamedInv
<1>12. \A i \in Ids \ orphaned' : tier'[i] = "none" /\ op'[i] = "idle" => NsOf(kernel, i)' = {}
  BY <1>1, <1>3, <1>5 DEF NamedInv
<1>13. NamedInv'
  BY <1>9, <1>10, <1>11, <1>12 DEF NamedInv
<1> QED BY <1>7, <1>8, <1>13 DEF SpaceInv

\* Every step keeps the names and the lists.
LEMMA SpaceStep ==
  ASSUME TypeOK, StepInv, SpaceInv, Next
  PROVE  SpaceInv'
<1>1. /\ kernel \in Kernels /\ KernelType /\ Single(ready)
      /\ op \in [Ids -> {"idle", "create", "wake", "put", "kill", "clear", "teardown"}]
      /\ tier \in [Ids -> {"none", "dead", "hot", "frozen", "snapshot"}]
      /\ todo \in [Ids -> SUBSET {"address", "egress", "pooled", "failed"}]
      /\ slot \in [Ids -> SlotOrNil]
  BY DEF TypeOK, KernelType, LockType, PlaceType, SpaceInv, ListInv
<1>2. ASSUME kernel'.ns = kernel.ns, UNCHANGED <<names, target, ready, retired>>,
         \A n \in Namespaces : kernel'.tracked[n] = kernel.tracked[n] \/ kernel.ns[n] \in Ids,
         \A j \in Ids \ orphaned' : tier'[j] = "none" /\ op'[j] = "idle" =>
           \/ j \notin orphaned /\ tier[j] = "none" /\ op[j] = "idle"
           \/ NsOf(kernel, j) = {},
         \A j \in Ids : "pooled" \in todo'[j] => "pooled" \in todo[j]
      PROVE SpaceInv'
  BY <1>2, SpaceKept
<1> DEFINE Left == \A j \in Ids \ orphaned' : tier'[j] = "none" /\ op'[j] = "idle" =>
                     \/ j \notin orphaned /\ tier[j] = "none" /\ op[j] = "idle"
                     \/ NsOf(kernel, j) = {}
           Todo == \A j \in Ids : "pooled" \in todo'[j] => "pooled" \in todo[j]
<1>3. ASSUME NEW i \in Ids, Quiet(i) PROVE SpaceInv'
  <2>1. UNCHANGED <<kernel, names, target, ready, retired>>
    BY <1>3, QuietFacts
  <2>2. Todo
    BY <1>1, <1>3 DEF Quiet, RowCreated, RowEgress, RowDeleted, CreateEgress, DestroyKill, DestroyClear,
         SetEgress, Reap, Freeze, Thaw, Requested, Checkpoint, SnapshotFails, Expose, Detach, Die,
         locks
  <2>3. CASE CreateEgress(i)
    <3>1. \/ tier' = [tier EXCEPT ![i] = "dead"] /\ op' = op /\ orphaned' = orphaned
          \/ /\ tier' = tier /\ (op' = op \/ op' = [op EXCEPT ![i] = "idle"])
             /\ orphaned' = orphaned \cup {i}
      BY <2>3 DEF CreateEgress, past, place
    <3>2. Left
      BY <1>1, <3>1
    <3> QED BY <1>2, <2>1, <2>2, <3>2
  <2>4. CASE DestroyClear(i)
    <3>1. /\ tier' = tier
          /\ \/ op' = [op EXCEPT ![i] = "teardown"] /\ orphaned' = orphaned
             \/ op' = [op EXCEPT ![i] = "idle"] /\ orphaned' = orphaned \cup {i}
      BY <2>4 DEF DestroyClear, past, place
    <3>2. Left
      BY <1>1, <3>1
    <3> QED BY <1>2, <2>1, <2>2, <3>2
  <2>5. CASE Detach(i)
    <3>1. /\ op' = op
          /\ \/ tier' = tier /\ orphaned' = orphaned
             \/ /\ tier' = [tier EXCEPT ![i] = "none"]
                /\ \/ orphaned' = orphaned \cup {j \in {i} : NsOf(kernel, i) # {}}
                   \/ orphaned' = orphaned \cup {i}
      BY <2>5 DEF Detach, locks, place
    <3>2. Left
      BY <1>1, <3>1
    <3> QED BY <1>2, <2>1, <2>2, <3>2
  <2>6. CASE DestroyKill(i)
    <3>1. op' = [op EXCEPT ![i] = "clear"] /\ tier' = [tier EXCEPT ![i] = "none"] /\ orphaned' = orphaned
      BY <2>6 DEF DestroyKill, past
    <3>2. Left
      BY <1>1, <3>1
    <3> QED BY <1>2, <2>1, <2>2, <3>2
  <2>7. CASE \/ \E r \in Rules \cup {Nil} : RowCreated(i, r) \/ RowEgress(i, r)
             \/ RowDeleted(i) \/ SetEgress(i) \/ Reap(i) \/ Freeze(i) \/ Thaw(i)
             \/ Requested(i) \/ Checkpoint(i) \/ Expose(i) \/ Die(i)
    <3>1. /\ orphaned' = orphaned
          /\ tier' = tier \/ \E t \in {"hot", "frozen", "dead"} : tier' = [tier EXCEPT ![i] = t]
          /\ op' = op \/ op' = [op EXCEPT ![i] = "kill"] \/ op' = [op EXCEPT ![i] = "put"]
      BY <1>1, <2>7 DEF RowCreated, RowEgress, RowDeleted, SetEgress, Reap, Freeze, Thaw,
           Requested, Checkpoint, Expose, Die, past, marks, locks, place
    <3>2. Left
      BY <1>1, <3>1
    <3> QED BY <1>2, <2>1, <2>2, <3>2
  <2>8. CASE SnapshotFails(i)
    <3>1. tier[i] # "none"
      BY <2>8 DEF SnapshotFails, StepInv, StepOK
    <3>2. /\ orphaned' = orphaned /\ op' = [op EXCEPT ![i] = "idle"]
          /\ \E t \in {tier[i], "hot", "snapshot", "dead"} : tier' = [tier EXCEPT ![i] = t]
      BY <2>8 DEF SnapshotFails, past
    <3>3. Left
      BY <1>1, <3>1, <3>2
    <3> QED BY <1>2, <2>1, <2>2, <3>3
  <2> QED BY <1>3, <2>3, <2>4, <2>5, <2>6, <2>7, <2>8 DEF Quiet
<1>4. ASSUME NEW i \in Ids, Create(i) \/ Wake(i) PROVE SpaceInv'
  <2>1. /\ Setup(i) /\ target' = target /\ tier' = tier
        /\ op' = [op EXCEPT ![i] = "create"] \/ op' = [op EXCEPT ![i] = "wake"]
    BY <1>4 DEF Create, Wake, place
  <2> QED BY <1>1, <2>1, SpaceSetup
<1>5. ASSUME NEW i \in Ids, Address(i) PROVE SpaceInv'
  <2>1. slot[i] \in Slots
    BY <1>1, <1>5 DEF Address, StepInv, StepOK, Working, SlotOrNil
  <2>2. kernel'.ns = kernel.ns /\ kernel'.tracked = kernel.tracked
    BY <1>5, <2>1, AddressFacts
  <2>3. /\ UNCHANGED <<names, target, ready, retired, tier>>
        /\ op' = op \/ op' = [op EXCEPT ![i] = "idle"]
        /\ orphaned' = orphaned \cup {j \in {i} : op'[i] = "idle" /\ tier[i] = "none"}
        /\ Todo
    BY <1>1, <1>5 DEF Address, pool, place
  <2>4. Left
    BY <1>1, <2>3
  <2> QED BY <1>2, <2>2, <2>3, <2>4
<1>6. \A i \in Ids : LET k == Tracking(kernel, i)
                      IN /\ k.ns = kernel.ns
                         /\ \A n \in Namespaces : k.tracked[n] = kernel.tracked[n] \/ kernel.ns[n] \in Ids
  <2> SUFFICES ASSUME NEW i \in Ids
               PROVE  /\ Tracking(kernel, i).ns = kernel.ns
                      /\ \A n \in Namespaces :
                           \/ Tracking(kernel, i).tracked[n] = kernel.tracked[n]
                           \/ kernel.ns[n] \in Ids
    OBVIOUS
  <2>1. kernel \in Kernels
    BY <1>1
  <2>2. /\ Tracking(kernel, i).ns = kernel.ns
        /\ \A n \in Namespaces : Tracking(kernel, i).tracked[n] =
              IF kernel.ns[n] = i THEN kernel.tracked[n] \cup {i} ELSE kernel.tracked[n]
    BY <2>1, TrackFacts
  <2> QED BY <2>2
<1>7. ASSUME NEW i \in Ids, Start(i) PROVE SpaceInv'
  <2>1. /\ kernel'.ns = kernel.ns
        /\ \A n \in Namespaces : kernel'.tracked[n] = kernel.tracked[n] \/ kernel.ns[n] \in Ids
    <3>1. CASE kernel' = kernel
      BY <3>1
    <3>2. CASE kernel' = Tracking(kernel, i)
      BY <1>6, <3>2
    <3> QED BY <1>7, <3>1, <3>2 DEF Start
  <2>2. /\ UNCHANGED <<names, target, ready, retired>> /\ Todo /\ op[i] = "create"
        /\ op' = [op EXCEPT ![i] = "idle"] /\ orphaned' = orphaned
        /\ "egress" \notin todo[i]
        /\ tier' = tier \/ tier' = [tier EXCEPT ![i] = "hot"]
    BY <1>1, <1>7 DEF Start, pool, marks
  <2>3. tier[i] # "none"
    BY <2>2 DEF StepInv, StepOK
  <2>4. Left
    BY <1>1, <2>2, <2>3
  <2> QED BY <1>2, <2>1, <2>2, <2>4
<1>8. ASSUME NEW i \in Ids, Woken(i) PROVE SpaceInv'
  <2>1. /\ kernel'.ns = kernel.ns
        /\ \A n \in Namespaces : kernel'.tracked[n] = kernel.tracked[n] \/ kernel.ns[n] \in Ids
    <3>1. kernel' = kernel \/ kernel' = Tracking(kernel, i)
      BY <1>8 DEF Woken
    <3> QED BY <1>6, <3>1
  <2>2. /\ UNCHANGED <<names, target, ready, retired>> /\ Todo
        /\ op' = [op EXCEPT ![i] = "idle"] /\ orphaned' = orphaned
        /\ tier[i] # "none" /\ (tier' = tier \/ tier' = [tier EXCEPT ![i] = "hot"])
    BY <1>1, <1>8 DEF Woken, pool, past, StepInv, StepOK
  <2>3. Left
    BY <1>1, <2>2
  <2> QED BY <1>2, <2>1, <2>2, <2>3
<1>9. ASSUME NEW i \in Ids, Snapshot(i) \/ DestroyTeardown(i) PROVE SpaceInv'
  <2>1. /\ Teardown(i) /\ target' = target /\ orphaned' = orphaned /\ todo' = todo
        /\ \A j \in Ids \ {i} : tier'[j] = tier[j] /\ op'[j] = op[j]
    BY <1>1, <1>9 DEF Snapshot, DestroyTeardown, place, locks, past
  <2> QED BY <2>1, SpaceTeardown
<1>10. ASSUME NEW i \in Ids, Destroy(i) PROVE SpaceInv'
  <2>1. kernel'.ns = kernel.ns /\ kernel'.tracked = kernel.tracked
    BY <1>1, <1>10, HostIn, DownFacts DEF Destroy, Quiesced
  <2>2. /\ UNCHANGED <<names, target, ready, retired>> /\ Todo
        /\ op' = [op EXCEPT ![i] = "kill"] /\ orphaned' = orphaned /\ tier' = tier
    BY <1>1, <1>10 DEF Destroy, pool, past, place
  <2>3. Left
    BY <1>1, <2>2
  <2> QED BY <1>2, <2>1, <2>2, <2>3
<1>11. CASE Report \/ UNCHANGED vars
  <2>1. UNCHANGED <<kernel, names, target, ready, retired, tier, op, orphaned, todo>>
    BY <1>11 DEF Report, vars, place, pool, locks, past
  <2> QED BY <1>2, <2>1
<1> QED BY <1>3, <1>4, <1>5, <1>7, <1>8, <1>9, <1>10, <1>11, StepCases, SpaceFill, SpaceCrash

(***************************************************************************)
(* Links.                                                                  *)
(***************************************************************************)
\* The steps that leave every namespace's name and every link alone.
Still == UNCHANGED <<names, target, ready, retired>> /\ kernel'.ns = kernel.ns /\ kernel'.ifs = kernel.ifs

\* Steps that change nothing of the network but what is tracked.
LEMMA StillSteps ==
  ASSUME TypeOK, NEW i \in Ids, Quiet(i) \/ Start(i) \/ Woken(i)
  PROVE  Still
<1>1. kernel \in Kernels
  BY DEF TypeOK, KernelType
<1>2. CASE Quiet(i)
  BY <1>2, QuietFacts DEF Still
<1>3. CASE Start(i) \/ Woken(i)
  <2>1. /\ UNCHANGED <<names, target, ready, retired>>
        /\ kernel' = kernel \/ kernel' = Tracking(kernel, i)
    BY <1>3 DEF Start, Woken, pool
  <2>2. Tracking(kernel, i).ns = kernel.ns /\ Tracking(kernel, i).ifs = kernel.ifs
    BY <1>1, TrackFacts
  <2> QED BY <2>1, <2>2 DEF Still
<1> QED BY <1>2, <1>3

\* The pool's size is a setting: no step changes it.
LEMMA TargetStep ==
  ASSUME Next
  PROVE  target' = target /\ Pooled' = Pooled
BY DEF Next, RowCreated, RowEgress, RowDeleted, Kernel, Loop, Address, CreateEgress, Start,
       DestroyKill, DestroyClear, DestroyTeardown, Create, SetEgress, Destroy, Reap, Freeze, Thaw, Requested,
       Checkpoint, SnapshotFails, Expose, Snapshot, Wake, Woken, Detach, Die, Fill, Recycle,
       RemoveRetired, FillBuild,
       Report, Crash, AtRest, vars, Pooled

\* Without a pool nothing is on the lists or on record, and a sandbox goes by
\* its own host end.
LEMMA NoPool ==
  ASSUME SpaceInv, ~Pooled
  PROVE  /\ ready = <<>> /\ retired = <<>>
         /\ \A i \in Ids : names[i] = Nil /\ "pooled" \notin todo[i] /\ HostIf(i) = i
BY DEF SpaceInv, NoPoolInv, HostIf

OwnLinks == \A f \in Ifs : There(f) => OwnLink(f)

\* Without a pool a veth is built in its sandbox's namespace, and goes with it.
LEMMA OwnStep ==
  ASSUME TypeOK, StepInv, SpaceInv, ~Pooled, OwnLinks, Next
  PROVE  OwnLinks'
<1>1. /\ kernel \in Kernels /\ KernelType /\ OneNs
      /\ slot \in [Ids -> SlotOrNil] /\ Ids \subseteq Ifs
      /\ \A f \in Ifs : There(f) => kernel.ifs[f] \in Link /\ kernel.ifs[f].in \in Namespaces
      /\ \A f \in Ifs : There(f) => f \in Ids /\ kernel.ns[kernel.ifs[f].in] = f
  BY DEF TypeOK, KernelType, LockType, SpaceInv, NamedInv, OneNs, Ifs, There, Kernels, Link,
     OwnLinks, OwnLink
<1>2. \A i \in Ids : HostIf(i) = i /\ i # "pool" /\ i # "dead" /\ i # Nil
  BY NoPool, Names
<1>3. ASSUME kernel'.ns = kernel.ns,
             \A f \in Ifs : There(f)' => There(f) /\ kernel'.ifs[f].in = kernel.ifs[f].in
      PROVE  OwnLinks'
  BY <1>1, <1>3 DEF OwnLinks, OwnLink
<1>4. ASSUME NEW i \in Ids, Quiet(i) \/ Start(i) \/ Woken(i) PROVE OwnLinks'
  BY <1>3, <1>4, StillSteps DEF Still, There
<1>5. ASSUME NEW i \in Ids, Create(i) \/ Wake(i) PROVE OwnLinks'
  <2>1. /\ kernel' = Built(kernel, i, i)
        /\ NsOf(kernel, i) # {} \/ NoNs(kernel) # {}
    BY <1>2, <1>5 DEF Create, Wake, Setup, Claim, ClaimFails, Build
  <2>2. i \in Ifs
    BY <1>1
  <2>3. PICK n \in Namespaces : BuiltAs(kernel, i, i, n, kernel')
    BY <1>1, <2>1, <2>2, BuiltFacts
  <2>4. /\ kernel.ns[n] = IF NsOf(kernel, i) = {} THEN Nil ELSE i
        /\ \A m \in Namespaces : kernel'.ns[m] = IF m = n THEN i ELSE kernel.ns[m]
        /\ \A g \in Ifs : kernel'.ifs[g] =
             IF g = i /\ kernel.ifs[i] = Nil
               THEN [in |-> n, addrs |-> {}, up |-> FALSE, inner |-> Nil, open |-> FALSE]
                ELSE kernel.ifs[g]
    BY <2>3 DEF BuiltAs
  <2>5. ASSUME NEW f \in Ifs, There(f)' PROVE f \in Ids /\ kernel'.ns[kernel'.ifs[f].in] = f
    <3>1. CASE f = i /\ kernel.ifs[i] = Nil
      <4>1. kernel'.ifs[f].in = n
        BY <2>4, <3>1
      <4> QED BY <2>4, <3>1, <4>1
    <3>2. CASE ~(f = i /\ kernel.ifs[i] = Nil)
      <4>1. kernel'.ifs[f] = kernel.ifs[f] /\ There(f)
        BY <2>4, <2>5, <3>2 DEF There
      <4>2. f \in Ids /\ kernel.ifs[f].in \in Namespaces /\ kernel.ns[kernel.ifs[f].in] = f
        BY <1>1, <4>1
      <4>3. kernel.ifs[f].in = n => f = i
        BY <1>2, <2>4, <4>2
      <4> QED BY <2>4, <4>1, <4>2, <4>3
    <3> QED BY <3>1, <3>2
  <2> QED BY <2>5 DEF OwnLinks, OwnLink
<1>6. ASSUME NEW i \in Ids, Address(i) PROVE OwnLinks'
  <2>1. slot[i] \in Slots
    BY <1>1, <1>6 DEF Address, StepInv, StepOK, Working, SlotOrNil, TypeOK, LockType
  <2>2. /\ kernel'.ns = kernel.ns
        /\ \A f \in Ifs \ {HostIf(i)} : kernel'.ifs[f] \in {Nil, kernel.ifs[f]}
        /\ There(HostIf(i))' <=> There(HostIf(i))
        /\ There(HostIf(i)) => kernel'.ifs[HostIf(i)].in = kernel.ifs[HostIf(i)].in
    BY <1>6, <2>1, AddressFacts
  <2>3. HostIf(i) = i /\ HostIf(i)' = i
    BY <1>2, <1>6, NoPool DEF Address, HostIf
  <2>4. There(i)' <=> There(i)
    BY <2>2, <2>3 DEF There
  <2>5. \A f \in Ifs : There(f)' => There(f) /\ kernel'.ifs[f].in = kernel.ifs[f].in
    BY <2>2, <2>3, <2>4 DEF There
  <2> QED BY <1>3, <2>2, <2>5
<1>7. ASSUME NEW i \in Ids, Destroy(i) PROVE OwnLinks'
  <2>1. kernel' = kernel \/ kernel' = Down(kernel, i)
    BY <1>2, <1>7 DEF Destroy, Quiesced
  <2>2. i \in Ifs
    BY <1>1
  <2>3. CASE kernel' = kernel
    BY <1>3, <2>3 DEF There
  <2>4. CASE kernel' = Down(kernel, i)
    BY <1>1, <1>3, <2>2, <2>4, DownFacts DEF There
  <2> QED BY <2>1, <2>3, <2>4
<1>8. ASSUME NEW i \in Ids, Snapshot(i) \/ DestroyTeardown(i) PROVE OwnLinks'
  <2>1. Teardown(i)
    BY <1>8 DEF Snapshot, DestroyTeardown
  <2>2. kernel' = kernel \/ \E n \in Namespaces : TornDown(i, n)
    BY <1>1, <2>1, TeardownFacts DEF TornToPool
  <2>3. ASSUME NEW n \in Namespaces, TornDown(i, n) PROVE OwnLinks'
    <3>1. /\ \A m \in Namespaces : kernel'.ns[m] = IF m = n THEN Nil ELSE kernel.ns[m]
          /\ \A f \in Ifs : kernel'.ifs[f] =
                IF f = HostIf(i) \/ (There(f) /\ kernel.ifs[f].in = n) THEN Nil ELSE kernel.ifs[f]
      BY <2>3 DEF TornDown
    <3>2. ASSUME NEW f \in Ifs, There(f)' PROVE f \in Ids /\ kernel'.ns[kernel'.ifs[f].in] = f
      <4>1. kernel'.ifs[f] = kernel.ifs[f] /\ There(f) /\ kernel.ifs[f].in # n
        BY <3>1, <3>2 DEF There
      <4> QED BY <1>1, <3>1, <4>1
    <3> QED BY <3>2 DEF OwnLinks, OwnLink
  <2> QED BY <1>3, <2>2, <2>3 DEF There
<1>9. CASE Recycle \/ RemoveRetired \/ FillBuild
  BY <1>9 DEF Recycle, RemoveRetired, FillBuild
<1>10. CASE Report \/ UNCHANGED vars
  <2>1. kernel' = kernel
    BY <1>10 DEF Report, vars
  <2> QED BY <1>3, <2>1 DEF There
<1>11. CASE Crash
  <2> DEFINE N == NsOf(kernel, "pool") \cup NsOf(kernel, "dead")
  <2>1. /\ \A n \in Namespaces : kernel'.ns[n] = IF n \in N THEN Nil ELSE kernel.ns[n]
        /\ \A f \in Ifs : kernel'.ifs[f] =
              IF kernel.ifs[f] # Nil /\ kernel.ifs[f].in \in N THEN Nil ELSE kernel.ifs[f]
    BY <1>1, <1>11, DelNsFacts DEF Crash
  <2>2. ASSUME NEW f \in Ifs, There(f)' PROVE f \in Ids /\ kernel'.ns[kernel'.ifs[f].in] = f
    <3>1. kernel'.ifs[f] = kernel.ifs[f] /\ There(f) /\ kernel.ifs[f].in \notin N
      BY <2>1, <2>2 DEF There
    <3> HIDE DEF N
    <3> QED BY <1>1, <2>1, <3>1
  <2> QED BY <2>2 DEF OwnLinks, OwnLink
<1> QED BY <1>4, <1>5, <1>6, <1>7, <1>8, <1>9, <1>10, <1>11, StepCases
Claimed == \A i \in Ids : Working(i) => "pooled" \in todo[i]

\* While nothing is built in place, whoever is being set up has claimed.
LEMMA ClaimedStep ==
  ASSUME TypeOK, Single(ready), Pooled, Claimed, Next, astray' = {}
  PROVE  Claimed'
<1>1. /\ op \in [Ids -> {"idle", "create", "wake", "put", "kill", "clear", "teardown"}]
      /\ todo \in [Ids -> SUBSET {"address", "egress", "pooled", "failed"}]
  BY DEF TypeOK, LockType
<1>2. ASSUME NEW i \in Ids, Create(i) \/ Wake(i) PROVE Claimed'
  <2>1. todo' = [todo EXCEPT ![i] = todo'[i]]
        /\ (op' = [op EXCEPT ![i] = "create"] \/ op' = [op EXCEPT ![i] = "wake"])
    BY <1>2, SetupFacts DEF Create, Wake
  <2>2. Claim(i)
    BY <1>2 DEF Create, Wake, Setup, Build, ClaimFails, Strays
  <2>3. "pooled" \in todo'[i]
    BY <1>1, <2>2 DEF Claim
  <2> QED BY <1>1, <2>1, <2>3 DEF Claimed, Working
<1>3. ASSUME NEW i \in Ids, Quiet(i) PROVE Claimed'
  <2>1. CASE CreateEgress(i)
    <3>1. \/ todo' = [todo EXCEPT ![i] = @ \ {"egress"}] /\ op' = op
          \/ todo' = [todo EXCEPT ![i] = @ \cup {"failed"}] /\ op' = op
          \/ todo' = [todo EXCEPT ![i] = {}] /\ op' = [op EXCEPT ![i] = "idle"]
      BY <2>1 DEF CreateEgress
    <3> QED BY <1>1, <3>1 DEF Claimed, Working
  <2>2. CASE \/ Reap(i) \/ DestroyKill(i) \/ DestroyClear(i) \/ Checkpoint(i) \/ SnapshotFails(i)
    <3>1. /\ todo' = todo
          /\ \E o \in {"idle", "put", "kill", "clear", "teardown"} : op' = [op EXCEPT ![i] = o]
      BY <2>2 DEF Reap, DestroyKill, DestroyClear, Checkpoint, SnapshotFails
    <3> QED BY <1>1, <3>1 DEF Claimed, Working
  <2>3. CASE \/ \E r \in Rules \cup {Nil} : RowCreated(i, r) \/ RowEgress(i, r)
             \/ RowDeleted(i) \/ SetEgress(i) \/ Freeze(i) \/ Thaw(i) \/ Requested(i)
             \/ Expose(i) \/ Detach(i) \/ Die(i)
    <3>1. UNCHANGED locks
      BY <2>3 DEF RowCreated, RowEgress, RowDeleted, SetEgress, Freeze, Thaw, Requested, Expose,
           Detach, Die
    <3> QED BY <3>1 DEF locks, Claimed, Working
  <2> QED BY <1>3, <2>1, <2>2, <2>3 DEF Quiet
<1>4. ASSUME NEW i \in Ids, Address(i) PROVE Claimed'
  <2>1. \/ todo' = [todo EXCEPT ![i] = @ \ {"address"}] /\ op' = op
        \/ todo' = [todo EXCEPT ![i] = {}] /\ op' = [op EXCEPT ![i] = "idle"]
    BY <1>1, <1>4 DEF Address
  <2> QED BY <1>1, <2>1 DEF Claimed, Working
<1>5. ASSUME NEW i \in Ids, Start(i) \/ Woken(i) PROVE Claimed'
  <2>1. todo' = [todo EXCEPT ![i] = {}] /\ op' = [op EXCEPT ![i] = "idle"]
    BY <1>5 DEF Start, Woken
  <2> QED BY <1>1, <2>1 DEF Claimed, Working
<1>6. ASSUME NEW i \in Ids, Snapshot(i) \/ DestroyTeardown(i) \/ Destroy(i) PROVE Claimed'
  <2>1. todo' = todo /\ (op' = op \/ \E o \in {"idle", "kill"} : op' = [op EXCEPT ![i] = o])
    BY <1>6 DEF Snapshot, DestroyTeardown, Destroy, locks
  <2> QED BY <1>1, <2>1 DEF Claimed, Working
<1>7. CASE Crash
  <2>1. \A i \in Ids : op'[i] = "idle"
    BY <1>7 DEF Crash
  <2> QED BY <2>1 DEF Claimed, Working
<1>8. CASE Recycle \/ RemoveRetired \/ FillBuild \/ Report \/ UNCHANGED vars
  <2>1. UNCHANGED locks
    BY <1>8 DEF Recycle, RemoveRetired, FillBuild, Report, vars, locks
  <2> QED BY <2>1 DEF locks, Claimed, Working
<1> QED BY <1>2, <1>3, <1>4, <1>5, <1>6, <1>7, <1>8, StepCases

\* The rest of what a tidy pool is: links, records, and the lists.
TidyLinks == \A f \in Ifs : There(f) => PoolLink(f)

TidyNames ==
  /\ \A i \in Ids : names[i] # Nil => names[i] \in Namespaces
  /\ \A i \in Ids, n \in Namespaces : kernel.ns[n] = i <=> names[i] = n

TidyBlank(b) == b.host = b.ns /\ There(b.ns) /\ ~kernel.ifs[b.ns].up

TidyLists ==
  /\ \A b \in Range(ready) \cup Range(retired) : TidyBlank(b)
  /\ \A b \in Range(ready) : ~kernel.ifs[b.ns].open

TidyNet == TidyLinks /\ TidyNames /\ TidyLists

\* With a pool and nothing built in place, who owns what is plain.
LEMMA TidyFacts ==
  ASSUME TypeOK, SpaceInv, TidyNet
  PROVE  /\ \A i \in Ids : There(HostIf(i)) =>
              /\ HostIf(i) = names[i] /\ HostIf(i) \in Namespaces
              /\ kernel.ns[HostIf(i)] = i /\ kernel.ifs[HostIf(i)].in = HostIf(i)
         /\ \A i \in Ids, n \in Namespaces : kernel.ns[n] = i => HostIf(i) = n
         /\ \A b \in Range(ready) : b \in BlankType /\ b.ns \in Namespaces /\ kernel.ns[b.ns] = "pool"
         /\ \A b \in Range(retired) : b \in BlankType /\ b.ns \in Namespaces /\ kernel.ns[b.ns] = "dead"
         /\ \A b \in Range(ready) \cup Range(retired), i \in Ids : HostIf(i) # b.ns
<1>1. /\ ready \in Seq(BlankType) /\ retired \in Seq(BlankType) /\ KernelType
      /\ ListInv /\ names \in [Ids -> Ifs \cup {Nil}]
  BY DEF TypeOK, PoolType, SpaceInv, KernelType
<1>2. \A i \in Ids : /\ HostIf(i) \in Ifs /\ HostIf(i) = IF names[i] = Nil THEN i ELSE names[i]
                     /\ i \notin Namespaces /\ i # "pool" /\ i # "dead" /\ Nil \notin Namespaces
  BY <1>1, HostIn, Names
<1>3. \A i \in Ids : There(HostIf(i)) =>
              /\ HostIf(i) = names[i] /\ HostIf(i) \in Namespaces
              /\ kernel.ns[HostIf(i)] = i /\ kernel.ifs[HostIf(i)].in = HostIf(i)
  BY <1>2 DEF TidyNet, TidyLinks, TidyNames, PoolLink
<1>4. \A i \in Ids, n \in Namespaces : kernel.ns[n] = i => HostIf(i) = n
  BY <1>2 DEF TidyNet, TidyNames
<1>5. \A b \in Range(ready) : b \in BlankType /\ b.ns \in Namespaces /\ kernel.ns[b.ns] = "pool"
  BY <1>1, InList DEF ListInv, NsOf
<1>6. \A b \in Range(retired) : b \in BlankType /\ b.ns \in Namespaces /\ kernel.ns[b.ns] = "dead"
  BY <1>1, InList DEF ListInv, NsOf
<1>7. \A b \in Range(ready) \cup Range(retired), i \in Ids : HostIf(i) # b.ns
  <2> SUFFICES ASSUME NEW b \in Range(ready) \cup Range(retired), NEW i \in Ids, HostIf(i) = b.ns
               PROVE FALSE
    OBVIOUS
  <2>1. There(b.ns) /\ kernel.ns[b.ns] \in {"pool", "dead"}
    BY <1>5, <1>6 DEF TidyNet, TidyLists, TidyBlank
  <2> QED BY <1>2, <1>3, <2>1
<1> QED BY <1>3, <1>4, <1>5, <1>6, <1>7

\* The lists lose or keep members, and the links of those that stay are kept.
LEMMA TidyListsKept ==
  ASSUME TidyLists, Range(ready)' \subseteq Range(ready), Range(retired)' \subseteq Range(retired),
         \A b \in Range(ready)' \cup Range(retired)' :
           kernel'.ifs[b.ns] = kernel.ifs[b.ns]
  PROVE  TidyLists'
BY DEF TidyLists, TidyBlank, There

\* A claim gives the namespace, its interface and the record to one sandbox.
LEMMA TidyClaim ==
  ASSUME TypeOK, SpaceInv, TidyNet, NEW i \in Ids, Claim(i)
  PROVE  TidyNet'
<1> DEFINE b == Last(ready)
           n == b.ns
<1>1. /\ kernel \in Kernels /\ ready \in Seq(BlankType) /\ Single(ready)
      /\ names \in [Ids -> Ifs \cup {Nil}]
  BY DEF TypeOK, KernelType, PoolType, SpaceInv, ListInv
<1>2. /\ NsOf(kernel, i) = {} /\ ready # <<>> /\ ready' = Front(ready) /\ retired' = retired
      /\ kernel' = Rename(kernel, n, i) /\ names' = [names EXCEPT ![i] = b.host]
  BY DEF Claim
<1>3. b \in Range(ready) /\ \A c \in Range(Front(ready)) : c \in Range(ready) /\ c.ns # n
  BY <1>1, <1>2, FrontOf
<1> HIDE DEF b
<1>4. n \in Namespaces /\ kernel.ns[n] = "pool" /\ b.host = n
  BY <1>3, TidyFacts DEF TidyNet, TidyLists, TidyBlank
<1> HIDE DEF n
<1>5. /\ kernel'.ifs = kernel.ifs
      /\ \A m \in Namespaces : kernel'.ns[m] = IF m = n THEN i ELSE kernel.ns[m]
  BY <1>1, <1>2, <1>4, NameFacts
<1>6. \A j \in Ids : j # "pool" /\ j # Nil
  BY Names
<1>7. TidyLinks'
  BY <1>4, <1>5, <1>6 DEF TidyNet, TidyLinks, PoolLink, There
<1>8. TidyNames'
  <2>1. \A j \in Ids : names'[j] # Nil => names'[j] \in Namespaces
    BY <1>1, <1>2, <1>4 DEF TidyNet, TidyNames
  <2>2. ASSUME NEW j \in Ids, NEW m \in Namespaces PROVE kernel'.ns[m] = j <=> names'[j] = m
    <3>1. kernel.ns[m] = j <=> names[j] = m
      BY DEF TidyNet, TidyNames
    <3>2. kernel.ns[m] # i
      BY <1>2 DEF NsOf
    <3> QED BY <1>1, <1>2, <1>4, <1>5, <1>6, <3>1, <3>2
  <2> QED BY <2>1, <2>2 DEF TidyNames
<1>9. TidyLists'
  BY <1>2, <1>3, <1>5, TidyListsKept DEF TidyNet
<1> QED BY <1>7, <1>8, <1>9 DEF TidyNet

\* Addressing a veth removes none that is down, so none that is the pool's.
LEMMA TidyAddress ==
  ASSUME TypeOK, StepInv, SpaceInv, TidyNet, Claimed, NEW i \in Ids, Address(i)
  PROVE  TidyNet'
<1>1. /\ kernel \in Kernels /\ slot[i] \in Slots /\ "pooled" \in todo[i]
      /\ ready \in Seq(BlankType) /\ retired \in Seq(BlankType)
  BY DEF Address, StepInv, StepOK, Working, SlotOrNil, TypeOK, LockType, PoolType, KernelType, Claimed
<1>2. UNCHANGED <<names, ready, retired>>
  BY DEF Address, pool
<1>3. /\ kernel'.ns = kernel.ns
      /\ \A f \in Ifs \ {HostIf(i)} :
           kernel'.ifs[f] = IF f \in Holders(kernel, i, slot[i]) THEN Nil ELSE kernel.ifs[f]
      /\ There(HostIf(i))' <=> There(HostIf(i))
      /\ There(HostIf(i)) => kernel'.ifs[HostIf(i)].in = kernel.ifs[HostIf(i)].in
  BY <1>1, AddressFacts
<1>4. HostIf(i)' = HostIf(i)
  BY <1>2 DEF HostIf
<1>5. There(HostIf(i))' => There(HostIf(i))
  BY <1>3, <1>4
<1>6. \A f \in Ifs : There(f)' => There(f) /\ kernel'.ifs[f].in = kernel.ifs[f].in
  BY <1>3, <1>4, <1>5 DEF There
<1>7. TidyLinks'
  BY <1>3, <1>6 DEF TidyNet, TidyLinks, PoolLink
<1>8. TidyNames'
  BY <1>2, <1>3 DEF TidyNet, TidyNames
<1>9. ASSUME NEW b \in Range(ready) \cup Range(retired) PROVE kernel'.ifs[b.ns] = kernel.ifs[b.ns]
  <2>1. b.ns \in Ifs /\ b.ns # HostIf(i)
    BY TidyFacts DEF Ifs
  <2>2. There(b.ns) /\ ~kernel.ifs[b.ns].up
    BY DEF TidyNet, TidyLists, TidyBlank
  <2>3. b.ns \notin Holders(kernel, i, slot[i])
    BY <1>1, <2>2 DEF Holders
  <2> QED BY <1>3, <2>1, <2>3
<1>10. TidyLists'
  BY <1>2, <1>9, TidyListsKept DEF TidyNet
<1> QED BY <1>7, <1>8, <1>10 DEF TidyNet

\* Taking a host end down leaves it where it is.
LEMMA TidyDown ==
  ASSUME TypeOK, SpaceInv, TidyNet, NEW i \in Ids, kernel' = Quiesced(kernel, i),
         UNCHANGED <<names, ready, retired>>
  PROVE  TidyNet'
<1>1. kernel \in Kernels /\ HostIf(i) \in Ifs
  BY HostIn DEF TypeOK, KernelType
<1>2. /\ kernel'.ns = kernel.ns
      /\ \A f \in Ifs : /\ f # HostIf(i) => kernel'.ifs[f] = kernel.ifs[f]
                        /\ There(f)' => There(f) /\ kernel'.ifs[f].in = kernel.ifs[f].in
  <2>1. CASE kernel' = kernel
    BY <2>1 DEF There
  <2>2. CASE kernel' = Down(kernel, HostIf(i))
    BY <1>1, <2>2, DownFacts DEF There
  <2> QED BY <2>1, <2>2 DEF Quiesced
<1>3. TidyLinks'
  BY <1>2 DEF TidyNet, TidyLinks, PoolLink
<1>4. TidyNames'
  BY <1>2 DEF TidyNet, TidyNames
<1>5. \A b \in Range(ready) \cup Range(retired) : b.ns \in Ifs /\ b.ns # HostIf(i)
  BY TidyFacts DEF Ifs
<1>6. TidyLists'
  BY <1>2, <1>5, TidyListsKept DEF TidyNet
<1> QED BY <1>3, <1>4, <1>6 DEF TidyNet

\* A teardown retires the veth with its namespace, and the record goes.
LEMMA TidyTeardown ==
  ASSUME TypeOK, SpaceInv, TidyNet, NEW i \in Ids, Teardown(i), Pooled
  PROVE  TidyNet'
<1>1. /\ kernel \in Kernels /\ names \in [Ids -> Ifs \cup {Nil}] /\ HostIf(i) \in Ifs
      /\ retired \in Seq(BlankType) /\ Single(retired) /\ OneNs /\ ListInv
  BY HostIn DEF TypeOK, KernelType, PoolType, SpaceInv, ListInv, NamedInv, OneNs
<1>2. /\ names' = [names EXCEPT ![i] = Nil] /\ ready' = ready
      /\ \/ NsOf(kernel, i) = {} /\ kernel' = kernel /\ retired' = retired
         \/ \E n \in Namespaces : TornToPool(i, n)
         \/ \E n \in Namespaces : TornDown(i, n)
  BY <1>1, TeardownFacts
<1>3. \A j \in Ids : j # "pool" /\ j # "dead" /\ j # Nil /\ Nil \notin Namespaces
  BY Names
<1>4. CASE NsOf(kernel, i) = {} /\ kernel' = kernel /\ retired' = retired
  <2>1. names[i] = Nil
    BY <1>4 DEF TidyNet, TidyNames, NsOf
  <2>2. names' = names
    BY <1>1, <1>2, <2>1
  <2> QED BY <1>2, <1>4, <2>2 DEF TidyNet, TidyLinks, TidyNames, TidyLists, PoolLink, TidyBlank, There
<1>5. ASSUME NEW n \in Namespaces, kernel.ns[n] = i,
             NEW name \in {"dead", Nil},
             \A m \in Namespaces : kernel'.ns[m] = IF m = n THEN name ELSE kernel.ns[m]
      PROVE  TidyNames'
  <2>1. \A j \in Ids : names'[j] # Nil => names'[j] \in Namespaces
    BY <1>1, <1>2 DEF TidyNet, TidyNames
  <2>2. ASSUME NEW j \in Ids, NEW m \in Namespaces PROVE kernel'.ns[m] = j <=> names'[j] = m
    <3>1. kernel.ns[m] = j <=> names[j] = m
      BY DEF TidyNet, TidyNames
    <3>2. kernel.ns[m] = i => m = n
      BY <1>1, <1>5 DEF OneNs
    <3>3. names'[j] = IF j = i THEN Nil ELSE names[j]
      BY <1>1, <1>2
    <3> QED BY <1>3, <1>5, <3>1, <3>2, <3>3
  <2> QED BY <2>1, <2>2 DEF TidyNames
<1>6. ASSUME NEW n \in Namespaces, TornToPool(i, n) PROVE TidyNet'
  <2> DEFINE h == HostIf(i)
             b == Blank(n, h)
  <2>1. /\ There(h) /\ kernel.ns[n] = i /\ retired' = Append(retired, b)
        /\ \A m \in Namespaces : kernel'.ns[m] = IF m = n THEN "dead" ELSE kernel.ns[m]
        /\ \A f \in Ifs : f # h => kernel'.ifs[f] = kernel.ifs[f]
        /\ kernel'.ifs[h] # Nil /\ ~kernel'.ifs[h].up /\ kernel'.ifs[h].in = kernel.ifs[h].in
    BY <1>6 DEF TornToPool
  <2>2. h = n
    BY <2>1, TidyFacts
  <2>3. b \in BlankType /\ b.ns = n /\ b.host = n
    BY <1>1, <2>2 DEF Blank, BlankType
  <2> HIDE DEF h, b
  <2>4. \A c \in Range(retired) : c.ns # n
    BY <1>3, <2>1, TidyFacts
  <2>5. Range(retired)' = Range(retired) \cup {b}
    BY <1>1, <2>1, <2>3, <2>4, AppendTo
  <2>6. TidyNames'
    BY <1>5, <2>1
  <2>7. TidyLinks'
    <3> SUFFICES ASSUME NEW f \in Ifs, There(f)' PROVE PoolLink(f)'
      BY DEF TidyLinks
    <3>1. There(f) /\ kernel'.ifs[f].in = kernel.ifs[f].in
      BY <2>1 DEF There
    <3>2. PoolLink(f)
      BY <3>1 DEF TidyNet, TidyLinks
    <3>3. Nil # "dead"
      BY Names
    <3> QED BY <2>1, <3>1, <3>2, <3>3 DEF PoolLink
  <2>8. TidyLists'
    <3>1. \A c \in Range(ready) \cup Range(retired) : kernel'.ifs[c.ns] = kernel.ifs[c.ns]
      <4>1. \A c \in Range(ready) \cup Range(retired) : c.ns \in Ifs /\ c.ns # h
        BY TidyFacts DEF Ifs, h
      <4> QED BY <2>1, <4>1
    <3>2. b.host = b.ns /\ kernel'.ifs[b.ns] # Nil /\ ~kernel'.ifs[b.ns].up
      BY <2>1, <2>2, <2>3
    <3>3. /\ \A c \in Range(ready)' \cup Range(retired)' :
               c.host = c.ns /\ kernel'.ifs[c.ns] # Nil /\ ~kernel'.ifs[c.ns].up
          /\ \A c \in Range(ready)' : ~kernel'.ifs[c.ns].open
      <4>1. /\ \A c \in Range(ready) \cup Range(retired) :
                 c.host = c.ns /\ kernel.ifs[c.ns] # Nil /\ ~kernel.ifs[c.ns].up
            /\ \A c \in Range(ready) : ~kernel.ifs[c.ns].open
        BY DEF TidyNet, TidyLists, TidyBlank, There
      <4>2. Range(ready)' = Range(ready)
        BY <1>2
      <4> QED BY <2>5, <3>1, <3>2, <4>1, <4>2
    <3> QED BY <3>3 DEF TidyLists, TidyBlank, There
  <2> QED BY <2>6, <2>7, <2>8 DEF TidyNet
<1>7. ASSUME NEW n \in Namespaces, TornDown(i, n) PROVE TidyNet'
  <2>1. /\ ~There(HostIf(i)) /\ kernel.ns[n] = i /\ retired' = retired
        /\ \A m \in Namespaces : kernel'.ns[m] = IF m = n THEN Nil ELSE kernel.ns[m]
        /\ \A f \in Ifs : kernel'.ifs[f] =
             IF f = HostIf(i) \/ (There(f) /\ kernel.ifs[f].in = n) THEN Nil ELSE kernel.ifs[f]
    BY <1>7 DEF TornDown
  <2>2. HostIf(i) = n
    BY <2>1, TidyFacts
  <2>3. \A f \in Ifs : kernel'.ifs[f] = kernel.ifs[f] /\ (There(f) => f # n)
    BY <2>1, <2>2 DEF TidyNet, TidyLinks, PoolLink, There
  <2>4. TidyNames'
    BY <1>5, <2>1
  <2>5. TidyLinks'
    BY <2>1, <2>3 DEF TidyNet, TidyLinks, PoolLink, There
  <2>6. \A c \in Range(ready) \cup Range(retired) : kernel'.ifs[c.ns] = kernel.ifs[c.ns]
    BY <2>3, TidyFacts DEF Ifs
  <2>7. TidyLists'
    BY <1>2, <2>1, <2>6, TidyListsKept DEF TidyNet
  <2> QED BY <2>4, <2>5, <2>7 DEF TidyNet
<1> QED BY <1>2, <1>4, <1>6, <1>7

\* Where only namespaces that no record names change their name, and links go
\* or lose their inner address, the rest of the net stays tidy.
LEMMA TidyRest ==
  ASSUME TidyNet, names' = names,
         \A m \in Namespaces : \/ kernel'.ns[m] = kernel.ns[m]
                               \/ kernel.ns[m] \notin Ids /\ kernel'.ns[m] \notin Ids,
         \A f \in Ifs : There(f)' => /\ There(f) /\ kernel'.ifs[f].in = kernel.ifs[f].in
                                     /\ f \in Namespaces => kernel'.ns[f] # Nil
  PROVE  TidyLinks' /\ TidyNames'
<1>1. TidyLinks'
  BY DEF TidyNet, TidyLinks, PoolLink
<1>2. TidyNames'
  BY DEF TidyNet, TidyNames
<1> QED BY <1>1, <1>2

\* The pool's thread scrubs a retired namespace, deletes it with its link, or
\* builds one with a link of its own.
LEMMA TidyFill ==
  ASSUME TypeOK, SpaceInv, TidyNet, Recycle \/ RemoveRetired \/ FillBuild
  PROVE  TidyNet'
<1>1. /\ kernel \in Kernels /\ ready \in Seq(BlankType) /\ retired \in Seq(BlankType)
      /\ Single(ready) /\ Single(retired)
  BY DEF TypeOK, KernelType, PoolType, SpaceInv, ListInv
<1>2. names' = names
  BY DEF Recycle, RemoveRetired, FillBuild
<1>3. /\ Nil # "pool" /\ Nil # "dead" /\ Nil \notin Ids /\ "pool" \notin Ids /\ "dead" \notin Ids
  BY Names, NetAssumption
<1>4. ASSUME NEW b, retired # <<>>, b = Last(retired), retired' = Front(retired)
      PROVE  /\ b \in BlankType /\ b.ns \in Namespaces /\ b.host = b.ns /\ kernel.ns[b.ns] = "dead"
             /\ There(b.ns) /\ ~kernel.ifs[b.ns].up /\ kernel.ifs[b.ns].in = b.ns /\ b.ns \in Ifs
             /\ \A c \in Range(ready) \cup Range(retired)' : c.ns # b.ns
             /\ Range(retired)' \subseteq Range(retired)
  <2>1. /\ b \in Range(retired) /\ b \in BlankType
        /\ \A c \in Range(Front(retired)) : c \in Range(retired) /\ c.ns # b.ns
    BY <1>1, <1>4, FrontOf
  <2>2. /\ b.ns \in Namespaces /\ kernel.ns[b.ns] = "dead" /\ b.ns \in Ifs
        /\ \A c \in Range(ready) : kernel.ns[c.ns] = "pool"
    BY <2>1, TidyFacts DEF Ifs
  <2>3. b.host = b.ns /\ There(b.ns) /\ ~kernel.ifs[b.ns].up
    BY <2>1 DEF TidyNet, TidyLists, TidyBlank
  <2>4. kernel.ifs[b.ns].in = b.ns
    BY <2>2, <2>3 DEF TidyNet, TidyLinks, PoolLink
  <2> QED BY <1>4, <2>1, <2>2, <2>3, <2>4
<1>5. ASSUME NEW b, retired # <<>>, b = Last(retired), retired' = Front(retired), ready' = ready,
             kernel' = Scrapped(b)
      PROVE  TidyNet'
  <2>1. /\ b \in BlankType /\ b.ns \in Namespaces /\ b.host = b.ns /\ kernel.ns[b.ns] = "dead"
        /\ \A c \in Range(ready) \cup Range(retired)' : c.ns # b.ns
        /\ Range(retired)' \subseteq Range(retired)
    BY <1>4, <1>5
  <2>2. /\ \A m \in Namespaces : kernel'.ns[m] = IF m = b.ns THEN Nil ELSE kernel.ns[m]
        /\ \A f \in Ifs : kernel'.ifs[f] =
              IF f = b.host \/ (kernel.ifs[f] # Nil /\ kernel.ifs[f].in = b.ns)
                THEN Nil ELSE kernel.ifs[f]
    BY <1>1, <1>5, <2>1, ScrappedFacts
  <2>3. \A f \in Ifs : There(f)' => There(f) /\ kernel'.ifs[f] = kernel.ifs[f] /\ f # b.ns
    BY <2>1, <2>2 DEF There
  <2>4. \A f \in Ifs : There(f) => f \in Namespaces /\ kernel.ns[f] # Nil /\ kernel.ifs[f].in = f
    BY DEF TidyNet, TidyLinks, PoolLink
  <2>5. TidyLinks' /\ TidyNames'
    <3>1. \A m \in Namespaces : \/ kernel'.ns[m] = kernel.ns[m]
                                \/ kernel.ns[m] \notin Ids /\ kernel'.ns[m] \notin Ids
      BY <1>3, <2>1, <2>2
    <3>2. \A f \in Ifs : There(f)' => /\ There(f) /\ kernel'.ifs[f].in = kernel.ifs[f].in
                                      /\ f \in Namespaces => kernel'.ns[f] # Nil
      BY <2>2, <2>3, <2>4
    <3> QED BY <1>2, <3>1, <3>2, TidyRest
  <2>6. TidyLists'
    <3>1. \A c \in Range(ready) \cup Range(retired)' : kernel'.ifs[c.ns] = kernel.ifs[c.ns]
      <4>1. \A c \in Range(ready) \cup Range(retired) : c.ns \in Ifs /\ There(c.ns)
        BY TidyFacts DEF TidyNet, TidyLists, TidyBlank, Ifs
      <4> QED BY <2>1, <2>2, <2>4, <4>1 DEF There
    <3> QED BY <1>5, <2>1, <3>1, TidyListsKept DEF TidyNet
  <2> QED BY <2>5, <2>6 DEF TidyNet
<1>6. CASE Recycle
  <2> DEFINE b == Last(retired)
             k == Scrubbed(kernel, b)
  <2>1. retired # <<>> /\ retired' = Front(retired)
    BY <1>6 DEF Recycle
  <2>2. \/ /\ kernel.ifs[b.host] # Nil
           /\ kernel' = Rename(k, b.ns, "pool") /\ ready' = Append(ready, b)
        \/ kernel' = Scrapped(b) /\ ready' = ready
    BY <1>6 DEF Recycle, Scrapped
  <2> HIDE DEF b
  <2>3. CASE kernel' = Scrapped(b) /\ ready' = ready
    BY <1>5, <2>1, <2>3 DEF b
  <2>4. CASE kernel.ifs[b.host] # Nil /\ kernel' = Rename(k, b.ns, "pool") /\ ready' = Append(ready, b)
    <3>1. /\ b \in BlankType /\ b.ns \in Namespaces /\ b.host = b.ns /\ kernel.ns[b.ns] = "dead"
          /\ There(b.ns) /\ ~kernel.ifs[b.ns].up /\ kernel.ifs[b.ns].in = b.ns
          /\ \A c \in Range(ready) \cup Range(retired)' : c.ns # b.ns
          /\ Range(retired)' \subseteq Range(retired)
      BY <1>4, <2>1 DEF b
    <3>2. /\ k \in Kernels /\ k.ns = kernel.ns
          /\ \A f \in Ifs : f # b.ns => k.ifs[f] = kernel.ifs[f]
          /\ k.ifs[b.ns] # Nil /\ ~k.ifs[b.ns].open
          /\ k.ifs[b.ns].in = kernel.ifs[b.ns].in /\ k.ifs[b.ns].up = kernel.ifs[b.ns].up
      BY <1>1, <2>4, <3>1, ScrubFacts
    <3> HIDE DEF k
    <3>3. /\ kernel'.ifs = k.ifs
          /\ \A m \in Namespaces : kernel'.ns[m] = IF m = b.ns THEN "pool" ELSE kernel.ns[m]
      BY <2>4, <3>1, <3>2, NameFacts
    <3>4. \A f \in Ifs : There(f)' <=> There(f)
      BY <3>1, <3>2, <3>3 DEF There
    <3>5. TidyLinks' /\ TidyNames'
      <4>1. \A m \in Namespaces : \/ kernel'.ns[m] = kernel.ns[m]
                                  \/ kernel.ns[m] \notin Ids /\ kernel'.ns[m] \notin Ids
        BY <1>3, <3>1, <3>3
      <4>2. \A f \in Ifs : There(f) => f \in Namespaces /\ kernel.ns[f] # Nil
        BY DEF TidyNet, TidyLinks, PoolLink
      <4>3. \A f \in Ifs : There(f)' => /\ There(f) /\ kernel'.ifs[f].in = kernel.ifs[f].in
                                        /\ f \in Namespaces => kernel'.ns[f] # Nil
        BY <1>3, <3>2, <3>3, <3>4, <4>2
      <4> QED BY <1>2, <4>1, <4>3, TidyRest
    <3>6. Range(ready)' = Range(ready) \cup {b}
      BY <1>1, <2>4, <3>1, AppendTo
    <3>7. \A c \in Range(ready) \cup Range(retired)' : kernel'.ifs[c.ns] = kernel.ifs[c.ns]
      <4>1. \A c \in Range(ready) \cup Range(retired) : c.ns \in Ifs
        BY TidyFacts DEF Ifs
      <4> QED BY <3>1, <3>2, <3>3, <4>1
    <3>8. b.host = b.ns /\ kernel'.ifs[b.ns] # Nil /\ ~kernel'.ifs[b.ns].up
          /\ ~kernel'.ifs[b.ns].open
      BY <3>1, <3>2, <3>3
    <3>9. /\ \A c \in Range(ready)' \cup Range(retired)' :
               c.host = c.ns /\ kernel'.ifs[c.ns] # Nil /\ ~kernel'.ifs[c.ns].up
          /\ \A c \in Range(ready)' : ~kernel'.ifs[c.ns].open
      <4>1. /\ \A c \in Range(ready) \cup Range(retired) :
                 c.host = c.ns /\ kernel.ifs[c.ns] # Nil /\ ~kernel.ifs[c.ns].up
            /\ \A c \in Range(ready) : ~kernel.ifs[c.ns].open
        BY DEF TidyNet, TidyLists, TidyBlank, There
      <4> QED BY <3>1, <3>6, <3>7, <3>8, <4>1
    <3>10. TidyLists'
      BY <3>9 DEF TidyLists, TidyBlank, There
    <3> QED BY <3>5, <3>10 DEF TidyNet
  <2> QED BY <2>2, <2>3, <2>4
<1>7. CASE RemoveRetired
  BY <1>5, <1>7 DEF RemoveRetired, Scrapped
<1>8. CASE FillBuild
  <2> DEFINE n == NewNs(kernel)
             k == AddNs(kernel, n, "pool")
             b == Blank(n, n)
  <2>1. /\ NoNs(kernel) # {} /\ kernel' = AddVeth(k, n, n) /\ ready' = Append(ready, b)
        /\ retired' = retired
    BY <1>8 DEF FillBuild
  <2>2. n \in NoNs(kernel)
    BY <2>1 DEF NewNs
  <2>3. n \in Namespaces /\ kernel.ns[n] = Nil /\ n \in Ifs
    BY <2>2 DEF NoNs, Ifs
  <2>4. b \in BlankType /\ b.ns = n /\ b.host = n
    BY <2>3 DEF Blank, BlankType
  <2> HIDE DEF n, b
  <2>5. /\ k \in Kernels /\ k.ifs = kernel.ifs
        /\ \A m \in Namespaces : k.ns[m] = IF m = n THEN "pool" ELSE kernel.ns[m]
    BY <1>1, <2>3, NameFacts
  <2> HIDE DEF k
  <2>6. /\ kernel'.ns = k.ns
        /\ \A g \in Ifs : kernel'.ifs[g] =
             IF g = n THEN [in |-> n, addrs |-> {}, up |-> FALSE, inner |-> Nil, open |-> FALSE]
                ELSE k.ifs[g]
    BY <2>1, <2>3, <2>5, VethFacts
  <2>7. [in |-> n, addrs |-> {}, up |-> FALSE, inner |-> Nil, open |-> FALSE] # Nil
    <3>1. [in |-> n, addrs |-> {}, up |-> FALSE, inner |-> Nil, open |-> FALSE] \in Link
      BY <2>3 DEF Link
    <3> QED BY <3>1, NilAssumption
  <2>8. /\ kernel'.ifs[n] # Nil /\ ~kernel'.ifs[n].up /\ ~kernel'.ifs[n].open
        /\ kernel'.ifs[n].in = n
    BY <2>3, <2>6, <2>7
  <2>9. TidyLinks'
    <3> SUFFICES ASSUME NEW f \in Ifs, There(f)'
                 PROVE f \in Namespaces /\ kernel'.ifs[f].in = f /\ kernel'.ns[f] # Nil
      BY DEF TidyLinks, PoolLink
    <3>1. CASE f = n
      BY <1>3, <2>3, <2>5, <2>6, <2>8, <3>1
    <3>2. CASE f # n
      <4>1. kernel'.ifs[f] = kernel.ifs[f] /\ There(f)
        BY <2>5, <2>6, <3>2 DEF There
      <4> QED BY <2>5, <2>6, <3>2, <4>1 DEF TidyNet, TidyLinks, PoolLink
    <3> QED BY <3>1, <3>2
  <2>10. TidyNames'
    <3>1. \A m \in Namespaces : \/ kernel'.ns[m] = kernel.ns[m]
                                \/ kernel.ns[m] \notin Ids /\ kernel'.ns[m] \notin Ids
      BY <1>3, <2>3, <2>5, <2>6
    <3> QED BY <1>2, <3>1 DEF TidyNet, TidyNames
  <2>11. \A c \in Range(ready) \cup Range(retired) : c.ns \in Ifs /\ c.ns # n
    BY <1>3, <2>3, TidyFacts DEF Ifs
  <2>12. Range(ready)' = Range(ready) \cup {b}
    BY <1>1, <2>1, <2>4, <2>11, AppendTo
  <2>13. /\ \A c \in Range(ready)' \cup Range(retired)' :
              c.host = c.ns /\ kernel'.ifs[c.ns] # Nil /\ ~kernel'.ifs[c.ns].up
         /\ \A c \in Range(ready)' : ~kernel'.ifs[c.ns].open
    <3>1. /\ \A c \in Range(ready) \cup Range(retired) :
               c.host = c.ns /\ kernel.ifs[c.ns] # Nil /\ ~kernel.ifs[c.ns].up
          /\ \A c \in Range(ready) : ~kernel.ifs[c.ns].open
      BY DEF TidyNet, TidyLists, TidyBlank, There
    <3>2. \A c \in Range(ready) \cup Range(retired) : kernel'.ifs[c.ns] = kernel.ifs[c.ns]
      BY <2>5, <2>6, <2>11
    <3>3. Range(retired)' = Range(retired)
      BY <2>1
    <3> QED BY <2>4, <2>8, <2>12, <3>1, <3>2, <3>3
  <2>14. TidyLists'
    BY <2>13 DEF TidyLists, TidyBlank, There
  <2> QED BY <2>9, <2>10, <2>14 DEF TidyNet
<1> QED BY <1>6, <1>7, <1>8

\* A restart empties the lists, and deletes their namespaces with their links.
LEMMA TidyCrash ==
  ASSUME TypeOK, SpaceInv, TidyNet, Crash
  PROVE  TidyNet'
<1>1. kernel \in Kernels
  BY DEF TypeOK, KernelType
<1>2. /\ Nil # "pool" /\ Nil # "dead" /\ Nil \notin Ids /\ "pool" \notin Ids /\ "dead" \notin Ids
  BY Names, NetAssumption
<1> DEFINE N == NsOf(kernel, "pool") \cup NsOf(kernel, "dead")
<1>3. /\ kernel' = DelNs(kernel, N) /\ ready' = <<>> /\ retired' = <<>> /\ names' = names
  BY DEF Crash
<1>4. /\ \A n \in Namespaces : kernel'.ns[n] = IF n \in N THEN Nil ELSE kernel.ns[n]
      /\ \A f \in Ifs : kernel'.ifs[f] =
           IF kernel.ifs[f] # Nil /\ kernel.ifs[f].in \in N THEN Nil ELSE kernel.ifs[f]
  BY <1>1, <1>3, DelNsFacts
<1>5. \A n \in N : kernel.ns[n] \notin Ids
  BY <1>2 DEF NsOf
<1> HIDE DEF N
<1>6. \A m \in Namespaces : \/ kernel'.ns[m] = kernel.ns[m]
                            \/ kernel.ns[m] \notin Ids /\ kernel'.ns[m] \notin Ids
  BY <1>2, <1>4, <1>5
<1>7. \A f \in Ifs : There(f) => f \in Namespaces /\ kernel.ns[f] # Nil /\ kernel.ifs[f].in = f
  BY DEF TidyNet, TidyLinks, PoolLink
<1>8. \A f \in Ifs : There(f)' => /\ There(f) /\ kernel'.ifs[f].in = kernel.ifs[f].in
                                  /\ f \in Namespaces => kernel'.ns[f] # Nil
  BY <1>4, <1>7 DEF There
<1>9. TidyLinks' /\ TidyNames'
  BY <1>3, <1>6, <1>8, TidyRest
<1>10. Range(ready)' = {} /\ Range(retired)' = {}
  <2>1. <<>> \in Seq(BlankType)
    OBVIOUS
  <2> QED BY <1>3, <2>1, InList
<1>11. TidyLists'
  BY <1>10 DEF TidyLists
<1> QED BY <1>9, <1>11 DEF TidyNet

\* Every step of a node that builds nothing in place keeps its net tidy.
LEMMA TidyStep ==
  ASSUME TypeOK, StepInv, SpaceInv, Pooled, PoolTidy, Next, astray' = {}
  PROVE  PoolTidy'
<1>1. Single(ready) /\ Claimed /\ TidyNet
  BY DEF SpaceInv, ListInv, PoolTidy, Claimed, TidyNet, TidyLinks, TidyNames, TidyLists, TidyBlank
<1>2. Claimed'
  BY <1>1, ClaimedStep
<1>3. TidyNet'
  <2>1. ASSUME Still PROVE TidyNet'
    BY <1>1, <2>1 DEF Still, TidyNet, TidyLinks, TidyNames, TidyLists, TidyBlank, PoolLink, There
  <2>2. ASSUME NEW i \in Ids, Quiet(i) \/ Start(i) \/ Woken(i) PROVE TidyNet'
    BY <2>1, <2>2, StillSteps
  <2>3. ASSUME NEW i \in Ids, Create(i) \/ Wake(i) PROVE TidyNet'
    <3>1. Claim(i)
      BY <2>3 DEF Create, Wake, Setup, Build, ClaimFails, Strays
    <3> QED BY <1>1, <3>1, TidyClaim
  <2>4. ASSUME NEW i \in Ids, Snapshot(i) \/ DestroyTeardown(i) PROVE TidyNet'
    BY <1>1, <2>4, TidyTeardown DEF Snapshot, DestroyTeardown
  <2>5. ASSUME NEW i \in Ids, Destroy(i) PROVE TidyNet'
    BY <1>1, <2>5, TidyDown DEF Destroy, pool
  <2>6. CASE Report \/ UNCHANGED vars
    BY <2>1, <2>6 DEF Report, vars, Still, pool
  <2> QED BY <1>1, <2>2, <2>3, <2>4, <2>5, <2>6, TidyAddress, TidyFill, TidyCrash, StepCases
<1> QED BY <1>2, <1>3 DEF PoolTidy, Claimed, TidyNet, TidyLinks, TidyNames, TidyLists, TidyBlank

\* So links stay where they belong.
LEMMA LinkStep ==
  ASSUME TypeOK, StepInv, SpaceInv, LinkInv, Next
  PROVE  LinkInv'
<1>1. (Pooled' <=> Pooled) /\ (astray' = {} => astray = {})
  BY TargetStep, PastTypeStep DEF SpaceInv, ListInv
<1>2. CASE Pooled
  BY <1>1, <1>2, TidyStep DEF LinkInv
<1>3. CASE ~Pooled
  BY <1>1, <1>3, OwnStep DEF LinkInv, OwnLinks
<1> QED BY <1>2, <1>3

(***************************************************************************)
(* A sandbox's one slot.                                                   *)
(***************************************************************************)
LinkFine(i, s) ==
  (Pooled => astray = {}) /\ There(HostIf(i)) /\ (Pooled => kernel.ifs[HostIf(i)].up)
    => kernel.ifs[HostIf(i)].addrs \subseteq {s}

\* A link that a step has not given an address: it keeps those it had, and
\* comes up by no such step.
Steady(f) ==
  There(f)' => \/ /\ There(f) /\ kernel'.ifs[f].addrs = kernel.ifs[f].addrs
                  /\ kernel'.ifs[f].up => kernel.ifs[f].up
               \/ kernel'.ifs[f].addrs = {}

\* Only addressing gives an address, and to the sandbox's own link.
LEMMA SteadyStep ==
  ASSUME TypeOK, StepInv, SpaceInv, Next, NEW f \in Ifs
  PROVE  Steady(f) \/ \E i \in Ids : Address(i) /\ f = HostIf(i)
<1>1. /\ kernel \in Kernels /\ KernelType /\ Single(ready) /\ Single(retired) /\ OneNs
      /\ ready \in Seq(BlankType) /\ retired \in Seq(BlankType) /\ slot \in [Ids -> SlotOrNil]
  BY DEF TypeOK, KernelType, PoolType, LockType, SpaceInv, ListInv, NamedInv, OneNs
<1>2. \A i \in Ids : HostIf(i) \in Ifs
  BY <1>1, HostIn
<1>3. kernel'.ifs[f] = Nil \/ kernel'.ifs[f] = kernel.ifs[f] => Steady(f)
  BY DEF Steady, There
<1>4. ASSUME NEW n, kernel'.ifs[f] = [in |-> n, addrs |-> {}, up |-> FALSE, inner |-> Nil, open |-> FALSE]
      PROVE  Steady(f)
  BY <1>4 DEF Steady
<1>5. ASSUME NEW b, b \in BlankType, kernel' = Scrapped(b) PROVE Steady(f)
  BY <1>1, <1>3, <1>5, ScrappedFacts
<1>6. ASSUME NEW i \in Ids, Quiet(i) \/ Start(i) \/ Woken(i) PROVE Steady(f)
  BY <1>3, <1>6, StillSteps DEF Still
<1>7. ASSUME NEW i \in Ids, Create(i) \/ Wake(i) PROVE Steady(f)
  <2>1. CASE Claim(i)
    <3>1. Last(ready).ns \in Namespaces
      BY <1>1, <2>1, ClaimFacts DEF Claim
    <3> QED BY <1>1, <1>3, <2>1, <3>1, NameFacts DEF Claim
  <2>2. ASSUME NEW k, k \in Kernels, NsOf(k, i) # {} \/ NoNs(k) # {},
               kernel' = Built(k, i, HostIf(i)), k.ifs[f] = Nil \/ k.ifs[f] = kernel.ifs[f]
        PROVE  Steady(f)
    <3>1. PICK n \in Namespaces : BuiltAs(k, i, HostIf(i), n, kernel')
      BY <1>2, <2>2, BuiltFacts
    <3>2. \/ kernel'.ifs[f] = [in |-> n, addrs |-> {}, up |-> FALSE, inner |-> Nil, open |-> FALSE]
          \/ kernel'.ifs[f] = k.ifs[f]
      BY <3>1 DEF BuiltAs
    <3> QED BY <1>3, <1>4, <2>2, <3>2
  <2>3. CASE Build(i)
    BY <1>1, <2>2, <2>3 DEF Build
  <2>4. CASE ClaimFails(i)
    <3> DEFINE b == Last(ready)
               k == Scrapped(b)
    <3>1. b \in BlankType /\ b.ns \in Namespaces
      BY <1>1, <2>4, ClaimFacts DEF ClaimFails
    <3>2. /\ k \in Kernels /\ k.ns[b.ns] = Nil
          /\ k.ifs[f] = Nil \/ k.ifs[f] = kernel.ifs[f]
      BY <1>1, <3>1, ScrappedFacts
    <3>3. NoNs(k) # {}
      BY <3>1, <3>2 DEF NoNs
    <3>4. kernel' = Built(k, i, HostIf(i))
      BY <2>4 DEF ClaimFails, Scrapped
    <3> HIDE DEF k, b
    <3> QED BY <2>2, <3>2, <3>3, <3>4
  <2> QED BY <1>7, <2>1, <2>3, <2>4 DEF Create, Wake, Setup
<1>8. ASSUME NEW i \in Ids, Address(i), f # HostIf(i) PROVE Steady(f)
  <2>1. slot[i] \in Slots
    BY <1>1, <1>8 DEF Address, StepInv, StepOK, Working, SlotOrNil, TypeOK, LockType
  <2> QED BY <1>3, <1>8, <2>1, AddressFacts
<1>9. ASSUME NEW i \in Ids, Snapshot(i) \/ DestroyTeardown(i) PROVE Steady(f)
  <2>1. \/ kernel' = kernel
        \/ \E n \in Namespaces : TornToPool(i, n)
        \/ \E n \in Namespaces : TornDown(i, n)
    BY <1>1, <1>9, TeardownFacts DEF Snapshot, DestroyTeardown
  <2>2. ASSUME NEW n \in Namespaces, TornToPool(i, n) PROVE Steady(f)
    BY <1>3, <2>2 DEF TornToPool, Steady
  <2>3. ASSUME NEW n \in Namespaces, TornDown(i, n) PROVE Steady(f)
    BY <1>3, <2>3 DEF TornDown
  <2> QED BY <1>3, <2>1, <2>2, <2>3
<1>10. ASSUME NEW i \in Ids, Destroy(i) PROVE Steady(f)
  <2>1. kernel' = kernel \/ kernel' = Down(kernel, HostIf(i))
    BY <1>10 DEF Destroy, Quiesced
  <2>2. CASE kernel' = Down(kernel, HostIf(i))
    BY <1>1, <1>2, <2>2, DownFacts DEF Steady, There
  <2> QED BY <1>3, <2>1, <2>2
<1>11. CASE Recycle
  <2> DEFINE b == Last(retired)
             k == Scrubbed(kernel, b)
  <2>1. b \in BlankType /\ b.ns \in Namespaces
    BY <1>1, <1>11, FrontOf DEF Recycle, BlankType
  <2>2. \/ kernel.ifs[b.host] # Nil /\ kernel' = Rename(k, b.ns, "pool")
        \/ kernel' = Scrapped(b)
    BY <1>11 DEF Recycle, Scrapped
  <2> HIDE DEF b
  <2>3. CASE kernel.ifs[b.host] # Nil /\ kernel' = Rename(k, b.ns, "pool")
    <3>1. /\ k \in Kernels
          /\ \A g \in Ifs : g # b.host => k.ifs[g] = kernel.ifs[g]
          /\ k.ifs[b.host].addrs = kernel.ifs[b.host].addrs
          /\ k.ifs[b.host].up = kernel.ifs[b.host].up
      BY <1>1, <2>1, <2>3, ScrubFacts
    <3> HIDE DEF k
    <3>2. kernel'.ifs = k.ifs
      BY <2>1, <2>3, <3>1, NameFacts
    <3>3. CASE f = b.host
      BY <2>3, <3>1, <3>2, <3>3 DEF Steady, There
    <3> QED BY <1>3, <3>1, <3>2, <3>3
  <2> QED BY <1>5, <2>1, <2>2, <2>3
<1>12. CASE RemoveRetired
  <2>1. Last(retired) \in BlankType /\ kernel' = Scrapped(Last(retired))
    BY <1>1, <1>12, FrontOf DEF RemoveRetired, Scrapped
  <2> QED BY <1>5, <2>1
<1>13. CASE FillBuild
  <2> DEFINE n == NewNs(kernel)
             k == AddNs(kernel, n, "pool")
  <2>1. n \in Namespaces /\ n \in Ifs /\ kernel' = AddVeth(k, n, n)
    BY <1>13 DEF FillBuild, NewNs, NoNs, Ifs
  <2> HIDE DEF n
  <2>2. k \in Kernels /\ k.ifs = kernel.ifs
    BY <1>1, <2>1, NameFacts
  <2> HIDE DEF k
  <2>3. kernel'.ifs[f] = IF f = n THEN [in |-> n, addrs |-> {}, up |-> FALSE, inner |-> Nil, open |-> FALSE]
                         ELSE k.ifs[f]
    BY <2>1, <2>2, VethFacts
  <2> QED BY <1>3, <1>4, <2>2, <2>3
<1>14. CASE Crash
  BY <1>1, <1>3, <1>14, DelNsFacts DEF Crash
<1>15. CASE Report \/ UNCHANGED vars
  BY <1>3, <1>15 DEF Report, vars
<1> QED BY <1>6, <1>7, <1>8, <1>9, <1>10, <1>11, <1>12, <1>13, <1>14, <1>15, StepCases

\* A sandbox's record of its interface is written by its own setup and
\* teardown alone.
LEMMA RecordStep ==
  ASSUME TypeOK, Single(ready), OneNs, Next, NEW j \in Ids
  PROVE  \/ names'[j] = names[j] /\ HostIf(j)' = HostIf(j)
         \/ Create(j) \/ Wake(j) \/ Snapshot(j) \/ DestroyTeardown(j)
<1>1. names \in [Ids -> Ifs \cup {Nil}]
  BY DEF TypeOK, KernelType
<1> SUFFICES names'[j] = names[j] \/ Create(j) \/ Wake(j) \/ Snapshot(j) \/ DestroyTeardown(j)
  BY DEF HostIf
<1>2. ASSUME NEW i \in Ids, Quiet(i) \/ Start(i) \/ Woken(i) PROVE names' = names
  BY <1>2, StillSteps DEF Still
<1>3. ASSUME NEW i \in Ids \ {j}, Create(i) \/ Wake(i) PROVE names'[j] = names[j]
  <2>1. names' = names \/ \E x : names' = [names EXCEPT ![i] = x]
    BY <1>3 DEF Create, Wake, Setup, Claim, Build, ClaimFails
  <2> QED BY <1>1, <1>3, <2>1
<1>4. ASSUME NEW i \in Ids \ {j}, Snapshot(i) \/ DestroyTeardown(i) PROVE names'[j] = names[j]
  <2>1. names' = [names EXCEPT ![i] = Nil]
    BY <1>4, TeardownFacts DEF Snapshot, DestroyTeardown
  <2> QED BY <1>1, <1>4, <2>1
<1>5. ASSUME \/ \E i \in Ids : Address(i) \/ Destroy(i)
             \/ Recycle \/ RemoveRetired \/ FillBuild \/ Report \/ Crash \/ UNCHANGED vars
      PROVE names' = names
  BY <1>5 DEF Address, Destroy, Recycle, RemoveRetired, FillBuild, Report, Crash, vars
<1> QED BY <1>2, <1>3, <1>4, <1>5, StepCases

\* Host ends of two sandboxes, when links are where they belong.
LEMMA HostsDiffer ==
  ASSUME TypeOK, SpaceInv, LinkInv, Pooled => astray = {}, NEW i \in Ids, There(HostIf(i))
  PROVE  /\ kernel.ifs[HostIf(i)].in \in Namespaces /\ kernel.ns[kernel.ifs[HostIf(i)].in] = i
         /\ \A j \in Ids : j # i => HostIf(j) # HostIf(i)
<1>1. KernelType
  BY DEF TypeOK
<1>2. /\ HostIf(i) \in Ifs /\ kernel.ifs[HostIf(i)] \in Link
      /\ kernel.ifs[HostIf(i)].in \in Namespaces
  BY <1>1, HostIn DEF KernelType, Kernels, There, Link
<1>3. CASE Pooled
  <2>1. TidyNet
    BY <1>3 DEF LinkInv, PoolTidy, TidyNet, TidyLinks, TidyNames, TidyLists, TidyBlank
  <2>2. \A j \in Ids : There(HostIf(j)) =>
          kernel.ns[HostIf(j)] = j /\ kernel.ifs[HostIf(j)].in = HostIf(j)
    BY <2>1, TidyFacts
  <2> QED BY <1>2, <2>2
<1>4. CASE ~Pooled
  <2>1. \A j \in Ids : HostIf(j) = j
    BY <1>4, NoPool
  <2> QED BY <1>2, <1>4, <2>1 DEF LinkInv, OwnLink
<1> QED BY <1>3, <1>4

\* The addresses of a sandbox's own link are its slot's, through every step.
LEMMA FineStep ==
  ASSUME TypeOK, StepInv, SpaceInv, LinkInv, LinkInv', SpaceInv', TypeOK', Next, NEW j \in Ids,
         NEW s, LinkFine(j, s), slot[j] \in {Nil, s}
  PROVE  LinkFine(j, s)'
<1>1. /\ kernel \in Kernels /\ KernelType /\ Single(ready) /\ OneNs /\ HostIf(j) \in Ifs
      /\ slot \in [Ids -> SlotOrNil]
  BY HostIn DEF TypeOK, KernelType, LockType, SpaceInv, ListInv, NamedInv, OneNs
<1>2. (Pooled' <=> Pooled) /\ (astray' = {} => astray = {})
  BY TargetStep, PastTypeStep DEF SpaceInv, ListInv
<1> SUFFICES ASSUME Pooled => astray' = {}, There(HostIf(j))', Pooled => kernel'.ifs[HostIf(j)'].up
             PROVE  kernel'.ifs[HostIf(j)'].addrs \subseteq {s}
  BY <1>2 DEF LinkFine
<1>3. Pooled => astray = {} /\ TidyNet /\ TidyNet'
  BY <1>2 DEF LinkInv, PoolTidy, TidyNet, TidyLinks, TidyNames, TidyLists, TidyBlank
<1>4. ASSUME HostIf(j)' = HostIf(j), Steady(HostIf(j))
      PROVE  kernel'.ifs[HostIf(j)'].addrs \subseteq {s}
  <2>1. There(HostIf(j))' <=> kernel'.ifs[HostIf(j)] # Nil
    BY <1>4 DEF There
  <2> QED BY <1>3, <1>4, <2>1 DEF Steady, LinkFine, There
<1>5. CASE ~Pooled
  <2>1. HostIf(j) = j /\ HostIf(j)' = j
    <3>1. \A i \in Ids : names[i] = Nil
      BY <1>5, NoPool
    <3>2. names'[j] = Nil
      BY <1>2, <1>5 DEF SpaceInv, NoPoolInv
    <3> QED BY <3>1, <3>2 DEF HostIf
  <2>2. CASE Steady(j)
    BY <1>4, <2>1, <2>2
  <2>3. ASSUME NEW i \in Ids, Address(i), j = HostIf(i)
        PROVE  kernel'.ifs[HostIf(j)'].addrs \subseteq {s}
    <3>1. i = j /\ "pooled" \notin todo[i]
      BY <1>5, <2>3, NoPool
    <3>2. slot[j] \in Slots /\ slot[j] = s
      BY <1>1, <2>3, <3>1, NetAssumption DEF Address, StepInv, StepOK, Working, SlotOrNil, TypeOK, LockType
    <3>3. /\ There(j)' <=> There(j)
          /\ There(j) => kernel'.ifs[j].addrs = kernel.ifs[j].addrs \cup {slot[j]}
      <4>1. names' = names
        BY <2>3 DEF Address
      <4> QED BY <2>1, <2>3, <3>1, <3>2, AddressFacts DEF There
    <3> QED BY <1>5, <2>1, <3>2, <3>3 DEF LinkFine, There
  <2> QED BY <1>1, <2>1, <2>2, <2>3, SteadyStep
<1>6. CASE Pooled
  <2>1. CASE Create(j) \/ Wake(j)
    <3>1. Claim(j)
      BY <1>6, <2>1 DEF Create, Wake, Setup, Build, ClaimFails, Strays
    <3> DEFINE b == Last(ready)
    <3>2. b \in Range(ready) /\ b.ns \in Namespaces /\ b.host \in Ifs
      BY <1>1, <3>1, ClaimFacts DEF Claim
    <3>3. b.host = b.ns /\ ~kernel.ifs[b.ns].up
      BY <1>3, <1>6, <3>2 DEF TidyNet, TidyLists, TidyBlank
    <3>4. kernel' = Rename(kernel, b.ns, j) /\ names' = [names EXCEPT ![j] = b.host]
      BY <3>1 DEF Claim
    <3>5. kernel'.ifs = kernel.ifs
      BY <1>1, <3>2, <3>4, NameFacts
    <3>6. b.host # Nil
      BY <3>2, NetAssumption DEF Ifs
    <3>7. HostIf(j)' = b.ns
      BY <1>1, <3>3, <3>4, <3>6 DEF HostIf, KernelType
    <3> QED BY <1>6, <3>3, <3>5, <3>7
  <2>2. CASE Snapshot(j) \/ DestroyTeardown(j)
    <3>1. names'[j] = Nil
      BY <1>1, <2>2, TeardownFacts DEF Snapshot, DestroyTeardown, KernelType
    <3>2. HostIf(j)' = j /\ j \in Ifs /\ j \notin Namespaces
      BY <3>1, Names DEF HostIf, Ifs
    <3>3. ~There(j)'
      BY <1>3, <1>6, <3>2 DEF TidyNet, TidyLinks, PoolLink
    <3> QED BY <3>2, <3>3 DEF There
  <2>3. CASE HostIf(j)' = HostIf(j)
    <3>1. CASE Steady(HostIf(j))
      BY <1>4, <2>3, <3>1
    <3>2. ASSUME NEW i \in Ids, Address(i), HostIf(j) = HostIf(i)
          PROVE  kernel'.ifs[HostIf(j)'].addrs \subseteq {s}
      <4>1. slot[i] \in Slots /\ Working(i)
        BY <1>1, <3>2 DEF Address, StepInv, StepOK, Working, SlotOrNil, TypeOK, LockType
      <4>2. names' = names
        BY <3>2 DEF Address
      <4>3. There(HostIf(i)) /\ HostIf(i)' = HostIf(i)
        <5>1. HostIf(i)' = HostIf(i)
          BY <4>2 DEF HostIf
        <5>2. There(HostIf(i))' <=> There(HostIf(i))
          BY <3>2, <4>1, AddressFacts
        <5> QED BY <2>3, <3>2, <5>1, <5>2 DEF There
      <4>4. i = j
        BY <1>3, <1>6, <3>2, <4>3, HostsDiffer
      <4>5. "pooled" \in todo[i]
        BY <1>3, <1>6, <4>1 DEF LinkInv, PoolTidy
      <4>6. kernel'.ifs[HostIf(i)].addrs = {slot[i]}
        BY <3>2, <4>1, <4>3, <4>5, AddressFacts
      <4>7. slot[j] = s
        BY <4>1, <4>4, NetAssumption
      <4> QED BY <2>3, <3>2, <4>4, <4>6, <4>7
    <3> QED BY <1>1, <3>1, <3>2, SteadyStep
  <2> QED BY <1>1, <2>1, <2>2, <2>3, RecordStep
<1> QED BY <1>5, <1>6

\* The slots a step leaves a sandbox with are ones it had: its row's, its
\* bundle's, or the one it is being worked on for.
Kept(j) ==
  /\ row'[j] = row[j] \/ (Wanted(j) /\ row'[j] = Gone)
  /\ index'[j] \in {index[j], slot[j], Nil}
  /\ slot'[j] \in {slot[j], index[j], Nil} \/ (Wanted(j) /\ slot'[j] = row[j])
  /\ running'[j] \in {running[j], index[j], Nil}
  /\ \/ installed'[j] \in {installed[j], Nil}
     \/ installed'[j].slot \in {slot[j], index[j]} \cap Slots

\* Every step but the row's own creation keeps to those slots.
LEMMA KeptStep ==
  ASSUME TypeOK, StepInv, Next, NEW j \in Ids, ~\E r \in Rules \cup {Nil} : RowCreated(j, r)
  PROVE  Kept(j)
<1>1. /\ op \in [Ids -> {"idle", "create", "wake", "put", "kill", "clear", "teardown"}]
      /\ slot \in [Ids -> SlotOrNil] /\ index \in [Ids -> SlotOrNil]
      /\ row \in [Ids -> Slots \cup {Unborn, Gone}] /\ wanted \in [Ids -> Rules \cup {Nil}]
      /\ tier \in [Ids -> {"none", "dead", "hot", "frozen", "snapshot"}]
      /\ installed \in [Ids -> Have \cup {Nil}] /\ running \in [Ids -> SlotOrNil]
  BY DEF TypeOK, PlaceType, LockType, MasterType, NodeType
<1>2. \A i \in Ids : StepOK(i)
  BY DEF StepInv
<1>3. ASSUME NEW i \in Ids, NEW r \in Rules \cup {Nil}, RowCreated(i, r) \/ RowEgress(i, r)
      PROVE  Kept(j)
  BY <1>1, <1>3 DEF RowCreated, RowEgress, place, rules, locks, gateway, Kept
<1>4. ASSUME NEW i \in Ids, RowDeleted(i) PROVE Kept(j)
  BY <1>1, <1>4 DEF RowDeleted, place, rules, locks, gateway, Kept
<1>5. ASSUME NEW i \in Ids, NEW s \in Slots, s \in {slot[i], index[i]}, NEW r \in Rules \cup {Nil},
             EgressSet(i, Want(s, r))
      PROVE  \/ installed'[j] \in {installed[j], Nil}
             \/ installed'[j].slot \in {slot[j], index[j]} \cap Slots
  <2>1. installed' = [installed EXCEPT ![i] = Want(s, r)]
    BY <1>5 DEF EgressSet
  <2>2. Want(s, r) = Nil \/ Want(s, r).slot = s
    BY <1>5, WantType
  <2> QED BY <1>1, <1>5, <2>1, <2>2
<1>6. ASSUME NEW i \in Ids, CreateEgress(i) PROVE Kept(j)
  <2>1. slot[i] \in Slots /\ wanted[i] \in Rules \cup {Nil}
    BY <1>1, <1>2, <1>6 DEF CreateEgress, StepOK, Working, SlotOrNil
  <2>2. \/ installed'[j] \in {installed[j], Nil}
        \/ installed'[j].slot \in {slot[j], index[j]} \cap Slots
    <3>1. installed' = installed \/ EgressSet(i, Want(slot[i], wanted[i]))
      BY <1>6 DEF CreateEgress, rules
    <3> QED BY <1>5, <2>1, <3>1
  <2>3. /\ row' = row /\ running' = running
        /\ index' = index \/ index' = [index EXCEPT ![i] = slot[i]]
        /\ slot' = [slot EXCEPT ![i] = IF op'[i] = "idle" THEN Nil ELSE @]
    BY <1>6 DEF CreateEgress, master, place, gateway
  <2> QED BY <1>1, <2>2, <2>3 DEF Kept
<1>7. ASSUME NEW i \in Ids, SetEgress(i) PROVE Kept(j)
  <2>1. index[i] \in Slots /\ wanted[i] \in Rules \cup {Nil}
    BY <1>1, <1>2, <1>7 DEF SetEgress, StepOK, Observed, SlotOrNil
  <2>2. \/ installed'[j] \in {installed[j], Nil}
        \/ installed'[j].slot \in {slot[j], index[j]} \cap Slots
    BY <1>5, <1>7, <2>1 DEF SetEgress
  <2> QED BY <2>2, <1>7 DEF SetEgress, master, place, locks, gateway, Kept
<1>8. ASSUME NEW i \in Ids,
             \/ DestroyKill(i) \/ DestroyClear(i) \/ Reap(i) \/ Freeze(i) \/ Thaw(i)
             \/ Requested(i) \/ Checkpoint(i) \/ SnapshotFails(i) \/ Detach(i) \/ Die(i)
      PROVE  Kept(j)
  <2>1. row' = row /\ running' = running
    BY <1>8 DEF DestroyKill, DestroyClear, Reap, Freeze, Thaw, Requested, Checkpoint, SnapshotFails,
         Detach, Die, master, gateway
  <2>2. index' = index \/ index' = [index EXCEPT ![i] = Nil]
    BY <1>8 DEF DestroyKill, DestroyClear, Reap, Freeze, Thaw, Requested, Checkpoint, SnapshotFails,
         Detach, Die, place
  <2>3. slot' = slot \/ slot' = [slot EXCEPT ![i] = index[i]] \/ slot' = [slot EXCEPT ![i] = Nil]
    BY <1>1, <1>8 DEF DestroyKill, DestroyClear, Reap, Freeze, Thaw, Requested, Checkpoint,
         SnapshotFails, Detach, Die, locks
  <2>4. installed' = installed \/ installed' = [installed EXCEPT ![i] = Nil]
    BY <1>8 DEF DestroyKill, DestroyClear, Reap, Freeze, Thaw, Requested, Checkpoint, SnapshotFails,
         Detach, Die, rules, EgressSet
  <2> QED BY <1>1, <2>1, <2>2, <2>3, <2>4 DEF Kept
<1>14. ASSUME NEW i \in Ids, Expose(i) PROVE Kept(j)
  <2>1. UNCHANGED <<row, index, slot, installed>>
    BY <1>14 DEF Expose, master, place, rules, locks
  <2>2. \/ running' = running \/ running' = Opened(i)
        \/ running' = [Opened(i) EXCEPT ![i] = Nil]
    BY <1>14 DEF Expose
  <2>3. running'[j] \in {running[j], index[j], Nil}
    BY <1>1, <2>2 DEF Opened
  <2> QED BY <2>1, <2>3 DEF Kept
<1>9. ASSUME NEW i \in Ids, Create(i) \/ Wake(i) \/ Address(i) \/ Snapshot(i) \/ DestroyTeardown(i)
                            \/ Destroy(i)
      PROVE  Kept(j)
  <2>1. row' = row /\ index' = index /\ running' = running /\ installed' = installed
    BY <1>9 DEF Create, Wake, Address, Snapshot, DestroyTeardown, Destroy, master, place, rules,
         gateway
  <2>2. \/ slot' = slot \/ slot' = [slot EXCEPT ![i] = index[i]] \/ slot' = [slot EXCEPT ![i] = Nil]
        \/ Wanted(i) /\ slot' = [slot EXCEPT ![i] = row[i]]
    BY <1>1, <1>9 DEF Create, Wake, Address, Snapshot, DestroyTeardown, Destroy, locks
  <2> QED BY <1>1, <2>1, <2>2 DEF Kept
<1>10. ASSUME NEW i \in Ids, Start(i) \/ Woken(i) PROVE Kept(j)
  <2>1. /\ row' = row /\ index' = index /\ installed' = installed
        /\ slot' = [slot EXCEPT ![i] = Nil]
        /\ running' = running
    BY <1>10 DEF Start, Woken, master, rules, gateway
  <2> QED BY <1>1, <2>1 DEF Kept
<1>11. CASE Report
  <2>1. PICK r \in [Ids -> Slots \cup {Nil}] : Reconciled(r) /\ running' = r
    BY <1>11 DEF Report
  <2>2. running'[j] \in {running[j], index[j], Nil}
    BY <2>1 DEF Reconciled
  <2>3. UNCHANGED <<row, index, slot, installed>>
    BY <1>11 DEF Report, master, place, rules, locks
  <2> QED BY <2>2, <2>3 DEF Kept
<1>12. CASE Crash
  BY <1>1, <1>12 DEF Crash, master, place, Kept
<1>13. ASSUME Recycle \/ RemoveRetired \/ FillBuild \/ UNCHANGED vars PROVE Kept(j)
  <2>1. UNCHANGED <<row, index, slot, running, installed>>
    BY <1>13 DEF Recycle, RemoveRetired, FillBuild, vars, master, place, rules, locks, gateway
  <2> QED BY <2>1 DEF Kept
<1> QED BY <1>3, <1>4, <1>6, <1>7, <1>8, <1>9, <1>10, <1>11, <1>12, <1>13, <1>14,
        StepCases DEF Quiet

\* A sandbox has one slot for life, on record, in the node and on its link.
LEMMA MineStep ==
  ASSUME TypeOK, StepInv, SpaceInv, LinkInv, MineInv, LinkInv', SpaceInv', TypeOK', Next
  PROVE  MineInv'
<1> SUFFICES ASSUME NEW j \in Ids PROVE \E s \in SlotOrNil : Mine(j, s)'
  BY DEF MineInv, SlotOrNil
<1>1. PICK s \in SlotOrNil : Mine(j, s)
  BY DEF MineInv
<1>2. LinkFine(j, s)'
  BY <1>1, FineStep DEF Mine, LinkFine
<1>3. Unborn \notin Slots /\ Gone \notin Slots \cup {Unborn} /\ Nil \notin Slots
  BY NetAssumption DEF Unborn, Gone
<1>4. CASE \E r \in Rules \cup {Nil} : RowCreated(j, r)
  <2>1. PICK t \in Slots : row' = [row EXCEPT ![j] = t] /\ row[j] = Unborn
    BY <1>4 DEF RowCreated
  <2>2. s = Nil /\ UNCHANGED <<index, slot, running, installed>>
    BY <1>1, <1>4, <2>1 DEF Mine, RowCreated, place, locks, rules, gateway
  <2>3. row'[j] = t /\ installed \in [Ids -> Have \cup {Nil}]
    BY <2>1 DEF TypeOK, MasterType, NodeType
  <2>4. index[j] = Nil /\ slot[j] = Nil /\ running[j] = Nil /\ installed[j] = Nil
    BY <1>1, <1>3, <2>2, <2>3 DEF Mine, Have
  <2>5. LinkFine(j, t)'
    <3>1. There(HostIf(j))' => kernel'.ifs[HostIf(j)'].addrs \subseteq Slots
      <4>1. KernelType' /\ HostIf(j)' \in Ifs
        BY HostIn DEF TypeOK, HostIf, KernelType, Ifs
      <4> QED BY <4>1 DEF There, KernelType, Kernels, Link
    <3> QED BY <1>2, <1>3, <2>2, <3>1 DEF LinkFine
  <2>6. Mine(j, t)'
    BY <1>3, <2>2, <2>3, <2>4, <2>5 DEF Mine, LinkFine, Wanted
  <2> QED BY <2>6 DEF SlotOrNil
<1>5. CASE ~\E r \in Rules \cup {Nil} : RowCreated(j, r)
  <2>1. Kept(j)
    BY <1>5, KeptStep
  <2>2. Mine(j, s)'
    BY <1>1, <1>2, <1>3, <2>1 DEF Mine, Kept, LinkFine, Wanted
  <2> QED BY <2>2
<1> QED BY <1>4, <1>5(***************************************************************************)
(* A sandbox that is up keeps what it has.                                 *)
(***************************************************************************)
\* A sandbox comes up by being addressed, and while it is up its record of
\* its interface stays as it is.
LEMMA UpStep ==
  ASSUME TypeOK, StepInv, SpaceInv, Next, NEW j \in Ids, Up(j)', ~Address(j)
  PROVE  Up(j) /\ row'[j] = row[j] /\ HostIf(j)' = HostIf(j) /\ ~Destroy(j)
<1>1. /\ op \in [Ids -> {"idle", "create", "wake", "put", "kill", "clear", "teardown"}]
      /\ todo \in [Ids -> SUBSET {"address", "egress", "pooled", "failed"}]
      /\ row \in [Ids -> Slots \cup {Unborn, Gone}]
      /\ tier \in [Ids -> {"none", "dead", "hot", "frozen", "snapshot"}]
  BY DEF TypeOK, PlaceType, LockType, MasterType
<1>2. Unborn \notin Slots /\ Gone \notin Slots \cup {Unborn}
  BY NetAssumption DEF Unborn, Gone
<1>3. \A i \in Ids : StepOK(i)
  BY DEF StepInv
<1>4. Single(ready) /\ OneNs
  BY DEF SpaceInv, ListInv, NamedInv, OneNs
<1>5. ~\E r \in Rules \cup {Nil} : RowCreated(j, r)
  <2>1. ASSUME NEW r \in Rules \cup {Nil}, RowCreated(j, r) PROVE FALSE
    <3>1. tier' = tier /\ op' = op /\ row[j] = Unborn
      BY <2>1 DEF RowCreated, place, locks
    <3>2. tier[j] = "none" /\ op[j] = "idle"
      BY <1>3, <3>1 DEF StepOK
    <3> QED BY <3>1, <3>2 DEF Up, Working
  <2> QED BY <2>1
<1>6. row'[j] = row[j]
  <2>1. Kept(j) /\ row'[j] \in Slots
    BY <1>5, KeptStep DEF Up, Wanted
  <2> QED BY <1>2, <2>1 DEF Kept
<1>7. Wanted(j) /\ ~Destroy(j)
  BY <1>6 DEF Up, Wanted, Destroy
<1>8. ~Create(j) /\ ~Wake(j)
  <2>1. ASSUME Create(j) \/ Wake(j) PROVE FALSE
    <3>1. "address" \in todo'[j]
      BY <1>4, <2>1, SetupFacts DEF Create, Wake
    <3>2. tier'[j] = tier[j] /\ tier[j] \notin {"hot", "frozen"}
      BY <2>1 DEF Create, Wake, Observed, place
    <3> QED BY <3>1, <3>2 DEF Up
  <2> QED BY <2>1
<1>9. ~Snapshot(j) /\ ~DestroyTeardown(j)
  <2>1. ASSUME Snapshot(j) PROVE FALSE
    BY <1>1, <2>1 DEF Snapshot, locks, Up, Working
  <2>2. ASSUME DestroyTeardown(j) PROVE FALSE
    BY <1>1, <1>3, <2>2 DEF DestroyTeardown, place, Up, Working, StepOK
  <2> QED BY <2>1, <2>2
<1>10. HostIf(j)' = HostIf(j)
  BY <1>4, <1>8, <1>9, RecordStep
<1>11. ASSUME tier'[j] = tier[j], op'[j] = op[j], "address" \in todo[j] => "address" \in todo'[j]
       PROVE  Up(j)
  BY <1>7, <1>11 DEF Up, Working
<1>12. ASSUME NEW i \in Ids, Quiet(i) PROVE Up(j)
  <2>1. CASE \/ \E r \in Rules \cup {Nil} : RowCreated(i, r) \/ RowEgress(i, r)
             \/ RowDeleted(i) \/ SetEgress(i)
    <3>1. tier' = tier /\ op' = op /\ todo' = todo
      BY <2>1 DEF RowCreated, RowEgress, RowDeleted, SetEgress, place, locks
    <3> QED BY <1>11, <3>1
  <2>2. CASE CreateEgress(i)
    <3>1. /\ tier' = tier \/ tier' = [tier EXCEPT ![i] = "dead"]
          /\ \/ todo' = [todo EXCEPT ![i] = @ \ {"egress"}] /\ op' = op
             \/ todo' = [todo EXCEPT ![i] = @ \cup {"failed"}] /\ op' = op
             \/ todo' = [todo EXCEPT ![i] = {}] /\ op' = [op EXCEPT ![i] = "idle"]
          /\ op[i] = "create" /\ tier[i] \notin {"hot", "frozen"}
      BY <1>3, <2>2 DEF CreateEgress, place, StepOK
    <3> QED BY <1>1, <1>7, <3>1 DEF Up, Working
  <2>3. CASE \/ DestroyKill(i) \/ DestroyClear(i) \/ Reap(i) \/ Freeze(i) \/ Thaw(i) \/ Requested(i)
             \/ Checkpoint(i) \/ SnapshotFails(i) \/ Expose(i) \/ Detach(i) \/ Die(i)
    <3> op[i] = "put" => tier[i] \in {"hot", "frozen"}
      BY <1>3 DEF StepOK
    <3>1. /\ tier'[j] \in {"hot", "frozen"} => tier[j] \in {"hot", "frozen"}
          /\ op'[j] \in {"create", "wake"} => op'[j] = op[j]
          /\ todo' = todo
      BY <1>1, <2>3 DEF DestroyKill, DestroyClear, Reap, Freeze, Thaw, Requested, Checkpoint,
           SnapshotFails, Expose, Detach, Die, place, locks
    <3> QED BY <1>7, <3>1 DEF Up, Working
  <2> QED BY <1>12, <2>1, <2>2, <2>3 DEF Quiet
<1>13. ASSUME NEW i \in Ids, Create(i) \/ Wake(i) \/ Address(i) PROVE Up(j)
  <2>1. i # j
    BY <1>8, <1>13
  <2>2. tier' = tier
    BY <1>13 DEF Create, Wake, Address, place
  <2>3. op'[j] = op[j]
    BY <1>1, <1>13, <2>1 DEF Create, Wake, Address
  <2>4. todo'[j] = todo[j]
    <3>1. \E t : todo' = [todo EXCEPT ![i] = t]
      BY <1>4, <1>13, SetupFacts DEF Create, Wake, Address
    <3> QED BY <1>1, <2>1, <3>1
  <2> QED BY <1>11, <2>2, <2>3, <2>4
<1>14. ASSUME NEW i \in Ids, Start(i) \/ Woken(i) PROVE Up(j)
  <2>1. /\ Working(i) /\ "address" \notin todo[i]
        /\ op' = [op EXCEPT ![i] = "idle"] /\ todo' = [todo EXCEPT ![i] = {}]
        /\ tier' = tier \/ tier' = [tier EXCEPT ![i] = "hot"]
    BY <1>14 DEF Start, Woken, Working
  <2> QED BY <1>1, <1>7, <2>1 DEF Up, Working
<1>15. ASSUME NEW i \in Ids, Snapshot(i) \/ DestroyTeardown(i) \/ Destroy(i) PROVE Up(j)
  <2>1. /\ tier'[j] \in {"hot", "frozen"} => tier[j] \in {"hot", "frozen"}
        /\ op'[j] \in {"create", "wake"} => op'[j] = op[j]
        /\ todo' = todo
    BY <1>1, <1>15 DEF Snapshot, DestroyTeardown, Destroy, place, locks
  <2> QED BY <1>7, <2>1 DEF Up, Working
<1>16. ASSUME Crash PROVE Up(j)
  <2>1. tier' = tier /\ op'[j] = "idle"
    BY <1>16 DEF Crash, place
  <2> QED BY <1>7, <2>1 DEF Up, Working
<1>17. ASSUME Recycle \/ RemoveRetired \/ FillBuild \/ Report \/ UNCHANGED vars PROVE Up(j)
  <2>1. tier' = tier /\ op' = op /\ todo' = todo
    BY <1>17 DEF Recycle, RemoveRetired, FillBuild, Report, vars, place, locks
  <2> QED BY <1>11, <2>1
<1> QED BY <1>6, <1>7, <1>10, <1>12, <1>13, <1>14, <1>15, <1>16, <1>17, StepCases

\* Whoever is being addressed while a wanted sandbox is up has another slot.
LEMMA OtherSlot ==
  ASSUME TypeOK, StepInv, MineInv, astray' = {}, NEW i \in Ids, NEW j \in Ids, i # j,
         Address(i), Up(j)
  PROVE  slot[i] \in Slots /\ slot[i] # row[j]
<1>1. slot[i] \in Slots /\ Working(i) /\ StepOK(j) /\ StepOK(i)
  BY DEF Address, StepInv, StepOK, Working, SlotOrNil, TypeOK, LockType
<1>2. Wanted(j) /\ Apart(j, i)
  BY DEF Up, StepInv
<1>3. CASE op[i] = "create"
  BY <1>1, <1>2, <1>3 DEF Up, Apart, Working
<1>4. CASE op[i] = "wake"
  <2>1. Wanted(i)
    BY <1>4 DEF Address
  <2>2. slot[i] = row[i]
    BY <1>1, <2>1, NetAssumption DEF MineInv, Mine
  <2>3. row[i] # row[j]
    BY <2>1 DEF StepInv, Apart
  <2> QED BY <1>1, <2>2, <2>3
<1> QED BY <1>1, <1>3, <1>4 DEF Working

\* Nothing touches the link of a sandbox that is up but its own steps.
LEMMA HeldStep ==
  ASSUME TypeOK, StepInv, SpaceInv, LinkInv, MineInv, Next, astray' = {}, NEW j \in Ids,
         Up(j), Up(j)', Joined(j), ~Address(j)
  PROVE  kernel'.ifs[HostIf(j)] = kernel.ifs[HostIf(j)]
<1> DEFINE h == HostIf(j)
           l == kernel.ifs[h]
<1>1. /\ kernel \in Kernels /\ KernelType /\ Single(ready) /\ Single(retired) /\ OneNs /\ h \in Ifs
      /\ retired \in Seq(BlankType) /\ ready \in Seq(BlankType)
  BY HostIn DEF TypeOK, KernelType, PoolType, SpaceInv, ListInv, NamedInv, OneNs
<1>2. astray = {}
  BY PastTypeStep DEF SpaceInv, ListInv
<1>3. /\ There(h) /\ l.in \in Namespaces /\ kernel.ns[l.in] = j
      /\ \A i \in Ids : i # j => HostIf(i) # h
  BY <1>2, HostsDiffer DEF Joined
<1>4. j # "pool" /\ j # "dead" /\ j # Nil
  BY Names
<1>5. Pooled => TidyNet
  BY <1>2 DEF LinkInv, PoolTidy, TidyNet, TidyLinks, TidyNames, TidyLists, TidyBlank
<1>6. row'[j] = row[j] /\ ~Destroy(j) /\ HostIf(j)' = h
  BY UpStep
<1>7. ~Create(j) /\ ~Wake(j) /\ ~Snapshot(j) /\ ~DestroyTeardown(j)
  <2>1. /\ op \in [Ids -> {"idle", "create", "wake", "put", "kill", "clear", "teardown"}]
        /\ tier \in [Ids -> {"none", "dead", "hot", "frozen", "snapshot"}] /\ StepOK(j)
    BY DEF TypeOK, LockType, PlaceType, StepInv
  <2>2. ASSUME Create(j) \/ Wake(j) PROVE FALSE
    BY <2>2 DEF Up, Working, Create, Wake, Observed
  <2>3. ASSUME Snapshot(j) PROVE FALSE
    BY <2>1, <2>3 DEF Snapshot, locks, Up, Working
  <2>4. ASSUME DestroyTeardown(j) PROVE FALSE
    BY <2>1, <2>4 DEF DestroyTeardown, Up, Working, StepOK
  <2> QED BY <2>2, <2>3, <2>4
<1> HIDE DEF h, l
<1> USE DEF l
<1>8. ASSUME NEW i \in Ids, Quiet(i) \/ Start(i) \/ Woken(i) PROVE kernel'.ifs[h] = l
  BY <1>8, StillSteps DEF Still
<1>9. ASSUME NEW i \in Ids, Create(i) \/ Wake(i) PROVE kernel'.ifs[h] = l
  <2>1. CASE Claim(i)
    <3>1. Last(ready).ns \in Namespaces
      BY <1>1, <2>1, ClaimFacts DEF Claim
    <3> QED BY <1>1, <2>1, <3>1, NameFacts DEF Claim
  <2>2. CASE Build(i)
    <3>1. HostIf(i) \in Ifs
      BY <1>1, HostIn
    <3>2. PICK n \in Namespaces : BuiltAs(kernel, i, HostIf(i), n, kernel')
      BY <1>1, <2>2, <3>1, BuiltFacts DEF Build
    <3> QED BY <1>1, <1>3, <3>2 DEF BuiltAs, There
  <2>3. CASE ClaimFails(i)
    BY <2>3 DEF ClaimFails, Strays
  <2> QED BY <1>9, <2>1, <2>2, <2>3 DEF Create, Wake, Setup
<1>10. ASSUME NEW i \in Ids, Address(i) PROVE kernel'.ifs[h] = l
  <2>1. i # j
    BY <1>10
  <2>2. slot[i] \in Slots /\ slot[i] # row[j]
    BY <1>10, <2>1, OtherSlot
  <2>3. l.addrs \subseteq {row[j]}
    BY <1>2 DEF MineInv, Mine, Joined, Up, h
  <2>4. h \notin Holders(kernel, i, slot[i]) /\ h # HostIf(i)
    BY <1>3, <2>1, <2>2, <2>3 DEF Holders, Holding
  <2> QED BY <1>1, <1>10, <2>2, <2>4, AddressFacts
<1>11. ASSUME NEW i \in Ids, Snapshot(i) \/ DestroyTeardown(i) PROVE kernel'.ifs[h] = l
  <2>1. i # j
    BY <1>7, <1>11
  <2>2. \/ kernel' = kernel
        \/ \E n \in Namespaces : TornToPool(i, n)
        \/ \E n \in Namespaces : TornDown(i, n)
    BY <1>1, <1>11, TeardownFacts DEF Snapshot, DestroyTeardown
  <2> QED BY <1>1, <1>3, <2>1, <2>2 DEF TornToPool, TornDown
<1>12. ASSUME NEW i \in Ids, Destroy(i) PROVE kernel'.ifs[h] = l
  <2>1. HostIf(i) # h /\ HostIf(i) \in Ifs
    BY <1>1, <1>3, <1>6, <1>12, HostIn
  <2>2. kernel' = kernel \/ kernel' = Down(kernel, HostIf(i))
    BY <1>12 DEF Destroy, Quiesced
  <2> QED BY <1>1, <2>1, <2>2, DownFacts
<1>13. ASSUME NEW b, b \in BlankType, kernel.ns[b.ns] = "dead", b.host = b.ns, Pooled,
              \/ kernel' = Scrapped(b)
              \/ kernel.ifs[b.host] # Nil /\ kernel' = Rename(Scrubbed(kernel, b), b.ns, "pool")
       PROVE  kernel'.ifs[h] = l
  <2>1. h # b.host /\ l.in # b.ns /\ b.ns \in Namespaces
    BY <1>3, <1>4, <1>5, <1>13, TidyFacts DEF BlankType, h
  <2>2. CASE kernel' = Scrapped(b)
    BY <1>1, <1>13, <2>1, <2>2, ScrappedFacts
  <2>3. CASE kernel.ifs[b.host] # Nil /\ kernel' = Rename(Scrubbed(kernel, b), b.ns, "pool")
    <3> DEFINE k == Scrubbed(kernel, b)
    <3>1. k \in Kernels /\ k.ifs[h] = l
      BY <1>1, <1>13, <2>1, <2>3, ScrubFacts
    <3> HIDE DEF k
    <3>2. kernel' = Rename(k, b.ns, "pool")
      BY <2>3 DEF k
    <3>3. kernel'.ifs = k.ifs
      BY <2>1, <3>1, <3>2, NameFacts
    <3> QED BY <3>1, <3>3
  <2> QED BY <1>13, <2>2, <2>3
<1>14. ASSUME Recycle \/ RemoveRetired PROVE kernel'.ifs[h] = l
  <2> DEFINE b == Last(retired)
  <2>1. b \in BlankType /\ b \in Range(retired) /\ Pooled
    BY <1>1, <1>14, FrontOf DEF Recycle, RemoveRetired
  <2>2. kernel.ns[b.ns] = "dead" /\ b.host = b.ns
    BY <1>5, <2>1, TidyFacts DEF TidyNet, TidyLists, TidyBlank
  <2>3. \/ kernel' = Scrapped(b)
        \/ kernel.ifs[b.host] # Nil /\ kernel' = Rename(Scrubbed(kernel, b), b.ns, "pool")
    BY <1>14 DEF Recycle, RemoveRetired, Scrapped
  <2> HIDE DEF b
  <2> QED BY <1>13, <2>1, <2>2, <2>3
<1>15. ASSUME FillBuild PROVE kernel'.ifs[h] = l
  <2> DEFINE n == NewNs(kernel)
             k == AddNs(kernel, n, "pool")
  <2>1. n \in Namespaces /\ n \in Ifs /\ kernel.ns[n] = Nil /\ kernel' = AddVeth(k, n, n) /\ Pooled
    BY <1>15 DEF FillBuild, NewNs, NoNs, Ifs
  <2> HIDE DEF n
  <2>2. k \in Kernels /\ k.ifs = kernel.ifs
    BY <1>1, <2>1, NameFacts
  <2> HIDE DEF k
  <2>3. h # n
    BY <1>3, <1>4, <1>5, <2>1, TidyFacts DEF h
  <2>4. kernel'.ifs[h] = IF h = n THEN [in |-> n, addrs |-> {}, up |-> FALSE, inner |-> Nil, open |-> FALSE]
                         ELSE k.ifs[h]
    BY <1>1, <2>1, <2>2, VethFacts
  <2> QED BY <2>2, <2>3, <2>4
<1>16. ASSUME Crash PROVE kernel'.ifs[h] = l
  <2>1. l.in \notin NsOf(kernel, "pool") \cup NsOf(kernel, "dead")
    BY <1>3, <1>4 DEF NsOf
  <2> QED BY <1>1, <1>16, <2>1, DelNsFacts DEF Crash
<1>17. ASSUME Report \/ UNCHANGED vars PROVE kernel'.ifs[h] = l
  BY <1>17 DEF Report, vars
<1> QED BY <1>8, <1>9, <1>10, <1>11, <1>12, <1>14, <1>15, <1>16, <1>17, StepCases DEF h

\* A sandbox that has been addressed has its slot's address, and alone.
LEMMA AddressedJoined ==
  ASSUME TypeOK, StepInv, SpaceInv, LinkInv, MineInv, Next, astray' = {}, NEW j \in Ids,
         Address(j), Up(j)'
  PROVE  Joined(j)'
<1> DEFINE h == HostIf(j)
           s == slot[j]
<1>1. /\ kernel \in Kernels /\ KernelType /\ h \in Ifs
      /\ op \in [Ids -> {"idle", "create", "wake", "put", "kill", "clear", "teardown"}]
      /\ todo \in [Ids -> SUBSET {"address", "egress", "pooled", "failed"}]
      /\ Single(ready) /\ Single(retired)
  BY HostIn DEF TypeOK, KernelType, LockType, SpaceInv, ListInv
<1>2. astray = {}
  BY <1>1, PastTypeStep
<1>3. /\ names' = names /\ row' = row /\ tier' = tier /\ h' = h /\ kernel'.ifs[h'] = kernel'.ifs[h]
      /\ "address" \in todo[j]
  BY DEF Address, master, place, HostIf
<1>4. StepOK(j) /\ Working(j) /\ s \in Slots /\ Wanted(j)
  BY <1>3 DEF StepInv, StepOK, Working, TypeOK, LockType, SlotOrNil, Up, Wanted
<1>5. s = row[j]
  BY <1>4, NetAssumption DEF MineInv, Mine
<1>6. There(h) /\ kernel.ifs[h].in \in NsOf(kernel, j)
  <2> DEFINE k == DelLinks(kernel, Holders(kernel, j, s))
             ok == k.ifs[h] # Nil /\ k.ifs[h].in \in NsOf(k, j)
  <2>1. op'[j] # "idle"
    BY <1>3, <1>4 DEF Up, Working, StepOK
  <2>2. op' = [op EXCEPT ![j] = IF ok /\ "failed" \notin todo[j] THEN @ ELSE "idle"]
    BY DEF Address
  <2>3. NsOf(k, j) = NsOf(kernel, j) /\ k.ifs[h] = kernel.ifs[h]
    <3>1. h \notin Holders(kernel, j, s)
      BY DEF Holders
    <3>2. k.ns = kernel.ns /\ k.ifs[h] = kernel.ifs[h]
      BY <1>1, <3>1, DelLinksFacts
    <3> HIDE DEF k
    <3> QED BY <3>2 DEF NsOf
  <2> HIDE DEF k
  <2> QED BY <1>1, <2>1, <2>2, <2>3 DEF There
<1>7. \A f \in Ifs \ {h} :
        kernel'.ifs[f] = IF f \in Holders(kernel, j, s) THEN Nil ELSE kernel.ifs[f]
  BY <1>4, AddressFacts
<1>8. /\ There(h)' <=> kernel'.ifs[h] # Nil
      /\ There(h)'
  BY <1>3, <1>4, <1>6, AddressFacts DEF There
<1>9. /\ kernel'.ifs[h].up /\ s \in kernel'.ifs[h].addrs /\ kernel'.ifs[h].inner = s
      /\ kernel'.ifs[h].open
  BY <1>4, <1>6, AddressFacts
<1>10. ASSUME NEW f \in Ifs \ {h}, There(f)', s \in kernel'.ifs[f].addrs
       PROVE  ~kernel'.ifs[f].up
  <2>1. There(f) /\ kernel'.ifs[f] = kernel.ifs[f] /\ f \notin Holders(kernel, j, s)
    BY <1>7, <1>10 DEF There
  <2>2. CASE "pooled" \in todo[j]
    BY <1>10, <2>1, <2>2 DEF Holders, Holding, There
  <2>3. CASE "pooled" \notin todo[j]
    <3>1. ~Pooled
      BY <1>2, <1>4, <2>3 DEF LinkInv, PoolTidy
    <3>2. f \in Ids
      BY <2>1, <3>1 DEF LinkInv, OwnLink
    <3> QED BY <1>10, <2>1, <2>3, <3>2 DEF Holders, Holding, There
  <2> QED BY <2>2, <2>3
<1> HIDE DEF h, s
<1>11. HostIf(j)' = h
  BY <1>3 DEF h
<1> QED BY <1>3, <1>5, <1>8, <1>9, <1>10, <1>11 DEF Joined, There

\* While a sandbox is up nobody else's link gets its address and comes up.
LEMMA ReachStep ==
  ASSUME TypeOK, StepInv, SpaceInv, LinkInv, MineInv, ReachInv, Next
  PROVE  ReachInv'
<1> SUFFICES ASSUME astray' = {}, NEW j \in Ids, Up(j)' PROVE Joined(j)'
  BY DEF ReachInv
<1>1. CASE Address(j)
  BY <1>1, AddressedJoined
<1>2. CASE ~Address(j)
  <2> DEFINE h == HostIf(j)
  <2>1. astray = {}
    BY PastTypeStep DEF SpaceInv, ListInv
  <2>2. Up(j) /\ row'[j] = row[j] /\ HostIf(j)' = h /\ Joined(j)
    BY <1>2, <2>1, UpStep DEF ReachInv
  <2>3. kernel'.ifs[h] = kernel.ifs[h] /\ h \in Ifs
    BY <1>2, <2>2, HeldStep, HostIn DEF TypeOK
  <2>4. ASSUME NEW f \in Ifs \ {h}, There(f)', row[j] \in kernel'.ifs[f].addrs
        PROVE  ~kernel'.ifs[f].up
    <3>1. CASE Steady(f)
      BY <2>2, <2>4, <3>1 DEF Steady, Joined
    <3>2. ASSUME NEW i \in Ids, Address(i), f = HostIf(i) PROVE FALSE
      <4>1. i # j
        BY <2>4, <3>2
      <4>2. slot[i] \in Slots /\ slot[i] # row[j] /\ Working(i)
        BY <2>2, <3>2, <4>1, OtherSlot DEF StepInv, StepOK, Address
      <4>3. HostIf(i)' = HostIf(i)
        BY <3>2 DEF Address, HostIf
      <4>4. There(f)
        <5>1. There(HostIf(i))'
          BY <2>4, <3>2, <4>3 DEF There
        <5> QED BY <3>2, <4>2, <5>1, AddressFacts
      <4>5. kernel'.ifs[f].addrs = IF "pooled" \in todo[i] THEN {slot[i]}
                                   ELSE kernel.ifs[f].addrs \cup {slot[i]}
        BY <3>2, <4>2, <4>4, AddressFacts
      <4>6. CASE "pooled" \notin todo[i]
        <5>1. ~Pooled
          BY <2>1, <4>2, <4>6 DEF LinkInv, PoolTidy
        <5>2. PICK s \in SlotOrNil : Mine(i, s)
          BY DEF MineInv
        <5>3. slot[i] = s /\ kernel.ifs[f].addrs \subseteq {s}
          BY <3>2, <4>2, <4>4, <5>1, <5>2, NetAssumption DEF Mine
        <5> QED BY <2>4, <4>2, <4>5, <5>3
      <4> QED BY <2>4, <4>2, <4>5, <4>6
    <3> QED BY <3>1, <3>2, SteadyStep
  <2> HIDE DEF h
  <2>5. Joined(j) <=>
          /\ There(h) /\ kernel.ifs[h].up
          /\ kernel.ifs[h].inner = row[j] /\ kernel.ifs[h].open /\ row[j] \in kernel.ifs[h].addrs
          /\ \A f \in Ifs \ {h} : There(f) /\ row[j] \in kernel.ifs[f].addrs => ~kernel.ifs[f].up
    BY DEF Joined, h
  <2> QED BY <2>2, <2>3, <2>4, <2>5 DEF Joined, There
<1> QED BY <1>1, <1>2(***************************************************************************)
(* Ports and refusals.                                                     *)
(***************************************************************************)
\* A refusal lifted, or on record as not lifted, is excused; so is the rest.
LEMMA Accepted ==
  ASSUME NEW s, NEW t, Accept(t), s = t \/ Excused(s)
  PROVE  s \in cold' => s \in refused'
BY DEF Accept, Excused

\* Who is there and wanted was there, or has just been started; and who is
\* served was served, or has just had its refusal lifted or put on record.
ServedOn(j) ==
  /\ Wanted(j) /\ row'[j] = row[j] /\ index'[j] = index[j]
  /\ Observed(j) \/ Start(j)
  /\ Served(j)' => Served(j) \/ Excused(index[j])'

\* Nobody is there and wanted out of nowhere.
LEMMA ServeStep ==
  ASSUME TypeOK, StepInv, SpaceInv, Next, NEW j \in Ids, Wanted(j)', Observed(j)'
  PROVE  ServedOn(j)
<1>1. /\ op \in [Ids -> {"idle", "create", "wake", "put", "kill", "clear", "teardown"}]
      /\ row \in [Ids -> Slots \cup {Unborn, Gone}] /\ index \in [Ids -> SlotOrNil]
      /\ tier \in [Ids -> {"none", "dead", "hot", "frozen", "snapshot"}]
      /\ tier'[j] \in {"hot", "frozen", "snapshot"} /\ row'[j] \in Slots
  BY DEF TypeOK, PlaceType, LockType, MasterType, Observed, Wanted
<1>2. Unborn \notin Slots /\ Gone \notin Slots \cup {Unborn}
  BY NetAssumption DEF Unborn, Gone
<1>3. \A i \in Ids : StepOK(i)
  BY DEF StepInv
<1>4. ~\E r \in Rules \cup {Nil} : RowCreated(j, r)
  <2>1. ASSUME NEW r \in Rules \cup {Nil}, RowCreated(j, r) PROVE FALSE
    BY <1>1, <1>3, <2>1 DEF RowCreated, place, StepOK
  <2> QED BY <2>1
<1>5. row'[j] = row[j] /\ Wanted(j)
  BY <1>1, <1>2, <1>4, KeptStep DEF Kept, Wanted
<1>6. ASSUME tier' = tier, index' = index, op'[j] = "idle" => op[j] = "idle" \/ tier[j] # "hot",
             op'[j] = "put" => op[j] = "put"
      PROVE  ServedOn(j)
  BY <1>1, <1>5, <1>6 DEF ServedOn, Served, Observed
<1>7. ASSUME NEW i \in Ids, Quiet(i) PROVE ServedOn(j)
  <2>1. CASE \/ \E r \in Rules \cup {Nil} : RowCreated(i, r) \/ RowEgress(i, r)
             \/ RowDeleted(i) \/ SetEgress(i) \/ Reap(i)
    BY <1>1, <1>6, <2>1 DEF RowCreated, RowEgress, RowDeleted, SetEgress, Reap, place, locks
  <2>2. CASE CreateEgress(i)
    <3>1. /\ op[i] = "create" /\ tier[i] # "hot"
          /\ op' = op \/ op' = [op EXCEPT ![i] = "idle"]
          /\ \/ tier' = tier /\ index' = index
             \/ tier' = [tier EXCEPT ![i] = "dead"] /\ index' = [index EXCEPT ![i] = slot[i]]
      BY <1>3, <2>2 DEF CreateEgress, place, StepOK
    <3> QED BY <1>1, <1>5, <3>1 DEF ServedOn, Served, Observed
  <2>3. CASE DestroyKill(i) \/ DestroyClear(i) \/ Detach(i)
    <3>1. /\ \/ tier' = tier /\ index' = index /\ tier[i] = "none"
             \/ tier' = [tier EXCEPT ![i] = "none"] /\ index' = [index EXCEPT ![i] = Nil]
             \/ tier' = tier /\ index' = index /\ op' = op
          /\ \A k \in Ids \ {i} : op'[k] = op[k]
      BY <1>1, <1>3, <2>3 DEF DestroyKill, DestroyClear, Detach, place, locks, StepOK
    <3> QED BY <1>1, <1>5, <3>1 DEF ServedOn, Served, Observed
  <2>4. CASE Freeze(i) \/ Die(i)
    BY <1>1, <1>5, <2>4 DEF Freeze, Die, locks, ServedOn, Served, Observed
  <2>5. CASE Thaw(i)
    <3>1. /\ tier[i] = "frozen" /\ tier' = [tier EXCEPT ![i] = "hot"] /\ op' = op /\ index' = index
          /\ index[i] \in cold' => index[i] \in refused'
      BY <2>5, Accepted DEF Thaw, locks
    <3> QED BY <1>1, <1>5, <3>1 DEF ServedOn, Served, Excused, Observed
  <2>6. CASE Requested(i) \/ Expose(i)
    BY <1>1, <1>6, <2>6 DEF Requested, Expose, place, locks
  <2>7. CASE Checkpoint(i)
    <3>1. /\ tier' = tier /\ index' = index /\ op' = [op EXCEPT ![i] = "put"]
          /\ tier[i] \in {"hot", "frozen"} /\ index[i] \in refused'
      BY <2>7 DEF Checkpoint, place
    <3> QED BY <1>1, <1>5, <3>1 DEF ServedOn, Served, Excused, Observed
  <2>8. CASE SnapshotFails(i)
    <3>1. /\ index' = index /\ op[i] = "put" /\ op' = [op EXCEPT ![i] = "idle"]
          /\ \E x \in {tier[i], "hot", "snapshot", "dead"} : tier' = [tier EXCEPT ![i] = x]
          /\ tier[i] \in {"hot", "frozen"}
      BY <1>3, <2>8 DEF SnapshotFails, StepOK
    <3> QED BY <1>1, <1>5, <3>1 DEF ServedOn, Served, Observed
  <2> QED BY <1>7, <2>1, <2>2, <2>3, <2>4, <2>5, <2>6, <2>7, <2>8 DEF Quiet
<1>8. ASSUME NEW i \in Ids, Create(i) \/ Wake(i) \/ Destroy(i) PROVE ServedOn(j)
  BY <1>1, <1>6, <1>8 DEF Create, Wake, Destroy, place
<1>9. ASSUME NEW i \in Ids, Address(i) PROVE ServedOn(j)
  <2>1. Working(i) /\ tier[i] # "hot" /\ tier' = tier /\ index' = index
    BY <1>3, <1>9 DEF Address, StepOK, Working, place
  <2>2. op' = op \/ op' = [op EXCEPT ![i] = "idle"]
    BY <1>1, <1>9 DEF Address
  <2> QED BY <1>1, <1>6, <2>1, <2>2
<1>10. ASSUME NEW i \in Ids, Start(i) \/ Woken(i) PROVE ServedOn(j)
  <2>1. /\ index' = index /\ op' = [op EXCEPT ![i] = "idle"] /\ tier[i] # "hot"
        /\ \/ tier' = tier
           \/ tier' = [tier EXCEPT ![i] = "hot"] /\ Accept(index[i])
        /\ Woken(i) => tier[i] = "snapshot"
    BY <1>3, <1>10 DEF Start, Woken, StepOK
  <2>2. tier' = tier \/ (index[i] \in cold' => index[i] \in refused')
    BY <2>1, Accepted
  <2> QED BY <1>1, <1>5, <1>10, <2>1, <2>2 DEF ServedOn, Served, Excused, Observed
<1>11. ASSUME NEW i \in Ids, Snapshot(i) \/ DestroyTeardown(i) PROVE ServedOn(j)
  <2>1. CASE Snapshot(i)
    <3>1. /\ tier[i] \in {"hot", "frozen"} /\ index' = index /\ op' = [op EXCEPT ![i] = "idle"]
          /\ tier' = [tier EXCEPT ![i] = "snapshot"]
      BY <1>3, <2>1 DEF Snapshot, StepOK
    <3> QED BY <1>1, <1>5, <3>1 DEF ServedOn, Served, Observed
  <2>2. CASE DestroyTeardown(i)
    <3>1. /\ tier' = tier /\ index' = index /\ tier[i] = "none"
          /\ op' = [op EXCEPT ![i] = "idle"]
      BY <1>3, <2>2 DEF DestroyTeardown, place, StepOK
    <3> QED BY <1>1, <1>6, <3>1
  <2> QED BY <1>11, <2>1, <2>2
<1>12. CASE Crash
  BY <1>1, <1>5, <1>12 DEF Crash, place, ServedOn, Served, Excused, Observed
<1>13. ASSUME Recycle \/ RemoveRetired \/ FillBuild \/ Report \/ UNCHANGED vars PROVE ServedOn(j)
  <2>1. tier' = tier /\ index' = index /\ op' = op
    BY <1>13 DEF Recycle, RemoveRetired, FillBuild, Report, vars, place, locks
  <2> QED BY <1>6, <2>1
<1> QED BY <1>7, <1>8, <1>9, <1>10, <1>11, <1>12, <1>13, StepCases

\* Who is there and wanted says its row's slot in its bundle.
LEMMA IndexRow ==
  ASSUME TypeOK, StepInv, MineInv, NEW j \in Ids, Wanted(j), tier[j] # "none"
  PROVE  index[j] = row[j] /\ index[j] \in Slots /\ running[j] \in {Nil, index[j]}
<1>1. index[j] # Nil
  BY DEF StepInv, StepOK
<1> QED BY <1>1 DEF MineInv, Mine, Wanted

\* A refusal is put up for a slot nobody else is served on.
LEMMA ColdStep ==
  ASSUME TypeOK, StepInv, StepInv', SpaceInv, MineInv, PortInv, Next, NEW j \in Ids, Served(j)'
  PROVE  Excused(index[j])'
<1>1. tier \in [Ids -> {"none", "dead", "hot", "frozen", "snapshot"}]
  BY DEF TypeOK, PlaceType
<1>2. ServedOn(j)
  <2>1. Wanted(j)' /\ Observed(j)'
    BY DEF Served, Observed, StepInv, StepOK
  <2> QED BY <2>1, ServeStep
<1>3. CASE Served(j)
  <2>1. tier[j] \in {"hot", "frozen"}
    BY <1>3 DEF Served, StepInv, StepOK
  <2>2. Excused(index[j]) /\ index[j] = row[j] /\ index'[j] = index[j]
    BY <1>2, <1>3, <2>1, IndexRow DEF PortInv, Served, ServedOn
  <2>3. SUFFICES index[j] \in cold' => index[j] \in refused'
    BY <2>2 DEF Excused
  <2>4. ASSUME NEW t, Accept(t) PROVE index[j] \in cold' => index[j] \in refused'
    BY <2>2, <2>4, Accepted
  <2>5. ASSUME UNCHANGED refusals PROVE index[j] \in cold' => index[j] \in refused'
    BY <2>2, <2>5 DEF refusals, Excused
  <2>6. ASSUME NEW t, cold' = cold \cup {t},
               \/ refused' = refused \cup {t}
               \/ refused' = refused /\ t # index[j]
        PROVE  index[j] \in cold' => index[j] \in refused'
    BY <2>2, <2>6 DEF Excused
  <2>7. ASSUME NEW i \in Ids, i # j, Asked(i) PROVE index[i] # index[j]
    BY <2>1, <2>2, <2>7 DEF Asked
  <2>8. ASSUME NEW i \in Ids, Freeze(i) PROVE index[j] \in cold' => index[j] \in refused'
    <3>1. CASE i = j
      <4>1. tier'[j] = "frozen" => op'[j] # "put" /\ ~Served(j)'
        BY <1>1, <2>8, <3>1 DEF Freeze, locks, Asked, Served
      <4> QED BY <1>1, <2>6, <2>8, <3>1, <4>1 DEF Freeze, Refuse
    <3> QED BY <2>6, <2>7, <2>8, <3>1 DEF Freeze, Refuse
  <2>9. ASSUME NEW i \in Ids, Detach(i) PROVE index[j] \in cold' => index[j] \in refused'
    <3>1. i # j
      BY <2>1, <2>9 DEF Detach
    <3> QED BY <2>6, <2>7, <2>9, <3>1 DEF Detach, Refuse
  <2>10. ASSUME NEW i \in Ids, Quiet(i) PROVE index[j] \in cold' => index[j] \in refused'
    <3>1. CASE Thaw(i) \/ Requested(i)
      BY <2>4, <3>1 DEF Thaw, Requested
    <3>2. CASE Checkpoint(i)
      BY <2>6, <3>2 DEF Checkpoint, Refuse
    <3>3. CASE \/ \E r \in Rules \cup {Nil} : RowCreated(i, r) \/ RowEgress(i, r)
               \/ RowDeleted(i) \/ CreateEgress(i) \/ DestroyKill(i) \/ DestroyClear(i)
               \/ SetEgress(i) \/ Reap(i) \/ Die(i) \/ Expose(i) \/ SnapshotFails(i)
      <4>1. UNCHANGED refusals
        BY <3>3 DEF RowCreated, RowEgress, RowDeleted, CreateEgress, DestroyKill, DestroyClear,
             SetEgress, Reap, Die, Expose, SnapshotFails
      <4> QED BY <2>5, <4>1
    <3> QED BY <2>8, <2>9, <2>10, <3>1, <3>2, <3>3 DEF Quiet
  <2>11. ASSUME NEW i \in Ids, Start(i) \/ Woken(i) \/ Snapshot(i) \/ DestroyTeardown(i)
         PROVE  index[j] \in cold' => index[j] \in refused'
    <3>1. UNCHANGED refusals \/ \E t : Accept(t)
      BY <2>11 DEF Start, Woken, Snapshot, DestroyTeardown
    <3> QED BY <2>4, <2>5, <3>1
  <2>12. ASSUME \/ \E i \in Ids : Create(i) \/ Wake(i) \/ Address(i) \/ Destroy(i)
                \/ Recycle \/ RemoveRetired \/ FillBuild \/ Report \/ UNCHANGED vars
         PROVE  index[j] \in cold' => index[j] \in refused'
    <3>1. UNCHANGED refusals
      BY <2>12 DEF Create, Wake, Address, Destroy, Recycle, RemoveRetired, FillBuild, Report, vars,
           refusals
    <3> QED BY <2>5, <3>1
  <2>13. CASE Crash
    BY <2>13 DEF Crash
  <2> QED BY <2>10, <2>11, <2>12, <2>13, StepCases
<1> QED BY <1>2, <1>3 DEF ServedOn

\* Whoever is there and heard has its port: whose listener is opened takes it
\* from nobody else who is there.
LEMMA RunningStep ==
  ASSUME TypeOK, StepInv, SpaceInv, MineInv, PortInv, Next, NEW j \in Ids, j \notin unheard',
         Observed(j)', Wanted(j)'
  PROVE  running'[j] = index'[j]
<1>1. ServedOn(j) /\ Wanted(j) /\ index'[j] = index[j] /\ running \in [Ids -> SlotOrNil]
  BY ServeStep DEF ServedOn, TypeOK, NodeType
<1>2. Observed(j)
  <2>1. ASSUME Start(j) PROVE Observed(j)
    <3>1. tier' = tier
      BY <2>1 DEF Start
    <3> QED BY <3>1 DEF Observed
  <2> QED BY <1>1, <2>1 DEF ServedOn
<1>3. /\ index[j] = row[j] /\ index[j] \in Slots /\ tier[j] # "none" /\ index[j] # Nil
      /\ running[j] \in {Nil, index[j]} /\ (j \notin unheard => running[j] = index[j])
  BY <1>1, <1>2, IndexRow, NetAssumption DEF PortInv, Observed
<1>4. ASSUME running' = running, unheard \subseteq unheard' PROVE running'[j] = index[j]
  BY <1>3, <1>4
<1>5. ASSUME NEW i \in Ids, Expose(i) PROVE running'[j] = index[j]
  <2>1. CASE i = j
    BY <1>1, <1>3, <1>5, <2>1 DEF Expose, Opened
  <2>2. CASE i # j
    <3>1. index[i] # index[j]
      BY <1>1, <1>3, <1>5, <2>2 DEF Expose, StepInv, Apart
    <3>2. j \notin unheard
      BY <1>5, <2>2 DEF Expose
    <3> QED BY <1>1, <1>3, <1>5, <2>2, <3>1, <3>2 DEF Expose, Opened
  <2> QED BY <2>1, <2>2
<1>6. ASSUME Report PROVE running'[j] = index[j]
  <2>1. PICK r \in [Ids -> Slots \cup {Nil}] :
          Reconciled(r) /\ running' = r /\ unheard' = {i \in unheard : r[i] = Nil}
    BY <1>6 DEF Report
  <2>2. Exposed(j)
    BY <1>2, <1>3 DEF Exposed
  <2>3. CASE j \notin unheard
    BY <1>3, <2>1, <2>2, <2>3 DEF Reconciled
  <2>4. CASE j \in unheard
    <3>1. r[j] # Nil
      BY <2>1, <2>4
    <3> QED BY <1>3, <2>1, <2>2, <3>1 DEF Reconciled
  <2> QED BY <2>3, <2>4
<1>7. ~Crash
  BY DEF Crash
<1>8. ASSUME NEW i \in Ids, Quiet(i), ~Expose(i) PROVE running' = running /\ unheard' = unheard
  BY <1>8 DEF Quiet, RowCreated, RowEgress, RowDeleted, CreateEgress, DestroyKill, DestroyClear,
       SetEgress, Reap, Freeze, Thaw, Requested, Checkpoint, SnapshotFails, Detach, Die, gateway
<1>9. ASSUME \/ \E i \in Ids : \/ Create(i) \/ Wake(i) \/ Address(i) \/ Start(i) \/ Woken(i)
                               \/ Snapshot(i) \/ DestroyTeardown(i) \/ Destroy(i)
             \/ Recycle \/ RemoveRetired \/ FillBuild \/ UNCHANGED vars
      PROVE  running' = running /\ unheard \subseteq unheard'
  BY <1>9 DEF Create, Wake, Address, Start, Woken, Snapshot, DestroyTeardown, Destroy, Recycle,
       RemoveRetired, FillBuild, vars, gateway
<1> QED BY <1>1, <1>4, <1>5, <1>6, <1>7, <1>8, <1>9, StepCases

\* Refusals and ports, through every step.
LEMMA PortStep ==
  ASSUME TypeOK, StepInv, StepInv', SpaceInv, MineInv, PortInv, Next
  PROVE  PortInv'
<1>1. ASSUME NEW i \in Ids, Served(i)' PROVE Excused(index[i])'
  BY <1>1, ColdStep
<1>2. ASSUME NEW i \in Ids, i \notin unheard', Observed(i)', Wanted(i)'
      PROVE  (running[i] = index[i])'
  BY <1>2, RunningStep
<1> QED BY <1>1, <1>2 DEF PortInv

(***************************************************************************)
(* Egress rules, counted.                                                  *)
(***************************************************************************)
Having(x) == {i \in Ids : installed[i] = x}

\* One transaction takes a sandbox's old rules out of the chain and puts its
\* new ones in: the count of each follows.
LEMMA SwapCounted ==
  ASSUME NodeType, NEW i \in Ids, NEW w \in Have \cup {Nil}, EgressSet(i, w),
         NEW x \in Have, chain[x] = Cardinality(Having(x))
  PROVE  chain'[x] = Cardinality(Having(x)')
<1> DEFINE R == Having(x) \ {i}
<1>1. /\ installed \in [Ids -> Have \cup {Nil}] /\ installed' = [installed EXCEPT ![i] = w]
      /\ IsFiniteSet(Ids)
  BY NetAssumption DEF NodeType, EgressSet
<1>2. IsFiniteSet(R) /\ Cardinality(R) \in Nat /\ i \notin R
  <2>1. R \subseteq Ids
    BY DEF Having
  <2> QED BY <1>1, <2>1, FS_Subset, FS_CardinalityType
<1>3. Having(x) = IF installed[i] = x THEN R \cup {i} ELSE R
  BY DEF Having
<1>4. Having(x)' = IF w = x THEN R \cup {i} ELSE R
  BY <1>1 DEF Having
<1>5. chain'[x] = chain[x] - Count(installed[i], x) + Count(w, x)
  BY DEF EgressSet, Swapped
<1>6. Cardinality(R \cup {i}) = Cardinality(R) + 1
  BY <1>2, FS_AddElement
<1> HIDE DEF R
<1> QED BY <1>2, <1>3, <1>4, <1>5, <1>6 DEF Count

\* What a step makes of the rules: one sandbox's are swapped, all are dropped,
\* or none change.
LEMMA RulesCases ==
  ASSUME TypeOK, StepInv, Next
  PROVE  \/ \E i \in Ids, w \in Have \cup {Nil} : EgressSet(i, w)
         \/ Crash
         \/ UNCHANGED <<chain, installed>>
<1>1. /\ slot \in [Ids -> SlotOrNil] /\ index \in [Ids -> SlotOrNil]
      /\ wanted \in [Ids -> Rules \cup {Nil}]
  BY DEF TypeOK, PlaceType, LockType, MasterType
<1>2. ASSUME NEW i \in Ids, Quiet(i)
      PROVE  \/ \E w \in Have \cup {Nil} : EgressSet(i, w)
             \/ UNCHANGED <<chain, installed>>
  <2>1. CASE CreateEgress(i)
    <3>1. slot[i] \in Slots
      BY <1>1, <2>1 DEF CreateEgress, StepInv, StepOK, Working, SlotOrNil
    <3>2. Want(slot[i], wanted[i]) \in Have \cup {Nil}
      BY <1>1, <3>1, WantType
    <3> QED BY <2>1, <3>2 DEF CreateEgress, rules
  <2>2. CASE SetEgress(i)
    <3>1. index[i] \in Slots
      BY <1>1, <2>2 DEF SetEgress, StepInv, StepOK, Observed, SlotOrNil
    <3>2. Want(index[i], wanted[i]) \in Have \cup {Nil}
      BY <1>1, <3>1, WantType
    <3> QED BY <2>2, <3>2 DEF SetEgress
  <2>3. CASE Detach(i) \/ DestroyClear(i)
    BY <2>3 DEF Detach, DestroyClear, rules
  <2>4. CASE \/ \E r \in Rules \cup {Nil} : RowCreated(i, r) \/ RowEgress(i, r)
             \/ RowDeleted(i) \/ DestroyKill(i) \/ Reap(i) \/ Freeze(i) \/ Thaw(i)
             \/ Requested(i) \/ Checkpoint(i) \/ SnapshotFails(i) \/ Expose(i) \/ Die(i)
    BY <2>4 DEF RowCreated, RowEgress, RowDeleted, DestroyKill, Reap, Freeze, Thaw, Requested,
         Checkpoint, SnapshotFails, Expose, Die, rules
  <2> QED BY <1>2, <2>1, <2>2, <2>3, <2>4 DEF Quiet
<1>3. ASSUME \/ \E i \in Ids : \/ Create(i) \/ Wake(i) \/ Address(i) \/ Start(i) \/ Woken(i)
                               \/ Snapshot(i) \/ DestroyTeardown(i) \/ Destroy(i)
             \/ Recycle \/ RemoveRetired \/ FillBuild \/ Report \/ UNCHANGED vars
      PROVE  UNCHANGED <<chain, installed>>
  BY <1>3 DEF Create, Wake, Address, Start, Woken, Snapshot, DestroyTeardown, Destroy, Recycle,
       RemoveRetired, FillBuild, Report, vars, rules
<1> QED BY <1>2, <1>3, StepCases

\* Rules outlive the sandbox they are of in no step that goes through: what
\* leaves them behind is counted an orphan.
LEMMA OwnedStep ==
  ASSUME TypeOK, StepInv, OwnedInv, Next, NEW j \in Ids, j \notin orphaned',
         installed'[j] # Nil
  PROVE  tier'[j] # "none" \/ op'[j] # "idle"
<1>1. /\ op \in [Ids -> {"idle", "create", "wake", "put", "kill", "clear", "teardown"}]
      /\ installed \in [Ids -> Have \cup {Nil}]
      /\ tier \in [Ids -> {"none", "dead", "hot", "frozen", "snapshot"}]
  BY DEF TypeOK, PlaceType, LockType, NodeType
<1>2. \A i \in Ids : StepOK(i)
  BY DEF StepInv
<1>3. ASSUME orphaned \subseteq orphaned', installed'[j] = installed[j],
             tier[j] # "none" => tier'[j] # "none" \/ op'[j] # "idle",
             op[j] # "idle" => tier'[j] # "none" \/ op'[j] # "idle"
      PROVE  tier'[j] # "none" \/ op'[j] # "idle"
  BY <1>3 DEF OwnedInv
<1>4. ASSUME NEW i \in Ids, Quiet(i) PROVE tier'[j] # "none" \/ op'[j] # "idle"
  <2>1. CASE CreateEgress(i)
    <3>1. CASE /\ EgressSet(i, Want(slot[i], wanted[i]))
               /\ tier' = [tier EXCEPT ![i] = "dead"] /\ UNCHANGED <<op, past>>
      BY <1>1, <1>3, <3>1 DEF EgressSet, past
    <3>2. CASE /\ orphaned' = orphaned \cup {i} /\ UNCHANGED <<rules, place>>
               /\ UNCHANGED op \/ op' = [op EXCEPT ![i] = "idle"]
      BY <1>1, <1>3, <3>2 DEF rules, place
    <3> QED BY <2>1, <3>1, <3>2 DEF CreateEgress
  <2>2. CASE DestroyKill(i)
    BY <1>1, <1>3, <2>2 DEF DestroyKill, rules, past
  <2>3. CASE DestroyClear(i)
    <3>1. CASE EgressSet(i, Nil) /\ op' = [op EXCEPT ![i] = "teardown"] /\ UNCHANGED past
      BY <1>1, <1>3, <2>3, <3>1 DEF DestroyClear, EgressSet, past, place
    <3>2. CASE /\ orphaned' = orphaned \cup {i} /\ op' = [op EXCEPT ![i] = "idle"]
               /\ UNCHANGED rules
      BY <1>1, <1>3, <2>3, <3>2 DEF DestroyClear, rules, place
    <3> QED BY <2>3, <3>1, <3>2 DEF DestroyClear
  <2>4. CASE SetEgress(i)
    BY <1>1, <1>3, <2>4 DEF SetEgress, EgressSet, past, place, locks, Observed
  <2>5. CASE Detach(i)
    <3>1. CASE installed' = [installed EXCEPT ![i] = Nil] /\ tier' = [tier EXCEPT ![i] = "none"]
      <4>1. op' = op /\ orphaned \subseteq orphaned'
        BY <2>5 DEF Detach, locks
      <4> QED BY <1>1, <1>3, <3>1, <4>1
    <3>2. CASE /\ orphaned' = orphaned \cup {i} /\ installed' = installed
               /\ tier' = [tier EXCEPT ![i] = "none"]
      <4>1. op' = op
        BY <2>5 DEF Detach, locks
      <4> QED BY <1>1, <1>3, <3>2, <4>1
    <3>3. CASE UNCHANGED <<tier, installed, orphaned>>
      BY <1>3, <2>5, <3>3 DEF Detach, locks
    <3> QED BY <2>5, <3>1, <3>2, <3>3 DEF Detach, EgressSet, rules, place
  <2>6. CASE \/ Reap(i) \/ Freeze(i) \/ Thaw(i) \/ Requested(i) \/ Checkpoint(i) \/ Expose(i)
             \/ Die(i)
    BY <1>1, <1>3, <2>6 DEF Reap, Freeze, Thaw, Requested, Checkpoint, Expose, Die, rules, past,
         marks, place, locks, Dead
  <2>8. CASE SnapshotFails(i)
    <3>1. /\ UNCHANGED <<installed, orphaned>> /\ op' = [op EXCEPT ![i] = "idle"]
          /\ \E x \in {tier[i], "hot", "snapshot", "dead"} : tier' = [tier EXCEPT ![i] = x]
          /\ tier[i] # "none"
      BY <1>2, <2>8 DEF SnapshotFails, rules, past, StepOK
    <3> QED BY <1>1, <1>3, <3>1
  <2>7. CASE \/ \E r \in Rules \cup {Nil} : RowCreated(i, r) \/ RowEgress(i, r)
             \/ RowDeleted(i)
    BY <1>3, <2>7 DEF RowCreated, RowEgress, RowDeleted, rules, past, marks, place, locks
  <2> QED BY <1>4, <2>1, <2>2, <2>3, <2>4, <2>5, <2>6, <2>7, <2>8 DEF Quiet
<1>5. ASSUME NEW i \in Ids, Create(i) \/ Wake(i) \/ Destroy(i)
      PROVE  tier'[j] # "none" \/ op'[j] # "idle"
  <2>1. UNCHANGED <<tier, installed, orphaned>>
    BY <1>5 DEF Create, Wake, Destroy, Setup, rules, place, past
  <2>2. op'[j] = op[j] \/ op'[j] # "idle"
    BY <1>1, <1>5 DEF Create, Wake, Destroy
  <2> QED BY <1>3, <2>1, <2>2
<1>6. ASSUME NEW i \in Ids, Address(i) PROVE tier'[j] # "none" \/ op'[j] # "idle"
  <2>1. /\ UNCHANGED <<tier, installed>> /\ \E x : op' = [op EXCEPT ![i] = x]
        /\ orphaned' = orphaned \cup {k \in {i} : op'[i] = "idle" /\ tier[i] = "none"}
    BY <1>6 DEF Address, rules, place
  <2> QED BY <1>1, <1>3, <2>1
<1>7. ASSUME NEW i \in Ids, Start(i) \/ Woken(i) PROVE tier'[j] # "none" \/ op'[j] # "idle"
  <2>1. /\ installed' = installed /\ op' = [op EXCEPT ![i] = "idle"]
        /\ tier' = tier \/ tier' = [tier EXCEPT ![i] = "hot"]
        /\ orphaned' = orphaned
    BY <1>7 DEF Start, Woken, rules, past, marks
  <2>2. tier[i] # "none"
    BY <1>2, <1>7 DEF Start, Woken, StepOK
  <2> QED BY <1>1, <1>3, <2>1, <2>2
<1>8. ASSUME NEW i \in Ids, Snapshot(i) \/ DestroyTeardown(i)
      PROVE  tier'[j] # "none" \/ op'[j] # "idle"
  <2>1. CASE Snapshot(i)
    BY <1>1, <1>3, <2>1 DEF Snapshot, rules, locks, past
  <2>2. CASE DestroyTeardown(i)
    <3>1. installed[i] = Nil
      BY <1>2, <2>2 DEF DestroyTeardown, StepOK
    <3> QED BY <1>1, <1>3, <2>2, <3>1 DEF DestroyTeardown, rules, past, place
  <2> QED BY <1>8, <2>1, <2>2
<1>9. ~Crash
  BY DEF Crash
<1>10. ASSUME Recycle \/ RemoveRetired \/ FillBuild \/ Report \/ UNCHANGED vars
       PROVE  tier'[j] # "none" \/ op'[j] # "idle"
  <2>1. UNCHANGED <<tier, installed, op, orphaned>>
    BY <1>10 DEF Recycle, RemoveRetired, FillBuild, Report, vars, place, rules, locks, past
  <2> QED BY <1>3, <2>1
<1> QED BY <1>4, <1>5, <1>6, <1>7, <1>8, <1>9, <1>10, StepCases

\* The chain and the notes of it, through every step.
LEMMA EgressStep ==
  ASSUME TypeOK, StepInv, OwnedInv, Next
  PROVE  OwnedInv'
<1>1. ASSUME NEW x \in Have PROVE chain'[x] = Cardinality(Having(x)')
  <2>1. NodeType /\ chain[x] = Cardinality(Having(x))
    BY DEF TypeOK, OwnedInv, Having
  <2>2. CASE \E i \in Ids, w \in Have \cup {Nil} : EgressSet(i, w)
    BY <2>1, <2>2, SwapCounted
  <2>3. CASE Crash
    <3>1. chain'[x] = 0 /\ \A i \in Ids : installed'[i] = Nil
      BY <2>3 DEF Crash
    <3>2. Having(x)' = {}
      BY <3>1, NilAssumption DEF Having
    <3> QED BY <3>1, <3>2, FS_EmptySet
  <2>4. CASE UNCHANGED <<chain, installed>>
    BY <2>1, <2>4 DEF Having
  <2> QED BY <2>2, <2>3, <2>4, RulesCases
<1>2. \A i \in Ids \ orphaned' : installed'[i] # Nil => tier'[i] # "none" \/ op'[i] # "idle"
  BY OwnedStep
<1> QED BY <1>1, <1>2 DEF OwnedInv, Having(***************************************************************************)
(* The invariant holds at the start, and every step keeps it.              *)
(***************************************************************************)
\* A node that has just come up, with nothing on it.
LEMMA InitInv ==
  ASSUME Init
  PROVE  TypeOK /\ NetInv
<1>1. TypeOK
  <2>1. MasterType /\ PlaceType /\ LockType /\ NodeType
    BY DEF Init, MasterType, PlaceType, LockType, NodeType, SlotOrNil
  <2>2. KernelType /\ PoolType
    BY NetAssumption DEF Init, KernelType, Kernels, PoolType
  <2>3. PastType
    BY DEF Init, PastType
  <2> QED BY <2>1, <2>2, <2>3 DEF TypeOK
<1>2. StepInv
  BY NetAssumption DEF Init, StepInv, StepOK, Apart, Working, Wanted, Unborn
<1>3. SpaceInv
  <2>1. NamedInv
    BY Names DEF Init, NamedInv, NsOf
  <2>2. ListInv
    <3>1. ready = <<>> /\ retired = <<>> /\ \A n \in Namespaces : kernel.ns[n] = Nil
      BY DEF Init
    <3>2. Range(<<>>) = {}
      BY DEF Range
    <3>3. NsOf(kernel, "pool") = {} /\ NsOf(kernel, "dead") = {}
      BY <3>1, NetAssumption DEF NsOf
    <3> QED BY <3>1, <3>2, <3>3 DEF ListInv, Single
  <2>3. NoPoolInv
    BY DEF Init, NoPoolInv
  <2> QED BY <2>1, <2>2, <2>3 DEF SpaceInv
<1>4. LinkInv
  <2>1. ready = <<>> /\ retired = <<>> /\ \A f \in Ifs : ~There(f)
    BY DEF Init, There
  <2>2. Range(<<>>) = {}
    BY DEF Range
  <2>3. \A i \in Ids : names[i] = Nil /\ ~Working(i)
    BY DEF Init, Working
  <2>4. \A i \in Ids, n \in Namespaces : kernel.ns[n] # i /\ n # Nil
    BY Names, NetAssumption DEF Init
  <2>5. PoolTidy
    BY <2>1, <2>2, <2>3, <2>4 DEF PoolTidy
  <2> QED BY <2>1, <2>5 DEF LinkInv
<1>5. MineInv
  <2>1. \A i \in Ids : ~Wanted(i) /\ ~There(HostIf(i))
    BY Names, NetAssumption DEF Init, Wanted, Unborn, There, HostIf, Ifs
  <2>2. \A i \in Ids : Mine(i, Nil)
    BY <2>1 DEF Init, Mine
  <2> QED BY <2>2 DEF MineInv, SlotOrNil
<1>6. ReachInv /\ PortInv
  BY NetAssumption DEF Init, ReachInv, PortInv, Up, Served, Wanted, Unborn
<1>7. OwnedInv
  <2>1. \A x \in Have : {i \in Ids : installed[i] = x} = {}
    BY NilAssumption DEF Init
  <2> QED BY <2>1, FS_EmptySet DEF Init, OwnedInv
<1> QED BY <1>1, <1>2, <1>3, <1>4, <1>5, <1>6, <1>7 DEF NetInv

\* A step that changes nothing keeps it.
LEMMA Stutter ==
  ASSUME TypeOK, NetInv, UNCHANGED vars
  PROVE  TypeOK' /\ NetInv'
<1>1. TypeOK'
  BY DEF vars, TypeOK, MasterType, KernelType, PlaceType, PoolType, LockType, NodeType, PastType
<1>2. StepInv'
  BY DEF vars, NetInv, StepInv, StepOK, Apart, Working, Wanted
<1>3. SpaceInv'
  BY DEF vars, NetInv, SpaceInv, NamedInv, ListInv, NoPoolInv, Single, NsOf, Pooled
<1>4. LinkInv'
  BY DEF vars, NetInv, LinkInv, PoolTidy, There, PoolLink, OwnLink, Pooled, Working
<1>5. MineInv'
  BY DEF vars, NetInv, MineInv, Mine, Wanted, Pooled, There, HostIf
<1>6. ReachInv'
  BY DEF vars, NetInv, ReachInv, Up, Joined, Wanted, Working, There, HostIf
<1>7. PortInv' /\ OwnedInv'
  BY DEF vars, NetInv, PortInv, OwnedInv, Served, Excused, Observed, Wanted
<1> QED BY <1>1, <1>2, <1>3, <1>4, <1>5, <1>6, <1>7 DEF NetInv

\* Every step keeps the invariant, part by part.
LEMMA InvStep ==
  ASSUME TypeOK, NetInv, [Next]_vars
  PROVE  TypeOK' /\ NetInv'
<1>1. CASE Next
  <2>1. StepInv /\ SpaceInv /\ LinkInv /\ MineInv /\ ReachInv /\ PortInv /\ OwnedInv
    BY DEF NetInv
  <2>2. TypeOK' /\ StepInv' /\ SpaceInv'
    BY <1>1, <2>1, TypeStep, StepStep, SpaceStep DEF SpaceInv, ListInv
  <2>3. LinkInv'
    BY <1>1, <2>1, LinkStep
  <2>4. MineInv'
    BY <1>1, <2>1, <2>2, <2>3, MineStep
  <2>5. ReachInv' /\ PortInv' /\ OwnedInv'
    BY <1>1, <2>1, <2>2, ReachStep, PortStep, EgressStep
  <2> QED BY <2>2, <2>3, <2>4, <2>5 DEF NetInv
<1>2. CASE UNCHANGED vars
  BY <1>2, Stutter
<1> QED BY <1>1, <1>2

(***************************************************************************)
(* In every reachable state each variable has its type, and the invariant  *)
(* holds: who is at which step, what each namespace is called and whose    *)
(* each link is, one slot for a sandbox's whole life, and what a sandbox   *)
(* that is up has (setup, teardown, the pool, the gateway).                *)
(***************************************************************************)
THEOREM NetSafety == Spec => [](TypeOK /\ NetInv)
<1>1. Init => TypeOK /\ NetInv
  BY InitInv
<1>2. TypeOK /\ NetInv /\ [Next]_vars => (TypeOK /\ NetInv)'
  BY InvStep
<1> QED BY <1>1, <1>2, PTL DEF Spec

\* A sandbox that runs and is wanted is reached at its address, whatever is
\* left of the last holder's network: setup removes what holds the slot, and
\* no other sandbox's steps touch the link of one that is up.  The refusals
\* and the listeners it may lack are those left by a change of tier under way
\* or failed, and those not opened yet or again (set_tier, expose_created).
THEOREM AlwaysReached == Spec => []Reached
<1>1. ASSUME TypeOK, NetInv PROVE Reached
  <2> SUFFICES ASSUME NEW i \in Ids, Serving(i)
               PROVE  /\ astray = {} => Reaches(i)
                      /\ index[i] \in cold => index[i] \in refused
                      /\ i \notin unheard => running[i] = index[i]
    BY DEF Reached
  <2>1. /\ Wanted(i) /\ tier[i] = "hot" /\ Up(i) /\ Observed(i)
        /\ StepInv /\ SpaceInv /\ LinkInv /\ MineInv /\ ReachInv /\ PortInv
    BY <1>1 DEF Serving, Up, Observed, NetInv
  <2>2. index[i] = row[i]
    BY <1>1, <2>1, IndexRow
  <2>3. ASSUME astray = {} PROVE Reaches(i)
    <3>1. Joined(i)
      BY <2>1, <2>3 DEF ReachInv
    <3>2. kernel.ifs[HostIf(i)].in \in NsOf(kernel, i)
      BY <1>1, <2>1, <2>3, <3>1, HostsDiffer DEF Joined, NsOf
    <3> QED BY <2>2, <3>1, <3>2 DEF Joined, Reaches, There, Holding
  <2> QED BY <2>1, <2>3 DEF PortInv, Serving, Served, Excused
<1>2. TypeOK /\ NetInv => Reached
  BY <1>1
<1> QED BY <1>2, NetSafety, PTL

\* What EgressRules says is installed is what the kernel's chain has, counted;
\* no rule is left of a sandbox that has gone, but where clearing it has
\* failed; and rules at an address that is another's now are those of a
\* sandbox deleted since (EgressRules, destroy_with_net).
THEOREM EgressAlwaysOwned == Spec => []EgressOwned
<1>1. ASSUME TypeOK, NetInv PROVE EgressOwned
  <2>1. OwnedInv /\ StepInv /\ MineInv
    BY <1>1 DEF NetInv
  <2>2. ASSUME NEW i \in Ids, NEW j \in Ids \ {i}, installed[i] # Nil, Wanted(j),
               installed[i].slot = row[j]
        PROVE  row[i] = Gone
    <3>1. PICK s \in SlotOrNil : Mine(i, s)
      BY <2>1 DEF MineInv
    <3>2. s = row[j] /\ s # Nil
      BY <2>2, <3>1, NetAssumption DEF Mine, Wanted
    <3>3. row[i] # Unborn /\ ~Wanted(i)
      BY <2>1, <2>2, <3>1, <3>2 DEF Mine, StepInv, Apart
    <3> QED BY <1>1, <3>3 DEF TypeOK, MasterType, Wanted
  <2> QED BY <2>1, <2>2 DEF OwnedInv, EgressOwned
<1>2. TypeOK /\ NetInv => EgressOwned
  BY <1>1
<1> QED BY <1>2, NetSafety, PTL

\* What the pool hands out is blank: scrub and retire leave nothing of the
\* sandbox that had it, and no record names its interface.
THEOREM PoolAlwaysBlank == Spec => []PoolBlank
<1>1. ASSUME TypeOK, NetInv PROVE PoolBlank
  <2> SUFFICES ASSUME NEW b \in Range(ready)
               PROVE  /\ kernel.ns[b.ns] = "pool" /\ kernel.tracked[b.ns] = {}
                      /\ LET l == kernel.ifs[b.host]
                         IN astray = {} => /\ l # Nil /\ l.in = b.ns /\ ~l.up /\ ~l.open
                                           /\ \A i \in Ids : names[i] # b.host
    BY DEF PoolBlank
  <2>1. SpaceInv /\ LinkInv /\ ListInv /\ ready \in Seq(BlankType)
    BY <1>1 DEF NetInv, SpaceInv, TypeOK, PoolType
  <2>2. b \in BlankType /\ b.ns \in NsOf(kernel, "pool") /\ kernel.tracked[b.ns] = {}
    BY <2>1, InList DEF ListInv
  <2>3. b.ns \in Namespaces /\ b.ns \in Ifs /\ kernel.ns[b.ns] = "pool"
    BY <2>2 DEF NsOf, Ifs
  <2>4. Pooled
    <3>1. Range(<<>>) = {}
      BY DEF Range
    <3> QED BY <2>1, <3>1 DEF SpaceInv, NoPoolInv
  <2>5. ASSUME astray = {}
        PROVE  /\ kernel.ifs[b.host] # Nil /\ kernel.ifs[b.host].in = b.ns
               /\ ~kernel.ifs[b.host].up /\ ~kernel.ifs[b.host].open
               /\ \A i \in Ids : names[i] # b.host
    <3>1. PoolTidy
      BY <2>1, <2>4, <2>5 DEF LinkInv
    <3>2. b.host = b.ns /\ There(b.ns) /\ ~kernel.ifs[b.ns].up /\ ~kernel.ifs[b.ns].open
      BY <3>1 DEF PoolTidy
    <3>3. kernel.ifs[b.ns].in = b.ns
      BY <2>3, <3>1, <3>2 DEF PoolTidy, PoolLink
    <3>4. \A i \in Ids : names[i] # b.ns
      BY <2>3, <3>1, Names DEF PoolTidy
    <3> QED BY <3>2, <3>3, <3>4 DEF There
  <2> QED BY <2>2, <2>3, <2>5
<1>2. TypeOK /\ NetInv => PoolBlank
  BY <1>1
<1> QED BY <1>2, NetSafety, PTL

\* A destroy that goes through, and a restart, leave no namespace behind that
\* no sandbox and no pool knows of.
THEOREM NothingIsLeft == Spec => []NothingLeft
<1>1. TypeOK /\ NetInv => NothingLeft
  <2> SUFFICES ASSUME TypeOK, NetInv PROVE NothingLeft
    OBVIOUS
  <2>1. NamedInv /\ ListInv
    BY DEF NetInv, SpaceInv
  <2>2. {b.ns : b \in Range(ready) \cup Range(retired)}
          = {b.ns : b \in Range(ready)} \cup {b.ns : b \in Range(retired)}
    OBVIOUS
  <2> QED BY <2>1, <2>2 DEF NamedInv, ListInv, NothingLeft
<1> QED BY <1>1, NetSafety, PTL
=============================================================================
