-------------------------- MODULE TagImagesProofs --------------------------
(***************************************************************************)
(* Theorems about TagImages, for any set of nodes, any finite sets of      *)
(* tags, calls and children, any pieces and all bounds: a tag on record    *)
(* keeps its image, and a fork runs the whole of one.                      *)
(***************************************************************************)
EXTENDS TagImages, FiniteSetTheorems, SequenceTheorems, TLAPS

(***************************************************************************)
(* Types.                                                                  *)
(***************************************************************************)
Image   == [Pieces -> Calls]
Record  == [node : Nodes, image : Calls]
Row     == [st : {"new", "live", "gone"}, node : Nodes \cup {Nil}, tag : Tags \cup {Nil},
            image : Calls \cup {Nil}]
Asking  == [pc : {"new", "waiting", "answered", "done", "failed"}, node : Nodes \cup {Nil},
            tag : Tags \cup {Nil}]
Fetch   == [st : {"none", "asking", "copying", "failed"}, from : Nodes \cup {Nil},
            of : Image \cup {Nil}, got : [Pieces -> Calls \cup {Nil}]]

Creates  == [op : {"create"}, of : Children, from : Nodes \cup {Nil}]
Destroys == [op : {"destroy"}, of : Children, from : {Nil}]
Drops    == [op : {"drop"}, of : Tags, from : {Nil}]
Branches == [op : {"branch"}, of : Calls, from : {Nil}]
Cmd      == Creates \cup Destroys \cup Drops \cup Branches

MasterType ==
  /\ snapshots \in [Tags -> Record \cup {Nil}]
  /\ row \in [Children -> Row]
  /\ call \in [Calls -> Asking]
  /\ queue \in [Nodes -> Seq(Calls)]

NodeType ==
  /\ batch \in [Nodes -> Seq(Cmd)]
  /\ disk \in [Nodes -> [Tags -> Image \cup {Nil}]]
  /\ aged \in [Nodes -> SUBSET Tags]
  /\ fetch \in [Nodes -> [Tags -> Fetch]]
  /\ ran \in [Children -> Image \cup {Nil}]
  /\ written \in [Tags -> SUBSET Calls]

TypeInv == MasterType /\ NodeType

(***************************************************************************)
(* What is known of calls, rows and commands.                              *)
(***************************************************************************)
CallInv  == \A c \in Calls : call[c].pc # "new" => call[c].node \in Nodes /\ call[c].tag \in Tags
FetchInv == \A n \in Nodes, t \in Tags :
              fetch[n][t].st \in {"asking", "copying"} => fetch[n][t].from \in Nodes

\* A branch goes to the node its call asked for.
Asked(n, c) == call[c].pc # "new" /\ call[c].node = n

CommandOK(n, c) ==
  /\ c.op = "branch" => Asked(n, c.of)
  /\ c.op = "create" => row[c.of].st # "new"

\* What is in a list.
Told(list) == {list[i] : i \in 1..Len(list)}

QueueInv == \A n \in Nodes : \A c \in Told(queue[n]) : Asked(n, c)
BatchInv == \A n \in Nodes : \A c \in Told(batch[n]) : CommandOK(n, c)

(***************************************************************************)
(* Where an image's pieces come from.                                      *)
(***************************************************************************)
\* Whatever is under a tag's name anywhere was written there by a branch into
\* that tag, by a call that was made.
WrittenInv == \A t \in Tags : \A c \in written[t] : call[c].pc # "new"
DiskInv    == \A n \in Nodes, t \in Tags, p \in Pieces :
                disk[n][t] # Nil => disk[n][t][p] \in written[t]
GotInv     == \A n \in Nodes, t \in Tags, p \in Pieces :
                fetch[n][t].got[p] \in written[t] \cup {Nil}
RecordInv  == \A t \in Tags : snapshots[t] # Nil => snapshots[t].image \in written[t]
RowInv     == \A s \in Children : row[s].st # "new" =>
                row[s].tag \in Tags /\ row[s].image \in written[row[s].tag]
RanInv     == \A s \in Children : ran[s] # Nil =>
                row[s].st # "new" /\ \A p \in Pieces : ran[s][p] \in written[row[s].tag]

(***************************************************************************)
(* Why a recorded image is not dropped.                                    *)
(***************************************************************************)
\* A handler that has its answer has its image where it will record it.
AnsweredInv ==
  \A c \in Calls : call[c].pc = "answered" => disk[call[c].node][call[c].tag] = Whole(c)

\* What is reported is on disk, and is of no call still open.
AgedInv ==
  \A n \in Nodes : \A t \in aged[n] :
    /\ disk[n][t] # Nil
    /\ \A c \in Calls : call[c].pc \in {"waiting", "answered"} => disk[n][t] # Whole(c)

\* What a node has been told to drop it reported, and is not on record there.
DropOK(n, t) == t \in aged[n] /\ (snapshots[t] # Nil => snapshots[t].node # n)
DropInv == \A n \in Nodes : \A c \in Told(batch[n]) : c.op = "drop" => DropOK(n, c.of)

DropOnce(list) ==
  \A i, j \in 1..Len(list) :
    list[i].op = "drop" /\ list[j].op = "drop" /\ list[i].of = list[j].of => i = j

DropOnceInv == \A n \in Nodes : DropOnce(batch[n])

AskInv == CallInv /\ FetchInv /\ QueueInv /\ BatchInv
PieceInv == WrittenInv /\ DiskInv /\ GotInv /\ RecordInv /\ RowInv /\ RanInv
KeepInv == AnsweredInv /\ AgedInv /\ DropInv /\ DropOnceInv /\ TagKept
ImageInv == AskInv /\ PieceInv /\ KeepInv
(***************************************************************************)
(* Lists of commands.                                                      *)
(***************************************************************************)
\* A command is what its first field says.
LEMMA CmdKinds ==
  ASSUME NEW c \in Cmd
  PROVE  /\ c.op = "create" => c \in Creates
         /\ c.op = "destroy" => c \in Destroys
         /\ c.op = "drop" => c \in Drops
         /\ c.op = "branch" => c \in Branches
         /\ c.op \in {"create", "destroy", "drop", "branch"}
  BY DEF Cmd, Creates, Destroys, Drops, Branches

\* Nothing is in an empty list.
LEMMA NothingTold == Told(<<>>) = {} /\ DropOnce(<<>>) /\ <<>> \in Seq(Cmd) /\ <<>> \in Seq(Calls)
  BY EmptySeq DEF Told, DropOnce

\* The first command is run, and the others are left.
LEMMA RestTold ==
  ASSUME NEW b \in Seq(Cmd), b # <<>>
  PROVE  /\ Head(b) \in Cmd /\ Head(b) \in Told(b)
         /\ Tail(b) \in Seq(Cmd) /\ Told(Tail(b)) \subseteq Told(b)
         /\ DropOnce(b) =>
              /\ DropOnce(Tail(b))
              /\ Head(b).op = "drop" =>
                   \A c \in Told(Tail(b)) : c.op = "drop" => c.of # Head(b).of
<1> DEFINE t == Tail(b)
<1>1. /\ Head(b) \in Cmd /\ t \in Seq(Cmd) /\ Len(t) = Len(b) - 1
      /\ Len(b) \in Nat \ {0}
      /\ \A i \in 1..Len(t) : t[i] = b[i + 1]
  BY HeadTailProperties, EmptySeq
<1>2. Head(b) = b[1] /\ 1 \in 1..Len(b)
  BY <1>1
<1> HIDE DEF t
<1>3. \A i \in 1..Len(t) : i + 1 \in 1..Len(b) /\ i + 1 # 1
  BY <1>1
<1>4. Told(t) \subseteq Told(b)
  BY <1>1, <1>3 DEF Told
<1>5. ASSUME DropOnce(b) PROVE DropOnce(t)
  BY <1>1, <1>3, <1>5 DEF DropOnce
<1>6. ASSUME DropOnce(b), Head(b).op = "drop", NEW c \in Told(t), c.op = "drop"
      PROVE  c.of # Head(b).of
  <2>1. PICK i \in 1..Len(t) : c = t[i]
    BY DEF Told
  <2>2. c = b[i + 1] /\ i + 1 \in 1..Len(b) /\ i + 1 # 1
    BY <1>1, <1>3, <2>1
  <2>3. QED
    BY <1>2, <1>6, <2>2 DEF DropOnce
<1>7. QED
  BY <1>1, <1>2, <1>4, <1>5, <1>6 DEF Told, t

\* One more call in a queue.
LEMMA OneMore ==
  ASSUME NEW q \in Seq(Calls), NEW c \in Calls
  PROVE  Append(q, c) \in Seq(Calls) /\ Told(Append(q, c)) = Told(q) \cup {c}
<1>1. /\ Append(q, c) \in Seq(Calls) /\ Len(Append(q, c)) = Len(q) + 1 /\ Len(q) \in Nat
      /\ \A i \in 1..Len(q) : Append(q, c)[i] = q[i]
      /\ Append(q, c)[Len(q) + 1] = c
  BY AppendProperties, LenProperties
<1>2. 1..Len(Append(q, c)) = (1..Len(q)) \cup {Len(q) + 1}
  BY <1>1
<1>3. QED
  BY <1>1, <1>2 DEF Told

\* The orders of a finite set are lists of it, with nothing twice.
LEMMA OrdersType ==
  ASSUME NEW S, IsFiniteSet(S), NEW q \in Orders(S)
  PROVE  /\ q \in Seq(S) /\ DOMAIN q = 1..Len(q)
         /\ \A i, j \in 1..Len(q) : q[i] = q[j] => i = j
<1>1. Cardinality(S) \in Nat
  BY FS_CardinalityType
<1>2. q \in [1..Cardinality(S) -> S] /\ \A i, j \in DOMAIN q : q[i] = q[j] => i = j
  BY DEF Orders
<1>3. q \in Seq(S)
  BY <1>1, <1>2, SeqDef
<1>4. QED
  BY <1>2, <1>3, LenProperties

\* Two lists, one after the other.
LEMMA BothTold ==
  ASSUME NEW a \in Seq(Cmd), NEW b \in Seq(Cmd)
  PROVE  /\ a \o b \in Seq(Cmd) /\ Told(a \o b) = Told(a) \cup Told(b)
         /\ DropOnce(a) /\ (\A c \in Told(b) : c.op # "drop") => DropOnce(a \o b)
         /\ DropOnce(b) /\ (\A c \in Told(a) : c.op # "drop") => DropOnce(a \o b)
<1> DEFINE ab == a \o b
<1>1. /\ ab \in Seq(Cmd) /\ Len(ab) = Len(a) + Len(b) /\ Len(a) \in Nat /\ Len(b) \in Nat
      /\ \A i \in 1..Len(ab) : ab[i] = IF i <= Len(a) THEN a[i] ELSE b[i - Len(a)]
  BY ConcatProperties, LenProperties
<1> HIDE DEF ab
<1>2. \A i \in 1..Len(ab) : \/ i \in 1..Len(a) /\ ab[i] = a[i]
                            \/ i - Len(a) \in 1..Len(b) /\ ab[i] = b[i - Len(a)]
  BY <1>1
<1>3. \A i \in 1..Len(a) : i \in 1..Len(ab) /\ ab[i] = a[i]
  BY <1>1
<1>4. \A i \in 1..Len(b) : i + Len(a) \in 1..Len(ab) /\ ab[i + Len(a)] = b[i]
  BY <1>1
<1>5. Told(ab) = Told(a) \cup Told(b)
  <2>1. Told(ab) \subseteq Told(a) \cup Told(b)
    BY <1>2 DEF Told
  <2>2. Told(a) \subseteq Told(ab)
    BY <1>3 DEF Told
  <2>3. Told(b) \subseteq Told(ab)
    BY <1>4 DEF Told
  <2>4. QED
    BY <2>1, <2>2, <2>3
<1>6. ASSUME DropOnce(a), \A c \in Told(b) : c.op # "drop" PROVE DropOnce(ab)
  <2>1. \A i \in 1..Len(ab) : ab[i].op = "drop" => i \in 1..Len(a) /\ ab[i] = a[i]
    BY <1>2, <1>6 DEF Told
  <2>2. QED
    BY <1>6, <2>1 DEF DropOnce
<1>7. ASSUME DropOnce(b), \A c \in Told(a) : c.op # "drop" PROVE DropOnce(ab)
  <2>1. \A i \in 1..Len(ab) :
          ab[i].op = "drop" => i - Len(a) \in 1..Len(b) /\ ab[i] = b[i - Len(a)]
    BY <1>2, <1>7 DEF Told
  <2> SUFFICES ASSUME NEW i \in 1..Len(ab), NEW j \in 1..Len(ab), ab[i].op = "drop",
                      ab[j].op = "drop", ab[i].of = ab[j].of
               PROVE  i = j
    BY DEF DropOnce
  <2>2. i - Len(a) = j - Len(a)
    BY <1>7, <2>1 DEF DropOnce
  <2>3. QED
    BY <1>1, <2>2
<1>8. QED
  BY <1>1, <1>5, <1>6, <1>7 DEF ab

\* The commands a poll is answered with.
LEMMA CommandsTold ==
  ASSUME TypeInv, NEW n \in Nodes, NEW cr \in Orders(Missing(n)), NEW de \in Orders(Unwanted(n)),
         NEW dr \in Orders(Dropped(n))
  PROVE  LET b == Commands(n, cr, de, dr)
         IN  /\ b \in Seq(Cmd) /\ DropOnce(b)
             /\ \A c \in Told(b) : /\ c.op = "create" => c.of \in Missing(n)
                                   /\ c.op = "drop" => c.of \in Dropped(n)
                                   /\ c.op = "branch" => c.of \in Told(queue[n])
<1> DEFINE bcr == [i \in DOMAIN cr |-> [op |-> "create", of |-> cr[i],
                                        from |-> FetchFrom(n, row[cr[i]].tag)]]
           bde == [i \in DOMAIN de |-> [op |-> "destroy", of |-> de[i], from |-> Nil]]
           bdr == [i \in DOMAIN dr |-> [op |-> "drop", of |-> dr[i], from |-> Nil]]
           bbr == [i \in DOMAIN queue[n] |-> [op |-> "branch", of |-> queue[n][i], from |-> Nil]]
<1>1. /\ IsFiniteSet(Missing(n)) /\ Missing(n) \subseteq Children
      /\ IsFiniteSet(Unwanted(n)) /\ Unwanted(n) \subseteq Children
      /\ IsFiniteSet(Dropped(n)) /\ Dropped(n) \subseteq Tags
  <2>1. Missing(n) \subseteq Children /\ Unwanted(n) \subseteq Children /\ Dropped(n) \subseteq Tags
    BY DEF Missing, Unwanted, Dropped, TypeInv, NodeType
  <2>2. QED
    BY <2>1, FS_Subset, TagImagesAssumption
<1>2. queue[n] \in Seq(Calls) /\ DOMAIN queue[n] = 1..Len(queue[n]) /\ Len(queue[n]) \in Nat
  BY LenProperties DEF TypeInv, MasterType
<1>3. /\ cr \in Seq(Missing(n)) /\ DOMAIN cr = 1..Len(cr) /\ Len(cr) \in Nat
      /\ de \in Seq(Unwanted(n)) /\ DOMAIN de = 1..Len(de) /\ Len(de) \in Nat
      /\ dr \in Seq(Dropped(n)) /\ DOMAIN dr = 1..Len(dr) /\ Len(dr) \in Nat
      /\ \A i, j \in 1..Len(dr) : dr[i] = dr[j] => i = j
  BY <1>1, OrdersType, LenProperties
<1>4. \A t : FetchFrom(n, t) \in Nodes \cup {Nil}
  BY TagImagesAssumption DEF FetchFrom
<1>5. ASSUME NEW b, NEW m \in Nat, b \in [1..m -> Cmd] PROVE b \in Seq(Cmd) /\ Len(b) = m
  <2>1. b \in Seq(Cmd)
    BY <1>5, SeqDef
  <2>2. QED
    BY <1>5, <2>1, LenProperties
<1>6. /\ bcr \in Seq(Cmd) /\ DropOnce(bcr)
      /\ \A c \in Told(bcr) : c.op = "create" /\ c.of \in Missing(n)
  <2>1. \A i \in 1..Len(cr) : cr[i] \in Children
    BY <1>1, <1>3, ElementOfSeq
  <2>2. bcr \in [1..Len(cr) -> Cmd] /\ \A i \in 1..Len(cr) : bcr[i].op = "create" /\ bcr[i].of = cr[i]
    BY <1>3, <1>4, <2>1 DEF Cmd, Creates
  <2> HIDE DEF bcr
  <2>3. bcr \in Seq(Cmd) /\ Len(bcr) = Len(cr)
    BY <1>3, <1>5, <2>2
  <2>4. DropOnce(bcr) /\ \A c \in Told(bcr) : c.op = "create" /\ c.of \in Told(cr)
    BY <1>3, <2>2, <2>3 DEF Told, DropOnce
  <2>5. Told(cr) \subseteq Missing(n)
    BY <1>3, ElementOfSeq DEF Told
  <2>6. QED
    BY <2>3, <2>4, <2>5
<1>7. /\ bde \in Seq(Cmd) /\ DropOnce(bde) /\ \A c \in Told(bde) : c.op = "destroy"
  <2>1. \A i \in 1..Len(de) : de[i] \in Children
    BY <1>1, <1>3, ElementOfSeq
  <2>2. bde \in [1..Len(de) -> Cmd] /\ \A i \in 1..Len(de) : bde[i].op = "destroy" /\ bde[i].of = de[i]
    BY <1>3, <2>1 DEF Cmd, Destroys
  <2> HIDE DEF bde
  <2>3. bde \in Seq(Cmd) /\ Len(bde) = Len(de)
    BY <1>3, <1>5, <2>2
  <2>4. QED
    BY <1>3, <2>2, <2>3 DEF Told, DropOnce
<1>8. /\ bdr \in Seq(Cmd) /\ DropOnce(bdr)
      /\ \A c \in Told(bdr) : c.op = "drop" /\ c.of \in Dropped(n)
  <2>1. \A i \in 1..Len(dr) : dr[i] \in Tags
    BY <1>1, <1>3, ElementOfSeq
  <2>2. bdr \in [1..Len(dr) -> Cmd] /\ \A i \in 1..Len(dr) : bdr[i].op = "drop" /\ bdr[i].of = dr[i]
    BY <1>3, <2>1 DEF Cmd, Drops
  <2> HIDE DEF bdr
  <2>3. bdr \in Seq(Cmd) /\ Len(bdr) = Len(dr)
    BY <1>3, <1>5, <2>2
  <2>4. DropOnce(bdr) /\ \A c \in Told(bdr) : c.op = "drop" /\ c.of \in Told(dr)
    BY <1>3, <2>2, <2>3 DEF Told, DropOnce
  <2>5. Told(dr) \subseteq Dropped(n)
    BY <1>3, ElementOfSeq DEF Told
  <2>6. QED
    BY <2>3, <2>4, <2>5
<1>9. /\ bbr \in Seq(Cmd) /\ DropOnce(bbr)
      /\ \A c \in Told(bbr) : c.op = "branch" /\ c.of \in Told(queue[n])
  <2>1. \A i \in 1..Len(queue[n]) : queue[n][i] \in Calls
    BY <1>2, ElementOfSeq
  <2>2. /\ bbr \in [1..Len(queue[n]) -> Cmd]
        /\ \A i \in 1..Len(queue[n]) : bbr[i].op = "branch" /\ bbr[i].of = queue[n][i]
    BY <1>2, <2>1 DEF Cmd, Branches
  <2> HIDE DEF bbr
  <2>3. bbr \in Seq(Cmd) /\ Len(bbr) = Len(queue[n])
    BY <1>2, <1>5, <2>2
  <2>4. QED
    BY <1>2, <2>2, <2>3 DEF Told, DropOnce
<1> DEFINE c2 == bcr \o bde
           c3 == c2 \o bdr
           c4 == c3 \o bbr
<1>10. Commands(n, cr, de, dr) = c4
  BY DEF Commands
<1> HIDE DEF bcr, bde, bdr, bbr
<1>11. /\ c2 \in Seq(Cmd) /\ Told(c2) = Told(bcr) \cup Told(bde)
  BY <1>6, <1>7, BothTold
<1> HIDE DEF c2
<1>12. /\ c3 \in Seq(Cmd) /\ Told(c3) = Told(c2) \cup Told(bdr) /\ DropOnce(c3)
  <2>1. \A c \in Told(c2) : c.op # "drop"
    BY <1>6, <1>7, <1>11
  <2>2. QED
    BY <1>8, <1>11, <2>1, BothTold
<1> HIDE DEF c3
<1>13. /\ c4 \in Seq(Cmd) /\ Told(c4) = Told(c3) \cup Told(bbr) /\ DropOnce(c4)
  <2>1. \A c \in Told(bbr) : c.op # "drop"
    BY <1>9
  <2>2. QED
    BY <1>9, <1>12, <2>1, BothTold
<1> HIDE DEF c4
<1>14. QED
  BY <1>6, <1>7, <1>8, <1>9, <1>10, <1>11, <1>12, <1>13

(***************************************************************************)
(* Types.                                                                  *)
(***************************************************************************)
\* A call moves on: it stays the call it is.
LEMMA CallMoves ==
  ASSUME TypeInv, NEW c \in Calls, NEW pc \in {"answered", "done", "failed"}
  PROVE  /\ [call[c] EXCEPT !.pc = pc] \in Asking
         /\ [call EXCEPT ![c].pc = pc] \in [Calls -> Asking]
<1>1. call \in [Calls -> Asking] /\ call[c] \in Asking
  BY DEF TypeInv, MasterType
<1>2. [call[c] EXCEPT !.pc = pc] \in Asking
  BY <1>1 DEF Asking
<1>3. QED
  BY <1>1, <1>2

\* The calls of the API, and the handlers that resume or time out, keep the types.
LEMMA ApiType ==
  ASSUME TypeInv, CallInv,
         Api \/ \E c \in Calls : BranchRecorded(c) \/ BranchTimesOut(c)
  PROVE  TypeInv'
<1>1. ASSUME NEW c \in Calls, NEW t \in Tags, NEW n \in Nodes, BranchAsked(c, t, n)
      PROVE  TypeInv'
  <2>1. Append(queue[n], c) \in Seq(Calls)
    BY OneMore DEF TypeInv, MasterType
  <2>2. MasterType'
    BY <1>1, <2>1 DEF BranchAsked, TypeInv, MasterType, Asking
  <2>3. NodeType'
    BY <1>1 DEF BranchAsked, TypeInv, NodeType
  <2>4. QED
    BY <2>2, <2>3 DEF TypeInv
<1>2. ASSUME NEW c \in Calls, BranchTimesOut(c) PROVE TypeInv'
  <2>1. call' \in [Calls -> Asking]
    BY <1>2, CallMoves DEF BranchTimesOut
  <2>2. QED
    BY <1>2, <2>1 DEF BranchTimesOut, TypeInv, MasterType, NodeType
<1>3. ASSUME NEW c \in Calls, BranchRecorded(c) PROVE TypeInv'
  <2>1. call' \in [Calls -> Asking]
    BY <1>3, CallMoves DEF BranchRecorded
  <2>2. call[c].node \in Nodes /\ call[c].tag \in Tags
    BY <1>3 DEF BranchRecorded, CallInv
  <2>3. [node |-> call[c].node, image |-> c] \in Record
    BY <2>2 DEF Record
  <2>4. QED
    BY <1>3, <2>1, <2>2, <2>3 DEF BranchRecorded, TypeInv, MasterType, NodeType
<1>4. ASSUME NEW s \in Children, NEW t \in Tags, NEW n \in Nodes, Fork(s, t, n) PROVE TypeInv'
  BY <1>4 DEF Fork, TypeInv, MasterType, NodeType, Row, Record
<1>5. ASSUME NEW s \in Children, DeleteChild(s) PROVE TypeInv'
  BY <1>5 DEF DeleteChild, TypeInv, MasterType, NodeType, Row
<1>6. ASSUME NEW t \in Tags, DeleteSnapshot(t) PROVE TypeInv'
  BY <1>6 DEF DeleteSnapshot, TypeInv, MasterType, NodeType
<1>7. QED
  BY <1>1, <1>2, <1>3, <1>4, <1>5, <1>6 DEF Api

\* Polls, restarts and the passing of time keep the types.
LEMMA TimeType ==
  ASSUME TypeInv,
         \/ \E n \in Nodes : Poll(n) \/ PollLost(n) \/ NodeRestarts(n)
         \/ \E n \in Nodes, t \in Tags : Age(n, t)
         \/ MasterRestarts
         \/ UNCHANGED vars
  PROVE  TypeInv'
<1>1. ASSUME NEW n \in Nodes, Poll(n) PROVE TypeInv'
  <2>1. PICK cr \in Orders(Missing(n)), de \in Orders(Unwanted(n)), dr \in Orders(Dropped(n)) :
          batch' = [batch EXCEPT ![n] = Commands(n, cr, de, dr)]
    BY <1>1 DEF Poll
  <2>2. Commands(n, cr, de, dr) \in Seq(Cmd)
    BY CommandsTold
  <2>3. QED
    BY <1>1, <2>1, <2>2, NothingTold DEF Poll, TypeInv, MasterType, NodeType
<1>2. ASSUME NEW n \in Nodes, PollLost(n) PROVE TypeInv'
  BY <1>2, NothingTold DEF PollLost, Fault, TypeInv, MasterType, NodeType
<1>3. ASSUME NEW n \in Nodes, NodeRestarts(n) PROVE TypeInv'
  <2>1. NoFetch \in Fetch
    BY DEF NoFetch, Fetch
  <2>2. QED
    BY <1>3, <2>1, NothingTold DEF NodeRestarts, TypeInv, MasterType, NodeType
<1>4. ASSUME NEW n \in Nodes, NEW t \in Tags, Age(n, t) PROVE TypeInv'
  BY <1>4 DEF Age, TypeInv, MasterType, NodeType
<1>5. ASSUME MasterRestarts PROVE TypeInv'
  <2>1. call' \in [Calls -> Asking]
    <3>1. \A c \in Calls : call[c] \in Asking /\ [call[c] EXCEPT !.pc = "failed"] \in Asking
      BY CallMoves DEF TypeInv, MasterType
    <3>2. QED
      BY <1>5, <3>1 DEF MasterRestarts
  <2>2. QED
    BY <1>5, <2>1, NothingTold DEF MasterRestarts, TypeInv, MasterType, NodeType
<1>6. ASSUME UNCHANGED vars PROVE TypeInv'
  BY <1>6 DEF vars, TypeInv, MasterType, NodeType
<1>7. QED
  BY <1>1, <1>2, <1>3, <1>4, <1>5, <1>6

\* The first command a node has.
LEMMA HeadOf ==
  ASSUME TypeInv, NEW n \in Nodes, NEW op, Now(n, op)
  PROVE  /\ batch[n] \in Seq(Cmd) /\ batch[n] # <<>> /\ Tail(batch[n]) \in Seq(Cmd)
         /\ Head(batch[n]) \in Cmd /\ Head(batch[n]).op = op
         /\ Head(batch[n]) \in Told(batch[n])
  BY RestTold DEF Now, TypeInv, NodeType

\* Running a command keeps the types.
LEMMA RunType ==
  ASSUME TypeInv, AskInv, RowInv, NEW n \in Nodes, Run(n)
  PROVE  TypeInv'
<1> DEFINE h == Head(batch[n])
<1>1. Advance(n) /\ batch[n] \in Seq(Cmd) /\ batch[n] # <<>> /\ Tail(batch[n]) \in Seq(Cmd)
      /\ h \in Cmd /\ CommandOK(n, h)
  <2>1. Advance(n) /\ \E op \in {"branch", "drop", "destroy", "create"} : Now(n, op)
    BY DEF Run, RunBranch, RunBranchFails, RunBranchUnheard, RunDrop, RunDestroy, RunCreate,
           RunCreateFetches, RunCreateNot
  <2>2. QED
    BY <2>1, HeadOf DEF AskInv, BatchInv
<1>2. batch' \in [Nodes -> Seq(Cmd)]
  BY <1>1 DEF Advance, TypeInv, NodeType
<1>3. ASSUME Now(n, "branch"), RunBranch(n) \/ RunBranchFails(n) \/ RunBranchUnheard(n)
      PROVE  TypeInv'
  <2> DEFINE c == h.of
             t == call[c].tag
  <2>1. c \in Calls /\ t \in Tags
    BY <1>1, <1>3, CmdKinds DEF Now, Branches, CommandOK, Asked, AskInv, CallInv
  <2>2. Whole(c) \in Image
    BY <2>1 DEF Whole, Image
  <2>3. \A pc \in {"answered", "failed"} : Answer(c, pc) => call' \in [Calls -> Asking]
    <3> SUFFICES ASSUME NEW pc \in {"answered", "failed"}, Answer(c, pc)
                 PROVE  call' \in [Calls -> Asking]
      OBVIOUS
    <3>1. [call EXCEPT ![c].pc = pc] \in [Calls -> Asking] /\ call \in [Calls -> Asking]
      BY <2>1, CallMoves DEF TypeInv, MasterType
    <3>2. QED
      BY <3>1 DEF Answer
  <2>4. CASE RunBranch(n)
    BY <1>2, <2>1, <2>2, <2>3, <2>4 DEF RunBranch, TypeInv, MasterType, NodeType
  <2>5. CASE RunBranchFails(n)
    BY <1>2, <2>1, <2>2, <2>3, <2>5 DEF RunBranchFails, TypeInv, MasterType, NodeType
  <2>6. CASE RunBranchUnheard(n)
    BY <1>2, <2>1, <2>2, <2>3, <2>6 DEF RunBranchUnheard, TypeInv, MasterType, NodeType
  <2>7. QED
    BY <1>3, <2>4, <2>5, <2>6
<1>4. ASSUME RunDrop(n) PROVE TypeInv'
  <2>1. h.of \in Tags
    BY <1>1, <1>4, CmdKinds DEF RunDrop, Now, Drops
  <2>2. QED
    BY <1>2, <1>4, <2>1 DEF RunDrop, TypeInv, MasterType, NodeType
<1>5. ASSUME RunDestroy(n) PROVE TypeInv'
  <2>1. h.of \in Children
    BY <1>1, <1>5, CmdKinds DEF RunDestroy, Now, Destroys
  <2>2. QED
    BY <1>2, <1>5, <2>1 DEF RunDestroy, TypeInv, MasterType, NodeType
<1>6. ASSUME Now(n, "create")
      PROVE  h.of \in Children /\ row[h.of].tag \in Tags /\ h.from \in Nodes \cup {Nil}
  BY <1>1, <1>6, CmdKinds DEF Now, Creates, CommandOK, RowInv
<1>7. ASSUME RunCreate(n) PROVE TypeInv'
  BY <1>2, <1>6, <1>7 DEF RunCreate, TypeInv, MasterType, NodeType
<1>8. ASSUME RunCreateFetches(n) PROVE TypeInv'
  <2>1. h.from \in Nodes \cup {Nil} /\ row[h.of].tag \in Tags
    BY <1>6, <1>8 DEF RunCreateFetches
  <2>2. [NoFetch EXCEPT !.st = "asking", !.from = h.from] \in Fetch
    BY <2>1 DEF NoFetch, Fetch
  <2>3. QED
    BY <1>2, <1>8, <2>1, <2>2 DEF RunCreateFetches, TypeInv, MasterType, NodeType
<1>9. ASSUME RunCreateNot(n) PROVE TypeInv'
  <2>1. NoFetch \in Fetch
    BY DEF NoFetch, Fetch
  <2>2. row[h.of].tag \in Tags
    BY <1>6, <1>9 DEF RunCreateNot
  <2>3. QED
    BY <1>2, <1>9, <2>1, <2>2 DEF RunCreateNot, TypeInv, MasterType, NodeType
<1>10. QED
  BY <1>3, <1>4, <1>5, <1>7, <1>8, <1>9
     DEF Run, RunBranch, RunBranchFails, RunBranchUnheard

\* A step of a fetch keeps the types.
LEMMA FetchType ==
  ASSUME TypeInv, FetchInv, NEW n \in Nodes, NEW t \in Tags, FetchStep(n, t)
  PROVE  TypeInv'
<1>1. fetch[n][t] \in Fetch /\ \A st \in {"none", "failed"} : [NoFetch EXCEPT !.st = st] \in Fetch
  BY DEF TypeInv, NodeType, NoFetch, Fetch
<1>2. CASE FetchManifest(n, t)
  <2>1. disk[fetch[n][t].from][t] \in Image
    BY <1>2 DEF FetchManifest, FetchInv, TypeInv, NodeType
  <2>2. QED
    BY <1>1, <1>2, <2>1 DEF FetchManifest, TypeInv, MasterType, NodeType, Fetch
<1>3. CASE FetchPlaced(n, t)
  <2>1. fetch[n][t].got \in Image
    BY <1>1, <1>3 DEF FetchPlaced, Fetch, Image
  <2>2. QED
    BY <1>1, <1>3, <2>1 DEF FetchPlaced, FetchEnds, TypeInv, MasterType, NodeType
<1>4. CASE FetchFails(n, t)
  BY <1>1, <1>4 DEF FetchFails, FetchEnds, TypeInv, MasterType, NodeType
<1>5. ASSUME NEW p \in Pieces, FetchPiece(n, t, p) PROVE TypeInv'
  <2>1. disk[fetch[n][t].from][t] \in Image
    BY <1>5 DEF FetchPiece, FetchInv, TypeInv, NodeType
  <2>2. disk[fetch[n][t].from][t][p] \in Calls
    BY <2>1 DEF Image
  <2>3. QED
    BY <1>1, <1>5, <2>2 DEF FetchPiece, TypeInv, MasterType, NodeType, Fetch
<1>6. QED
  BY <1>2, <1>3, <1>4, <1>5 DEF FetchStep

\* Every step keeps the types.
LEMMA NextType ==
  ASSUME TypeInv, AskInv, RowInv, [Next]_vars
  PROVE  TypeInv'
  BY ApiType, TimeType, RunType, FetchType DEF Next, AskInv, AtRest
(***************************************************************************)
(* What each step changes.                                                 *)
(***************************************************************************)
\* What each step leaves alone.
LEMMA Frames ==
  /\ \A c, t, n : BranchAsked(c, t, n) => UNCHANGED <<snapshots, row, batch, disk, aged, fetch, ran, written>>
  /\ \A c : BranchTimesOut(c) => UNCHANGED <<snapshots, row, queue, batch, disk, aged, fetch, ran, written>>
  /\ \A c : BranchRecorded(c) => UNCHANGED <<row, queue, batch, disk, aged, fetch, ran, written>>
  /\ \A s, t, n : Fork(s, t, n) => UNCHANGED <<snapshots, call, queue, batch, disk, aged, fetch, ran, written>>
  /\ \A s : DeleteChild(s) => UNCHANGED <<snapshots, call, queue, batch, disk, aged, fetch, ran, written>>
  /\ \A t : DeleteSnapshot(t) => UNCHANGED <<row, call, queue, batch, disk, aged, fetch, ran, written>>
  /\ \A n : Poll(n) => UNCHANGED <<snapshots, row, call, disk, aged, fetch, ran, written>>
  /\ \A n : PollLost(n) => UNCHANGED <<snapshots, row, call, batch, disk, aged, fetch, ran, written>>
  /\ \A n : RunBranch(n) => UNCHANGED <<snapshots, row, queue, fetch, ran>>
  /\ \A n : RunBranchFails(n) => UNCHANGED <<snapshots, row, queue, disk, aged, fetch, ran, written>>
  /\ \A n : RunBranchUnheard(n) => UNCHANGED <<snapshots, row, call, queue, fetch, ran>>
  /\ \A n : RunDrop(n) => UNCHANGED <<snapshots, row, call, queue, fetch, ran, written>>
  /\ \A n : RunDestroy(n) => UNCHANGED <<snapshots, row, call, queue, disk, aged, fetch, written>>
  /\ \A n : RunCreate(n) => UNCHANGED <<snapshots, row, call, queue, disk, aged, fetch, written>>
  /\ \A n : RunCreateFetches(n) => UNCHANGED <<snapshots, row, call, queue, disk, aged, ran, written>>
  /\ \A n : RunCreateNot(n) => UNCHANGED <<snapshots, row, call, queue, disk, aged, ran, written>>
  /\ \A n, t : FetchManifest(n, t) => UNCHANGED <<snapshots, row, call, queue, batch, disk, aged, ran, written>>
  /\ \A n, t, p : FetchPiece(n, t, p) => UNCHANGED <<snapshots, row, call, queue, batch, disk, aged, ran, written>>
  /\ \A n, t : FetchPlaced(n, t) => UNCHANGED <<snapshots, row, call, queue, batch, aged, ran, written>>
  /\ \A n, t : FetchFails(n, t) => UNCHANGED <<snapshots, row, call, queue, batch, disk, aged, ran, written>>
  /\ \A n, t : Age(n, t) => UNCHANGED <<snapshots, row, call, queue, batch, disk, fetch, ran, written>>
  /\ \A n : NodeRestarts(n) => UNCHANGED <<snapshots, row, call, queue, disk, aged, ran, written>>
  /\ MasterRestarts => UNCHANGED <<snapshots, row, batch, disk, aged, fetch, ran, written>>
  /\ AtRest => UNCHANGED <<snapshots, row, call, queue, batch, disk, aged, fetch, ran, written>>
<1>1. \A c, t, n : BranchAsked(c, t, n) => UNCHANGED <<snapshots, row, batch, disk, aged, fetch, ran, written>>
  BY DEF BranchAsked
<1>2. \A c : BranchTimesOut(c) => UNCHANGED <<snapshots, row, queue, batch, disk, aged, fetch, ran, written>>
  BY DEF BranchTimesOut
<1>3. \A c : BranchRecorded(c) => UNCHANGED <<row, queue, batch, disk, aged, fetch, ran, written>>
  BY DEF BranchRecorded
<1>4. \A s, t, n : Fork(s, t, n) => UNCHANGED <<snapshots, call, queue, batch, disk, aged, fetch, ran, written>>
  BY DEF Fork
<1>5. \A s : DeleteChild(s) => UNCHANGED <<snapshots, call, queue, batch, disk, aged, fetch, ran, written>>
  BY DEF DeleteChild
<1>6. \A t : DeleteSnapshot(t) => UNCHANGED <<row, call, queue, batch, disk, aged, fetch, ran, written>>
  BY DEF DeleteSnapshot
<1>7. \A n : Poll(n) => UNCHANGED <<snapshots, row, call, disk, aged, fetch, ran, written>>
  BY DEF Poll
<1>8. \A n : PollLost(n) => UNCHANGED <<snapshots, row, call, batch, disk, aged, fetch, ran, written>>
  BY DEF PollLost
<1>9. \A n : RunBranch(n) => UNCHANGED <<snapshots, row, queue, fetch, ran>>
  BY DEF RunBranch
<1>10. \A n : RunBranchFails(n) => UNCHANGED <<snapshots, row, queue, disk, aged, fetch, ran, written>>
  BY DEF RunBranchFails
<1>11. \A n : RunBranchUnheard(n) => UNCHANGED <<snapshots, row, call, queue, fetch, ran>>
  BY DEF RunBranchUnheard
<1>12. \A n : RunDrop(n) => UNCHANGED <<snapshots, row, call, queue, fetch, ran, written>>
  BY DEF RunDrop
<1>13. \A n : RunDestroy(n) => UNCHANGED <<snapshots, row, call, queue, disk, aged, fetch, written>>
  BY DEF RunDestroy
<1>14. \A n : RunCreate(n) => UNCHANGED <<snapshots, row, call, queue, disk, aged, fetch, written>>
  BY DEF RunCreate
<1>15. \A n : RunCreateFetches(n) => UNCHANGED <<snapshots, row, call, queue, disk, aged, ran, written>>
  BY DEF RunCreateFetches
<1>16. \A n : RunCreateNot(n) => UNCHANGED <<snapshots, row, call, queue, disk, aged, ran, written>>
  BY DEF RunCreateNot
<1>17. \A n, t : FetchManifest(n, t) => UNCHANGED <<snapshots, row, call, queue, batch, disk, aged, ran, written>>
  BY DEF FetchManifest
<1>18. \A n, t, p : FetchPiece(n, t, p) => UNCHANGED <<snapshots, row, call, queue, batch, disk, aged, ran, written>>
  BY DEF FetchPiece
<1>19. \A n, t : FetchPlaced(n, t) => UNCHANGED <<snapshots, row, call, queue, batch, aged, ran, written>>
  BY DEF FetchPlaced
<1>20. \A n, t : FetchFails(n, t) => UNCHANGED <<snapshots, row, call, queue, batch, disk, aged, ran, written>>
  BY DEF FetchFails
<1>21. \A n, t : Age(n, t) => UNCHANGED <<snapshots, row, call, queue, batch, disk, fetch, ran, written>>
  BY DEF Age
<1>22. \A n : NodeRestarts(n) => UNCHANGED <<snapshots, row, call, queue, disk, aged, ran, written>>
  BY DEF NodeRestarts
<1>23. MasterRestarts => UNCHANGED <<snapshots, row, batch, disk, aged, fetch, ran, written>>
  BY DEF MasterRestarts
<1>24. AtRest => UNCHANGED <<snapshots, row, call, queue, batch, disk, aged, fetch, ran, written>>
  BY DEF AtRest, vars
<1>25. QED
  BY <1>1, <1>2, <1>3, <1>4, <1>5, <1>6, <1>7, <1>8, <1>9, <1>10, <1>11, <1>12, <1>13, <1>14, <1>15, <1>16, <1>17, <1>18, <1>19, <1>20, <1>21, <1>22, <1>23, <1>24

\* Which steps change what the master keeps.
LEMMA MasterSteps ==
  ASSUME [Next]_vars
  PROVE  /\ \/ snapshots' = snapshots
            \/ \E c \in Calls : BranchRecorded(c)
            \/ \E t \in Tags : DeleteSnapshot(t)
         /\ \/ row' = row
            \/ \E s \in Children, t \in Tags, n \in Nodes : Fork(s, t, n)
            \/ \E s \in Children : DeleteChild(s)
         /\ \/ call' = call
            \/ \E c \in Calls, t \in Tags, n \in Nodes : BranchAsked(c, t, n)
            \/ \E c \in Calls : BranchRecorded(c) \/ BranchTimesOut(c)
            \/ \E n \in Nodes : RunBranch(n) \/ RunBranchFails(n)
            \/ MasterRestarts
         /\ \/ queue' = queue
            \/ \E c \in Calls, t \in Tags, n \in Nodes : BranchAsked(c, t, n)
            \/ \E n \in Nodes : Poll(n) \/ PollLost(n)
            \/ MasterRestarts
<1>1. \/ snapshots' = snapshots
      \/ \E c \in Calls : BranchRecorded(c)
      \/ \E t \in Tags : DeleteSnapshot(t)
  BY Frames DEF Next, Api, Run, FetchStep, vars
<1>2. \/ row' = row
      \/ \E s \in Children, t \in Tags, n \in Nodes : Fork(s, t, n)
      \/ \E s \in Children : DeleteChild(s)
  BY Frames DEF Next, Api, Run, FetchStep, vars
<1>3. \/ call' = call
      \/ \E c \in Calls, t \in Tags, n \in Nodes : BranchAsked(c, t, n)
      \/ \E c \in Calls : BranchRecorded(c) \/ BranchTimesOut(c)
      \/ \E n \in Nodes : RunBranch(n) \/ RunBranchFails(n)
      \/ MasterRestarts
  BY Frames DEF Next, Api, Run, FetchStep, vars
<1>4. \/ queue' = queue
      \/ \E c \in Calls, t \in Tags, n \in Nodes : BranchAsked(c, t, n)
      \/ \E n \in Nodes : Poll(n) \/ PollLost(n)
      \/ MasterRestarts
  BY Frames DEF Next, Api, Run, FetchStep, vars
<1>5. QED
  BY <1>1, <1>2, <1>3, <1>4

\* Which steps change what a node keeps.
LEMMA NodeSteps ==
  ASSUME [Next]_vars
  PROVE  /\ batch' = batch \/ \E n \in Nodes : Poll(n) \/ Run(n) \/ NodeRestarts(n)
         /\ \/ UNCHANGED <<disk, aged, written>>
            \/ \E n \in Nodes : RunBranch(n) \/ RunBranchUnheard(n) \/ RunDrop(n)
            \/ \E n \in Nodes, t \in Tags : FetchPlaced(n, t) \/ Age(n, t)
         /\ \/ fetch' = fetch
            \/ \E n \in Nodes : RunCreateFetches(n) \/ RunCreateNot(n) \/ NodeRestarts(n)
            \/ \E n \in Nodes, t \in Tags : FetchStep(n, t)
         /\ ran' = ran \/ \E n \in Nodes : RunDestroy(n) \/ RunCreate(n)
<1>1. batch' = batch \/ \E n \in Nodes : Poll(n) \/ Run(n) \/ NodeRestarts(n)
  BY Frames DEF Next, Api, Run, FetchStep, vars
<1>2. \/ UNCHANGED <<disk, aged, written>>
      \/ \E n \in Nodes : RunBranch(n) \/ RunBranchUnheard(n) \/ RunDrop(n)
      \/ \E n \in Nodes, t \in Tags : FetchPlaced(n, t) \/ Age(n, t)
  BY Frames DEF Next, Api, Run, FetchStep, vars
<1>3. \/ fetch' = fetch
      \/ \E n \in Nodes : RunCreateFetches(n) \/ RunCreateNot(n) \/ NodeRestarts(n)
      \/ \E n \in Nodes, t \in Tags : FetchStep(n, t)
  BY Frames DEF Next, Api, Run, FetchStep, vars
<1>4. ran' = ran \/ \E n \in Nodes : RunDestroy(n) \/ RunCreate(n)
  BY Frames DEF Next, Api, Run, FetchStep, vars
<1>5. QED
  BY <1>1, <1>2, <1>3, <1>4

\* The command a node runs, and what it is for.
LEMMA CommandFor ==
  ASSUME TypeInv, AskInv, RowInv, NEW n \in Nodes
  PROVE  /\ Now(n, "branch") =>
              /\ Head(batch[n]).of \in Calls /\ Asked(n, Head(batch[n]).of)
              /\ call[Head(batch[n]).of].tag \in Tags
         /\ Now(n, "drop") => Head(batch[n]).of \in Tags
         /\ Now(n, "destroy") => Head(batch[n]).of \in Children
         /\ Now(n, "create") =>
              /\ Head(batch[n]).of \in Children /\ Head(batch[n]).from \in Nodes \cup {Nil}
              /\ row[Head(batch[n]).of].st # "new" /\ row[Head(batch[n]).of].tag \in Tags
<1>1. \A op : Now(n, op) => /\ Head(batch[n]) \in Cmd /\ Head(batch[n]).op = op
                            /\ CommandOK(n, Head(batch[n]))
  BY HeadOf DEF AskInv, BatchInv
<1>2. ASSUME Now(n, "branch")
      PROVE  /\ Head(batch[n]).of \in Calls /\ Asked(n, Head(batch[n]).of)
             /\ call[Head(batch[n]).of].tag \in Tags
  BY <1>1, <1>2, CmdKinds DEF CommandOK, Asked, AskInv, CallInv, Branches
<1>3. Now(n, "drop") => Head(batch[n]).of \in Tags
  BY <1>1, CmdKinds DEF Drops
<1>4. Now(n, "destroy") => Head(batch[n]).of \in Children
  BY <1>1, CmdKinds DEF Destroys
<1>5. ASSUME Now(n, "create")
      PROVE  /\ Head(batch[n]).of \in Children /\ Head(batch[n]).from \in Nodes \cup {Nil}
             /\ row[Head(batch[n]).of].st # "new" /\ row[Head(batch[n]).of].tag \in Tags
  BY <1>1, <1>5, CmdKinds DEF CommandOK, RowInv, Creates
<1>6. QED
  BY <1>2, <1>3, <1>4, <1>5

\* A call that was made keeps its node and its tag, and is not opened again.
CallsMove ==
  \A c \in Calls : call[c].pc # "new" =>
    /\ call'[c].pc # "new" /\ call'[c].node = call[c].node /\ call'[c].tag = call[c].tag
    /\ call'[c].pc \in {"waiting", "answered"} => call[c].pc \in {"waiting", "answered"}

\* Every step keeps the calls that were made.
LEMMA CallsStep ==
  ASSUME TypeInv, AskInv, RowInv, [Next]_vars
  PROVE  CallsMove /\ CallInv'
<1>1. \A c \in Calls : call[c] \in Asking
  BY DEF TypeInv, MasterType
<1>2. CASE call' = call
  BY <1>2 DEF CallsMove, AskInv, CallInv
<1>3. ASSUME NEW c \in Calls, NEW t \in Tags, NEW n \in Nodes, BranchAsked(c, t, n)
      PROVE  CallsMove /\ CallInv'
  BY <1>1, <1>3 DEF BranchAsked, CallsMove, AskInv, CallInv, TypeInv, MasterType
<1>4. ASSUME NEW c \in Calls, BranchRecorded(c) \/ BranchTimesOut(c)
      PROVE  CallsMove /\ CallInv'
  <2>1. PICK pc \in {"done", "failed"} : call' = [call EXCEPT ![c].pc = pc] /\ call[c].pc # "new"
    BY <1>4 DEF BranchRecorded, BranchTimesOut
  <2>2. QED
    BY <1>1, <2>1 DEF CallsMove, AskInv, CallInv, TypeInv, MasterType, Asking
<1>5. ASSUME NEW n \in Nodes, RunBranch(n) \/ RunBranchFails(n)
      PROVE  CallsMove /\ CallInv'
  <2>1. PICK c \in Calls, pc \in {"answered", "failed"} : Answer(c, pc)
    BY <1>5, CommandFor DEF RunBranch, RunBranchFails
  <2>2. QED
    BY <1>1, <2>1 DEF Answer, CallsMove, AskInv, CallInv, TypeInv, MasterType, Asking
<1>6. CASE MasterRestarts
  BY <1>1, <1>6 DEF MasterRestarts, CallsMove, AskInv, CallInv, TypeInv, MasterType, Asking
<1>7. QED
  BY <1>2, <1>3, <1>4, <1>5, <1>6, MasterSteps

\* A row that was made keeps its tag and its image.
RowsMove ==
  \A s \in Children : row[s].st # "new" =>
    row'[s].st # "new" /\ row'[s].tag = row[s].tag /\ row'[s].image = row[s].image

\* Every step keeps the rows that were made.
LEMMA RowsStep ==
  ASSUME TypeInv, [Next]_vars
  PROVE  RowsMove
<1>1. \A s \in Children : row[s] \in Row
  BY DEF TypeInv, MasterType
<1>2. CASE row' = row
  BY <1>2 DEF RowsMove
<1>3. ASSUME NEW s \in Children, NEW t \in Tags, NEW n \in Nodes, Fork(s, t, n) PROVE RowsMove
  BY <1>1, <1>3 DEF Fork, RowsMove, TypeInv, MasterType
<1>4. ASSUME NEW s \in Children, DeleteChild(s) PROVE RowsMove
  BY <1>1, <1>4 DEF DeleteChild, RowsMove, TypeInv, MasterType, Row
<1>5. QED
  BY <1>2, <1>3, <1>4, MasterSteps
\* Nothing is ever taken from the record of what was written under a tag.
WrittenGrows == \A t \in Tags : written[t] \subseteq written'[t]

\* What a node has under a tag is as it was, or is put where nothing was, or goes.
DiskMove(n, t) ==
  \/ disk'[n][t] = disk[n][t]
  \/ disk[n][t] = Nil /\ \A p \in Pieces : disk'[n][t][p] \in written'[t]
  \/ disk'[n][t] = Nil /\ Now(n, "drop") /\ Head(batch[n]).of = t

\* What a node reports is what it reported and has still, or has just grown old.
AgedMove(n, t) ==
  /\ t \in aged'[n] => Age(n, t) \/ (t \in aged[n] /\ disk'[n][t] = disk[n][t])
  /\ t \in aged[n] => t \in aged'[n] \/ (Now(n, "drop") /\ Advance(n) /\ Head(batch[n]).of = t)

DisksMove == WrittenGrows /\ \A n \in Nodes, t \in Tags : DiskMove(n, t) /\ AgedMove(n, t)

\* A branch writes its image where there is none, whole.
LEMMA BranchWrites ==
  ASSUME TypeInv, AskInv, RowInv, AgedInv, NEW m \in Nodes, RunBranch(m) \/ RunBranchUnheard(m)
  PROVE  DisksMove
<1> DEFINE c == Head(batch[m]).of
           u == call[c].tag
<1>1. /\ c \in Calls /\ u \in Tags /\ disk[m][u] = Nil
      /\ disk' = [disk EXCEPT ![m][u] = Whole(c)]
      /\ aged' = [aged EXCEPT ![m] = @ \ {u}]
      /\ written' = [written EXCEPT ![u] = @ \cup {c}]
  BY CommandFor DEF RunBranch, RunBranchUnheard
<1> HIDE DEF c, u
<1>2. u \notin aged[m]
  BY <1>1 DEF AgedInv
<1>3. WrittenGrows
  BY <1>1 DEF WrittenGrows, TypeInv, NodeType
<1>4. ASSUME NEW n \in Nodes, NEW t \in Tags PROVE DiskMove(n, t) /\ AgedMove(n, t)
  <2>1. CASE n = m /\ t = u
    <3>1. disk'[n][t] = Whole(c) /\ c \in written'[t] /\ t \notin aged'[n]
      BY <1>1, <2>1 DEF TypeInv, NodeType
    <3>2. \A p \in Pieces : disk'[n][t][p] \in written'[t]
      BY <3>1 DEF Whole
    <3>3. QED
      BY <1>1, <1>2, <2>1, <3>1, <3>2 DEF DiskMove, AgedMove
  <2>2. CASE ~(n = m /\ t = u)
    <3>1. disk'[n][t] = disk[n][t] /\ (t \in aged'[n] <=> t \in aged[n])
      BY <1>1, <2>2 DEF TypeInv, NodeType
    <3>2. QED
      BY <3>1 DEF DiskMove, AgedMove
  <2>3. QED
    BY <2>1, <2>2
<1>5. QED
  BY <1>3, <1>4 DEF DisksMove

\* Every step moves what is on the disks in these ways.
LEMMA DisksStep ==
  ASSUME TypeInv, AskInv, RowInv, AgedInv, GotInv, [Next]_vars
  PROVE  DisksMove
<1>1. CASE UNCHANGED <<disk, aged, written>>
  BY <1>1 DEF DisksMove, WrittenGrows, DiskMove, AgedMove
<1>2. ASSUME NEW m \in Nodes, RunBranch(m) \/ RunBranchUnheard(m) PROVE DisksMove
  BY <1>2, BranchWrites
<1>3. ASSUME NEW m \in Nodes, RunDrop(m) PROVE DisksMove
  <2>1. /\ Now(m, "drop") /\ Advance(m) /\ Head(batch[m]).of \in Tags /\ written' = written
        /\ disk' = [disk EXCEPT ![m][Head(batch[m]).of] = Nil]
        /\ aged' = [aged EXCEPT ![m] = @ \ {Head(batch[m]).of}]
    BY <1>3, CommandFor DEF RunDrop
  <2>2. ASSUME NEW n \in Nodes, NEW t \in Tags PROVE DiskMove(n, t) /\ AgedMove(n, t)
    <3>1. CASE n = m /\ t = Head(batch[m]).of
      <4>1. disk'[n][t] = Nil /\ t \notin aged'[n]
        BY <2>1, <3>1 DEF TypeInv, NodeType
      <4>2. QED
        BY <2>1, <3>1, <4>1 DEF DiskMove, AgedMove
    <3>2. CASE ~(n = m /\ t = Head(batch[m]).of)
      <4>1. disk'[n][t] = disk[n][t] /\ (t \in aged'[n] <=> t \in aged[n])
        BY <2>1, <3>2 DEF TypeInv, NodeType
      <4>2. QED
        BY <4>1 DEF DiskMove, AgedMove
    <3>3. QED
      BY <3>1, <3>2
  <2>3. QED
    BY <2>1, <2>2 DEF DisksMove, WrittenGrows
<1>4. ASSUME NEW m \in Nodes, NEW u \in Tags, FetchPlaced(m, u) PROVE DisksMove
  <2>1. /\ written' = written /\ aged' = aged
        /\ disk' = IF disk[m][u] = Nil THEN [disk EXCEPT ![m][u] = fetch[m][u].got] ELSE disk
        /\ \A p \in Pieces : fetch[m][u].got[p] \in written[u]
    BY <1>4 DEF FetchPlaced, GotInv
  <2>2. ASSUME NEW n \in Nodes, NEW t \in Tags PROVE DiskMove(n, t) /\ AgedMove(n, t)
    <3>1. CASE n = m /\ t = u /\ disk[m][u] = Nil
      <4>1. disk'[n][t] = fetch[m][u].got /\ t \notin aged[n]
        BY <2>1, <3>1 DEF TypeInv, NodeType, AgedInv
      <4>2. QED
        BY <2>1, <3>1, <4>1 DEF DiskMove, AgedMove
    <3>2. CASE ~(n = m /\ t = u /\ disk[m][u] = Nil)
      <4>1. disk'[n][t] = disk[n][t]
        BY <2>1, <3>2 DEF TypeInv, NodeType
      <4>2. QED
        BY <2>1, <4>1 DEF DiskMove, AgedMove
    <3>3. QED
      BY <3>1, <3>2
  <2>3. QED
    BY <2>1, <2>2 DEF DisksMove, WrittenGrows
<1>5. ASSUME NEW m \in Nodes, NEW u \in Tags, Age(m, u) PROVE DisksMove
  <2>1. /\ disk' = disk /\ written' = written /\ aged' = [aged EXCEPT ![m] = @ \cup {u}]
    BY <1>5 DEF Age
  <2>2. ASSUME NEW n \in Nodes, NEW t \in Tags PROVE DiskMove(n, t) /\ AgedMove(n, t)
    <3>1. t \in aged'[n] => t \in aged[n] \/ (n = m /\ t = u)
      BY <2>1 DEF TypeInv, NodeType
    <3>2. t \in aged[n] => t \in aged'[n]
      BY <2>1 DEF TypeInv, NodeType
    <3>3. QED
      BY <1>5, <2>1, <3>1, <3>2 DEF DiskMove, AgedMove
  <2>3. QED
    BY <2>1, <2>2 DEF DisksMove, WrittenGrows
<1>6. QED
  BY <1>1, <1>2, <1>3, <1>4, <1>5, NodeSteps
(***************************************************************************)
(* Calls and commands.                                                     *)
(***************************************************************************)
\* A node's commands are as they were, fewer, none, or those of a poll.
BatchMove(n) ==
  \/ Told(batch'[n]) \subseteq Told(batch[n]) /\ (DropOnce(batch[n]) => DropOnce(batch'[n]))
  \/ /\ DropOnce(batch'[n])
     /\ \A c \in Told(batch'[n]) : /\ c.op = "create" => c.of \in Missing(n)
                                   /\ c.op = "drop" => c.of \in Dropped(n)
                                   /\ c.op = "branch" => c.of \in Told(queue[n])
     /\ UNCHANGED <<snapshots, row, call, disk, aged>>

\* Every step moves a node's commands in one of these ways.
LEMMA BatchStep ==
  ASSUME TypeInv, [Next]_vars, NEW n \in Nodes
  PROVE  BatchMove(n)
<1>1. CASE batch' = batch
  BY <1>1 DEF BatchMove
<1>2. ASSUME NEW m \in Nodes, Poll(m) PROVE BatchMove(n)
  <2>1. PICK cr \in Orders(Missing(m)), de \in Orders(Unwanted(m)), dr \in Orders(Dropped(m)) :
          batch' = [batch EXCEPT ![m] = Commands(m, cr, de, dr)]
    BY <1>2 DEF Poll
  <2>2. CASE n = m
    <3>1. batch'[n] = Commands(n, cr, de, dr)
      BY <2>1, <2>2 DEF TypeInv, NodeType
    <3>2. UNCHANGED <<snapshots, row, call, disk, aged>>
      BY <1>2 DEF Poll
    <3>3. /\ DropOnce(Commands(n, cr, de, dr))
          /\ \A c \in Told(Commands(n, cr, de, dr)) :
               /\ c.op = "create" => c.of \in Missing(n)
               /\ c.op = "drop" => c.of \in Dropped(n)
               /\ c.op = "branch" => c.of \in Told(queue[n])
      BY <2>2, CommandsTold
    <3>4. QED
      BY <3>1, <3>2, <3>3 DEF BatchMove
  <2>3. CASE n # m
    <3>1. batch'[n] = batch[n]
      BY <2>1, <2>3 DEF TypeInv, NodeType
    <3>2. QED
      BY <3>1 DEF BatchMove
  <2>4. QED
    BY <2>2, <2>3
<1>3. ASSUME NEW m \in Nodes, Run(m) PROVE BatchMove(n)
  <2>1. Advance(m) /\ batch[m] # <<>>
    BY <1>3 DEF Run, RunBranch, RunBranchFails, RunBranchUnheard, RunDrop, RunDestroy, RunCreate,
                RunCreateFetches, RunCreateNot, Now
  <2>2. batch'[n] = batch[n] \/ (batch[n] # <<>> /\ batch'[n] = Tail(batch[n]))
    BY <2>1 DEF Advance, TypeInv, NodeType
  <2>3. batch[n] \in Seq(Cmd)
    BY DEF TypeInv, NodeType
  <2>4. QED
    BY <2>2, <2>3, RestTold DEF BatchMove
<1>4. ASSUME NEW m \in Nodes, NodeRestarts(m) PROVE BatchMove(n)
  <2>1. batch'[n] = batch[n] \/ batch'[n] = <<>>
    BY <1>4 DEF NodeRestarts, TypeInv, NodeType
  <2>2. QED
    BY <2>1, NothingTold DEF BatchMove
<1>5. QED
  BY <1>1, <1>2, <1>3, <1>4, NodeSteps

\* Commands go on being for what was asked.
LEMMA CommandsStep ==
  ASSUME TypeInv, AskInv, RowInv, [Next]_vars
  PROVE  BatchInv'
<1>1. CallsMove /\ RowsMove
  BY CallsStep, RowsStep
<1>2. SUFFICES ASSUME NEW n \in Nodes, NEW c \in Told(batch'[n]) PROVE CommandOK(n, c)'
  BY DEF BatchInv
<1>3. TypeInv'
  BY NextType
<1>4. c \in Cmd
  <2>1. batch'[n] \in Seq(Cmd)
    BY <1>3 DEF TypeInv, NodeType
  <2>2. QED
    BY <1>2, <2>1, ElementOfSeq DEF Told
<1>5. ASSUME c \in Told(batch[n]) PROVE CommandOK(n, c)'
  <2>1. CommandOK(n, c)
    BY <1>5 DEF AskInv, BatchInv
  <2>2. ASSUME c.op = "branch" PROVE Asked(n, c.of)'
    <3>1. c.of \in Calls /\ Asked(n, c.of)
      BY <1>4, <2>1, <2>2, CmdKinds DEF CommandOK, Branches
    <3>2. QED
      BY <1>1, <3>1 DEF CallsMove, Asked
  <2>3. ASSUME c.op = "create" PROVE (row[c.of].st # "new")'
    <3>1. c.of \in Children /\ row[c.of].st # "new"
      BY <1>4, <2>1, <2>3, CmdKinds DEF CommandOK, Creates
    <3>2. QED
      BY <1>1, <3>1 DEF RowsMove
  <2>4. QED
    BY <2>2, <2>3 DEF CommandOK
<1>6. ASSUME UNCHANGED <<row, call>>, c.op = "create" => c.of \in Missing(n),
             c.op = "branch" => c.of \in Told(queue[n])
      PROVE  CommandOK(n, c)'
  BY <1>6 DEF CommandOK, Missing, AskInv, QueueInv, Asked
<1>7. QED
  BY <1>5, <1>6, BatchStep DEF BatchMove

\* The queues go on holding calls that were made.
LEMMA QueueStep ==
  ASSUME TypeInv, AskInv, RowInv, [Next]_vars
  PROVE  QueueInv'
<1>1. CallsMove
  BY CallsStep
<1>2. ASSUME NEW n \in Nodes, NEW c \in Told(queue[n]) PROVE c \in Calls /\ Asked(n, c)'
  <2>1. queue[n] \in Seq(Calls) /\ Asked(n, c)
    BY DEF TypeInv, MasterType, AskInv, QueueInv
  <2>2. c \in Calls
    BY <2>1, ElementOfSeq DEF Told
  <2>3. QED
    BY <1>1, <2>1, <2>2 DEF CallsMove, Asked
<1>3. ASSUME \A n \in Nodes : queue'[n] = queue[n] \/ queue'[n] = <<>> PROVE QueueInv'
  <2>1. ASSUME NEW n \in Nodes, NEW c \in Told(queue'[n]) PROVE Asked(n, c)'
    BY <1>2, <1>3, <2>1, NothingTold
  <2>2. QED
    BY <2>1 DEF QueueInv
<1>4. CASE queue' = queue
  BY <1>3, <1>4
<1>5. ASSUME NEW c \in Calls, NEW t \in Tags, NEW n \in Nodes, BranchAsked(c, t, n) PROVE QueueInv'
  <2>1. queue[n] \in Seq(Calls)
    BY DEF TypeInv, MasterType
  <2>2. Asked(n, c)'
    BY <1>5 DEF BranchAsked, Asked, TypeInv, MasterType
  <2>3. Told(queue'[n]) = Told(queue[n]) \cup {c}
    BY <1>5, <2>1, OneMore DEF BranchAsked, TypeInv, MasterType
  <2>4. \A m \in Nodes : m # n => queue'[m] = queue[m]
    BY <1>5 DEF BranchAsked, TypeInv, MasterType
  <2>5. ASSUME NEW m \in Nodes, NEW d \in Told(queue'[m]) PROVE Asked(m, d)'
    BY <1>2, <2>2, <2>3, <2>4, <2>5
  <2>6. QED
    BY <2>5 DEF QueueInv
<1>6. ASSUME NEW n \in Nodes, Poll(n) \/ PollLost(n) PROVE QueueInv'
  BY <1>3, <1>6 DEF Poll, PollLost, TypeInv, MasterType
<1>7. CASE MasterRestarts
  BY <1>3, <1>7 DEF MasterRestarts
<1>8. QED
  BY <1>4, <1>5, <1>6, <1>7, MasterSteps

\* A fetch that is under way has somewhere to fetch from.
LEMMA FetchesStep ==
  ASSUME TypeInv, AskInv, RowInv, [Next]_vars
  PROVE  FetchInv'
<1>1. FetchInv /\ \A n \in Nodes, t \in Tags : fetch[n][t] \in Fetch
  BY DEF AskInv, TypeInv, NodeType
<1>2. CASE fetch' = fetch
  BY <1>1, <1>2 DEF FetchInv
<1>3. ASSUME NEW n \in Nodes, RunCreateFetches(n) PROVE FetchInv'
  <2>1. row[Head(batch[n]).of].tag \in Tags /\ Head(batch[n]).from \in Nodes
    BY <1>3, CommandFor DEF RunCreateFetches
  <2>2. QED
    BY <1>1, <1>3, <2>1 DEF RunCreateFetches, NoFetch, FetchInv, TypeInv, NodeType
<1>4. ASSUME NEW n \in Nodes, RunCreateNot(n) PROVE FetchInv'
  <2>1. row[Head(batch[n]).of].tag \in Tags
    BY <1>4, CommandFor DEF RunCreateNot
  <2>2. QED
    BY <1>1, <1>4, <2>1 DEF RunCreateNot, NoFetch, FetchInv, TypeInv, NodeType
<1>5. ASSUME NEW n \in Nodes, NodeRestarts(n) PROVE FetchInv'
  BY <1>1, <1>5 DEF NodeRestarts, NoFetch, FetchInv, TypeInv, NodeType
<1>6. ASSUME NEW n \in Nodes, NEW t \in Tags, FetchManifest(n, t) PROVE FetchInv'
  BY <1>1, <1>6 DEF FetchManifest, FetchInv, TypeInv, NodeType, Fetch
<1>7. ASSUME NEW n \in Nodes, NEW t \in Tags, FetchPlaced(n, t) \/ FetchFails(n, t) PROVE FetchInv'
  <2>1. PICK st \in {"none", "failed"} : FetchEnds(n, t, st)
    BY <1>7 DEF FetchPlaced, FetchFails
  <2>2. QED
    BY <1>1, <2>1 DEF FetchEnds, NoFetch, FetchInv, TypeInv, NodeType
<1>8. ASSUME NEW n \in Nodes, NEW t \in Tags, NEW p \in Pieces, FetchPiece(n, t, p) PROVE FetchInv'
  BY <1>1, <1>8 DEF FetchPiece, FetchInv, TypeInv, NodeType, Fetch
<1>9. QED
  BY <1>2, <1>3, <1>4, <1>5, <1>6, <1>7, <1>8, NodeSteps DEF FetchStep

\* What is known of calls and commands stays so.
LEMMA AskStep ==
  ASSUME TypeInv, AskInv, RowInv, [Next]_vars
  PROVE  AskInv'
  BY CallsStep, QueueStep, CommandsStep, FetchesStep DEF AskInv
(***************************************************************************)
(* Where pieces come from.                                                 *)
(***************************************************************************)
\* What is written under a tag, there and on the disks, is of calls that were made.
LEMMA WrittenStep ==
  ASSUME TypeInv, AskInv, PieceInv, AgedInv, [Next]_vars
  PROVE  WrittenInv' /\ DiskInv'
<1>1. CallsMove /\ DisksMove
  BY CallsStep, DisksStep DEF PieceInv
<1>2. DiskInv'
  <2> SUFFICES ASSUME NEW n \in Nodes, NEW t \in Tags, NEW p \in Pieces, disk'[n][t] # Nil
               PROVE  disk'[n][t][p] \in written'[t]
    BY DEF DiskInv
  <2>1. DiskMove(n, t) /\ written[t] \subseteq written'[t]
    BY <1>1 DEF DisksMove, WrittenGrows
  <2>2. disk[n][t] # Nil => disk[n][t][p] \in written[t]
    BY DEF PieceInv, DiskInv
  <2>3. QED
    BY <2>1, <2>2 DEF DiskMove
<1>3. WrittenInv'
  <2> SUFFICES ASSUME NEW t \in Tags, NEW c \in written'[t] PROVE call'[c].pc # "new"
    BY DEF WrittenInv
  <2>1. c \in Calls /\ (call[c].pc # "new" => call'[c].pc # "new")
    <3>1. TypeInv'
      BY NextType DEF PieceInv
    <3>2. c \in Calls
      BY <3>1 DEF TypeInv, NodeType
    <3>3. QED
      BY <1>1, <3>2 DEF CallsMove
  <2>2. call[c].pc # "new"
    <3>1. CASE c \in written[t]
      BY <3>1 DEF PieceInv, WrittenInv
    <3>2. ASSUME NEW n \in Nodes, RunBranch(n) \/ RunBranchUnheard(n) PROVE call[c].pc # "new"
      <4>1. /\ Asked(n, Head(batch[n]).of)
            /\ written' = [written EXCEPT ![call[Head(batch[n]).of].tag] = @ \cup {Head(batch[n]).of}]
        BY <3>2, CommandFor DEF RunBranch, RunBranchUnheard, PieceInv
      <4>2. c \in written[t] \/ c = Head(batch[n]).of
        BY <4>1 DEF TypeInv, NodeType
      <4>3. QED
        BY <3>1, <4>1, <4>2 DEF Asked
    <3>3. ASSUME ~ \E n \in Nodes : RunBranch(n) \/ RunBranchUnheard(n) PROVE c \in written[t]
      <4>1. written' = written
        BY <3>3, NodeSteps, Frames
      <4>2. QED
        BY <4>1
    <3>4. QED
      BY <3>1, <3>2, <3>3
  <2>3. QED
    BY <2>1, <2>2
<1>4. QED
  BY <1>2, <1>3

\* What a fetch has got came from a disk.
LEMMA GotStep ==
  ASSUME TypeInv, AskInv, PieceInv, AgedInv, [Next]_vars
  PROVE  GotInv'
<1>1. \A t \in Tags : written[t] \subseteq written'[t]
  BY DisksStep DEF PieceInv, DisksMove, WrittenGrows
<1>2. GotInv /\ \A n \in Nodes, t \in Tags : fetch[n][t] \in Fetch
  BY DEF PieceInv, TypeInv, NodeType
<1>3. \A p \in Pieces : NoFetch.got[p] = Nil
  BY DEF NoFetch
<1>4. SUFFICES ASSUME NEW n \in Nodes, NEW t \in Tags, NEW p \in Pieces
               PROVE  fetch'[n][t].got[p] \in written[t] \cup {Nil}
  BY <1>1 DEF GotInv
<1>5. CASE fetch' = fetch
  BY <1>2, <1>5 DEF GotInv
<1>6. ASSUME NEW m \in Nodes, RunCreateFetches(m) PROVE fetch'[n][t].got[p] \in written[t] \cup {Nil}
  <2>1. row[Head(batch[m]).of].tag \in Tags
    BY <1>6, CommandFor DEF RunCreateFetches, PieceInv
  <2>2. QED
    BY <1>2, <1>6, <2>1 DEF RunCreateFetches, NoFetch, GotInv, TypeInv, NodeType
<1>7. ASSUME NEW m \in Nodes, RunCreateNot(m) PROVE fetch'[n][t].got[p] \in written[t] \cup {Nil}
  <2>1. row[Head(batch[m]).of].tag \in Tags
    BY <1>7, CommandFor DEF RunCreateNot, PieceInv
  <2>2. QED
    BY <1>2, <1>7, <2>1 DEF RunCreateNot, NoFetch, GotInv, TypeInv, NodeType
<1>8. ASSUME NEW m \in Nodes, NodeRestarts(m) PROVE fetch'[n][t].got[p] \in written[t] \cup {Nil}
  BY <1>2, <1>3, <1>8 DEF NodeRestarts, GotInv, TypeInv, NodeType
<1>9. ASSUME NEW m \in Nodes, NEW u \in Tags, FetchManifest(m, u)
      PROVE  fetch'[n][t].got[p] \in written[t] \cup {Nil}
  BY <1>2, <1>9 DEF FetchManifest, GotInv, TypeInv, NodeType, Fetch
<1>10. ASSUME NEW m \in Nodes, NEW u \in Tags, FetchPlaced(m, u) \/ FetchFails(m, u)
       PROVE  fetch'[n][t].got[p] \in written[t] \cup {Nil}
  <2>1. PICK st \in {"none", "failed"} : FetchEnds(m, u, st)
    BY <1>10 DEF FetchPlaced, FetchFails
  <2>2. QED
    BY <1>2, <2>1 DEF FetchEnds, NoFetch, GotInv, TypeInv, NodeType
<1>11. ASSUME NEW m \in Nodes, NEW u \in Tags, NEW q \in Pieces, FetchPiece(m, u, q)
       PROVE  fetch'[n][t].got[p] \in written[t] \cup {Nil}
  <2>1. /\ fetch[m][u].from \in Nodes /\ disk[fetch[m][u].from][u] # Nil
        /\ fetch' = [fetch EXCEPT ![m][u].got[q] = disk[fetch[m][u].from][u][q]]
    BY <1>11 DEF FetchPiece, AskInv, FetchInv
  <2>2. disk[fetch[m][u].from][u][q] \in written[u]
    BY <2>1 DEF PieceInv, DiskInv
  <2>3. CASE n = m /\ t = u
    <3>1. /\ fetch'[n][t].got = [fetch[n][t].got EXCEPT ![q] = disk[fetch[m][u].from][u][q]]
          /\ fetch[n][t].got \in [Pieces -> Calls \cup {Nil}]
      <4>1. fetch[n][t] \in Fetch /\ fetch[n][t].got \in [Pieces -> Calls \cup {Nil}]
        BY <1>2 DEF Fetch
      <4>2. fetch'[n][t] =
              [fetch[n][t] EXCEPT !.got = [@ EXCEPT ![q] = disk[fetch[m][u].from][u][q]]]
        BY <2>1, <2>3 DEF TypeInv, NodeType
      <4>3. QED
        BY <4>1, <4>2 DEF Fetch
    <3>2. QED
      BY <1>2, <2>2, <2>3, <3>1 DEF GotInv
  <2>4. CASE ~(n = m /\ t = u)
    <3>1. fetch'[n][t] = fetch[n][t]
      BY <2>1, <2>4 DEF TypeInv, NodeType
    <3>2. QED
      BY <1>2, <3>1 DEF GotInv
  <2>5. QED
    BY <2>3, <2>4
<1>12. QED
  BY <1>5, <1>6, <1>7, <1>8, <1>9, <1>10, <1>11, NodeSteps DEF FetchStep

\* Records and rows name images that were written under their tag.
LEMMA RecordsStep ==
  ASSUME TypeInv, AskInv, PieceInv, KeepInv, [Next]_vars
  PROVE  RecordInv' /\ RowInv'
<1>1. \A t \in Tags : written[t] \subseteq written'[t]
  BY DisksStep DEF PieceInv, KeepInv, DisksMove, WrittenGrows
<1>2. RecordInv'
  <2>1. CASE snapshots' = snapshots
    BY <1>1, <2>1 DEF PieceInv, RecordInv
  <2>2. ASSUME NEW t \in Tags, DeleteSnapshot(t) PROVE RecordInv'
    BY <1>1, <2>2 DEF DeleteSnapshot, PieceInv, RecordInv, TypeInv, MasterType
  <2>3. ASSUME NEW c \in Calls, BranchRecorded(c) PROVE RecordInv'
    <3>1. call[c].node \in Nodes /\ call[c].tag \in Tags /\ disk[call[c].node][call[c].tag] = Whole(c)
      BY <2>3 DEF BranchRecorded, AskInv, CallInv, KeepInv, AnsweredInv
    <3>2. Whole(c) \in Image /\ \E p \in Pieces : Whole(c)[p] = c
      BY TagImagesAssumption DEF Whole, Image
    <3>3. c \in written[call[c].tag]
      BY <3>1, <3>2, TagImagesAssumption DEF PieceInv, DiskInv, Image
    <3>4. QED
      BY <1>1, <2>3, <3>1, <3>3 DEF BranchRecorded, PieceInv, RecordInv, TypeInv, MasterType
  <2>4. QED
    BY <2>1, <2>2, <2>3, MasterSteps
<1>3. RowInv'
  <2>1. CASE row' = row
    BY <1>1, <2>1 DEF PieceInv, RowInv
  <2>2. ASSUME NEW s \in Children, DeleteChild(s) PROVE RowInv'
    <3>1. RowsMove
      BY RowsStep
    <3>2. \A r \in Children : row'[r].st # "new" => row[r].st # "new"
      BY <2>2 DEF DeleteChild, TypeInv, MasterType
    <3>3. QED
      BY <1>1, <3>1, <3>2 DEF RowsMove, PieceInv, RowInv
  <2>3. ASSUME NEW s \in Children, NEW t \in Tags, NEW n \in Nodes, Fork(s, t, n) PROVE RowInv'
    <3>1. snapshots[t].image \in written[t]
      BY <2>3 DEF Fork, PieceInv, RecordInv
    <3>2. QED
      BY <1>1, <2>3, <3>1 DEF Fork, PieceInv, RowInv, TypeInv, MasterType
  <2>4. QED
    BY <2>1, <2>2, <2>3, MasterSteps
<1>4. QED
  BY <1>2, <1>3

\* What a child runs is made of what was written under its tag.
LEMMA RanStep ==
  ASSUME TypeInv, AskInv, PieceInv, AgedInv, [Next]_vars
  PROVE  RanInv'
<1>1. RowsMove /\ \A t \in Tags : written[t] \subseteq written'[t]
  BY RowsStep, DisksStep DEF PieceInv, DisksMove, WrittenGrows
<1>2. SUFFICES ASSUME NEW s \in Children, ran'[s] # Nil
               PROVE  row[s].st # "new" /\ \A p \in Pieces : ran'[s][p] \in written[row[s].tag]
  <2>1. ASSUME NEW s \in Children, ran'[s] # Nil, row[s].st # "new",
               \A p \in Pieces : ran'[s][p] \in written[row[s].tag]
        PROVE  row'[s].st # "new" /\ \A p \in Pieces : ran'[s][p] \in written'[row'[s].tag]
    BY <1>1, <2>1 DEF RowsMove, PieceInv, RowInv
  <2>2. QED
    BY <1>2, <2>1 DEF RanInv
<1>3. CASE ran' = ran
  BY <1>2, <1>3 DEF PieceInv, RanInv
<1>4. ASSUME NEW n \in Nodes, RunDestroy(n)
      PROVE  row[s].st # "new" /\ \A p \in Pieces : ran'[s][p] \in written[row[s].tag]
  <2>1. ran'[s] = ran[s]
    BY <1>2, <1>4 DEF RunDestroy, TypeInv, NodeType
  <2>2. QED
    BY <1>2, <2>1 DEF PieceInv, RanInv
<1>5. ASSUME NEW n \in Nodes, RunCreate(n)
      PROVE  row[s].st # "new" /\ \A p \in Pieces : ran'[s][p] \in written[row[s].tag]
  <2> DEFINE r == Head(batch[n]).of
             t == row[r].tag
  <2>1. /\ r \in Children /\ row[r].st # "new" /\ t \in Tags /\ disk[n][t] # Nil
        /\ ran' = [ran EXCEPT ![r] = disk[n][t]]
    BY <1>5, CommandFor DEF RunCreate, PieceInv
  <2>2. \A p \in Pieces : disk[n][t][p] \in written[t]
    BY <2>1 DEF PieceInv, DiskInv
  <2> HIDE DEF r
  <2>3. CASE s = r
    <3>1. ran'[s] = disk[n][t]
      BY <2>1, <2>3 DEF TypeInv, NodeType
    <3>2. QED
      BY <2>1, <2>2, <2>3, <3>1
  <2>4. CASE s # r
    <3>1. ran'[s] = ran[s]
      BY <2>1, <2>4 DEF TypeInv, NodeType
    <3>2. QED
      BY <1>2, <3>1 DEF PieceInv, RanInv
  <2>5. QED
    BY <2>3, <2>4
<1>6. QED
  BY <1>3, <1>4, <1>5, NodeSteps

\* Pieces go on coming from where they came from.
LEMMA PieceStep ==
  ASSUME TypeInv, AskInv, PieceInv, KeepInv, [Next]_vars
  PROVE  PieceInv'
<1>1. AgedInv
  BY DEF KeepInv
<1>2. QED
  BY <1>1, WrittenStep, GotStep, RecordsStep, RanStep DEF PieceInv
(***************************************************************************)
(* Why a recorded image stays.                                             *)
(***************************************************************************)
\* An image written in one piece is an image.
LEMMA WholeIs ==
  ASSUME NEW c \in Calls
  PROVE  Whole(c) \in Image /\ Whole(c) # Nil /\ \A p \in Pieces : Whole(c)[p] = c
  BY TagImagesAssumption DEF Whole, Image

\* What a node is about to drop it has, and neither an open call nor a record
\* is of it.
LEMMA DropIsSafe ==
  ASSUME TypeInv, AskInv, RowInv, KeepInv, NEW n \in Nodes, Now(n, "drop")
  PROVE  LET t == Head(batch[n]).of
         IN  /\ t \in aged[n] /\ (snapshots[t] # Nil => snapshots[t].node # n)
             /\ \A c \in Calls : call[c].pc = "answered" => disk[n][t] # Whole(c)
<1>1. DropOK(n, Head(batch[n]).of)
  BY HeadOf DEF KeepInv, DropInv
<1>2. QED
  BY <1>1 DEF DropOK, KeepInv, AgedInv

\* A handler with its answer goes on having its image.
LEMMA AnsweredStep ==
  ASSUME TypeInv, AskInv, PieceInv, KeepInv, [Next]_vars
  PROVE  AnsweredInv'
<1>1. CallsMove /\ DisksMove
  BY CallsStep, DisksStep DEF PieceInv, KeepInv
<1>2. SUFFICES ASSUME NEW c \in Calls, call'[c].pc = "answered"
               PROVE  disk'[call'[c].node][call'[c].tag] = Whole(c)
  BY DEF AnsweredInv
<1>3. CASE call[c].pc = "answered"
  <2>1. /\ call'[c].node = call[c].node /\ call'[c].tag = call[c].tag
        /\ call[c].node \in Nodes /\ call[c].tag \in Tags
    BY <1>1, <1>3 DEF CallsMove, AskInv, CallInv
  <2>2. disk[call[c].node][call[c].tag] = Whole(c) /\ Whole(c) # Nil
    BY <1>3, WholeIs DEF KeepInv, AnsweredInv
  <2>3. ~(Now(call[c].node, "drop") /\ Head(batch[call[c].node]).of = call[c].tag)
    BY <1>3, <2>1, <2>2, DropIsSafe DEF PieceInv
  <2>4. DiskMove(call[c].node, call[c].tag)
    BY <1>1, <2>1 DEF DisksMove
  <2>5. QED
    BY <2>1, <2>2, <2>3, <2>4 DEF DiskMove
<1>4. CASE call[c].pc # "answered"
  <2>1. PICK n \in Nodes : RunBranch(n) /\ c = Head(batch[n]).of
    <3>1. \A d \in Calls : call[d] \in Asking
      BY DEF TypeInv, MasterType
    <3>2. call' # call
      BY <1>2, <1>4
    <3>3. ASSUME NEW d \in Calls, NEW t \in Tags, NEW n \in Nodes, BranchAsked(d, t, n) PROVE FALSE
      BY <1>2, <1>4, <3>1, <3>3 DEF BranchAsked, TypeInv, MasterType
    <3>4. ASSUME NEW d \in Calls, BranchRecorded(d) \/ BranchTimesOut(d) PROVE FALSE
      <4>1. PICK pc \in {"done", "failed"} : call' = [call EXCEPT ![d].pc = pc]
        BY <3>4 DEF BranchRecorded, BranchTimesOut
      <4>2. QED
        BY <1>2, <1>4, <3>1, <4>1 DEF TypeInv, MasterType, Asking
    <3>5. ASSUME MasterRestarts PROVE FALSE
      BY <1>2, <1>4, <3>1, <3>5 DEF MasterRestarts, Asking
    <3>6. ASSUME NEW n \in Nodes, RunBranchFails(n) PROVE FALSE
      <4>1. PICK d \in Calls : Answer(d, "failed")
        BY <3>6, CommandFor DEF RunBranchFails, PieceInv
      <4>2. QED
        BY <1>2, <1>4, <3>1, <4>1 DEF Answer, TypeInv, MasterType, Asking
    <3>7. PICK n \in Nodes : RunBranch(n)
      BY <3>2, <3>3, <3>4, <3>5, <3>6, MasterSteps
    <3>8. Head(batch[n]).of \in Calls /\ Answer(Head(batch[n]).of, "answered")
      BY <3>7, CommandFor DEF RunBranch, PieceInv
    <3>9. c = Head(batch[n]).of
      BY <1>2, <1>4, <3>1, <3>8 DEF Answer, TypeInv, MasterType, Asking
    <3>10. QED
      BY <3>7, <3>9
  <2>2. /\ Asked(n, c) /\ call[c].tag \in Tags
        /\ disk' = [disk EXCEPT ![n][call[c].tag] = Whole(c)]
    BY <2>1, CommandFor DEF RunBranch, PieceInv
  <2>3. call'[c].node = n /\ call'[c].tag = call[c].tag
    BY <1>1, <2>2 DEF CallsMove, Asked
  <2>4. QED
    BY <2>2, <2>3 DEF TypeInv, NodeType
<1>5. QED
  BY <1>3, <1>4

\* What is reported is of no open call.
LEMMA AgedStep ==
  ASSUME TypeInv, AskInv, PieceInv, KeepInv, [Next]_vars
  PROVE  AgedInv'
<1>1. CallsMove /\ DisksMove
  BY CallsStep, DisksStep DEF PieceInv, KeepInv
<1>2. SUFFICES ASSUME NEW n \in Nodes, NEW t \in aged'[n]
               PROVE  /\ disk'[n][t] # Nil
                      /\ \A c \in Calls : call'[c].pc \in {"waiting", "answered"} =>
                                            disk'[n][t] # Whole(c)
  BY DEF AgedInv
<1>3. t \in Tags
  <2>1. TypeInv'
    BY NextType DEF PieceInv
  <2>2. QED
    BY <2>1 DEF TypeInv, NodeType
<1>4. disk'[n][t] = disk[n][t] /\ disk[n][t] # Nil
      /\ \A c \in Calls : call[c].pc \in {"waiting", "answered"} => disk[n][t] # Whole(c)
  <2>1. AgedMove(n, t)
    BY <1>1, <1>3 DEF DisksMove
  <2>2. CASE Age(n, t)
    BY <2>2 DEF Age
  <2>3. CASE t \in aged[n] /\ disk'[n][t] = disk[n][t]
    BY <2>3 DEF KeepInv, AgedInv
  <2>4. QED
    BY <2>1, <2>2, <2>3 DEF AgedMove
<1>5. ASSUME NEW c \in Calls, call'[c].pc \in {"waiting", "answered"}, disk[n][t] = Whole(c)
      PROVE  FALSE
  <2>1. PICK p \in Pieces : TRUE
    BY TagImagesAssumption
  <2>2. c \in written[t]
    BY <1>3, <1>4, <1>5, <2>1, WholeIs DEF PieceInv, DiskInv
  <2>3. call[c].pc # "new"
    BY <1>3, <2>2 DEF PieceInv, WrittenInv
  <2>4. QED
    BY <1>1, <1>4, <1>5, <2>3 DEF CallsMove
<1>6. QED
  BY <1>4, <1>5

\* What a node has been told to drop goes on being reported and off the record.
LEMMA DropStep ==
  ASSUME TypeInv, AskInv, PieceInv, KeepInv, [Next]_vars
  PROVE  DropInv' /\ DropOnceInv'
<1>1. DisksMove
  BY DisksStep DEF PieceInv, KeepInv
<1>2. DropOnceInv'
  <2>1. ASSUME NEW n \in Nodes PROVE DropOnce(batch'[n])
    BY BatchStep DEF BatchMove, KeepInv, DropOnceInv
  <2>2. QED
    BY <2>1 DEF DropOnceInv
<1>3. SUFFICES ASSUME NEW n \in Nodes, NEW c \in Told(batch'[n]), c.op = "drop"
               PROVE  DropOK(n, c.of)'
  BY <1>2 DEF DropInv
<1>4. CASE c.of \in Dropped(n) /\ UNCHANGED <<snapshots, row, call, disk, aged>>
  BY <1>4 DEF Dropped, DropOK
<1>5. CASE c \in Told(batch[n])
  <2>1. DropOK(n, c.of)
    BY <1>3, <1>5 DEF KeepInv, DropInv
  <2>2. c.of \in Tags
    BY <2>1 DEF DropOK, TypeInv, NodeType
  <2>3. c.of \in aged'[n]
    <3>1. AgedMove(n, c.of)
      BY <1>1, <2>2 DEF DisksMove
    <3>2. ASSUME Now(n, "drop"), Advance(n), Head(batch[n]).of = c.of PROVE FALSE
      <4>1. batch[n] \in Seq(Cmd) /\ batch[n] # <<>> /\ Head(batch[n]).op = "drop"
            /\ batch'[n] = Tail(batch[n]) /\ DropOnce(batch[n])
        BY <3>2 DEF Now, Advance, TypeInv, NodeType, KeepInv, DropOnceInv
      <4>2. QED
        BY <1>3, <3>2, <4>1, RestTold
    <3>3. QED
      BY <2>1, <3>1, <3>2 DEF AgedMove, DropOK
  <2>4. ASSUME snapshots'[c.of] # Nil, snapshots'[c.of].node = n PROVE FALSE
    <3>1. CASE snapshots'[c.of] = snapshots[c.of]
      BY <2>1, <2>4, <3>1 DEF DropOK
    <3>2. ASSUME NEW t \in Tags, DeleteSnapshot(t) PROVE FALSE
      BY <2>2, <2>4, <3>1, <3>2 DEF DeleteSnapshot, TypeInv, MasterType
    <3>3. ASSUME NEW d \in Calls, BranchRecorded(d) PROVE FALSE
      <4>1. /\ call[d].pc = "answered" /\ call[d].tag \in Tags /\ call[d].node \in Nodes
            /\ disk[call[d].node][call[d].tag] = Whole(d)
            /\ snapshots' = [snapshots EXCEPT ![call[d].tag] = [node |-> call[d].node, image |-> d]]
        BY <3>3 DEF BranchRecorded, AskInv, CallInv, KeepInv, AnsweredInv
      <4>2. call[d].tag = c.of /\ call[d].node = n
        BY <2>2, <2>4, <3>1, <4>1 DEF TypeInv, MasterType
      <4>3. QED
        BY <2>1, <4>1, <4>2 DEF DropOK, KeepInv, AgedInv
    <3>4. QED
      BY <3>1, <3>2, <3>3, MasterSteps
  <2>5. QED
    BY <2>3, <2>4 DEF DropOK
<1>6. QED
  BY <1>3, <1>4, <1>5, BatchStep DEF BatchMove

\* A tag on record goes on having its image, and a tag in use its record.
LEMMA TagStep ==
  ASSUME TypeInv, AskInv, PieceInv, KeepInv, [Next]_vars
  PROVE  TagKept'
<1>1. DisksMove
  BY DisksStep DEF PieceInv, KeepInv
<1>2. ASSUME NEW t \in Tags, snapshots[t] # Nil
      PROVE  disk'[snapshots[t].node][t] = Whole(snapshots[t].image)
  <2>1. snapshots[t].node \in Nodes /\ snapshots[t].image \in Calls
    BY <1>2 DEF TypeInv, MasterType, Record
  <2>2. disk[snapshots[t].node][t] = Whole(snapshots[t].image) /\ Whole(snapshots[t].image) # Nil
    BY <1>2, <2>1, WholeIs DEF KeepInv, TagKept
  <2>3. ~(Now(snapshots[t].node, "drop") /\ Head(batch[snapshots[t].node]).of = t)
    BY <1>2, <2>1, DropIsSafe DEF PieceInv
  <2>4. DiskMove(snapshots[t].node, t)
    BY <1>1, <2>1 DEF DisksMove
  <2>5. QED
    BY <2>2, <2>3, <2>4 DEF DiskMove
<1>3. ASSUME NEW t \in Tags, snapshots'[t] # Nil
      PROVE  disk'[snapshots'[t].node][t] = Whole(snapshots'[t].image)
  <2>1. CASE snapshots'[t] = snapshots[t]
    BY <1>2, <1>3, <2>1
  <2>2. ASSUME NEW u \in Tags, DeleteSnapshot(u) PROVE snapshots'[t] = snapshots[t]
    BY <1>3, <2>2 DEF DeleteSnapshot, TypeInv, MasterType
  <2>3. ASSUME NEW c \in Calls, BranchRecorded(c), snapshots'[t] # snapshots[t]
        PROVE  disk'[snapshots'[t].node][t] = Whole(snapshots'[t].image)
    <3>1. /\ call[c].pc = "answered" /\ disk' = disk
          /\ disk[call[c].node][call[c].tag] = Whole(c)
          /\ snapshots' = [snapshots EXCEPT ![call[c].tag] = [node |-> call[c].node, image |-> c]]
      BY <2>3 DEF BranchRecorded, KeepInv, AnsweredInv
    <3>2. t = call[c].tag /\ snapshots'[t] = [node |-> call[c].node, image |-> c]
      BY <2>3, <3>1 DEF TypeInv, MasterType
    <3>3. QED
      BY <3>1, <3>2
  <2>4. QED
    BY <2>1, <2>2, <2>3, MasterSteps
<1>4. ASSUME NEW s \in Children, row'[s].st = "live" PROVE snapshots'[row'[s].tag] # Nil
  <2>1. ASSUME NEW t \in Tags, snapshots[t] # Nil, snapshots'[t] = Nil
        PROVE  DeleteSnapshot(t)
    <3>1. ASSUME NEW c \in Calls, BranchRecorded(c) PROVE FALSE
      <4>1. call[c].tag \in Tags /\ [node |-> call[c].node, image |-> c] \in Record
        BY <3>1 DEF BranchRecorded, AskInv, CallInv, Record
      <4>2. QED
        BY <2>1, <3>1, <4>1, TagImagesAssumption DEF BranchRecorded, Record, TypeInv, MasterType
    <3>2. ASSUME NEW u \in Tags, DeleteSnapshot(u) PROVE DeleteSnapshot(t)
      BY <2>1, <3>2 DEF DeleteSnapshot, TypeInv, MasterType
    <3>3. QED
      BY <2>1, <3>1, <3>2, MasterSteps
  <2>2. CASE row[s].st = "live"
    <3>1. row'[s].tag = row[s].tag /\ row[s].tag \in Tags /\ snapshots[row[s].tag] # Nil
      BY <2>2, RowsStep DEF RowsMove, PieceInv, RowInv, KeepInv, TagKept
    <3>2. ~ DeleteSnapshot(row[s].tag)
      BY <2>2 DEF DeleteSnapshot, ChildrenOf
    <3>3. QED
      BY <2>1, <3>1, <3>2
  <2>3. CASE row[s].st # "live"
    <3>1. PICK r \in Children, t \in Tags, n \in Nodes : Fork(r, t, n)
      <4>1. row' # row
        BY <1>4, <2>3
      <4>2. ASSUME NEW r \in Children, DeleteChild(r) PROVE FALSE
        BY <1>4, <2>3, <4>2 DEF DeleteChild, TypeInv, MasterType, Row
      <4>3. QED
        BY <4>1, <4>2, MasterSteps
    <3>2. s = r
      BY <1>4, <2>3, <3>1 DEF Fork, TypeInv, MasterType
    <3>3. QED
      BY <3>1, <3>2 DEF Fork, TypeInv, MasterType
  <2>4. QED
    BY <2>2, <2>3
<1>5. QED
  BY <1>3, <1>4 DEF TagKept

\* Every step keeps what is known.
LEMMA ImageStep ==
  ASSUME TypeInv, ImageInv, [Next]_vars
  PROVE  TypeInv' /\ ImageInv'
<1>1. AskInv /\ PieceInv /\ KeepInv /\ RowInv
  BY DEF ImageInv, PieceInv
<1>2. TypeInv' /\ AskInv' /\ PieceInv'
  BY <1>1, NextType, AskStep, PieceStep
<1>3. KeepInv'
  BY <1>1, AnsweredStep, AgedStep, DropStep, TagStep DEF KeepInv
<1>4. QED
  BY <1>2, <1>3 DEF ImageInv

\* At the start nothing has been asked, written or told.
LEMMA ImageStart ==
  ASSUME Init
  PROVE  TypeInv /\ ImageInv
<1>1. TypeInv
  <2>1. NoFetch \in Fetch
    BY DEF NoFetch, Fetch
  <2>2. MasterType
    BY NothingTold DEF Init, MasterType, Row, Asking
  <2>3. NodeType
    BY <2>1, NothingTold DEF Init, NodeType
  <2>4. QED
    BY <2>2, <2>3 DEF TypeInv
<1>2. AskInv
  BY NothingTold DEF Init, AskInv, CallInv, FetchInv, QueueInv, BatchInv, NoFetch
<1>3. PieceInv
  BY DEF Init, PieceInv, WrittenInv, DiskInv, GotInv, RecordInv, RowInv, RanInv, NoFetch
<1>4. KeepInv
  BY NothingTold DEF Init, KeepInv, AnsweredInv, AgedInv, DropInv, DropOnceInv, TagKept
<1>5. QED
  BY <1>1, <1>2, <1>3, <1>4 DEF ImageInv

(***************************************************************************)
(* Theorems.                                                               *)
(***************************************************************************)
\* The types, and all of the inductive invariant, hold throughout.
THEOREM ImageSafety == Spec => [](TypeInv /\ ImageInv)
<1>1. Init => TypeInv /\ ImageInv
  BY ImageStart
<1>2. TypeInv /\ ImageInv /\ [Next]_vars => (TypeInv /\ ImageInv)'
  BY ImageStep
<1>3. QED
  BY <1>1, <1>2, PTL DEF Spec

\* delete_snapshot, REPORT_MIN_AGE and branch_sandbox: however branches time out
\* and are answered late, polls and answers are lost, drops are put off and
\* nodes and the master restart, a tag on record has its whole image on the
\* node its record names, and a tag something is forked from is on record.
THEOREM RecordedStays == Spec => []TagKept
<1>1. ImageInv => TagKept
  BY DEF ImageInv, KeepInv
<1>2. QED
  BY <1>1, ImageSafety, PTL

\* A set of at most one has all its members the same.
LEMMA AtMostOne ==
  ASSUME NEW S, IsFiniteSet(S), Cardinality(S) <= 1, NEW a \in S, NEW b \in S
  PROVE  a = b
<1>1. Cardinality(S) \in Nat /\ S # {}
  BY FS_CardinalityType
<1>2. Cardinality(S) = 1
  BY <1>1, FS_EmptySet
<1>3. PICK x : S = {x}
  BY <1>2, FS_Singleton
<1>4. QED
  BY <1>3

\* fetch and clear_partial: a fork of a tag whose name was only ever used once
\* runs that tag's image, all of it.
THEOREM ForksWhole == Spec => []ForkWhole
<1>1. ASSUME TypeInv, ImageInv PROVE ForkWhole
  <2> SUFFICES ASSUME NEW s \in Children, ran[s] # Nil, Cardinality(written[row[s].tag]) <= 1
               PROVE  ran[s] = Whole(row[s].image)
    BY DEF ForkWhole, RunsItsTag
  <2>1. /\ row[s].tag \in Tags /\ row[s].image \in written[row[s].tag]
        /\ \A p \in Pieces : ran[s][p] \in written[row[s].tag]
    BY <1>1 DEF ImageInv, PieceInv, RanInv, RowInv
  <2>2. IsFiniteSet(written[row[s].tag])
    BY <1>1, <2>1, FS_Subset, TagImagesAssumption DEF TypeInv, NodeType
  <2>3. \A p \in Pieces : ran[s][p] = row[s].image
    BY <2>1, <2>2, AtMostOne
  <2>4. ran[s] \in Image
    BY <1>1 DEF TypeInv, NodeType
  <2>5. QED
    BY <2>3, <2>4 DEF Whole, Image
<1>2. QED
  BY <1>1, ImageSafety, PTL

=============================================================================
