--------------------------- MODULE PageListProofs ---------------------------
(***************************************************************************)
(* Who may change which links: proofs about a page list whose users lock   *)
(* what they insert.  That is so of the free and zero lists; on the others *)
(* the trimmer inserts too, and does not (Trimmers = {} leaves it out).    *)
(* What is wrong with that shows as soon as somebody walks the list.       *)
(***************************************************************************)
(* The argument: a thread changes the links of two nodes, of which it has  *)
(* the page locks, or else the list lock alone.  So it may rely on the     *)
(* links of every node it has locked (LinksRight), and whatever another    *)
(* thread does, nodes next to those it has locked stay next to them while  *)
(* it holds the list lock (Undisturbed).                                   *)
(***************************************************************************)
EXTENDS PageList, SequenceTheorems, TLAPS

\* The list's nodes from "head" to "tail" by position, and which follow each other.
Node(o, i) == IF i = 0 THEN "head" ELSE IF i = Len(o) + 1 THEN "tail" ELSE o[i]
Adjacent(o, a, b) == \E i \in 0 .. Len(o) : Node(o, i) = a /\ Node(o, i + 1) = b
NoRepeats(s) == \A i, j \in 1 .. Len(s) : s[i] = s[j] => i = j
EndsWith(o, s) ==
    Len(s) <= Len(o) /\ \A i \in 1 .. Len(s) : s[i] = o[Len(o) - Len(s) + i]

\* A section of a list, and the list without it.
Occurs(o, s, k) == /\ k \in 1 .. Len(o) /\ k + Len(s) - 1 <= Len(o)
                   /\ \A i \in 1 .. Len(s) : s[i] = o[k + i - 1]
Cut(o, s, k) == SubSeq(o, 1, k - 1) \o SubSeq(o, k + Len(s), Len(o))

\* The states of each kind of operation.
ListPcs == {"idle", "share", "first", "second", "unshare", "exclude", "unlock", "leave"}
InsertPcs == ListPcs \cup {"link", "link_ends", "walk", "walk_on"}
RescuePcs == ListPcs \cup {"unlink"}
PopPcs == RescuePcs \cup {"lock_tail", "check_tail"}
BatchPcs == PopPcs \cup {"grow", "lock_next", "check_next"}
Unlisted == {"idle", "share", "exclude", "lock_tail", "check_tail",
             "grow", "lock_next", "check_next"}
Sharing == {"first", "second", "unshare"}
Unlinked == {"share", "first", "second", "unshare", "exclude", "link"}

Operation == [pc : BatchPcs \cup InsertPcs, frames : Seq(Pages),
              ahead : Nodes \cup {None}, behind : Nodes \cup {None}, owned : SUBSET Nodes]

Types ==
    /\ flink \in [Nodes -> Nodes \cup {None}]
    /\ blink \in [Nodes -> Nodes \cup {None}]
    /\ page_lock \in [Nodes -> Threads \cup {None}]
    /\ shared \subseteq Threads /\ exclusive \in Threads \cup {None}
    /\ order \in Seq(Pages)
    /\ op \in [Threads -> Operation]

Pcs(t) ==
    /\ op[t].pc \in IF t \in Inserters THEN InsertPcs ELSE BatchPcs
    /\ t \in Rescuers => op[t].pc \in RescuePcs
    /\ t \in Poppers => op[t].pc \in PopPcs

\* The list lock, and which states hold it how.
ListLock == exclusive # None => shared = {}
HoldsList(t) == t \in shared \/ exclusive = t
ListHeld(t) ==
    /\ op[t].pc \in Unlisted => ~ HoldsList(t)
    /\ op[t].pc \in Sharing => t \in shared
    /\ op[t].pc \notin Unlisted => HoldsList(t)

Frames(t) ==
    /\ op[t].frames = <<>> <=> op[t].pc \in {"idle", "lock_tail", "check_tail"}
    /\ NoRepeats(op[t].frames)
    /\ t \in Poppers => Len(op[t].frames) <= 1

\* What each thread has locked.
FramesLocked(t) ==
    ~ (t \in Inserters /\ op[t].pc \in {"walk", "walk_on", "leave"}) =>
        \A i \in 1 .. Len(op[t].frames) : page_lock[op[t].frames[i]] = t
OwnedLocked(t) ==
    /\ \A n \in op[t].owned : page_lock[n] = t /\ ~ Contains(op[t].frames, n)
    /\ op[t].pc \notin {"second", "link", "unlink", "link_ends", "unlock"} =>
            op[t].owned = {}
NextLocked(t) ==
    /\ op[t].pc \in {"lock_tail", "check_tail", "lock_next", "check_next"} =>
            op[t].behind \in Pages
    /\ op[t].pc \in {"check_tail", "check_next"} =>
            page_lock[op[t].behind] = t /\ ~ Contains(op[t].frames, op[t].behind)
NoOthersLocked(t) ==
    /\ op[t].pc \in {"idle", "lock_tail", "check_tail", "grow", "lock_next", "check_next"} =>
        \A n \in Nodes : page_lock[n] = t =>
            \/ Contains(op[t].frames, n)
            \/ op[t].pc \in {"check_tail", "check_next"} /\ op[t].behind = n

\* What the thread is about to link or unlink has the neighbours it has read,
\* and they stay its neighbours.
NeighboursLocked(t) ==
    /\ At(t, "second") => page_lock[IF Inserting(t) THEN "head" ELSE op[t].ahead] = t
    /\ At(t, "link") \/ At(t, "unlink") =>
            exclusive = t \/ (page_lock[op[t].ahead] = t /\ page_lock[op[t].behind] = t)
    /\ At(t, "link_ends") => exclusive = t \/ page_lock[op[t].ahead] = t
Neighbours(t) ==
    /\ t \in Inserters /\ (At(t, "second") \/ At(t, "link")) =>
            op[t].behind = "head" /\ Adjacent(order, "head", op[t].ahead)
    /\ t \notin Inserters /\ (At(t, "second") \/ At(t, "unlink")) =>
            /\ Adjacent(order, op[t].behind, Head(Section(t)))
            /\ Adjacent(order, Last(Section(t)), op[t].ahead)
    /\ At(t, "link_ends") =>
            /\ Adjacent(order, "head", Head(op[t].frames))
            /\ Adjacent(order, Last(op[t].frames), op[t].ahead)

\* Where the thread's frames are.
InsertsNew(t) ==
    t \in Inserters /\ op[t].pc \in Unlinked =>
        LET s == op[t].frames
        IN  /\ \A i \in 1 .. Len(s) : ~ Contains(order, s[i])
            /\ \A i \in 1 .. Len(s) - 1 : flink[s[i]] = s[i + 1] /\ blink[s[i + 1]] = s[i]
InsertsLinked(t) ==
    LET s == op[t].frames
    IN  At(t, "link_ends") \/ (t \in Inserters /\ At(t, "unlock")) =>
            \A i \in 1 .. Len(s) - 1 : Adjacent(order, s[i], s[i + 1])
Walks(t) ==
    LET s == op[t].frames
    IN  At(t, "walk") \/ At(t, "walk_on") =>
            \E j \in 1 .. Len(s) :
                /\ op[t].behind = s[j]
                /\ At(t, "walk") => page_lock[s[j]] = t
                /\ At(t, "walk_on") => j < Len(s)
                /\ \A i \in j + 1 .. Len(s) : page_lock[s[i]] = t
                /\ \A i \in j .. Len(s) - 1 : Adjacent(order, s[i], s[i + 1])
PopsEnd(t) ==
    t \in Poppers \cup BatchPoppers /\ op[t].pc \notin {"unlock", "leave"} =>
        EndsWith(order, op[t].frames)
RescuesListed(t) ==
    t \in Rescuers =>
        /\ op[t].pc \notin {"unlock", "leave"} =>
              \A i \in 1 .. Len(op[t].frames) : Contains(order, op[t].frames[i])
        /\ At(t, "unlock") =>
              \A i \in 2 .. Len(op[t].frames) : Contains(order, op[t].frames[i])

ThreadInv(t) ==
    /\ Pcs(t) /\ ListHeld(t) /\ Frames(t)
    /\ FramesLocked(t) /\ OwnedLocked(t) /\ NextLocked(t) /\ NoOthersLocked(t)
    /\ NeighboursLocked(t) /\ Neighbours(t)
    /\ InsertsNew(t) /\ InsertsLinked(t) /\ Walks(t) /\ PopsEnd(t) /\ RescuesListed(t)

\* A link is wrong only where a thread has yet to link its section's ends.
LinksHold ==
    \A a, b \in Nodes :
        Adjacent(order, a, b) =>
            /\ \/ flink[a] = b
               \/ \E t \in Threads : At(t, "link_ends") /\ a = Last(op[t].frames)
            /\ \/ blink[b] = a
               \/ \E t \in Threads : At(t, "link_ends") /\ b = Head(op[t].frames)

Inv ==
    /\ Types
    /\ NoRepeats(order)
    /\ ListLock
    /\ LinksHold
    /\ \A t \in Threads : ThreadInv(t)

----------------------------------------------------------------------------
(* Lemmas about positions in a list *)

\* The nodes of a list are its pages between "head" and "tail".
LEMMA NodeFacts ==
    ASSUME NEW o \in Seq(Pages)
    PROVE  /\ Len(o) \in Nat
           /\ \A i \in 1 .. Len(o) : o[i] \in Pages /\ Node(o, i) = o[i]
           /\ Node(o, 0) = "head" /\ Node(o, Len(o) + 1) = "tail"
<1>1. Len(o) \in Nat  OBVIOUS
<1>2. \A i \in 1 .. Len(o) : o[i] \in Pages /\ i # 0 /\ i # Len(o) + 1  BY <1>1
<1>3. Len(o) + 1 # 0  BY <1>1
<1> QED  BY <1>1, <1>2, <1>3 DEF Node

\* What a node follows is a page or "head", what follows it a page or "tail".
LEMMA AdjacentNodes ==
    ASSUME NEW o \in Seq(Pages), NEW a, NEW b, Adjacent(o, a, b)
    PROVE  /\ a = "head" \/ (a \in Pages /\ Contains(o, a))
           /\ b = "tail" \/ (b \in Pages /\ Contains(o, b))
           /\ a \in Nodes /\ b \in Nodes /\ a # "tail" /\ b # "head"
<1>0. Len(o) \in Nat  OBVIOUS
<1>1. PICK i \in 0 .. Len(o) : Node(o, i) = a /\ Node(o, i + 1) = b  BY DEF Adjacent
<1>2. i = 0 \/ i \in 1 .. Len(o)  BY <1>0
<1>3. i + 1 = Len(o) + 1 \/ i + 1 \in 1 .. Len(o)  BY <1>0
<1>4. a = "head" \/ (a \in Pages /\ Contains(o, a))
      BY <1>1, <1>2, NodeFacts DEF Contains
<1>5. b = "tail" \/ (b \in Pages /\ Contains(o, b))
      BY <1>1, <1>3, NodeFacts DEF Contains
<1> QED  BY <1>4, <1>5, ListAssumption DEF Nodes

\* Every position has one node: a node has one next to it on either side.
LEMMA NodeOnce ==
    ASSUME NEW o \in Seq(Pages), NoRepeats(o),
           NEW i \in 0 .. Len(o) + 1, NEW j \in 0 .. Len(o) + 1, Node(o, i) = Node(o, j)
    PROVE  i = j
<1>0. Len(o) \in Nat  OBVIOUS
<1>1. \A k \in 0 .. Len(o) + 1 : k = 0 \/ k = Len(o) + 1 \/ k \in 1 .. Len(o)  BY <1>0
<1>2. "head" \notin Pages /\ "tail" \notin Pages  BY ListAssumption
<1>3. CASE i \in 1 .. Len(o) /\ j \in 1 .. Len(o)
      BY <1>3, NodeFacts DEF NoRepeats
<1>4. CASE i \in 1 .. Len(o) /\ j \notin 1 .. Len(o)
      BY <1>1, <1>2, <1>4, NodeFacts
<1>5. CASE j \in 1 .. Len(o) /\ i \notin 1 .. Len(o)
      BY <1>1, <1>2, <1>5, NodeFacts
<1>6. CASE i \notin 1 .. Len(o) /\ j \notin 1 .. Len(o)
      BY <1>0, <1>1, <1>6, NodeFacts
<1> QED  BY <1>3, <1>4, <1>5, <1>6

LEMMA AdjacentOnce ==
    ASSUME NEW o \in Seq(Pages), NoRepeats(o)
    PROVE  /\ \A a, b, c : Adjacent(o, a, b) /\ Adjacent(o, a, c) => b = c
           /\ \A a, b, c : Adjacent(o, a, c) /\ Adjacent(o, b, c) => a = b
<1>0. Len(o) \in Nat  OBVIOUS
<1>1. ASSUME NEW a, NEW b, NEW c, Adjacent(o, a, b), Adjacent(o, a, c)
      PROVE  b = c
  <2>1. PICK i \in 0 .. Len(o) : Node(o, i) = a /\ Node(o, i + 1) = b  BY <1>1 DEF Adjacent
  <2>2. PICK j \in 0 .. Len(o) : Node(o, j) = a /\ Node(o, j + 1) = c  BY <1>1 DEF Adjacent
  <2>3. i \in 0 .. Len(o) + 1 /\ j \in 0 .. Len(o) + 1  BY <1>0
  <2>4. i = j  BY <2>1, <2>2, <2>3, NodeOnce
  <2> QED  BY <2>1, <2>2, <2>4
<1>2. ASSUME NEW a, NEW b, NEW c, Adjacent(o, a, c), Adjacent(o, b, c)
      PROVE  a = b
  <2>1. PICK i \in 0 .. Len(o) : Node(o, i) = a /\ Node(o, i + 1) = c  BY <1>2 DEF Adjacent
  <2>2. PICK j \in 0 .. Len(o) : Node(o, j) = b /\ Node(o, j + 1) = c  BY <1>2 DEF Adjacent
  <2>3. i + 1 \in 0 .. Len(o) + 1 /\ j + 1 \in 0 .. Len(o) + 1  BY <1>0
  <2>4. i + 1 = j + 1  BY <2>1, <2>2, <2>3, NodeOnce
  <2>5. i = j  BY <1>0, <2>4
  <2> QED  BY <2>1, <2>2, <2>5
<1> QED  BY <1>1, <1>2

LEMMA AdjacentAt ==
    ASSUME NEW o \in Seq(Pages), NEW i \in 0 .. Len(o)
    PROVE  /\ Adjacent(o, Node(o, i), Node(o, i + 1))
           /\ Node(o, i) \in Nodes /\ Node(o, i + 1) \in Nodes
<1>1. Adjacent(o, Node(o, i), Node(o, i + 1))  BY DEF Adjacent
<1> QED  BY <1>1, AdjacentNodes

LEMMA AdjacentExists ==
    ASSUME NEW o \in Seq(Pages)
    PROVE  /\ \A p : Contains(o, p) =>
                  /\ \E b \in Nodes : Adjacent(o, p, b)
                  /\ \E a \in Nodes : Adjacent(o, a, p)
           /\ \E b \in Nodes : Adjacent(o, "head", b)
           /\ \E a \in Nodes : Adjacent(o, a, "tail")
<1>0. Len(o) \in Nat  OBVIOUS
<1>1. ASSUME NEW p, Contains(o, p)
      PROVE  /\ \E b \in Nodes : Adjacent(o, p, b)
             /\ \E a \in Nodes : Adjacent(o, a, p)
  <2>1. PICK i \in 1 .. Len(o) : o[i] = p  BY <1>1 DEF Contains
  <2>2. Node(o, i) = p /\ i \in 0 .. Len(o) /\ i - 1 \in 0 .. Len(o) /\ (i - 1) + 1 = i
        BY <1>0, <2>1, NodeFacts
  <2>3. Adjacent(o, p, Node(o, i + 1)) /\ Node(o, i + 1) \in Nodes  BY <2>2, AdjacentAt
  <2>4. Adjacent(o, Node(o, i - 1), p) /\ Node(o, i - 1) \in Nodes  BY <2>2, AdjacentAt
  <2> QED  BY <2>3, <2>4
<1>2. 0 \in 0 .. Len(o) /\ Len(o) \in 0 .. Len(o)  BY <1>0
<1>3. \E b \in Nodes : Adjacent(o, "head", b)  BY <1>2, AdjacentAt, NodeFacts
<1>4. \E a \in Nodes : Adjacent(o, a, "tail")  BY <1>2, AdjacentAt, NodeFacts
<1> QED  BY <1>1, <1>3, <1>4

\* A section is put before the frames of a list.
LEMMA PutNodes ==
    ASSUME NEW o \in Seq(Pages), NEW s \in Seq(Pages), s # <<>>
    PROVE  /\ s \o o \in Seq(Pages) /\ Len(s \o o) = Len(s) + Len(o)
           /\ Len(s) \in Nat \ {0} /\ Len(o) \in Nat
           /\ Head(s) = s[1] /\ Last(s) = s[Len(s)]
           /\ \A i \in 1 .. Len(s) : Node(s \o o, i) = s[i] /\ (s \o o)[i] = s[i]
           /\ \A i \in 1 .. Len(o) : (s \o o)[Len(s) + i] = o[i]
           /\ \A i \in 1 .. Len(o) + 1 : Node(s \o o, Len(s) + i) = Node(o, i)
<1>1. /\ s \o o \in Seq(Pages) /\ Len(s \o o) = Len(s) + Len(o)
      /\ Len(s) \in Nat \ {0} /\ Len(o) \in Nat /\ Head(s) = s[1]
      OBVIOUS
<1>2. ASSUME NEW i \in 1 .. Len(s)  PROVE  Node(s \o o, i) = s[i] /\ (s \o o)[i] = s[i]
  <2>1. (s \o o)[i] = s[i]  BY <1>1
  <2>2. i \in 1 .. Len(s \o o)  BY <1>1
  <2> QED  BY <1>1, <2>1, <2>2, NodeFacts
<1>3. ASSUME NEW i \in 1 .. Len(o)
      PROVE  /\ (s \o o)[Len(s) + i] = o[i]
             /\ Node(s \o o, Len(s) + i) = o[i]
  <2>1. (s \o o)[Len(s) + i] = o[i]  BY <1>1
  <2>2. Len(s) + i \in 1 .. Len(s \o o)  BY <1>1
  <2> QED  BY <1>1, <2>1, <2>2, NodeFacts
<1>4. ASSUME NEW i \in 1 .. Len(o) + 1  PROVE  Node(s \o o, Len(s) + i) = Node(o, i)
  <2>1. CASE i \in 1 .. Len(o)  BY <1>3, <2>1, NodeFacts
  <2>2. CASE i = Len(o) + 1
    <3>1. Len(s) + i = Len(s \o o) + 1  BY <1>1, <2>2
    <3> QED  BY <1>1, <2>2, <3>1, NodeFacts
  <2> QED  BY <1>1, <2>1, <2>2
<1> QED  BY <1>1, <1>2, <1>3, <1>4 DEF Last

LEMMA PutNoRepeats ==
    ASSUME NEW o \in Seq(Pages), NEW s \in Seq(Pages), s # <<>>,
           NoRepeats(o), NoRepeats(s), \A i \in 1 .. Len(s) : ~ Contains(o, s[i])
    PROVE  NoRepeats(s \o o)
<1> DEFINE n == s \o o
<1>1. /\ \A i \in 1 .. Len(s) : n[i] = s[i]
      /\ \A i \in 1 .. Len(o) : n[Len(s) + i] = o[i]
      /\ Len(n) = Len(s) + Len(o) /\ Len(s) \in Nat /\ Len(o) \in Nat
      BY PutNodes
<1>2. \A i \in 1 .. Len(n) : i \in 1 .. Len(s) \/ \E k \in 1 .. Len(o) : i = Len(s) + k
  <2>1. ASSUME NEW i \in 1 .. Len(n), i \notin 1 .. Len(s)
        PROVE  i - Len(s) \in 1 .. Len(o) /\ i = Len(s) + (i - Len(s))
        BY <1>1, <2>1
  <2> QED  BY <2>1
<1> HIDE DEF n
<1>3. ASSUME NEW i \in 1 .. Len(n), NEW j \in 1 .. Len(n), n[i] = n[j]  PROVE  i = j
  <2>1. CASE i \in 1 .. Len(s) /\ j \in 1 .. Len(s)  BY <1>1, <1>3, <2>1 DEF NoRepeats
  <2>2. CASE i \in 1 .. Len(s) /\ j \notin 1 .. Len(s)
        BY <1>1, <1>2, <1>3, <2>2 DEF Contains
  <2>3. CASE j \in 1 .. Len(s) /\ i \notin 1 .. Len(s)
        BY <1>1, <1>2, <1>3, <2>3 DEF Contains
  <2>4. CASE i \notin 1 .. Len(s) /\ j \notin 1 .. Len(s)
    <3>1. PICK k \in 1 .. Len(o) : i = Len(s) + k  BY <1>2, <2>4
    <3>2. PICK l \in 1 .. Len(o) : j = Len(s) + l  BY <1>2, <2>4
    <3>3. o[k] = o[l]  BY <1>1, <1>3, <3>1, <3>2
    <3> QED  BY <3>1, <3>2, <3>3 DEF NoRepeats
  <2> QED  BY <2>1, <2>2, <2>3, <2>4
<1> QED  BY <1>3 DEF NoRepeats, n

LEMMA PutContains ==
    ASSUME NEW o \in Seq(Pages), NEW s \in Seq(Pages), s # <<>>
    PROVE  \A p : Contains(s \o o, p) <=> Contains(s, p) \/ Contains(o, p)
<1>1. /\ \A i \in 1 .. Len(s) : (s \o o)[i] = s[i]
      /\ \A i \in 1 .. Len(o) : (s \o o)[Len(s) + i] = o[i]
      /\ Len(s \o o) = Len(s) + Len(o) /\ Len(s) \in Nat /\ Len(o) \in Nat
      BY PutNodes
<1>2. \A i \in 1 .. Len(s) : i \in 1 .. Len(s \o o)  BY <1>1
<1>3. \A i \in 1 .. Len(o) : Len(s) + i \in 1 .. Len(s \o o)  BY <1>1
<1>4. ASSUME NEW i \in 1 .. Len(s \o o), i \notin 1 .. Len(s)
      PROVE  i - Len(s) \in 1 .. Len(o) /\ (s \o o)[i] = o[i - Len(s)]
  <2>1. i - Len(s) \in 1 .. Len(o) /\ Len(s) + (i - Len(s)) = i  BY <1>1, <1>4
  <2> QED  BY <1>1, <2>1
<1>5. \A p : Contains(s \o o, p) => Contains(s, p) \/ Contains(o, p)
      BY <1>1, <1>4 DEF Contains
<1>6. \A p : Contains(s, p) => Contains(s \o o, p)  BY <1>1, <1>2 DEF Contains
<1>7. \A p : Contains(o, p) => Contains(s \o o, p)  BY <1>1, <1>3 DEF Contains
<1> QED  BY <1>5, <1>6, <1>7

LEMMA PutAdjacent ==
    ASSUME NEW o \in Seq(Pages), NEW s \in Seq(Pages), s # <<>>
    PROVE  /\ \A a, b : Adjacent(s \o o, a, b) =>
                 \/ a = "head" /\ b = Head(s)
                 \/ \E i \in 1 .. Len(s) - 1 : a = s[i] /\ b = s[i + 1]
                 \/ a = Last(s) /\ Adjacent(o, "head", b)
                 \/ a # "head" /\ Adjacent(o, a, b)
           /\ Adjacent(s \o o, "head", Head(s))
           /\ \A i \in 1 .. Len(s) - 1 : Adjacent(s \o o, s[i], s[i + 1])
           /\ \A b : Adjacent(o, "head", b) => Adjacent(s \o o, Last(s), b)
           /\ \A a, b : Adjacent(o, a, b) /\ a # "head" => Adjacent(s \o o, a, b)
<1> DEFINE n == s \o o
<1>1. /\ n \in Seq(Pages) /\ Len(n) = Len(s) + Len(o)
      /\ Len(s) \in Nat \ {0} /\ Len(o) \in Nat
      /\ Head(s) = s[1] /\ Last(s) = s[Len(s)]
      /\ \A i \in 1 .. Len(s) : Node(n, i) = s[i]
      /\ \A i \in 1 .. Len(o) + 1 : Node(n, Len(s) + i) = Node(o, i)
      BY PutNodes
<1>2. Node(n, 0) = "head" /\ Node(o, 0) = "head"  BY <1>1, NodeFacts
<1>3. \A i \in 1 .. Len(o) : Node(o, i) \in Pages  BY NodeFacts
<1>4. "head" \notin Pages  BY ListAssumption
<1> HIDE DEF n
<1>5. ASSUME NEW a, NEW b, Adjacent(n, a, b)
      PROVE  \/ a = "head" /\ b = Head(s)
             \/ \E i \in 1 .. Len(s) - 1 : a = s[i] /\ b = s[i + 1]
             \/ a = Last(s) /\ Adjacent(o, "head", b)
             \/ a # "head" /\ Adjacent(o, a, b)
  <2>1. PICK i \in 0 .. Len(n) : Node(n, i) = a /\ Node(n, i + 1) = b  BY <1>5 DEF Adjacent
  <2>2. CASE i = 0
    <3>1. 0 + 1 \in 1 .. Len(s) /\ 0 + 1 = 1  BY <1>1
    <3> QED  BY <1>1, <1>2, <2>1, <2>2, <3>1
  <2>3. CASE i \in 1 .. Len(s) - 1
    <3>1. i \in 1 .. Len(s) /\ i + 1 \in 1 .. Len(s)  BY <1>1, <2>3
    <3> QED  BY <1>1, <2>1, <2>3, <3>1
  <2>4. CASE i = Len(s)
    <3>1. i \in 1 .. Len(s) /\ 1 \in 1 .. Len(o) + 1 /\ 0 \in 0 .. Len(o)  BY <1>1, <2>4
    <3>2. a = Last(s) /\ b = Node(o, 0 + 1)  BY <1>1, <2>1, <2>4, <3>1
    <3> QED  BY <1>2, <3>1, <3>2 DEF Adjacent
  <2>5. CASE i - Len(s) \in 1 .. Len(o)
    <3>1. /\ i - Len(s) \in 1 .. Len(o) + 1 /\ i - Len(s) + 1 \in 1 .. Len(o) + 1
          /\ i - Len(s) \in 0 .. Len(o)
          /\ i = Len(s) + (i - Len(s)) /\ i + 1 = Len(s) + (i - Len(s) + 1)
          BY <1>1, <2>5
    <3>2. a = Node(o, i - Len(s)) /\ b = Node(o, i - Len(s) + 1)  BY <1>1, <2>1, <3>1
    <3> QED  BY <1>3, <1>4, <2>5, <3>1, <3>2 DEF Adjacent
  <2> QED  BY <1>1, <2>2, <2>3, <2>4, <2>5
<1>6. Adjacent(n, "head", Head(s))
  <2>1. 0 \in 0 .. Len(n) /\ 0 + 1 \in 1 .. Len(s) /\ 0 + 1 = 1  BY <1>1
  <2> QED  BY <1>1, <1>2, <2>1 DEF Adjacent
<1>7. ASSUME NEW i \in 1 .. Len(s) - 1  PROVE  Adjacent(n, s[i], s[i + 1])
  <2>1. i \in 0 .. Len(n) /\ i \in 1 .. Len(s) /\ i + 1 \in 1 .. Len(s)  BY <1>1
  <2> QED  BY <1>1, <2>1 DEF Adjacent
<1>8. ASSUME NEW b, Adjacent(o, "head", b)  PROVE  Adjacent(n, Last(s), b)
  <2>1. PICK i \in 0 .. Len(o) : Node(o, i) = "head" /\ Node(o, i + 1) = b
        BY <1>8 DEF Adjacent
  <2>2. i = 0  BY <1>1, <1>3, <1>4, <2>1
  <2>3. 1 \in 1 .. Len(o) + 1 /\ Len(s) \in 0 .. Len(n) /\ Len(s) \in 1 .. Len(s)  BY <1>1
  <2>4. Node(n, Len(s)) = Last(s) /\ Node(n, Len(s) + 1) = b  BY <1>1, <2>1, <2>2, <2>3
  <2> QED  BY <2>3, <2>4 DEF Adjacent
<1>9. ASSUME NEW a, NEW b, Adjacent(o, a, b), a # "head"  PROVE  Adjacent(n, a, b)
  <2>1. PICK i \in 0 .. Len(o) : Node(o, i) = a /\ Node(o, i + 1) = b  BY <1>9 DEF Adjacent
  <2>2. i \in 1 .. Len(o)  BY <1>1, <1>2, <1>9, <2>1
  <2>3. /\ i \in 1 .. Len(o) + 1 /\ i + 1 \in 1 .. Len(o) + 1
        /\ Len(s) + i \in 0 .. Len(n) /\ Len(s) + (i + 1) = (Len(s) + i) + 1
        BY <1>1, <2>2
  <2>4. Node(n, Len(s) + i) = a /\ Node(n, (Len(s) + i) + 1) = b  BY <1>1, <2>1, <2>3
  <2> QED  BY <2>3, <2>4 DEF Adjacent
<1> QED  BY <1>5, <1>6, <1>7, <1>8, <1>9 DEF n

LEMMA PutEndsWith ==
    ASSUME NEW o \in Seq(Pages), NEW s \in Seq(Pages), s # <<>>,
           NEW e \in Seq(Pages), EndsWith(o, e)
    PROVE  EndsWith(s \o o, e)
<1>1. /\ Len(s \o o) = Len(s) + Len(o) /\ Len(s) \in Nat /\ Len(o) \in Nat
      /\ \A i \in 1 .. Len(o) : (s \o o)[Len(s) + i] = o[i]
      BY PutNodes
<1>2. Len(e) \in Nat /\ Len(e) <= Len(o)  BY DEF EndsWith
<1>3. ASSUME NEW i \in 1 .. Len(e)
      PROVE  e[i] = (s \o o)[Len(s \o o) - Len(e) + i]
  <2>1. Len(o) - Len(e) + i \in 1 .. Len(o)  BY <1>1, <1>2
  <2>2. Len(s \o o) - Len(e) + i = Len(s) + (Len(o) - Len(e) + i)  BY <1>1, <1>2
  <2>3. (s \o o)[Len(s) + (Len(o) - Len(e) + i)] = o[Len(o) - Len(e) + i]  BY <1>1, <2>1
  <2> QED  BY <2>2, <2>3 DEF EndsWith
<1> QED  BY <1>1, <1>2, <1>3 DEF EndsWith

\* A section is cut out of a list.
LEMMA CutNodes ==
    ASSUME NEW o \in Seq(Pages), NEW s \in Seq(Pages), s # <<>>,
           NEW k, Occurs(o, s, k)
    PROVE  /\ Cut(o, s, k) \in Seq(Pages)
           /\ Len(o) \in Nat /\ Len(s) \in Nat \ {0} /\ k \in 1 .. Len(o)
           /\ Len(Cut(o, s, k)) = Len(o) - Len(s) /\ k + Len(s) - 1 <= Len(o)
           /\ Head(s) = s[1] /\ Last(s) = s[Len(s)]
           /\ \A i \in 1 .. k - 1 : Cut(o, s, k)[i] = o[i]
           /\ \A i \in k .. Len(o) - Len(s) : Cut(o, s, k)[i] = o[i + Len(s)]
           /\ \A i \in 0 .. k - 1 : Node(Cut(o, s, k), i) = Node(o, i)
           /\ \A i \in k .. Len(o) - Len(s) + 1 :
                 Node(Cut(o, s, k), i) = Node(o, i + Len(s))
<1> DEFINE l == SubSeq(o, 1, k - 1)
           r == SubSeq(o, k + Len(s), Len(o))
           n == Cut(o, s, k)
<1>1. /\ Len(o) \in Nat /\ Len(s) \in Nat \ {0} /\ k \in 1 .. Len(o)
      /\ k + Len(s) - 1 <= Len(o) /\ Head(s) = s[1]
      BY DEF Occurs
<1>2. l \in Seq(Pages) /\ Len(l) = k - 1 /\ \A i \in 1 .. k - 1 : l[i] = o[i]
  <2>1. \A i \in 1 .. k - 1 : o[i] \in Pages  BY <1>1, NodeFacts
  <2>2. 1 \in Int /\ k - 1 \in Int  BY <1>1
  <2>3. /\ l \in Seq(Pages) /\ Len(l) = IF 1 <= k - 1 THEN k - 1 - 1 + 1 ELSE 0
        /\ \A i \in 1 .. k - 1 - 1 + 1 : l[i] = o[1 + i - 1]
        BY <2>1, <2>2, SubSeqProperties
  <2> QED  BY <1>1, <2>3
<1>3. /\ r \in Seq(Pages) /\ Len(r) = Len(o) - (k + Len(s)) + 1
      /\ \A i \in 1 .. Len(o) - (k + Len(s)) + 1 : r[i] = o[k + Len(s) + i - 1]
  <2>1. \A i \in k + Len(s) .. Len(o) : o[i] \in Pages  BY <1>1, NodeFacts
  <2>2. k + Len(s) \in Int /\ Len(o) \in Int  BY <1>1
  <2>3. /\ r \in Seq(Pages)
        /\ Len(r) = IF k + Len(s) <= Len(o) THEN Len(o) - (k + Len(s)) + 1 ELSE 0
        /\ \A i \in 1 .. Len(o) - (k + Len(s)) + 1 : r[i] = o[k + Len(s) + i - 1]
        BY <2>1, <2>2, SubSeqProperties
  <2> QED  BY <1>1, <2>3
<1>4. n = l \o r  BY DEF Cut
<1> HIDE DEF n, l, r
<1>5. /\ n \in Seq(Pages) /\ Len(n) = Len(l) + Len(r)
      /\ \A i \in 1 .. Len(l) + Len(r) : n[i] = IF i <= Len(l) THEN l[i] ELSE r[i - Len(l)]
      BY <1>2, <1>3, <1>4, ConcatProperties
<1>6. Len(n) = Len(o) - Len(s)  BY <1>1, <1>2, <1>3, <1>5
<1>7. ASSUME NEW i \in 1 .. k - 1  PROVE  n[i] = o[i]
  <2>1. i \in 1 .. Len(l) + Len(r) /\ i <= Len(l)  BY <1>1, <1>2, <1>3
  <2> QED  BY <1>2, <1>5, <2>1
<1>8. ASSUME NEW i \in k .. Len(o) - Len(s)  PROVE  n[i] = o[i + Len(s)]
  <2>1. /\ i \in 1 .. Len(l) + Len(r) /\ ~ (i <= Len(l))
        /\ i - Len(l) \in 1 .. Len(o) - (k + Len(s)) + 1
        /\ k + Len(s) + (i - Len(l)) - 1 = i + Len(s)
        BY <1>1, <1>2, <1>3
  <2>2. n[i] = r[i - Len(l)]  BY <1>5, <2>1
  <2> QED  BY <1>3, <2>1, <2>2
<1>9. ASSUME NEW i \in 0 .. k - 1  PROVE  Node(n, i) = Node(o, i)
  <2>1. CASE i = 0  BY <1>5, <2>1, NodeFacts
  <2>2. CASE i # 0
    <3>1. i \in 1 .. k - 1 /\ i \in 1 .. Len(n) /\ i \in 1 .. Len(o)  BY <1>1, <1>6, <2>2
    <3> QED  BY <1>5, <1>7, <3>1, NodeFacts
  <2> QED  BY <2>1, <2>2
<1>10. ASSUME NEW i \in k .. Len(o) - Len(s) + 1  PROVE  Node(n, i) = Node(o, i + Len(s))
  <2>1. CASE i = Len(n) + 1
    <3>1. i + Len(s) = Len(o) + 1  BY <1>1, <1>6, <2>1
    <3> QED  BY <1>5, <2>1, <3>1, NodeFacts
  <2>2. CASE i # Len(n) + 1
    <3>1. i \in k .. Len(o) - Len(s) /\ i \in 1 .. Len(n) /\ i + Len(s) \in 1 .. Len(o)
          BY <1>1, <1>6, <2>2
    <3> QED  BY <1>5, <1>8, <3>1, NodeFacts
  <2> QED  BY <2>1, <2>2
<1> QED  BY <1>1, <1>5, <1>6, <1>7, <1>8, <1>9, <1>10 DEF n, Last

LEMMA CutNoRepeats ==
    ASSUME NEW o \in Seq(Pages), NEW s \in Seq(Pages), s # <<>>,
           NEW k, Occurs(o, s, k), NoRepeats(o)
    PROVE  NoRepeats(Cut(o, s, k))
<1> DEFINE n == Cut(o, s, k)
<1>1. /\ Len(o) \in Nat /\ Len(s) \in Nat \ {0} /\ k \in 1 .. Len(o)
      /\ Len(n) = Len(o) - Len(s) /\ k + Len(s) - 1 <= Len(o)
      /\ \A i \in 1 .. k - 1 : n[i] = o[i]
      /\ \A i \in k .. Len(o) - Len(s) : n[i] = o[i + Len(s)]
      BY CutNodes
<1> HIDE DEF n
<1>2. ASSUME NEW i \in 1 .. Len(n), NEW j \in 1 .. Len(n), n[i] = n[j]  PROVE  i = j
  <2>1. CASE i < k /\ j < k
    <3>1. i \in 1 .. k - 1 /\ j \in 1 .. k - 1 /\ i \in 1 .. Len(o) /\ j \in 1 .. Len(o)
          BY <1>1, <2>1
    <3> QED  BY <1>1, <1>2, <3>1 DEF NoRepeats
  <2>2. CASE i < k /\ j >= k
    <3>1. /\ i \in 1 .. k - 1 /\ j \in k .. Len(o) - Len(s)
          /\ i \in 1 .. Len(o) /\ j + Len(s) \in 1 .. Len(o)
          BY <1>1, <2>2
    <3>2. i = j + Len(s)  BY <1>1, <1>2, <3>1 DEF NoRepeats
    <3> QED  BY <1>1, <2>2, <3>2
  <2>3. CASE i >= k /\ j < k
    <3>1. /\ j \in 1 .. k - 1 /\ i \in k .. Len(o) - Len(s)
          /\ j \in 1 .. Len(o) /\ i + Len(s) \in 1 .. Len(o)
          BY <1>1, <2>3
    <3>2. j = i + Len(s)  BY <1>1, <1>2, <3>1 DEF NoRepeats
    <3> QED  BY <1>1, <2>3, <3>2
  <2>4. CASE i >= k /\ j >= k
    <3>1. /\ i \in k .. Len(o) - Len(s) /\ j \in k .. Len(o) - Len(s)
          /\ i + Len(s) \in 1 .. Len(o) /\ j + Len(s) \in 1 .. Len(o)
          BY <1>1, <2>4
    <3>2. n[i] = o[i + Len(s)] /\ n[j] = o[j + Len(s)]  BY <1>1, <3>1
    <3>3. i + Len(s) = j + Len(s)  BY <1>2, <3>1, <3>2 DEF NoRepeats
    <3> QED  BY <1>1, <3>3
  <2> QED  BY <1>1, <2>1, <2>2, <2>3, <2>4
<1> QED  BY <1>2 DEF NoRepeats, n

LEMMA CutContains ==
    ASSUME NEW o \in Seq(Pages), NEW s \in Seq(Pages), s # <<>>,
           NEW k, Occurs(o, s, k), NoRepeats(o)
    PROVE  \A p : Contains(Cut(o, s, k), p) <=> Contains(o, p) /\ ~ Contains(s, p)
<1> DEFINE n == Cut(o, s, k)
<1>1. /\ Len(o) \in Nat /\ Len(s) \in Nat \ {0} /\ k \in 1 .. Len(o)
      /\ Len(n) = Len(o) - Len(s) /\ k + Len(s) - 1 <= Len(o)
      /\ \A i \in 1 .. k - 1 : n[i] = o[i]
      /\ \A i \in k .. Len(o) - Len(s) : n[i] = o[i + Len(s)]
      BY CutNodes
<1>2. \A i \in 1 .. Len(s) : s[i] = o[k + i - 1] /\ k + i - 1 \in 1 .. Len(o)
      BY <1>1 DEF Occurs
<1> HIDE DEF n
<1>3. ASSUME NEW p, NEW i \in 1 .. Len(o), o[i] = p, i < k \/ i >= k + Len(s)
      PROVE  Contains(n, p) /\ ~ Contains(s, p)
  <2>1. Contains(n, p)
    <3>1. CASE i < k
      <4>1. i \in 1 .. k - 1 /\ i \in 1 .. Len(n)  BY <1>1, <3>1
      <4> QED  BY <1>1, <1>3, <4>1 DEF Contains
    <3>2. CASE i >= k + Len(s)
      <4>1. /\ i - Len(s) \in k .. Len(o) - Len(s) /\ i - Len(s) \in 1 .. Len(n)
            /\ i - Len(s) + Len(s) = i
            BY <1>1, <3>2
      <4> QED  BY <1>1, <1>3, <4>1 DEF Contains
    <3> QED  BY <1>3, <3>1, <3>2
  <2>2. ASSUME NEW j \in 1 .. Len(s), s[j] = p  PROVE  FALSE
    <3>1. i = k + j - 1  BY <1>2, <1>3, <2>2 DEF NoRepeats
    <3> QED  BY <1>1, <1>3, <3>1
  <2> QED  BY <2>1, <2>2 DEF Contains
<1>4. ASSUME NEW p, NEW i \in 1 .. Len(n), n[i] = p
      PROVE  \E j \in 1 .. Len(o) : o[j] = p /\ (j < k \/ j >= k + Len(s))
  <2>1. CASE i < k
    <3>1. i \in 1 .. k - 1 /\ i \in 1 .. Len(o)  BY <1>1, <2>1
    <3> QED  BY <1>1, <1>4, <2>1, <3>1
  <2>2. CASE i >= k
    <3>1. i \in k .. Len(o) - Len(s) /\ i + Len(s) \in 1 .. Len(o) /\ i + Len(s) >= k + Len(s)
          BY <1>1, <2>2
    <3> QED  BY <1>1, <1>4, <3>1
  <2> QED  BY <1>1, <2>1, <2>2
<1>5. ASSUME NEW p, Contains(o, p), ~ Contains(s, p)  PROVE  Contains(n, p)
  <2>1. PICK i \in 1 .. Len(o) : o[i] = p  BY <1>5 DEF Contains
  <2>2. CASE i < k \/ i >= k + Len(s)  BY <1>3, <2>1, <2>2
  <2>3. CASE ~ (i < k \/ i >= k + Len(s))
    <3>1. i - k + 1 \in 1 .. Len(s) /\ k + (i - k + 1) - 1 = i  BY <1>1, <2>3
    <3>2. s[i - k + 1] = p  BY <1>2, <2>1, <3>1
    <3> QED  BY <1>5, <3>1, <3>2 DEF Contains
  <2> QED  BY <2>2, <2>3
<1>6. ASSUME NEW p, Contains(n, p)  PROVE  Contains(o, p) /\ ~ Contains(s, p)
  <2>1. PICK i \in 1 .. Len(n) : n[i] = p  BY <1>6 DEF Contains
  <2>2. PICK j \in 1 .. Len(o) : o[j] = p /\ (j < k \/ j >= k + Len(s))  BY <1>4, <2>1
  <2>3. ~ Contains(s, p)  BY <1>3, <2>2
  <2> QED  BY <2>2, <2>3 DEF Contains
<1> QED  BY <1>5, <1>6 DEF n

LEMMA CutAdjacent ==
    ASSUME NEW o \in Seq(Pages), NEW s \in Seq(Pages), s # <<>>,
           NEW k, Occurs(o, s, k), NoRepeats(o),
           NEW x, NEW y, Adjacent(o, x, Head(s)), Adjacent(o, Last(s), y)
    PROVE  /\ \A a, b : Adjacent(Cut(o, s, k), a, b) =>
                 \/ a = x /\ b = y
                 \/ Adjacent(o, a, b) /\ a # x /\ b # y
           /\ Adjacent(Cut(o, s, k), x, y)
           /\ \A a, b : Adjacent(o, a, b) /\ ~ Contains(s, a) /\ ~ Contains(s, b) =>
                 Adjacent(Cut(o, s, k), a, b)
<1> DEFINE n == Cut(o, s, k)
<1>1. /\ Len(o) \in Nat /\ Len(s) \in Nat \ {0} /\ k \in 1 .. Len(o)
      /\ Len(n) = Len(o) - Len(s) /\ k + Len(s) - 1 <= Len(o)
      /\ Head(s) = s[1] /\ Last(s) = s[Len(s)]
      /\ \A i \in 0 .. k - 1 : Node(n, i) = Node(o, i)
      /\ \A i \in k .. Len(o) - Len(s) + 1 : Node(n, i) = Node(o, i + Len(s))
      BY CutNodes
<1> HIDE DEF n
<1>2. \A i \in 1 .. Len(s) : s[i] = o[k + i - 1] /\ k + i - 1 \in 1 .. Len(o)
      BY <1>1 DEF Occurs
<1>3. Node(o, k - 1) = x
  <2>1. PICK i \in 0 .. Len(o) : Node(o, i) = x /\ Node(o, i + 1) = Head(s)
        BY DEF Adjacent
  <2>2. 1 \in 1 .. Len(s) /\ k + 1 - 1 = k  BY <1>1
  <2>3. Node(o, k) = Head(s)  BY <1>1, <1>2, <2>2, NodeFacts
  <2>4. i + 1 \in 0 .. Len(o) + 1 /\ k \in 0 .. Len(o) + 1  BY <1>1
  <2>5. i + 1 = k  BY <2>1, <2>3, <2>4, NodeOnce
  <2>6. i = k - 1  BY <1>1, <2>5
  <2> QED  BY <2>1, <2>6
<1>4. Node(o, k + Len(s)) = y
  <2>1. PICK i \in 0 .. Len(o) : Node(o, i) = Last(s) /\ Node(o, i + 1) = y
        BY DEF Adjacent
  <2>2. Len(s) \in 1 .. Len(s) /\ k + Len(s) - 1 \in 1 .. Len(o)  BY <1>1
  <2>3. Node(o, k + Len(s) - 1) = Last(s)  BY <1>1, <1>2, <2>2, NodeFacts
  <2>4. i \in 0 .. Len(o) + 1 /\ k + Len(s) - 1 \in 0 .. Len(o) + 1  BY <1>1
  <2>5. i = k + Len(s) - 1  BY <2>1, <2>3, <2>4, NodeOnce
  <2>6. i + 1 = k + Len(s)  BY <1>1, <2>5
  <2> QED  BY <2>1, <2>6
<1>5. ASSUME NEW a, NEW b, Adjacent(n, a, b)
      PROVE  (a = x /\ b = y) \/ (Adjacent(o, a, b) /\ a # x /\ b # y)
  <2>1. PICK i \in 0 .. Len(n) : Node(n, i) = a /\ Node(n, i + 1) = b  BY <1>5 DEF Adjacent
  <2>2. CASE i < k - 1
    <3>1. /\ i \in 0 .. k - 1 /\ i + 1 \in 0 .. k - 1 /\ i \in 0 .. Len(o)
          /\ i \in 0 .. Len(o) + 1 /\ i + 1 \in 0 .. Len(o) + 1
          /\ k - 1 \in 0 .. Len(o) + 1 /\ k + Len(s) \in 0 .. Len(o) + 1
          /\ i # k - 1 /\ i + 1 # k + Len(s)
          BY <1>1, <2>2
    <3>2. a = Node(o, i) /\ b = Node(o, i + 1)  BY <1>1, <2>1, <3>1
    <3>3. a # x /\ b # y  BY <1>3, <1>4, <3>1, <3>2, NodeOnce
    <3> QED  BY <3>1, <3>2, <3>3 DEF Adjacent
  <2>3. CASE i = k - 1
    <3>1. i \in 0 .. k - 1 /\ i + 1 \in k .. Len(o) - Len(s) + 1 /\ i + 1 + Len(s) = k + Len(s)
          BY <1>1, <2>3
    <3> QED  BY <1>1, <1>3, <1>4, <2>1, <2>3, <3>1
  <2>4. CASE i > k - 1
    <3>1. /\ i \in k .. Len(o) - Len(s) + 1 /\ i + 1 \in k .. Len(o) - Len(s) + 1
          /\ i + Len(s) \in 0 .. Len(o) /\ i + 1 + Len(s) = i + Len(s) + 1
          /\ i + Len(s) \in 0 .. Len(o) + 1 /\ i + Len(s) + 1 \in 0 .. Len(o) + 1
          /\ k - 1 \in 0 .. Len(o) + 1 /\ k + Len(s) \in 0 .. Len(o) + 1
          /\ i + Len(s) # k - 1 /\ i + Len(s) + 1 # k + Len(s)
          BY <1>1, <2>4
    <3>2. a = Node(o, i + Len(s)) /\ b = Node(o, i + Len(s) + 1)  BY <1>1, <2>1, <3>1
    <3>3. a # x /\ b # y  BY <1>3, <1>4, <3>1, <3>2, NodeOnce
    <3> QED  BY <3>1, <3>2, <3>3 DEF Adjacent
  <2> QED  BY <1>1, <2>2, <2>3, <2>4
<1>6. Adjacent(n, x, y)
  <2>1. /\ k - 1 \in 0 .. k - 1 /\ k - 1 + 1 \in k .. Len(o) - Len(s) + 1
        /\ k - 1 \in 0 .. Len(n) /\ k - 1 + 1 + Len(s) = k + Len(s)
        BY <1>1
  <2> QED  BY <1>1, <1>3, <1>4, <2>1 DEF Adjacent
<1>7. ASSUME NEW a, NEW b, Adjacent(o, a, b), ~ Contains(s, a), ~ Contains(s, b)
      PROVE  Adjacent(n, a, b)
  <2>1. PICK i \in 0 .. Len(o) : Node(o, i) = a /\ Node(o, i + 1) = b  BY <1>7 DEF Adjacent
  <2>2. ASSUME NEW j \in k .. k + Len(s) - 1  PROVE  Contains(s, Node(o, j))
    <3>1. j - k + 1 \in 1 .. Len(s) /\ k + (j - k + 1) - 1 = j /\ j \in 1 .. Len(o)  BY <1>1
    <3>2. s[j - k + 1] = Node(o, j)  BY <1>2, <3>1, NodeFacts
    <3> QED  BY <3>1, <3>2 DEF Contains
  <2>3. i \notin k .. k + Len(s) - 1 /\ i + 1 \notin k .. k + Len(s) - 1
        BY <1>7, <2>1, <2>2
  <2>4. CASE i < k - 1
    <3>1. i \in 0 .. k - 1 /\ i + 1 \in 0 .. k - 1 /\ i \in 0 .. Len(n)  BY <1>1, <2>4
    <3> QED  BY <1>1, <2>1, <3>1 DEF Adjacent
  <2>5. CASE i >= k + Len(s)
    <3>1. /\ i - Len(s) \in k .. Len(o) - Len(s) + 1
          /\ i - Len(s) + 1 \in k .. Len(o) - Len(s) + 1 /\ i - Len(s) \in 0 .. Len(n)
          /\ i - Len(s) + Len(s) = i /\ i - Len(s) + 1 + Len(s) = i + 1
          BY <1>1, <2>5
    <3>2. Node(n, i - Len(s)) = a /\ Node(n, i - Len(s) + 1) = b  BY <1>1, <2>1, <3>1
    <3> QED  BY <3>1, <3>2 DEF Adjacent
  <2> QED  BY <1>1, <2>3, <2>4, <2>5
<1> QED  BY <1>5, <1>6, <1>7 DEF n

LEMMA CutEndsWith ==
    ASSUME NEW o \in Seq(Pages), NEW s \in Seq(Pages), s # <<>>,
           NEW k, Occurs(o, s, k), NoRepeats(o),
           NEW e \in Seq(Pages), EndsWith(o, e), \A i \in 1 .. Len(e) : ~ Contains(s, e[i])
    PROVE  EndsWith(Cut(o, s, k), e)
<1> DEFINE n == Cut(o, s, k)
<1>1. /\ Len(o) \in Nat /\ Len(s) \in Nat \ {0} /\ k \in 1 .. Len(o)
      /\ Len(n) = Len(o) - Len(s) /\ k + Len(s) - 1 <= Len(o)
      /\ \A i \in k .. Len(o) - Len(s) : n[i] = o[i + Len(s)]
      BY CutNodes
<1> HIDE DEF n
<1>2. Len(e) \in Nat /\ Len(e) <= Len(o)  BY DEF EndsWith
<1>3. k + Len(s) - 1 <= Len(o) - Len(e)
  <2>1. SUFFICES ASSUME k + Len(s) - 1 > Len(o) - Len(e)  PROVE FALSE
        BY <1>1, <1>2
  <2>2. Len(s) \in 1 .. Len(s) /\ s[Len(s)] = o[k + Len(s) - 1]  BY <1>1 DEF Occurs
  <2>3. /\ k + Len(s) - 1 - (Len(o) - Len(e)) \in 1 .. Len(e)
        /\ Len(o) - Len(e) + (k + Len(s) - 1 - (Len(o) - Len(e))) = k + Len(s) - 1
        BY <1>1, <1>2, <2>1
  <2>4. e[k + Len(s) - 1 - (Len(o) - Len(e))] = s[Len(s)]  BY <2>2, <2>3 DEF EndsWith
  <2> QED  BY <2>2, <2>3, <2>4 DEF Contains
<1>4. ASSUME NEW i \in 1 .. Len(e)  PROVE  e[i] = n[Len(n) - Len(e) + i]
  <2>1. /\ Len(n) - Len(e) + i \in k .. Len(o) - Len(s)
        /\ Len(n) - Len(e) + i + Len(s) = Len(o) - Len(e) + i
        BY <1>1, <1>2, <1>3
  <2> QED  BY <1>1, <2>1 DEF EndsWith
<1>5. Len(e) <= Len(n)  BY <1>1, <1>2, <1>3
<1> QED  BY <1>4, <1>5 DEF EndsWith, n

\* What Unlink does to the order of the frames.
LEMMA WithoutSection ==
    ASSUME NEW s, order \in Seq(Pages), s \in Seq(Pages), s # <<>>, NoRepeats(order),
           NEW k, Occurs(order, s, k)
    PROVE  Without(s) = Cut(order, s, k)
<1>1. /\ Len(s) \in Nat \ {0} /\ Head(s) = s[1] /\ k \in 1 .. Len(order)
      BY DEF Occurs
<1>2. 1 \in 1 .. Len(s) /\ k + 1 - 1 = k  BY <1>1
<1>3. order[k] = Head(s)  BY <1>1, <1>2 DEF Occurs
<1>4. Contains(order, Head(s))  BY <1>1, <1>3 DEF Contains
<1> DEFINE i == CHOOSE j \in 1 .. Len(order) : order[j] = Head(s)
<1>5. i \in 1 .. Len(order) /\ order[i] = Head(s)  BY <1>1, <1>3
<1> HIDE DEF i
<1>6. i = k  BY <1>1, <1>3, <1>5 DEF NoRepeats
<1>7. Without(s) = SubSeq(order, 1, i - 1) \o SubSeq(order, i + Len(s), Len(order))
      BY <1>4 DEF Without, i
<1> QED  BY <1>6, <1>7 DEF Cut

----------------------------------------------------------------------------
(* What one thread's step leaves to another *)

\* Another thread's step leaves u its locks, the places of what it has locked,
\* and, while it holds the list lock, who is next to it.
Undisturbed(u) ==
    /\ op'[u] = op[u]
    /\ \A n \in Nodes : page_lock'[n] = u <=> page_lock[n] = u
    /\ u \in shared' <=> u \in shared
    /\ exclusive' = u <=> exclusive = u
    /\ \A p \in Pages : page_lock[p] = u => (Contains(order', p) <=> Contains(order, p))
    /\ \A p \in Pages : page_lock[p] = u /\ ~ Contains(order, p) =>
            flink'[p] = flink[p] /\ blink'[p] = blink[p]
    /\ HoldsList(u) =>
          \A a, b \in Nodes :
              /\ Adjacent(order, a, b)
              /\ page_lock[a] = u \/ page_lock[b] = u \/ exclusive = u
              => Adjacent(order', a, b)
    /\ \A s \in Seq(Pages) :
          EndsWith(order, s) /\ (\A i \in 1 .. Len(s) : page_lock[s[i]] = u)
              => EndsWith(order', s)

LEMMA UndisturbedInv ==
    ASSUME Types, NEW u \in Threads, ThreadInv(u), Undisturbed(u)
    PROVE  ThreadInv(u)'
<1> DEFINE s == op[u].frames
<1>0. /\ s \in Seq(Pages) /\ Len(s) \in Nat /\ \A i \in 1 .. Len(s) : s[i] \in Pages
      /\ op[u].owned \subseteq Nodes /\ order \in Seq(Pages)
      BY DEF Types, Operation
<1>00. \A p \in Pages : p \in Nodes  BY DEF Nodes
<1>01. \A i \in 1 .. Len(s) : page_lock'[s[i]] = u <=> page_lock[s[i]] = u
      BY <1>0, <1>00 DEF Undisturbed
<1>1. (Pcs(u) /\ Frames(u))'
      BY DEF ThreadInv, Pcs, Frames, Undisturbed
<1>2. ListHeld(u)'
      BY DEF ThreadInv, ListHeld, HoldsList, Undisturbed
<1>3. FramesLocked(u)' /\ OwnedLocked(u)'
      BY <1>0, <1>01 DEF ThreadInv, FramesLocked, OwnedLocked, Undisturbed
<1>4. NextLocked(u)' /\ NoOthersLocked(u)'
      BY <1>00 DEF ThreadInv, NextLocked, NoOthersLocked, Undisturbed
<1> DEFINE c == Section(u)
<1>6. Section(u)' = c  BY DEF Section, Undisturbed
<1>7. \A a, b : /\ HoldsList(u) /\ Adjacent(order, a, b)
                /\ page_lock[a] = u \/ page_lock[b] = u \/ exclusive = u
                => Adjacent(order, a, b)'
      BY <1>0, AdjacentNodes DEF Undisturbed
<1>8. Head(s) = s[1] /\ Last(s) = s[Len(s)]  BY <1>0 DEF Last
<1>9. s # <<>> => /\ 1 \in 1 .. Len(s) /\ Len(s) \in 1 .. Len(s)
                  /\ Head(c) = s[1] /\ \E i \in 1 .. Len(s) : Last(c) = s[i]
  <2>1. CASE u \in BatchPoppers  BY <1>0, <1>8, <2>1 DEF Section
  <2>2. CASE u \notin BatchPoppers
    <3>1. c = <<s[1]>>  BY <1>8, <2>2 DEF Section
    <3>2. Head(c) = s[1] /\ Last(c) = s[1]  BY <3>1 DEF Last
    <3> QED  BY <1>0, <3>2
  <2> QED  BY <2>1, <2>2
<1> HIDE DEF c
<1>5. NeighboursLocked(u)'
  <2>1. op'[u] = op[u] /\ "head" \in Nodes  BY DEF Undisturbed, Nodes
  <2>2. u \in Inserters /\ (At(u, "second") \/ At(u, "link")) =>
            op[u].behind \in Nodes /\ op[u].ahead \in Nodes
        BY <1>0, <2>1, AdjacentNodes DEF ThreadInv, Neighbours
  <2>3. u \notin Inserters /\ (At(u, "second") \/ At(u, "unlink")) =>
            op[u].behind \in Nodes /\ op[u].ahead \in Nodes
        BY <1>0, AdjacentNodes DEF ThreadInv, Neighbours
  <2>4. At(u, "link") => u \in Inserters
        BY DEF ThreadInv, Pcs, At, BatchPcs, PopPcs, RescuePcs, ListPcs
  <2>5. At(u, "unlink") => u \notin Inserters
        BY DEF ThreadInv, Pcs, At, InsertPcs, ListPcs
  <2>6. At(u, "link_ends") => op[u].ahead \in Nodes
        BY <1>0, AdjacentNodes DEF ThreadInv, Neighbours
  <2> QED  BY <2>1, <2>2, <2>3, <2>4, <2>5, <2>6
           DEF ThreadInv, NeighboursLocked, Undisturbed, At, Inserting
<1>10. Neighbours(u)'
  <2>1. op'[u] = op[u]  BY DEF Undisturbed
  <2>2. op[u].pc \notin Unlisted => HoldsList(u)  BY DEF ThreadInv, ListHeld
  <2>3. op[u].pc \in {"second", "link", "unlink", "link_ends"} =>
            /\ HoldsList(u) /\ s # <<>>
            /\ op[u].pc # "walk" /\ op[u].pc # "walk_on" /\ op[u].pc # "leave"
        BY <2>2 DEF ThreadInv, Frames, Unlisted
  <2>4. op[u].pc \in {"second", "link", "unlink", "link_ends"} =>
            \A i \in 1 .. Len(s) : page_lock[s[i]] = u
        BY <2>3 DEF ThreadInv, FramesLocked
  <2>5. At(u, "second") /\ u \in Inserters => page_lock["head"] = u
        BY DEF ThreadInv, NeighboursLocked, Inserting
  <2>6. At(u, "link") /\ u \in Inserters => exclusive = u \/ page_lock["head"] = u
        BY DEF ThreadInv, NeighboursLocked, Neighbours
  <2>7. u \in Inserters /\ (At(u, "second") \/ At(u, "link")) =>
            op[u].behind = "head" /\ Adjacent(order, "head", op[u].ahead)'
        BY <1>7, <2>1, <2>3, <2>5, <2>6 DEF ThreadInv, Neighbours, At
  <2>8. u \notin Inserters /\ (At(u, "second") \/ At(u, "unlink")) =>
            /\ Adjacent(order', op[u].behind, Head(c))
            /\ Adjacent(order', Last(c), op[u].ahead)
        BY <1>7, <1>9, <2>3, <2>4 DEF ThreadInv, Neighbours, At, c
  <2>9. At(u, "link_ends") => /\ Adjacent(order', "head", Head(s))
                              /\ Adjacent(order', Last(s), op[u].ahead)
        BY <1>7, <1>8, <1>9, <2>3, <2>4 DEF ThreadInv, Neighbours, At
  <2> QED  BY <1>6, <2>1, <2>7, <2>8, <2>9 DEF Neighbours, At
<1>11. InsertsNew(u)'
  <2>1. op'[u] = op[u]  BY DEF Undisturbed
  <2>2. SUFFICES ASSUME u \in Inserters, op[u].pc \in Unlinked
        PROVE  /\ \A i \in 1 .. Len(s) : ~ Contains(order', s[i])
               /\ \A i \in 1 .. Len(s) - 1 : flink'[s[i]] = s[i + 1] /\ blink'[s[i + 1]] = s[i]
        BY <2>1 DEF InsertsNew
  <2>3. \A i \in 1 .. Len(s) : page_lock[s[i]] = u /\ ~ Contains(order, s[i])
        BY <2>2 DEF ThreadInv, FramesLocked, InsertsNew, Unlinked
  <2>4. \A i \in 1 .. Len(s) : /\ ~ Contains(order', s[i])
                               /\ flink'[s[i]] = flink[s[i]] /\ blink'[s[i]] = blink[s[i]]
        BY <1>0, <2>3 DEF Undisturbed
  <2>5. \A i \in 1 .. Len(s) - 1 : i \in 1 .. Len(s) /\ i + 1 \in 1 .. Len(s)  BY <1>0
  <2>6. \A i \in 1 .. Len(s) - 1 : flink[s[i]] = s[i + 1] /\ blink[s[i + 1]] = s[i]
        BY <2>2 DEF ThreadInv, InsertsNew
  <2> QED  BY <2>4, <2>5, <2>6
<1>12. InsertsLinked(u)'
  <2>1. op'[u] = op[u]  BY DEF Undisturbed
  <2>2. SUFFICES ASSUME At(u, "link_ends") \/ (u \in Inserters /\ At(u, "unlock")),
                        NEW i \in 1 .. Len(s) - 1
        PROVE  Adjacent(order', s[i], s[i + 1])
        BY <2>1 DEF InsertsLinked, At
  <2>3. HoldsList(u) /\ \A j \in 1 .. Len(s) : page_lock[s[j]] = u
        BY <2>2 DEF ThreadInv, ListHeld, FramesLocked, Unlisted, At
  <2>4. i \in 1 .. Len(s)  BY <1>0
  <2>5. Adjacent(order, s[i], s[i + 1])  BY <2>2 DEF ThreadInv, InsertsLinked
  <2> QED  BY <1>7, <2>3, <2>4, <2>5
<1>13. Walks(u)'
  <2>1. op'[u] = op[u]  BY DEF Undisturbed
  <2>2. SUFFICES ASSUME At(u, "walk") \/ At(u, "walk_on")
        PROVE  \E j \in 1 .. Len(s) :
                  /\ op[u].behind = s[j]
                  /\ At(u, "walk") => page_lock'[s[j]] = u
                  /\ At(u, "walk_on") => j < Len(s)
                  /\ \A i \in j + 1 .. Len(s) : page_lock'[s[i]] = u
                  /\ \A i \in j .. Len(s) - 1 : Adjacent(order', s[i], s[i + 1])
        BY <2>1 DEF Walks, At
  <2>3. PICK j \in 1 .. Len(s) :
                  /\ op[u].behind = s[j]
                  /\ At(u, "walk") => page_lock[s[j]] = u
                  /\ At(u, "walk_on") => j < Len(s)
                  /\ \A i \in j + 1 .. Len(s) : page_lock[s[i]] = u
                  /\ \A i \in j .. Len(s) - 1 : Adjacent(order, s[i], s[i + 1])
        BY <2>2 DEF ThreadInv, Walks
  <2>4. HoldsList(u)  BY <2>2 DEF ThreadInv, ListHeld, Unlisted, At
  <2>5. ASSUME NEW i \in j .. Len(s) - 1  PROVE  Adjacent(order', s[i], s[i + 1])
    <3>1. i + 1 \in j + 1 .. Len(s)  BY <1>0, <2>3
    <3> QED  BY <1>7, <2>3, <2>4, <3>1
  <2>6. j \in 1 .. Len(s) /\ \A i \in j + 1 .. Len(s) : i \in 1 .. Len(s)  BY <1>0
  <2> QED  BY <1>01, <2>3, <2>5, <2>6
<1>14. PopsEnd(u)'
  <2>1. op'[u] = op[u]  BY DEF Undisturbed
  <2>2. SUFFICES ASSUME u \in Poppers \cup BatchPoppers,
                        op[u].pc \notin {"unlock", "leave"}
        PROVE  EndsWith(order', s)
        BY <2>1 DEF PopsEnd
  <2>3. \A i \in 1 .. Len(s) : page_lock[s[i]] = u
    <3>1. u \notin Inserters  BY <2>2, ListAssumption
    <3> QED  BY <3>1 DEF ThreadInv, FramesLocked
  <2>4. EndsWith(order, s)  BY <2>2 DEF ThreadInv, PopsEnd
  <2> QED  BY <1>0, <2>3, <2>4 DEF Undisturbed
<1>15. RescuesListed(u)'
  <2>1. op'[u] = op[u]  BY DEF Undisturbed
  <2>2. CASE u \in Rescuers
    <3>1. u \notin Inserters  BY <2>2, ListAssumption
    <3>2. \A i \in 1 .. Len(s) : page_lock[s[i]] = u  BY <3>1 DEF ThreadInv, FramesLocked
    <3>3. \A i \in 1 .. Len(s) : Contains(order', s[i]) <=> Contains(order, s[i])
          BY <1>0, <3>2 DEF Undisturbed
    <3>4. \A i \in 2 .. Len(s) : i \in 1 .. Len(s)  BY <1>0
    <3> QED  BY <2>1, <2>2, <3>3, <3>4 DEF ThreadInv, RescuesListed, At
  <2>3. CASE u \notin Rescuers  BY <2>3 DEF RescuesListed
  <2> QED  BY <2>2, <2>3
<1> QED  BY <1>1, <1>2, <1>3, <1>4, <1>5, <1>10, <1>11, <1>12, <1>13, <1>14, <1>15 DEF ThreadInv

\* A step of t changes nobody else's operation, locks or hold of the list lock.
OwnStep(t) ==
    /\ \A u \in Threads \ {t} : /\ op'[u] = op[u]
                                /\ u \in shared' <=> u \in shared
                                /\ exclusive' = u <=> exclusive = u
    /\ \A u \in Threads \ {t}, n \in Nodes : page_lock'[n] = u <=> page_lock[n] = u

LEMMA OthersKept ==
    ASSUME Inv, NEW t \in Threads, \A u \in Threads \ {t} : Undisturbed(u), ThreadInv(t)'
    PROVE  \A u \in Threads : ThreadInv(u)'
<1>1. ASSUME NEW u \in Threads, u # t  PROVE  ThreadInv(u)'
      BY <1>1, UndisturbedInv DEF Inv
<1> QED  BY <1>1

\* A step that leaves the links and the order alone.
LEMMA QuietStep ==
    ASSUME Inv, NEW t \in Threads, OwnStep(t), UNCHANGED <<flink, blink, order>>,
           op[t].pc # "link_ends", Types', ListLock', ThreadInv(t)'
    PROVE  Inv'
<1>1. ASSUME NEW u \in Threads \ {t}  PROVE  Undisturbed(u)
      BY DEF OwnStep, Undisturbed
<1>2. \A u \in Threads : ThreadInv(u)'  BY <1>1, OthersKept
<1>3. LinksHold'
  <2>1. \A u \in Threads : At(u, "link_ends") =>
            op'[u] = op[u] /\ op'[u].pc = "link_ends"
        BY DEF OwnStep, At
  <2>2. SUFFICES ASSUME NEW a \in Nodes, NEW b \in Nodes, Adjacent(order, a, b)
        PROVE  /\ \/ flink[a] = b
                  \/ \E u \in Threads : op'[u].pc = "link_ends" /\ a = Last(op'[u].frames)
               /\ \/ blink[b] = a
                  \/ \E u \in Threads : op'[u].pc = "link_ends" /\ b = Head(op'[u].frames)
        BY DEF LinksHold, At
  <2> QED  BY <2>1, <2>2 DEF Inv, LinksHold
<1>4. NoRepeats(order)'  BY DEF Inv, NoRepeats
<1> QED  BY <1>2, <1>3, <1>4 DEF Inv, ListLock

\* Taking a lock that is free or already t's, and giving up locks t has.
LEMMA TakeLock ==
    ASSUME Types, NEW t \in Threads, NEW n \in Nodes, page_lock[n] \in {None, t},
           page_lock' = [page_lock EXCEPT ![n] = t]
    PROVE  /\ page_lock' \in [Nodes -> Threads \cup {None}]
           /\ page_lock'[n] = t
           /\ \A m \in Nodes \ {n} : page_lock'[m] = page_lock[m]
           /\ \A u \in Threads \ {t}, m \in Nodes : page_lock'[m] = u <=> page_lock[m] = u
BY ListAssumption DEF Types, Nodes

LEMMA FreeLocks ==
    ASSUME Types, NEW t \in Threads, NEW S, \A n \in S : page_lock[n] = t,
           page_lock' = Unlocked(S)
    PROVE  /\ page_lock' \in [Nodes -> Threads \cup {None}]
           /\ \A n \in Nodes : page_lock'[n] = IF n \in S THEN None ELSE page_lock[n]
           /\ \A u \in Threads \ {t}, n \in Nodes : page_lock'[n] = u <=> page_lock[n] = u
BY ListAssumption DEF Types, Unlocked

LEMMA NoThread ==
    /\ None \notin Threads /\ None \notin Nodes
    /\ \A p \in Pages : p \in Nodes /\ p # None /\ p # "head" /\ p # "tail"
    /\ "head" \in Nodes /\ "tail" \in Nodes
    /\ \A t \in Inserters : t \notin Poppers \cup BatchPoppers \cup Rescuers
    /\ \A t \in Poppers : t \notin BatchPoppers \cup Rescuers
    /\ \A t \in BatchPoppers : t \notin Rescuers
BY ListAssumption DEF Nodes

LEMMA GotoFacts ==
    ASSUME Types, NEW t \in Threads, NEW c \in BatchPcs \cup InsertPcs, Goto(t, c)
    PROVE  /\ op' \in [Threads -> Operation]
           /\ op'[t].pc = c /\ op'[t].frames = op[t].frames
           /\ op'[t].ahead = op[t].ahead /\ op'[t].behind = op[t].behind
           /\ op'[t].owned = op[t].owned
           /\ \A u \in Threads \ {t} : op'[u] = op[u]
BY DEF Types, Operation, Goto

----------------------------------------------------------------------------
(* What the links tell who has the locks *)

LEMMA OpTypes ==
    ASSUME Types, NEW t \in Threads
    PROVE  /\ op[t] \in Operation
           /\ op[t].frames \in Seq(Pages) /\ Len(op[t].frames) \in Nat
           /\ \A i \in 1 .. Len(op[t].frames) : op[t].frames[i] \in Pages
           /\ op[t].frames # <<>> =>
                 /\ Len(op[t].frames) >= 1
                 /\ Head(op[t].frames) = op[t].frames[1]
                 /\ Last(op[t].frames) = op[t].frames[Len(op[t].frames)]
                 /\ Head(op[t].frames) \in Pages /\ Last(op[t].frames) \in Pages
           /\ op[t].owned \subseteq Nodes
<1>1. op[t] \in Operation /\ op[t].frames \in Seq(Pages) /\ op[t].owned \subseteq Nodes
      BY DEF Types, Operation
<1> DEFINE s == op[t].frames
<1>2. s \in Seq(Pages)  BY <1>1
<1> HIDE DEF s
<1>3. /\ Len(s) \in Nat /\ \A i \in 1 .. Len(s) : s[i] \in Pages
      /\ s # <<>> => Len(s) >= 1 /\ Head(s) = s[1] /\ Last(s) = s[Len(s)]
      BY <1>2 DEF Last
<1>4. s # <<>> => Head(s) \in Pages /\ Last(s) \in Pages
  <2>1. s # <<>> => 1 \in 1 .. Len(s) /\ Len(s) \in 1 .. Len(s)  BY <1>3
  <2> QED  BY <1>3, <2>1
<1> QED  BY <1>1, <1>3, <1>4 DEF s

\* A section that is half linked is locked by who links it.
LEMMA LinkerLocks ==
    ASSUME Inv, NEW u \in Threads, At(u, "link_ends")
    PROVE  /\ Head(op[u].frames) \in Pages /\ page_lock[Head(op[u].frames)] = u
           /\ Last(op[u].frames) \in Pages /\ page_lock[Last(op[u].frames)] = u
           /\ HoldsList(u)
<1>1. HoldsList(u)  BY DEF Inv, ThreadInv, ListHeld, Unlisted, At
<1>2. op[u].frames # <<>>  BY DEF Inv, ThreadInv, Frames, At
<1>3. \A i \in 1 .. Len(op[u].frames) : page_lock[op[u].frames[i]] = u
      BY DEF Inv, ThreadInv, FramesLocked, At
<1>4. /\ Len(op[u].frames) \in Nat /\ Len(op[u].frames) >= 1
      /\ Head(op[u].frames) = op[u].frames[1] /\ Head(op[u].frames) \in Pages
      /\ Last(op[u].frames) = op[u].frames[Len(op[u].frames)] /\ Last(op[u].frames) \in Pages
      BY <1>2, OpTypes DEF Inv
<1> QED  BY <1>1, <1>3, <1>4

LEMMA ExclusiveAlone ==
    ASSUME Inv, NEW t \in Threads, exclusive = t, NEW u \in Threads, HoldsList(u)
    PROVE  u = t
BY NoThread DEF Inv, ListLock, HoldsList

\* The links of a node of the list are right for the thread that has its lock
\* or the list.
LEMMA LinksRight ==
    ASSUME Inv, NEW t \in Threads, ~ At(t, "link_ends"),
           NEW n, page_lock[n] = t \/ exclusive = t
    PROVE  /\ Contains(order, n) => /\ Adjacent(order, n, flink[n])
                                    /\ Adjacent(order, blink[n], n)
<1>1. SUFFICES ASSUME Contains(order, n)
      PROVE  Adjacent(order, n, flink[n]) /\ Adjacent(order, blink[n], n)
      OBVIOUS
<1>2. order \in Seq(Pages)  BY DEF Inv, Types
<1>3. n \in Nodes  BY <1>1, <1>2, NoThread DEF Contains
<1>4. ASSUME NEW u \in Threads, At(u, "link_ends")
      PROVE  n # Last(op[u].frames) /\ n # Head(op[u].frames)
      BY <1>4, LinkerLocks, ExclusiveAlone
<1>5. PICK b \in Nodes : Adjacent(order, n, b)  BY <1>1, <1>2, AdjacentExists
<1>6. PICK a \in Nodes : Adjacent(order, a, n)  BY <1>1, <1>2, AdjacentExists
<1>7. flink[n] = b /\ blink[n] = a  BY <1>3, <1>4, <1>5, <1>6 DEF Inv, LinksHold
<1> QED  BY <1>5, <1>6, <1>7

\* The links that start at the ends of the list are always right.
LEMMA EndsRight ==
    ASSUME Inv
    PROVE  Adjacent(order, "head", flink["head"]) /\ Adjacent(order, blink["tail"], "tail")
<1>1. order \in Seq(Pages)  BY DEF Inv, Types
<1>2. \A u \in Threads : At(u, "link_ends") =>
          "head" # Last(op[u].frames) /\ "tail" # Head(op[u].frames)
      BY LinkerLocks, NoThread
<1>3. PICK b \in Nodes : Adjacent(order, "head", b)  BY <1>1, AdjacentExists
<1>4. PICK a \in Nodes : Adjacent(order, a, "tail")  BY <1>1, AdjacentExists
<1>5. flink["head"] = b  BY <1>2, <1>3, NoThread DEF Inv, LinksHold
<1>6. blink["tail"] = a  BY <1>2, <1>4, NoThread DEF Inv, LinksHold
<1> QED  BY <1>3, <1>4, <1>5, <1>6

\* The node before "tail" ends the list, as does what it is before.
LEMMA EndsWithLast ==
    ASSUME NEW o \in Seq(Pages), NoRepeats(o), NEW p \in Pages, Adjacent(o, p, "tail")
    PROVE  EndsWith(o, <<p>>)
<1>0. Len(o) \in Nat  OBVIOUS
<1>1. PICK i \in 0 .. Len(o) : Node(o, i) = p /\ Node(o, i + 1) = "tail"  BY DEF Adjacent
<1>2. i + 1 \in 0 .. Len(o) + 1 /\ Len(o) + 1 \in 0 .. Len(o) + 1  BY <1>0
<1>3. i + 1 = Len(o) + 1  BY <1>1, <1>2, NodeFacts, NodeOnce
<1>4. i = Len(o) /\ i # 0  BY <1>0, <1>1, <1>3, NodeFacts, NoThread
<1>5. Len(o) \in 1 .. Len(o)  BY <1>0, <1>4
<1>6. o[Len(o)] = p  BY <1>1, <1>4, <1>5, NodeFacts
<1>7. Len(<<p>>) = 1 /\ <<p>>[1] = p  OBVIOUS
<1>8. 1 <= Len(o) /\ Len(o) - 1 + 1 = Len(o)  BY <1>0, <1>5
<1>9. \A j \in 1 .. 1 : j = 1  OBVIOUS
<1> QED  BY <1>6, <1>7, <1>8, <1>9 DEF EndsWith

LEMMA EndsWithNext ==
    ASSUME NEW o \in Seq(Pages), NoRepeats(o), NEW s \in Seq(Pages), s # <<>>,
           EndsWith(o, s), NEW p \in Pages, Adjacent(o, p, Head(s))
    PROVE  /\ EndsWith(o, <<p>> \o s) /\ ~ Contains(s, p)
           /\ <<p>> \o s \in Seq(Pages) /\ NoRepeats(<<p>> \o s)
<1>0. /\ Len(o) \in Nat /\ Len(s) \in Nat \ {0} /\ Len(s) <= Len(o) /\ Head(s) = s[1]
      /\ Len(<<p>>) = 1 /\ <<p>>[1] = p /\ <<p>> \in Seq(Pages) /\ <<p>> # <<>>
      BY DEF EndsWith
<1> DEFINE k == Len(o) - Len(s)
           n == <<p>> \o s
<1>1. k \in Nat /\ k + 1 \in 1 .. Len(o)  BY <1>0
<1>2. Head(s) = Node(o, k + 1)
  <2>1. 1 \in 1 .. Len(s)  BY <1>0
  <2>2. s[1] = o[k + 1]  BY <2>1 DEF EndsWith
  <2> QED  BY <1>0, <1>1, <2>2, NodeFacts
<1>3. PICK i \in 0 .. Len(o) : Node(o, i) = p /\ Node(o, i + 1) = Head(s)  BY DEF Adjacent
<1>4. i + 1 \in 0 .. Len(o) + 1 /\ k + 1 \in 0 .. Len(o) + 1  BY <1>0, <1>1
<1>5. i + 1 = k + 1  BY <1>2, <1>3, <1>4, NodeOnce
<1>6. i = k  BY <1>0, <1>1, <1>5
<1>7. k # 0  BY <1>0, <1>3, <1>6, NodeFacts, NoThread
<1>8. k \in 1 .. Len(o) /\ o[k] = p
  <2>1. k \in 1 .. Len(o)  BY <1>0, <1>1, <1>7
  <2> QED  BY <1>3, <1>6, <2>1, NodeFacts
<1>9. /\ n \in Seq(Pages) /\ Len(n) = 1 + Len(s) /\ n[1] = p
      /\ \A j \in 1 .. Len(s) : n[1 + j] = s[j]
  <2>1. 1 \in 1 .. 1  OBVIOUS
  <2>2. /\ n \in Seq(Pages) /\ Len(n) = Len(<<p>>) + Len(s)
        /\ \A j \in 1 .. Len(<<p>>) : n[j] = <<p>>[j]
        /\ \A j \in 1 .. Len(s) : n[Len(<<p>>) + j] = s[j]
        BY <1>0, PutNodes
  <2> QED  BY <1>0, <2>1, <2>2
<1> HIDE DEF n
<1>10. ASSUME NEW j \in 1 .. Len(n)  PROVE  n[j] = o[Len(o) - Len(n) + j]
  <2>1. CASE j = 1
    <3>1. Len(o) - Len(n) + 1 = k  BY <1>0, <1>9
    <3> QED  BY <1>8, <1>9, <2>1, <3>1
  <2>2. CASE j # 1
    <3>1. j - 1 \in 1 .. Len(s) /\ 1 + (j - 1) = j  BY <1>0, <1>9, <2>2
    <3>2. n[j] = s[j - 1]  BY <1>9, <3>1
    <3>3. s[j - 1] = o[Len(o) - Len(s) + (j - 1)]  BY <3>1 DEF EndsWith
    <3>4. Len(o) - Len(s) + (j - 1) = Len(o) - Len(n) + j  BY <1>0, <1>9, <3>1
    <3> QED  BY <3>2, <3>3, <3>4
  <2> QED  BY <2>1, <2>2
<1>11. EndsWith(o, n)
  <2>1. Len(n) <= Len(o)  BY <1>0, <1>7, <1>9
  <2> QED  BY <1>10, <2>1 DEF EndsWith
<1>12. ASSUME Contains(s, p)  PROVE  FALSE
  <2>1. PICK j \in 1 .. Len(s) : s[j] = p  BY <1>12 DEF Contains
  <2>2. s[j] = o[k + j] /\ k + j \in 1 .. Len(o)  BY <1>0, <1>1 DEF EndsWith
  <2>3. k + j = k  BY <1>8, <2>1, <2>2 DEF NoRepeats
  <2> QED  BY <1>1, <2>3
<1>13. NoRepeats(n)
  <2>1. \A j \in 1 .. Len(n) : Len(o) - Len(n) + j \in 1 .. Len(o)
        BY <1>0, <1>7, <1>9
  <2>2. ASSUME NEW j \in 1 .. Len(n), NEW l \in 1 .. Len(n), n[j] = n[l]  PROVE  j = l
    <3>1. Len(o) - Len(n) + j = Len(o) - Len(n) + l
          BY <1>10, <2>1, <2>2 DEF NoRepeats
    <3> QED  BY <1>0, <1>9, <3>1
  <2> QED  BY <2>2 DEF NoRepeats
<1> QED  BY <1>9, <1>11, <1>12, <1>13 DEF n

LEMMA EmptyThread ==
    ASSUME NEW t \in Threads, order' \in Seq(Pages),
           op'[t].pc \in {"idle", "lock_tail"}, op'[t].frames = <<>>, op'[t].owned = {},
           \A n \in Nodes : page_lock'[n] # t, ~ HoldsList(t)',
           op'[t].pc = "lock_tail" => /\ op'[t].behind \in Pages
                                      /\ t \in Poppers \cup BatchPoppers
    PROVE  ThreadInv(t)'
<1>1. Pcs(t)' /\ ListHeld(t)'
      BY NoThread DEF Pcs, ListHeld, Unlisted, Sharing, InsertPcs, BatchPcs, PopPcs, RescuePcs,
                       ListPcs
<1>2. Frames(t)' /\ FramesLocked(t)' /\ OwnedLocked(t)'
      BY DEF Frames, NoRepeats, FramesLocked, OwnedLocked
<1>3. NextLocked(t)' /\ NoOthersLocked(t)'  BY DEF NextLocked, NoOthersLocked
<1>4. NeighboursLocked(t)' /\ Neighbours(t)'  BY DEF NeighboursLocked, Neighbours, At
<1>5. InsertsNew(t)' /\ InsertsLinked(t)' /\ Walks(t)'
      BY DEF InsertsNew, InsertsLinked, Walks, Unlinked, At
<1>6. PopsEnd(t)' /\ RescuesListed(t)'
  <2>1. EndsWith(order', <<>>)
    <3>1. Len(order') \in Nat  OBVIOUS
    <3> QED  BY <3>1 DEF EndsWith
  <2> QED  BY <2>1 DEF PopsEnd, RescuesListed, At
<1> QED  BY <1>1, <1>2, <1>3, <1>4, <1>5, <1>6 DEF ThreadInv

\* What a thread removes in one go.
LEMMA SectionFacts ==
    ASSUME Inv, NEW t \in Threads, t \notin Inserters, op[t].frames # <<>>
    PROVE  /\ Section(t) \in Seq(Pages) /\ Section(t) # <<>>
           /\ Head(Section(t)) = op[t].frames[1] /\ Head(Section(t)) \in Pages
           /\ Last(Section(t)) \in Pages
           /\ \A n : Contains(Section(t), n) => Contains(op[t].frames, n)
           /\ \A n : Contains(Section(t), n) => page_lock[n] = t
           /\ Contains(Section(t), Head(Section(t))) /\ Contains(Section(t), Last(Section(t)))
           /\ t \in Rescuers => Section(t) = <<op[t].frames[1]>>
           /\ t \in Poppers \cup BatchPoppers => Section(t) = op[t].frames
<1> DEFINE s == op[t].frames
           c == Section(t)
<1>1. /\ s \in Seq(Pages) /\ Len(s) \in Nat /\ Len(s) >= 1
      /\ \A i \in 1 .. Len(s) : s[i] \in Pages
      /\ Head(s) = s[1] /\ Last(s) = s[Len(s)]
      BY OpTypes DEF Inv
<1>2. \A i \in 1 .. Len(s) : page_lock[s[i]] = t
      BY DEF Inv, ThreadInv, FramesLocked
<1>3. t \in Poppers => Len(s) <= 1  BY DEF Inv, ThreadInv, Frames
<1>4. c = IF t \in BatchPoppers THEN s ELSE <<Head(s)>>  BY DEF Section
<1> HIDE DEF s, c
<1>5. 1 \in 1 .. Len(s) /\ Len(s) \in 1 .. Len(s)  BY <1>1
<1>6. CASE t \in BatchPoppers
  <2>1. c = s  BY <1>4, <1>6
  <2>2. Head(c) = s[1] /\ Last(c) = s[Len(s)] /\ c # <<>>  BY <1>1, <2>1
  <2>3. t \notin Rescuers /\ t \notin Poppers  BY <1>6, NoThread
  <2> QED  BY <1>1, <1>2, <1>5, <2>1, <2>2, <2>3 DEF Contains, s, c
<1>7. CASE t \notin BatchPoppers
  <2>1. c = <<s[1]>>  BY <1>1, <1>4, <1>7
  <2>2. c \in Seq(Pages) /\ Len(c) = 1 /\ c[1] = s[1] /\ Head(c) = s[1] /\ c # <<>>
        BY <1>1, <1>5, <2>1
  <2>3. Last(c) = s[1]  BY <2>2 DEF Last
  <2>4. \A n : Contains(c, n) <=> n = s[1]  BY <2>2 DEF Contains
  <2>5. t \in Poppers => c = s
    <3>1. SUFFICES ASSUME t \in Poppers  PROVE c = s
          OBVIOUS
    <3>2. Len(s) \in Nat /\ Len(s) >= 1 /\ Len(s) <= 1  BY <1>1, <1>3, <3>1
    <3>3. \A k \in Nat : k >= 1 /\ k <= 1 => k = 1  OBVIOUS
    <3>4. Len(s) = 1  BY <3>2, <3>3
    <3> QED  BY <1>1, <2>1, <2>2, <3>4
  <2> QED  BY <1>1, <1>2, <1>5, <1>7, <2>1, <2>2, <2>3, <2>4, <2>5 DEF Contains, s, c
<1> QED  BY <1>6, <1>7

LEMMA EndsContains ==
    ASSUME NEW o \in Seq(Pages), NEW s \in Seq(Pages), EndsWith(o, s)
    PROVE  \A n : Contains(s, n) => Contains(o, n)
<1>1. Len(o) \in Nat /\ Len(s) \in Nat /\ Len(s) <= Len(o)  BY DEF EndsWith
<1>2. ASSUME NEW i \in 1 .. Len(s)  PROVE  Contains(o, s[i])
  <2>1. Len(o) - Len(s) + i \in 1 .. Len(o)  BY <1>1
  <2> QED  BY <2>1 DEF EndsWith, Contains
<1> QED  BY <1>2 DEF Contains

\* A thread reads its neighbours when its frames are still in the list.
LEMMA SectionListed ==
    ASSUME Inv, Trimmers = {}, NEW t \in Threads, t \notin Inserters,
           op[t].frames # <<>>, op[t].pc \notin {"unlock", "leave"}
    PROVE  \A n : Contains(Section(t), n) => Contains(order, n)
<1>1. order \in Seq(Pages) /\ op[t].frames \in Seq(Pages)  BY OpTypes DEF Inv, Types
<1>2. CASE t \in Poppers \cup BatchPoppers
  <2>1. EndsWith(order, op[t].frames)  BY <1>2 DEF Inv, ThreadInv, PopsEnd
  <2> QED  BY <1>1, <2>1, EndsContains, SectionFacts
<1>3. CASE t \in Rescuers
  <2>1. \A n : Contains(op[t].frames, n) => Contains(order, n)
        BY <1>3 DEF Inv, ThreadInv, RescuesListed, Contains
  <2> QED  BY <2>1, SectionFacts
<1> QED  BY <1>2, <1>3 DEF Threads

LEMMA NeighboursRead ==
    ASSUME Inv, Trimmers = {}, NEW t \in Threads, op[t].pc \in {"first", "exclude"}
    PROVE  /\ op[t].frames # <<>>
           /\ Inserting(t) <=> t \in Inserters
           /\ t \in Inserters => BehindOf(t) = "head" /\ Adjacent(order, "head", AheadOf(t))
           /\ t \notin Inserters =>
                 /\ Adjacent(order, BehindOf(t), Head(Section(t)))
                 /\ Adjacent(order, Last(Section(t)), AheadOf(t))
           /\ AheadOf(t) \in Nodes /\ BehindOf(t) \in Nodes
<1>1. op[t].frames # <<>>  BY DEF Inv, ThreadInv, Frames
<1>2. order \in Seq(Pages)  BY DEF Inv, Types
<1>3. Inserting(t) <=> t \in Inserters  BY DEF Inserting
<1>4. CASE t \in Inserters
  <2>1. BehindOf(t) = "head" /\ AheadOf(t) = flink["head"]
        BY <1>3, <1>4 DEF BehindOf, AheadOf
  <2> QED  BY <1>1, <1>2, <1>3, <1>4, <2>1, EndsRight, AdjacentNodes, NoThread
<1>5. CASE t \notin Inserters
  <2>1. BehindOf(t) = blink[Head(Section(t))] /\ AheadOf(t) = flink[Last(Section(t))]
        BY <1>3, <1>5 DEF BehindOf, AheadOf
  <2>2. /\ Contains(order, Head(Section(t))) /\ page_lock[Head(Section(t))] = t
        /\ Contains(order, Last(Section(t))) /\ page_lock[Last(Section(t))] = t
        BY <1>1, <1>5, SectionFacts, SectionListed
  <2>3. ~ At(t, "link_ends")  BY DEF At
  <2>4. /\ Adjacent(order, BehindOf(t), Head(Section(t)))
        /\ Adjacent(order, Last(Section(t)), AheadOf(t))
        BY <2>1, <2>2, <2>3, LinksRight
  <2> QED  BY <1>1, <1>2, <1>3, <1>5, <2>4, AdjacentNodes
<1> QED  BY <1>4, <1>5

----------------------------------------------------------------------------
(* Each operation's steps *)

LEMMA ShareStep ==
    ASSUME Inv, Trimmers = {}, NEW t \in Threads, Share(t)
    PROVE  Inv'
<1>1. /\ op[t].pc = "share" /\ op'[t].pc = "first" /\ op' \in [Threads -> Operation]
      /\ op'[t].frames = op[t].frames /\ op'[t].owned = op[t].owned
      /\ \A u \in Threads \ {t} : op'[u] = op[u]
      /\ shared' = shared \cup {t} /\ exclusive = None
      /\ UNCHANGED <<flink, blink, page_lock, exclusive, order>>
      BY GotoFacts DEF Inv, Share, At, InsertPcs, ListPcs
<1>2. Types'
      BY <1>1 DEF Inv, Types
<1>3. OwnStep(t)
      BY <1>1 DEF OwnStep
<1>4. ListLock'
      BY <1>1 DEF Inv, ListLock
<1>5. ThreadInv(t)
      BY DEF Inv
<1>6. Pcs(t)' /\ ListHeld(t)' /\ Frames(t)'
      BY <1>1, <1>5 DEF ThreadInv, Pcs, ListHeld, HoldsList, Frames, Unlisted, Sharing,
         InsertPcs, BatchPcs, PopPcs, RescuePcs, ListPcs
<1>7. FramesLocked(t)' /\ OwnedLocked(t)'
      BY <1>1, <1>5 DEF ThreadInv, FramesLocked, OwnedLocked
<1>8. NextLocked(t)' /\ NoOthersLocked(t)'
      BY <1>1, <1>5 DEF ThreadInv, NextLocked, NoOthersLocked
<1>9. NeighboursLocked(t)' /\ Neighbours(t)'
      BY <1>1, <1>5 DEF ThreadInv, NeighboursLocked, Neighbours, Section, At, Inserting
<1>10. InsertsNew(t)' /\ InsertsLinked(t)' /\ Walks(t)'
      BY <1>1, <1>5 DEF ThreadInv, InsertsNew, InsertsLinked, Walks, Unlinked, At
<1>11. PopsEnd(t)' /\ RescuesListed(t)'
      BY <1>1, <1>5 DEF ThreadInv, PopsEnd, RescuesListed, At
<1> QED
  <2>1. ThreadInv(t)'  BY <1>6, <1>7, <1>8, <1>9, <1>10, <1>11 DEF ThreadInv
  <2>2. UNCHANGED <<flink, blink, order>> /\ op[t].pc # "link_ends"
        BY DEF Share, At
  <2> QED  BY <1>2, <1>3, <1>4, <2>1, <2>2, QuietStep


LEMMA UnshareStep ==
    ASSUME Inv, Trimmers = {}, NEW t \in Threads, Unshare(t)
    PROVE  Inv'
<1>1. /\ op[t].pc = "unshare" /\ op'[t].pc = "exclude" /\ op' \in [Threads -> Operation]
      /\ op'[t].frames = op[t].frames /\ op'[t].owned = op[t].owned
      /\ \A u \in Threads \ {t} : op'[u] = op[u]
      /\ shared' = shared \ {t}
      /\ UNCHANGED <<flink, blink, page_lock, exclusive, order>>
      BY GotoFacts DEF Inv, Unshare, At, InsertPcs, ListPcs
<1>12. t \in shared /\ exclusive # t
      BY <1>1, NoThread DEF Inv, ThreadInv, ListHeld, ListLock, Sharing
<1>2. Types'
      BY <1>1 DEF Inv, Types
<1>3. OwnStep(t)
      BY <1>1 DEF OwnStep
<1>4. ListLock'
      BY <1>1 DEF Inv, ListLock
<1>5. ThreadInv(t)
      BY DEF Inv
<1>6. Pcs(t)' /\ ListHeld(t)' /\ Frames(t)'
      BY <1>1, <1>5, <1>12 DEF ThreadInv, Pcs, ListHeld, HoldsList, Frames, Unlisted, Sharing,
         InsertPcs, BatchPcs, PopPcs, RescuePcs, ListPcs
<1>7. FramesLocked(t)' /\ OwnedLocked(t)'
      BY <1>1, <1>5 DEF ThreadInv, FramesLocked, OwnedLocked
<1>8. NextLocked(t)' /\ NoOthersLocked(t)'
      BY <1>1, <1>5 DEF ThreadInv, NextLocked, NoOthersLocked
<1>9. NeighboursLocked(t)' /\ Neighbours(t)'
      BY <1>1, <1>5 DEF ThreadInv, NeighboursLocked, Neighbours, Section, At, Inserting
<1>10. InsertsNew(t)' /\ InsertsLinked(t)' /\ Walks(t)'
      BY <1>1, <1>5 DEF ThreadInv, InsertsNew, InsertsLinked, Walks, Unlinked, At
<1>11. PopsEnd(t)' /\ RescuesListed(t)'
      BY <1>1, <1>5 DEF ThreadInv, PopsEnd, RescuesListed, At
<1> QED
  <2>1. ThreadInv(t)'  BY <1>6, <1>7, <1>8, <1>9, <1>10, <1>11 DEF ThreadInv
  <2>2. UNCHANGED <<flink, blink, order>> /\ op[t].pc # "link_ends"
        BY DEF Unshare, At
  <2> QED  BY <1>2, <1>3, <1>4, <2>1, <2>2, QuietStep

LEMMA LookAtTailFacts ==
    ASSUME Inv, NEW t \in Threads, LookAtTail(t)
    PROVE  /\ op' \in [Threads -> Operation] /\ op'[t].frames = <<>> /\ op'[t].owned = {}
           /\ op'[t].pc \in {"idle", "lock_tail"}
           /\ op'[t].pc = "lock_tail" => op'[t].behind \in Pages
           /\ \A u \in Threads \ {t} : op'[u] = op[u]
<1>1. order \in Seq(Pages)  BY DEF Inv, Types
<1>2. blink["tail"] # "head" => blink["tail"] \in Pages
      BY <1>1, EndsRight, AdjacentNodes
<1>3. Idle \in Operation /\ Idle.frames = <<>> /\ Idle.owned = {} /\ Idle.pc = "idle"
      BY DEF Idle, Operation, InsertPcs, ListPcs
<1>4. CASE blink["tail"] = "head"
      BY <1>3, <1>4 DEF LookAtTail, Inv, Types
<1>5. CASE blink["tail"] # "head"
  <2> DEFINE r == [Idle EXCEPT !.pc = "lock_tail", !.behind = blink["tail"]]
  <2>1. r \in Operation
        BY <1>2, <1>3, <1>5, NoThread DEF Operation, BatchPcs, PopPcs
  <2>2. /\ r.frames = <<>> /\ r.owned = {} /\ r.pc = "lock_tail"
        /\ r.behind = blink["tail"]
        BY <1>3 DEF Operation
  <2>3. op' = [op EXCEPT ![t] = r]  BY <1>5 DEF LookAtTail
  <2> HIDE DEF r
  <2>4. op' \in [Threads -> Operation] /\ op'[t] = r /\ \A u \in Threads \ {t} : op'[u] = op[u]
        BY <2>1, <2>3 DEF Inv, Types
  <2> QED  BY <1>2, <1>5, <2>2, <2>4
<1> QED  BY <1>4, <1>5

LEMMA ExcludeStep ==
    ASSUME Inv, Trimmers = {}, NEW t \in Threads, Exclude(t)
    PROVE  Inv'
<1>a. /\ op[t] \in Operation /\ AheadOf(t) \in Nodes /\ BehindOf(t) \in Nodes
      /\ Inserting(t) <=> t \in Inserters
      BY OpTypes, NeighboursRead DEF Inv, Exclude, At
<1>1. /\ op[t].pc = "exclude" /\ op'[t].pc = (IF t \in Inserters THEN "link" ELSE "unlink")
      /\ op' \in [Threads -> Operation]
      /\ op'[t].frames = op[t].frames /\ op'[t].owned = op[t].owned
      /\ op'[t].ahead = AheadOf(t) /\ op'[t].behind = BehindOf(t)
      /\ \A u \in Threads \ {t} : op'[u] = op[u]
      /\ exclusive' = t /\ shared = {} /\ exclusive = None
      /\ UNCHANGED <<flink, blink, page_lock, shared, order>>
      BY <1>a DEF Inv, Types, Exclude, At, Operation, BatchPcs, PopPcs, RescuePcs, InsertPcs
<1>b. Section(t)' = Section(t)  BY <1>1 DEF Section
<1>c. /\ t \in Inserters => BehindOf(t) = "head" /\ Adjacent(order, "head", AheadOf(t))
      /\ t \notin Inserters =>
            /\ Adjacent(order, BehindOf(t), Head(Section(t)))
            /\ Adjacent(order, Last(Section(t)), AheadOf(t))
      BY <1>1, NeighboursRead
<1>2. Types'
      BY <1>1 DEF Inv, Types
<1>3. OwnStep(t)
      BY <1>1, NoThread DEF OwnStep
<1>4. ListLock'
      BY <1>1 DEF Inv, ListLock
<1>5. ThreadInv(t)
      BY DEF Inv
<1>6. Pcs(t)' /\ ListHeld(t)' /\ Frames(t)'
  <2>1. op[t].pc = "exclude" /\ op'[t].pc \in {"link", "unlink"} /\ HoldsList(t)'
        BY <1>1 DEF HoldsList
  <2>2. Pcs(t)'
        BY <1>1, <1>5, NoThread DEF ThreadInv, Pcs, InsertPcs, BatchPcs, PopPcs, RescuePcs
  <2>3. ListHeld(t)'  BY <2>1 DEF ListHeld, Unlisted, Sharing
  <2>4. Frames(t)'  BY <1>1, <1>5, <2>1 DEF ThreadInv, Frames
  <2> QED  BY <2>2, <2>3, <2>4
<1>7. FramesLocked(t)' /\ OwnedLocked(t)'
      BY <1>1, <1>5 DEF ThreadInv, FramesLocked, OwnedLocked
<1>8. NextLocked(t)' /\ NoOthersLocked(t)'
      BY <1>1, <1>5 DEF ThreadInv, NextLocked, NoOthersLocked
<1>9. NeighboursLocked(t)' /\ Neighbours(t)'
      BY <1>1, <1>b, <1>c DEF NeighboursLocked, Neighbours, At
<1>10. InsertsNew(t)' /\ InsertsLinked(t)' /\ Walks(t)'
      BY <1>1, <1>5 DEF ThreadInv, InsertsNew, InsertsLinked, Walks, Unlinked, At
<1>11. PopsEnd(t)' /\ RescuesListed(t)'
      BY <1>1, <1>5 DEF ThreadInv, PopsEnd, RescuesListed, At
<1> QED
  <2>1. ThreadInv(t)'  BY <1>6, <1>7, <1>8, <1>9, <1>10, <1>11 DEF ThreadInv
  <2>2. UNCHANGED <<flink, blink, order>> /\ op[t].pc # "link_ends"
        BY DEF Exclude, At
  <2> QED  BY <1>2, <1>3, <1>4, <2>1, <2>2, QuietStep


LEMMA FindTailStep ==
    ASSUME Inv, Trimmers = {}, NEW t \in Threads, FindTail(t)
    PROVE  Inv'
<1>a. LookAtTail(t) /\ At(t, "idle") /\ t \in Poppers \cup BatchPoppers
      BY DEF FindTail
<1>1. UNCHANGED <<flink, blink, page_lock, shared, exclusive, order>>
      BY DEF FindTail
<1>b. /\ op' \in [Threads -> Operation] /\ op'[t].frames = <<>> /\ op'[t].owned = {}
      /\ op'[t].pc \in {"idle", "lock_tail"}
      /\ op'[t].pc = "lock_tail" => op'[t].behind \in Pages
      /\ \A u \in Threads \ {t} : op'[u] = op[u]
      BY <1>a, LookAtTailFacts
<1>2. Types'
      BY <1>1, <1>b DEF Inv, Types
<1>3. OwnStep(t)
      BY <1>1, <1>b DEF OwnStep
<1>4. ListLock'
      BY <1>1 DEF Inv, ListLock
<1>5. ThreadInv(t)'
  <2>1. /\ \A n \in Nodes : page_lock[n] # t
        /\ ~ HoldsList(t) /\ order \in Seq(Pages)
        BY <1>a DEF Inv, Types, ThreadInv, Frames, NoOthersLocked, ListHeld, Unlisted,
                    At, Contains
  <2>2. ~ HoldsList(t)' /\ order' \in Seq(Pages) /\ \A n \in Nodes : page_lock'[n] # t
        BY <1>1, <2>1 DEF HoldsList
  <2> QED  BY <1>a, <1>b, <2>2, EmptyThread
<1> QED
  <2>1. op[t].pc # "link_ends"  BY <1>a DEF At
  <2> QED  BY <1>1, <1>2, <1>3, <1>4, <1>5, <2>1, QuietStep

\* Only pops look for the tail.
LEMMA PopStates ==
    ASSUME Inv, Trimmers = {}, NEW t \in Threads,
           op[t].pc \in {"lock_tail", "check_tail", "grow", "lock_next", "check_next"}
    PROVE  /\ t \in Poppers \cup BatchPoppers /\ t \notin Inserters /\ t \notin Rescuers
           /\ ~ HoldsList(t) /\ op[t].owned = {}
<1>1. Pcs(t) /\ ListHeld(t) /\ OwnedLocked(t)  BY DEF Inv, ThreadInv
<1> QED  BY <1>1, NoThread DEF Pcs, ListHeld, OwnedLocked, Unlisted, Threads,
            InsertPcs, RescuePcs, ListPcs

LEMMA LockTailStep ==
    ASSUME Inv, Trimmers = {}, NEW t \in Threads, LockTail(t)
    PROVE  Inv'
<1>1. /\ op[t].pc = "lock_tail" /\ op[t].frames = <<>> /\ op[t].owned = {}
      /\ op[t].behind \in Pages /\ \A n \in Nodes : page_lock[n] # t
      /\ t \in Poppers \cup BatchPoppers /\ t \notin Inserters /\ t \notin Rescuers
      /\ ~ HoldsList(t) /\ order \in Seq(Pages)
      /\ UNCHANGED <<flink, blink, shared, exclusive, order>>
      BY PopStates DEF LockTail, At, Inv, Types, ThreadInv, Frames, NextLocked,
                       NoOthersLocked, Contains
<1>2. ListLock' /\ ~ HoldsList(t)'  BY <1>1 DEF Inv, ListLock, HoldsList
<1>3. CASE page_lock[op[t].behind] = None
  <2>1. PICK p \in Pages : p = op[t].behind  BY <1>1
  <2>2. page_lock' = [page_lock EXCEPT ![p] = t] /\ Goto(t, "check_tail")
        BY <1>3, <2>1 DEF LockTail
  <2>3. /\ op' \in [Threads -> Operation] /\ op'[t].pc = "check_tail"
        /\ op'[t].frames = <<>> /\ op'[t].behind = p /\ op'[t].owned = {}
        /\ \A u \in Threads \ {t} : op'[u] = op[u]
        BY <1>1, <2>1, <2>2, GotoFacts DEF Inv, BatchPcs, PopPcs
  <2>4. /\ page_lock' \in [Nodes -> Threads \cup {None}] /\ page_lock'[p] = t
        /\ \A m \in Nodes \ {p} : page_lock'[m] = page_lock[m]
        /\ \A u \in Threads \ {t}, m \in Nodes : page_lock'[m] = u <=> page_lock[m] = u
    <3>1. Types /\ p \in Nodes /\ page_lock[p] \in {None, t}
          BY <1>3, <2>1, NoThread DEF Inv
    <3> QED  BY <2>2, <3>1, TakeLock
  <2>5. Types'  BY <1>1, <2>3, <2>4 DEF Inv, Types
  <2>6. OwnStep(t)  BY <1>1, <2>3, <2>4 DEF OwnStep
  <2>7. Pcs(t)' /\ ListHeld(t)' /\ Frames(t)'
        BY <1>1, <1>2, <2>3 DEF Pcs, ListHeld, Unlisted, Sharing, Frames, NoRepeats,
                                BatchPcs, PopPcs
  <2>8. FramesLocked(t)' /\ OwnedLocked(t)'  BY <2>3 DEF FramesLocked, OwnedLocked
  <2>9. NextLocked(t)' /\ NoOthersLocked(t)'
        BY <1>1, <2>3, <2>4 DEF NextLocked, NoOthersLocked, Contains
  <2>10. NeighboursLocked(t)' /\ Neighbours(t)'
        BY <2>3 DEF NeighboursLocked, Neighbours, At
  <2>11. InsertsNew(t)' /\ InsertsLinked(t)' /\ Walks(t)'
        BY <2>3 DEF InsertsNew, InsertsLinked, Walks, Unlinked, At
  <2>12. PopsEnd(t)' /\ RescuesListed(t)'
    <3>1. EndsWith(order, <<>>)
      <4>1. Len(order) \in Nat  BY <1>1
      <4> QED  BY <4>1 DEF EndsWith
    <3> QED  BY <1>1, <2>3, <3>1 DEF PopsEnd, RescuesListed
  <2>13. ThreadInv(t)'
        BY <2>7, <2>8, <2>9, <2>10, <2>11, <2>12 DEF ThreadInv
  <2> QED  BY <1>1, <1>2, <2>5, <2>6, <2>13, QuietStep
<1>4. CASE page_lock[op[t].behind] # None
  <2>1. page_lock' = page_lock  BY <1>4 DEF LockTail
  <2>2. /\ op' \in [Threads -> Operation] /\ op'[t].frames = <<>> /\ op'[t].owned = {}
        /\ op'[t].pc \in {"idle", "lock_tail"}
        /\ op'[t].pc = "lock_tail" => op'[t].behind \in Pages
        /\ \A u \in Threads \ {t} : op'[u] = op[u]
    <3>1. CASE LookAtTail(t)  BY <3>1, LookAtTailFacts
    <3>2. CASE op' = [op EXCEPT ![t] = Idle]
      <4>1. /\ Idle \in Operation /\ Idle.frames = <<>> /\ Idle.owned = {}
            /\ Idle.pc = "idle"
            BY DEF Idle, Operation, InsertPcs, ListPcs
      <4> QED  BY <3>2, <4>1 DEF Inv, Types
    <3> QED  BY <1>4, <3>1, <3>2 DEF LockTail
  <2>3. Types'  BY <1>1, <2>1, <2>2 DEF Inv, Types
  <2>4. OwnStep(t)  BY <1>1, <2>1, <2>2 DEF OwnStep
  <2>5. order' \in Seq(Pages) /\ \A n \in Nodes : page_lock'[n] # t  BY <1>1, <2>1
  <2>6. ThreadInv(t)'  BY <1>1, <1>2, <2>2, <2>5, EmptyThread
  <2> QED  BY <1>1, <1>2, <2>3, <2>4, <2>6, QuietStep
<1> QED  BY <1>3, <1>4

LEMMA CheckTailStep ==
    ASSUME Inv, Trimmers = {}, NEW t \in Threads, CheckTail(t)
    PROVE  Inv'
<1>1. PICK p \in Pages : p = op[t].behind
      BY DEF CheckTail, At, Inv, ThreadInv, NextLocked
<1>2. /\ op[t].pc = "check_tail" /\ op[t].frames = <<>> /\ op[t].owned = {}
      /\ page_lock[p] = t /\ \A n \in Nodes : page_lock[n] = t => n = p
      /\ t \in Poppers \cup BatchPoppers /\ t \notin Inserters /\ t \notin Rescuers
      /\ ~ HoldsList(t) /\ order \in Seq(Pages)
      /\ UNCHANGED <<flink, blink, shared, exclusive, order>>
      BY <1>1, PopStates DEF CheckTail, At, Inv, Types, ThreadInv, Frames, NextLocked,
                       NoOthersLocked, Contains
<1>3. ListLock' /\ ~ HoldsList(t)'  BY <1>2 DEF Inv, ListLock, HoldsList
<1>4. CASE blink["tail"] = p
  <2> DEFINE c == IF t \in Poppers THEN "share" ELSE "grow"
             s == <<p>>
  <2>1. page_lock' = page_lock /\ op' = [op EXCEPT ![t].pc = c, ![t].frames = s]
        BY <1>1, <1>4 DEF CheckTail
  <2>2. /\ s \in Seq(Pages) /\ Len(s) = 1 /\ s[1] = p /\ s # <<>>
        /\ \A i \in 1 .. Len(s) : i = 1
        OBVIOUS
  <2>3. c \in {"share", "grow"} /\ (c = "grow" => t \notin Poppers)  OBVIOUS
  <2> HIDE DEF c, s
  <2>4. op[t] \in Operation  BY OpTypes DEF Inv
  <2>5. /\ op' \in [Threads -> Operation] /\ op'[t].pc = c
        /\ op'[t].frames = s /\ op'[t].owned = {}
        /\ \A u \in Threads \ {t} : op'[u] = op[u]
        BY <1>2, <2>1, <2>2, <2>3, <2>4
           DEF Inv, Types, Operation, BatchPcs, PopPcs, RescuePcs, ListPcs
  <2>6. Types'  BY <1>2, <2>1, <2>5 DEF Inv, Types
  <2>7. OwnStep(t)  BY <1>2, <2>1, <2>5 DEF OwnStep
  <2>8. Pcs(t)' /\ ListHeld(t)' /\ Frames(t)'
    <3>1. Pcs(t)'
          BY <1>2, <2>3, <2>5 DEF Pcs, BatchPcs, PopPcs, RescuePcs, ListPcs
    <3>2. ListHeld(t)'  BY <1>3, <2>3, <2>5 DEF ListHeld, Unlisted, Sharing
    <3>3. NoRepeats(s)  BY <2>2 DEF NoRepeats
    <3>4. NoRepeats(op'[t].frames) /\ Len(op'[t].frames) <= 1
      <4>1. 1 <= 1  OBVIOUS
      <4>2. op'[t].frames = s /\ Len(s) = 1  BY <2>2, <2>5
      <4> QED  BY <3>3, <4>1, <4>2, Zenon
    <3>5. op'[t].frames # <<>> /\ op'[t].pc \notin {"idle", "lock_tail", "check_tail"}
          BY <2>2, <2>3, <2>5
    <3>6. Frames(t)'  BY <3>4, <3>5 DEF Frames
    <3> QED  BY <3>1, <3>2, <3>6
  <2>9. FramesLocked(t)' /\ OwnedLocked(t)'
        BY <1>2, <2>1, <2>2, <2>5 DEF FramesLocked, OwnedLocked
  <2>10. NextLocked(t)' /\ NoOthersLocked(t)'
    <3>1. \A n \in Nodes : page_lock'[n] = t => Contains(s, n)
          BY <1>2, <2>1, <2>2 DEF Contains
    <3> QED  BY <2>3, <2>5, <3>1 DEF NextLocked, NoOthersLocked
  <2>11. NeighboursLocked(t)' /\ Neighbours(t)'
        BY <2>3, <2>5 DEF NeighboursLocked, Neighbours, At
  <2>12. InsertsNew(t)' /\ InsertsLinked(t)' /\ Walks(t)'
        BY <1>2, <2>3, <2>5 DEF InsertsNew, InsertsLinked, Walks, Unlinked, At
  <2>13. PopsEnd(t)' /\ RescuesListed(t)'
    <3>1. Adjacent(order, p, "tail") /\ NoRepeats(order)  BY <1>4, EndsRight DEF Inv
    <3>2. EndsWith(order, s)  BY <1>2, <3>1, EndsWithLast DEF s
    <3> QED  BY <1>2, <2>5, <3>2 DEF PopsEnd, RescuesListed
  <2>14. ThreadInv(t)'
        BY <2>8, <2>9, <2>10, <2>11, <2>12, <2>13 DEF ThreadInv
  <2> QED  BY <1>2, <1>3, <2>6, <2>7, <2>14, QuietStep
<1>5. CASE blink["tail"] # p
  <2>1. page_lock' = Unlocked({p}) /\ LookAtTail(t)  BY <1>1, <1>5 DEF CheckTail
  <2>2. /\ page_lock' \in [Nodes -> Threads \cup {None}]
        /\ \A n \in Nodes : page_lock'[n] = IF n \in {p} THEN None ELSE page_lock[n]
        /\ \A u \in Threads \ {t}, n \in Nodes : page_lock'[n] = u <=> page_lock[n] = u
    <3>1. Types /\ \A n \in {p} : page_lock[n] = t  BY <1>2 DEF Inv
    <3> QED  BY <2>1, <3>1, FreeLocks
  <2>3. /\ op' \in [Threads -> Operation] /\ op'[t].frames = <<>> /\ op'[t].owned = {}
        /\ op'[t].pc \in {"idle", "lock_tail"}
        /\ op'[t].pc = "lock_tail" => op'[t].behind \in Pages
        /\ \A u \in Threads \ {t} : op'[u] = op[u]
        BY <2>1, LookAtTailFacts
  <2>4. Types'  BY <1>2, <2>2, <2>3 DEF Inv, Types
  <2>5. OwnStep(t)  BY <1>2, <2>2, <2>3 DEF OwnStep
  <2>6. order' \in Seq(Pages) /\ \A n \in Nodes : page_lock'[n] # t
        BY <1>2, <2>2, NoThread
  <2>7. ThreadInv(t)'  BY <1>2, <1>3, <2>3, <2>6, EmptyThread
  <2> QED  BY <1>2, <1>3, <2>4, <2>5, <2>7, QuietStep
<1> QED  BY <1>4, <1>5

\* A batch pop that walks towards the head.
LEMMA GrownThread ==
    ASSUME NEW t \in BatchPoppers, NEW s \in Seq(Pages), s # <<>>, NoRepeats(s),
           op'[t].pc \in {"grow", "lock_next", "check_next", "share"},
           op'[t].frames = s, op'[t].owned = {}, ~ HoldsList(t)', EndsWith(order', s),
           \A i \in 1 .. Len(s) : page_lock'[s[i]] = t,
           op'[t].pc # "share" => \A n \in Nodes : page_lock'[n] = t =>
               Contains(s, n) \/ (op'[t].pc = "check_next" /\ op'[t].behind = n),
           op'[t].pc \in {"lock_next", "check_next"} => op'[t].behind \in Pages,
           op'[t].pc = "check_next" =>
               page_lock'[op'[t].behind] = t /\ ~ Contains(s, op'[t].behind)
    PROVE  ThreadInv(t)'
<1>1. t \notin Inserters /\ t \notin Poppers /\ t \notin Rescuers  BY NoThread
<1>2. Pcs(t)' /\ ListHeld(t)'
      BY <1>1 DEF Pcs, ListHeld, Unlisted, Sharing, BatchPcs, PopPcs, RescuePcs, ListPcs
<1>3. Frames(t)'  BY <1>1 DEF Frames
<1>4. FramesLocked(t)' /\ OwnedLocked(t)'  BY DEF FramesLocked, OwnedLocked
<1>5. NextLocked(t)' /\ NoOthersLocked(t)'  BY DEF NextLocked, NoOthersLocked
<1>6. NeighboursLocked(t)' /\ Neighbours(t)'  BY DEF NeighboursLocked, Neighbours, At
<1>7. InsertsNew(t)' /\ InsertsLinked(t)' /\ Walks(t)'
      BY <1>1 DEF InsertsNew, InsertsLinked, Walks, At
<1>8. PopsEnd(t)' /\ RescuesListed(t)'  BY <1>1 DEF PopsEnd, RescuesListed
<1> QED  BY <1>2, <1>3, <1>4, <1>5, <1>6, <1>7, <1>8 DEF ThreadInv

LEMMA GrowingThread ==
    ASSUME Inv, Trimmers = {}, NEW t \in Threads,
           op[t].pc \in {"grow", "lock_next", "check_next"}, NEW s, s = op[t].frames
    PROVE  /\ t \in BatchPoppers /\ s \in Seq(Pages) /\ s # <<>> /\ NoRepeats(s)
           /\ op[t].owned = {} /\ ~ HoldsList(t) /\ EndsWith(order, s)
           /\ \A i \in 1 .. Len(s) : page_lock[s[i]] = t
           /\ \A n : Contains(s, n) => page_lock[n] = t
           /\ \A n \in Nodes : page_lock[n] = t =>
                 Contains(s, n) \/ (op[t].pc = "check_next" /\ op[t].behind = n)
           /\ op[t].pc \in {"lock_next", "check_next"} => op[t].behind \in Pages
           /\ op[t].pc = "check_next" => page_lock[op[t].behind] = t
           /\ Adjacent(order, blink[Head(s)], Head(s))
<1>1. /\ t \in Poppers \cup BatchPoppers /\ t \notin Inserters
      /\ ~ HoldsList(t) /\ op[t].owned = {}
      BY PopStates
<1>2. t \in BatchPoppers
  <2>1. t \notin Poppers
        BY DEF Inv, ThreadInv, Pcs, PopPcs, RescuePcs, ListPcs
  <2> QED  BY <1>1, <2>1
<1>3. s \in Seq(Pages) /\ s # <<>> /\ NoRepeats(s)
      BY OpTypes DEF Inv, ThreadInv, Frames
<1>4. EndsWith(order, s)  BY <1>2 DEF Inv, ThreadInv, PopsEnd
<1>5. \A i \in 1 .. Len(s) : page_lock[s[i]] = t  BY <1>1 DEF Inv, ThreadInv, FramesLocked
<1>6. \A n : Contains(s, n) => page_lock[n] = t  BY <1>5 DEF Contains
<1>7. \A n \in Nodes : page_lock[n] = t =>
          Contains(s, n) \/ (op[t].pc = "check_next" /\ op[t].behind = n)
      BY DEF Inv, ThreadInv, NoOthersLocked
<1>8. /\ op[t].pc \in {"lock_next", "check_next"} => op[t].behind \in Pages
      /\ op[t].pc = "check_next" => page_lock[op[t].behind] = t
      BY DEF Inv, ThreadInv, NextLocked
<1>9. Adjacent(order, blink[Head(s)], Head(s))
  <2>1. order \in Seq(Pages)  BY DEF Inv, Types
  <2>2. Len(s) \in Nat /\ Len(s) >= 1 /\ Head(s) = s[1]  BY <1>3
  <2>3. Contains(s, Head(s))
    <3>1. 1 \in 1 .. Len(s)  BY <2>2
    <3> QED  BY <2>2, <3>1 DEF Contains
  <2>4. Contains(order, Head(s))  BY <1>3, <1>4, <2>1, <2>3, EndsContains
  <2>5. page_lock[Head(s)] = t /\ ~ At(t, "link_ends")  BY <1>6, <2>3 DEF At
  <2> QED  BY <2>4, <2>5, LinksRight
<1> QED  BY <1>1, <1>2, <1>3, <1>4, <1>5, <1>6, <1>7, <1>8, <1>9

LEMMA GrowBatchStep ==
    ASSUME Inv, Trimmers = {}, NEW t \in Threads, GrowBatch(t)
    PROVE  Inv'
<1>1. PICK s : s = op[t].frames  OBVIOUS
<1>2. op[t].pc = "grow"  BY DEF GrowBatch, At
<1>3. /\ t \in BatchPoppers /\ s \in Seq(Pages) /\ s # <<>> /\ NoRepeats(s)
      /\ op[t].owned = {} /\ ~ HoldsList(t) /\ EndsWith(order, s)
      /\ \A i \in 1 .. Len(s) : page_lock[s[i]] = t
      /\ \A n \in Nodes : page_lock[n] = t => Contains(s, n)
      BY <1>1, <1>2, GrowingThread
<1>4. UNCHANGED <<flink, blink, page_lock, shared, exclusive, order>>  BY DEF GrowBatch
<1>5. op[t] \in Operation /\ order \in Seq(Pages)  BY OpTypes DEF Inv, Types
<1>6. /\ op' \in [Threads -> Operation] /\ op'[t].frames = s /\ op'[t].owned = {}
      /\ op'[t].pc \in {"lock_next", "share"}
      /\ op'[t].pc = "lock_next" => op'[t].behind \in Pages
      /\ \A u \in Threads \ {t} : op'[u] = op[u]
  <2>1. CASE Len(s) < MaxBatch /\ blink[Head(s)] # "head"
    <3>1. op' = [op EXCEPT ![t].pc = "lock_next", ![t].behind = blink[Head(s)]]
          BY <1>1, <2>1 DEF GrowBatch
    <3>2. Adjacent(order, blink[Head(s)], Head(s))  BY <1>1, <1>2, GrowingThread
    <3>3. blink[Head(s)] \in Pages /\ blink[Head(s)] \in Nodes
          BY <1>5, <2>1, <3>2, AdjacentNodes
    <3> QED  BY <1>1, <1>3, <1>5, <3>1, <3>3
             DEF Inv, Types, Operation, BatchPcs, PopPcs, RescuePcs, ListPcs
  <2>2. CASE ~ (Len(s) < MaxBatch /\ blink[Head(s)] # "head")
    <3>1. op' = [op EXCEPT ![t].pc = "share"]  BY <1>1, <2>2 DEF GrowBatch
    <3> QED  BY <1>1, <1>3, <1>5, <3>1 DEF Inv, Types, Operation, InsertPcs, ListPcs
  <2> QED  BY <2>1, <2>2
<1>7. ~ HoldsList(t)' /\ ListLock'  BY <1>3, <1>4 DEF Inv, HoldsList, ListLock
<1>8. Types'  BY <1>4, <1>6 DEF Inv, Types
<1>9. OwnStep(t)  BY <1>4, <1>6 DEF OwnStep
<1>10. ThreadInv(t)'
  <2>1. EndsWith(order', s)  BY <1>3, <1>4
  <2> QED  BY <1>3, <1>4, <1>6, <1>7, <2>1, GrownThread
<1> QED  BY <1>2, <1>4, <1>7, <1>8, <1>9, <1>10, QuietStep

LEMMA LockNextStep ==
    ASSUME Inv, Trimmers = {}, NEW t \in Threads, LockNext(t)
    PROVE  Inv'
<1>1. PICK s : s = op[t].frames  OBVIOUS
<1>2. op[t].pc = "lock_next"  BY DEF LockNext, At
<1>3. /\ t \in BatchPoppers /\ s \in Seq(Pages) /\ s # <<>> /\ NoRepeats(s)
      /\ op[t].owned = {} /\ ~ HoldsList(t) /\ EndsWith(order, s)
      /\ \A i \in 1 .. Len(s) : page_lock[s[i]] = t
      /\ \A n : Contains(s, n) => page_lock[n] = t
      /\ \A n \in Nodes : page_lock[n] = t => Contains(s, n)
      /\ op[t].behind \in Pages
      BY <1>1, <1>2, GrowingThread
<1>4. PICK p \in Pages : p = op[t].behind  BY <1>3
<1>5. UNCHANGED <<flink, blink, shared, exclusive, order>>  BY DEF LockNext
<1>6. EndsWith(order', s) /\ ~ HoldsList(t)' /\ ListLock'
      BY <1>3, <1>5 DEF Inv, HoldsList, ListLock
<1>7. CASE page_lock[p] = None
  <2>1. page_lock' = [page_lock EXCEPT ![p] = t] /\ Goto(t, "check_next")
        BY <1>4, <1>7 DEF LockNext
  <2>2. /\ op' \in [Threads -> Operation] /\ op'[t].pc = "check_next"
        /\ op'[t].frames = s /\ op'[t].behind = p /\ op'[t].owned = {}
        /\ \A u \in Threads \ {t} : op'[u] = op[u]
        BY <1>1, <1>3, <1>4, <2>1, GotoFacts DEF Inv, BatchPcs
  <2>3. Types /\ p \in Nodes /\ page_lock[p] \in {None, t}  BY <1>7, NoThread DEF Inv
  <2>4. /\ page_lock' \in [Nodes -> Threads \cup {None}] /\ page_lock'[p] = t
        /\ \A m \in Nodes \ {p} : page_lock'[m] = page_lock[m]
        /\ \A u \in Threads \ {t}, m \in Nodes : page_lock'[m] = u <=> page_lock[m] = u
        BY <2>1, <2>3, TakeLock
  <2>5. Types'  BY <1>5, <2>2, <2>4 DEF Inv, Types
  <2>6. OwnStep(t)  BY <1>5, <2>2, <2>4 DEF OwnStep
  <2>7. ~ Contains(s, p)  BY <1>3, <1>7, NoThread
  <2>8. \A i \in 1 .. Len(s) : page_lock'[s[i]] = t
        BY <1>3, <2>4, NodeFacts, NoThread
  <2>9. \A n \in Nodes : page_lock'[n] = t => Contains(s, n) \/ op'[t].behind = n
        BY <1>3, <2>2, <2>4
  <2>10. ThreadInv(t)'
        BY <1>3, <1>6, <2>2, <2>4, <2>7, <2>8, <2>9, GrownThread
  <2> QED  BY <1>2, <1>5, <1>6, <2>5, <2>6, <2>10, QuietStep
<1>8. CASE page_lock[p] # None
  <2>1. page_lock' = page_lock /\ Goto(t, "grow")  BY <1>4, <1>8 DEF LockNext
  <2>2. /\ op' \in [Threads -> Operation] /\ op'[t].pc = "grow"
        /\ op'[t].frames = s /\ op'[t].owned = {}
        /\ \A u \in Threads \ {t} : op'[u] = op[u]
        BY <1>1, <1>3, <2>1, GotoFacts DEF Inv, BatchPcs
  <2>3. Types'  BY <1>5, <2>1, <2>2 DEF Inv, Types
  <2>4. OwnStep(t)  BY <1>5, <2>1, <2>2 DEF OwnStep
  <2>5. ThreadInv(t)'  BY <1>3, <1>6, <2>1, <2>2, GrownThread
  <2> QED  BY <1>2, <1>5, <1>6, <2>3, <2>4, <2>5, QuietStep
<1> QED  BY <1>7, <1>8

LEMMA CheckNextStep ==
    ASSUME Inv, Trimmers = {}, NEW t \in Threads, CheckNext(t)
    PROVE  Inv'
<1>1. PICK s : s = op[t].frames  OBVIOUS
<1>2. op[t].pc = "check_next"  BY DEF CheckNext, At
<1>3. /\ t \in BatchPoppers /\ s \in Seq(Pages) /\ s # <<>> /\ NoRepeats(s)
      /\ op[t].owned = {} /\ ~ HoldsList(t) /\ EndsWith(order, s)
      /\ \A i \in 1 .. Len(s) : page_lock[s[i]] = t
      /\ \A n \in Nodes : page_lock[n] = t => Contains(s, n) \/ op[t].behind = n
      /\ op[t].behind \in Pages /\ page_lock[op[t].behind] = t
      /\ Adjacent(order, blink[Head(s)], Head(s))
      BY <1>1, <1>2, GrowingThread
<1>4. PICK p \in Pages : p = op[t].behind  BY <1>3
<1>5. /\ UNCHANGED <<flink, blink, shared, exclusive, order>>
      /\ op[t] \in Operation /\ order \in Seq(Pages) /\ NoRepeats(order)
      BY OpTypes DEF CheckNext, Inv, Types
<1>6. ~ HoldsList(t)' /\ ListLock'
      BY <1>3, <1>5 DEF Inv, HoldsList, ListLock
<1>7. CASE blink[Head(s)] = p
  <2>1. PICK n : n = <<p>> \o s  OBVIOUS
  <2>2. page_lock' = page_lock /\ op' = [op EXCEPT ![t].pc = "grow", ![t].frames = n]
        BY <1>1, <1>4, <1>7, <2>1 DEF CheckNext
  <2>3. n \in Seq(Pages) /\ NoRepeats(n) /\ EndsWith(order, n)
        BY <1>3, <1>5, <1>7, <2>1, EndsWithNext
  <2>4. n # <<>> /\ \A m : Contains(n, m) <=> m = p \/ Contains(s, m)
    <3>1. <<p>> \in Seq(Pages) /\ <<p>> # <<>> /\ \A m : Contains(<<p>>, m) <=> m = p
          BY DEF Contains
    <3>2. Contains(<<p>> \o s, p)  BY <1>3, <3>1, PutContains
    <3>3. n # <<>>  BY <2>1, <3>2 DEF Contains
    <3> QED  BY <1>3, <2>1, <3>1, <3>3, PutContains
  <2>5. /\ op' \in [Threads -> Operation] /\ op'[t].pc = "grow"
        /\ op'[t].frames = n /\ op'[t].owned = {}
        /\ \A u \in Threads \ {t} : op'[u] = op[u]
        BY <1>3, <1>5, <2>2, <2>3 DEF Inv, Types, Operation, BatchPcs
  <2>6. Types'  BY <1>5, <2>2, <2>5 DEF Inv, Types
  <2>7. OwnStep(t)  BY <1>5, <2>2, <2>5 DEF OwnStep
  <2>8. \A i \in 1 .. Len(n) : page_lock'[n[i]] = t
    <3>1. \A m : Contains(s, m) => page_lock[m] = t  BY <1>3 DEF Contains
    <3>2. \A i \in 1 .. Len(n) : Contains(n, n[i])  BY DEF Contains
    <3> QED  BY <1>3, <1>4, <2>2, <2>4, <3>1, <3>2
  <2>9. \A m \in Nodes : page_lock'[m] = t => Contains(n, m)  BY <1>3, <1>4, <2>2, <2>4
  <2>10. EndsWith(order', n)  BY <1>5, <2>3
  <2>11. ThreadInv(t)'
        BY <1>3, <1>6, <2>3, <2>4, <2>5, <2>8, <2>9, <2>10, GrownThread
  <2> QED  BY <1>2, <1>5, <1>6, <2>6, <2>7, <2>11, QuietStep
<1>8. CASE blink[Head(s)] # p
  <2>1. page_lock' = Unlocked({p}) /\ Goto(t, "grow")  BY <1>1, <1>4, <1>8 DEF CheckNext
  <2>2. /\ op' \in [Threads -> Operation] /\ op'[t].pc = "grow"
        /\ op'[t].frames = s /\ op'[t].owned = {}
        /\ \A u \in Threads \ {t} : op'[u] = op[u]
        BY <1>1, <1>3, <2>1, GotoFacts DEF Inv, BatchPcs
  <2>3. Types /\ \A n \in {p} : page_lock[n] = t  BY <1>3, <1>4 DEF Inv
  <2>4. /\ page_lock' \in [Nodes -> Threads \cup {None}]
        /\ \A n \in Nodes : page_lock'[n] = IF n \in {p} THEN None ELSE page_lock[n]
        /\ \A u \in Threads \ {t}, n \in Nodes : page_lock'[n] = u <=> page_lock[n] = u
        BY <2>1, <2>3, FreeLocks
  <2>5. Types'  BY <1>5, <2>2, <2>4 DEF Inv, Types
  <2>6. OwnStep(t)  BY <1>5, <2>2, <2>4 DEF OwnStep
  <2>7. ~ Contains(s, p)
        BY <1>1, <1>2, <1>4 DEF Inv, ThreadInv, NextLocked
  <2>8. \A i \in 1 .. Len(s) : page_lock'[s[i]] = t
    <3>1. \A i \in 1 .. Len(s) : s[i] \in Nodes /\ s[i] # p
          BY <1>3, <2>7, NodeFacts, NoThread DEF Contains
    <3> QED  BY <1>3, <2>4, <3>1
  <2>9. \A n \in Nodes : page_lock'[n] = t => Contains(s, n)
        BY <1>3, <1>4, <2>4, NoThread
  <2>10. EndsWith(order', s)  BY <1>3, <1>5
  <2>11. ThreadInv(t)'  BY <1>3, <1>6, <2>2, <2>8, <2>9, <2>10, GrownThread
  <2> QED  BY <1>2, <1>5, <1>6, <2>5, <2>6, <2>11, QuietStep
<1> QED  BY <1>7, <1>8

\* A thread that has not got its neighbours' locks.
LEMMA UnsharingThread ==
    ASSUME NEW t \in Threads, ThreadInv(t), op[t].pc \in {"first", "second"},
           UNCHANGED <<flink, blink, shared, exclusive, order>>,
           op'[t].pc = "unshare", op'[t].frames = op[t].frames, op'[t].owned = {},
           \A i \in 1 .. Len(op[t].frames) : page_lock'[op[t].frames[i]] = t
    PROVE  ThreadInv(t)'
<1>1. Pcs(t)' /\ ListHeld(t)' /\ Frames(t)'
      BY DEF ThreadInv, Pcs, ListHeld, HoldsList, Frames, Unlisted, Sharing,
             InsertPcs, BatchPcs, PopPcs, RescuePcs, ListPcs
<1>2. FramesLocked(t)' /\ OwnedLocked(t)'  BY DEF FramesLocked, OwnedLocked
<1>3. NextLocked(t)' /\ NoOthersLocked(t)'  BY DEF NextLocked, NoOthersLocked
<1>4. NeighboursLocked(t)' /\ Neighbours(t)'  BY DEF NeighboursLocked, Neighbours, At
<1>5. InsertsNew(t)' /\ InsertsLinked(t)' /\ Walks(t)'
      BY DEF ThreadInv, InsertsNew, InsertsLinked, Walks, Unlinked, At
<1>6. PopsEnd(t)' /\ RescuesListed(t)'  BY DEF ThreadInv, PopsEnd, RescuesListed, At
<1> QED  BY <1>1, <1>2, <1>3, <1>4, <1>5, <1>6 DEF ThreadInv

\* A lock that is to be had is free or the thread's own.
LEMMA AvailableFacts ==
    ASSUME Inv, NEW t \in Threads, op[t].pc \in {"first", "second"}, NEW n, Available(t, n)
    PROVE  /\ page_lock[n] \in {None, t}
           /\ \A m \in Taken(t, n) : m = n /\ ~ Contains(op[t].frames, m)
           /\ \A i \in 1 .. Len(op[t].frames) : page_lock[op[t].frames[i]] = t
<1> DEFINE s == op[t].frames
<1>1. \A i \in 1 .. Len(s) : page_lock[s[i]] = t
      BY DEF Inv, ThreadInv, FramesLocked
<1>2. s \in Seq(Pages) /\ s # <<>>
      BY OpTypes DEF Inv, ThreadInv, Frames
<1> HIDE DEF s
<1>3. Contains(Tail(s), n) => page_lock[n] = t
  <2>1. ASSUME NEW i \in 1 .. Len(Tail(s)), Tail(s)[i] = n  PROVE  page_lock[n] = t
    <3>1. /\ Len(s) \in Nat /\ Len(Tail(s)) = Len(s) - 1
          /\ \A j \in 1 .. Len(Tail(s)) : Tail(s)[j] = s[j + 1]
          BY <1>2, HeadTailProperties
    <3>2. i + 1 \in 1 .. Len(s)  BY <3>1
    <3> QED  BY <1>1, <2>1, <3>1, <3>2
  <2> QED  BY <2>1 DEF Contains
<1>4. page_lock[n] = None \/ page_lock[n] = t  BY <1>3 DEF Available, s
<1>5. \A m : Contains(s, m) => page_lock[m] = t  BY <1>1 DEF Contains
<1>6. \A m \in Taken(t, n) : m = n /\ page_lock[m] = None  BY DEF Taken
<1>7. t # None  BY NoThread
<1> QED  BY <1>1, <1>4, <1>5, <1>6, <1>7 DEF s

LEMMA LockFirstStep ==
    ASSUME Inv, Trimmers = {}, NEW t \in Threads, LockFirst(t)
    PROVE  Inv'
<1>1. op[t].pc = "first" /\ op[t] \in Operation  BY OpTypes DEF LockFirst, At, Inv
<1>2. PICK a \in Nodes, b \in Nodes : a = AheadOf(t) /\ b = BehindOf(t)
      BY <1>1, NeighboursRead
<1>3. PICK n \in Nodes : n = IF t \in Inserters THEN "head" ELSE a
      BY <1>2, NoThread
<1>4. /\ op[t].frames # <<>> /\ (Inserting(t) <=> t \in Inserters)
      /\ t \in Inserters => b = "head" /\ Adjacent(order, "head", a)
      /\ t \notin Inserters => /\ Adjacent(order, b, Head(Section(t)))
                               /\ Adjacent(order, Last(Section(t)), a)
      BY <1>1, <1>2, NeighboursRead
<1>5. UNCHANGED <<flink, blink, shared, exclusive, order>>  BY DEF LockFirst
<1>6. ThreadInv(t)  BY DEF Inv
<1>7. ListLock'  BY <1>5 DEF Inv, ListLock
<1>8. CASE Available(t, n)
  <2>1. PICK o : o = Taken(t, n)  OBVIOUS
  <2>2. /\ page_lock[n] \in {None, t} /\ o \subseteq {n}
        /\ \A m \in o : ~ Contains(op[t].frames, m)
        /\ \A i \in 1 .. Len(op[t].frames) : page_lock[op[t].frames[i]] = t
        BY <1>1, <1>8, <2>1, AvailableFacts
  <2>3. /\ page_lock' = [page_lock EXCEPT ![n] = t]
        /\ op' = [op EXCEPT ![t].pc = "second", ![t].ahead = a, ![t].behind = b,
                            ![t].owned = o]
        BY <1>2, <1>3, <1>4, <1>8, <2>1 DEF LockFirst, Take
  <2>4. /\ page_lock' \in [Nodes -> Threads \cup {None}] /\ page_lock'[n] = t
        /\ \A m \in Nodes \ {n} : page_lock'[m] = page_lock[m]
        /\ \A u \in Threads \ {t}, m \in Nodes : page_lock'[m] = u <=> page_lock[m] = u
        BY <2>2, <2>3, TakeLock DEF Inv
  <2>5. /\ op' \in [Threads -> Operation] /\ op'[t].pc = "second"
        /\ op'[t].frames = op[t].frames /\ op'[t].owned = o
        /\ op'[t].ahead = a /\ op'[t].behind = b
        /\ \A u \in Threads \ {t} : op'[u] = op[u]
    <3>1. o \in SUBSET Nodes /\ a \in Nodes \cup {None} /\ b \in Nodes \cup {None}
          BY <2>2
    <3>2. "second" \in BatchPcs \cup InsertPcs  BY DEF InsertPcs, ListPcs
    <3> QED  BY <1>1, <2>3, <3>1, <3>2 DEF Inv, Types, Operation
  <2>6. Types'  BY <1>5, <2>4, <2>5 DEF Inv, Types
  <2>7. OwnStep(t)  BY <1>5, <2>4, <2>5 DEF OwnStep
  <2>8. Pcs(t)' /\ ListHeld(t)' /\ Frames(t)'
        BY <1>1, <1>5, <1>6, <2>5 DEF ThreadInv, Pcs, ListHeld, HoldsList, Frames,
           Unlisted, Sharing, InsertPcs, BatchPcs, PopPcs, RescuePcs, ListPcs
  <2>9. FramesLocked(t)' /\ OwnedLocked(t)'
    <3>1. \A i \in 1 .. Len(op[t].frames) : page_lock'[op[t].frames[i]] = t
          BY <2>2, <2>4, OpTypes, NoThread DEF Inv
    <3> QED  BY <2>2, <2>4, <2>5, <3>1 DEF FramesLocked, OwnedLocked
  <2>10. NextLocked(t)' /\ NoOthersLocked(t)'  BY <2>5 DEF NextLocked, NoOthersLocked
  <2>11. NeighboursLocked(t)' /\ Neighbours(t)'
    <3>1. Section(t)' = Section(t)  BY <2>5 DEF Section
    <3>2. Inserting(t)' <=> t \in Inserters  BY DEF Inserting
    <3> QED  BY <1>3, <1>4, <1>5, <2>4, <2>5, <3>1, <3>2
             DEF NeighboursLocked, Neighbours, At
  <2>12. InsertsNew(t)' /\ InsertsLinked(t)' /\ Walks(t)'
        BY <1>1, <1>5, <1>6, <2>5
           DEF ThreadInv, InsertsNew, InsertsLinked, Walks, Unlinked, At
  <2>13. PopsEnd(t)' /\ RescuesListed(t)'
        BY <1>1, <1>5, <1>6, <2>5 DEF ThreadInv, PopsEnd, RescuesListed, At
  <2>14. ThreadInv(t)'
        BY <2>8, <2>9, <2>10, <2>11, <2>12, <2>13 DEF ThreadInv
  <2> QED  BY <1>1, <1>5, <1>7, <2>6, <2>7, <2>14, QuietStep
<1>9. CASE ~ Available(t, n)
  <2>1. page_lock' = page_lock /\ Goto(t, "unshare")
        BY <1>2, <1>3, <1>4, <1>9 DEF LockFirst
  <2>2. /\ op' \in [Threads -> Operation] /\ op'[t].pc = "unshare"
        /\ op'[t].frames = op[t].frames /\ op'[t].owned = {}
        /\ \A u \in Threads \ {t} : op'[u] = op[u]
        BY <1>1, <1>6, <2>1, GotoFacts DEF Inv, ThreadInv, OwnedLocked, InsertPcs, ListPcs
  <2>3. Types'  BY <1>5, <2>1, <2>2 DEF Inv, Types
  <2>4. OwnStep(t)  BY <1>5, <2>1, <2>2 DEF OwnStep
  <2>5. ThreadInv(t)'
    <3>1. \A i \in 1 .. Len(op[t].frames) : page_lock'[op[t].frames[i]] = t
          BY <1>1, <1>6, <2>1 DEF ThreadInv, FramesLocked
    <3> QED  BY <1>1, <1>5, <1>6, <2>2, <3>1, UnsharingThread
  <2> QED  BY <1>1, <1>5, <1>7, <2>3, <2>4, <2>5, QuietStep
<1> QED  BY <1>8, <1>9

LEMMA LockSecondStep ==
    ASSUME Inv, Trimmers = {}, NEW t \in Threads, LockSecond(t)
    PROVE  Inv'
<1>1. /\ op[t].pc = "second" /\ op[t] \in Operation /\ order \in Seq(Pages)
      /\ op[t].frames # <<>> /\ op[t].owned \subseteq Nodes
      /\ Inserting(t) <=> t \in Inserters
      BY OpTypes DEF LockSecond, At, Inv, Types, ThreadInv, Frames, Inserting
<1>2. ThreadInv(t)  BY DEF Inv
<1>3. PICK a \in Nodes, b \in Nodes : a = op[t].ahead /\ b = op[t].behind
      BY <1>1, <1>2, AdjacentNodes, NoThread DEF ThreadInv, Neighbours, At
<1>4. PICK n \in Nodes : n = IF t \in Inserters THEN a ELSE b  OBVIOUS
<1>5. /\ page_lock[IF t \in Inserters THEN "head" ELSE a] = t
      /\ t \in Inserters => b = "head" /\ Adjacent(order, "head", a)
      /\ t \notin Inserters => /\ Adjacent(order, b, Head(Section(t)))
                               /\ Adjacent(order, Last(Section(t)), a)
      BY <1>1, <1>2, <1>3 DEF ThreadInv, NeighboursLocked, Neighbours, At
<1>6. UNCHANGED <<flink, blink, shared, exclusive, order>>  BY DEF LockSecond
<1>7. ListLock'  BY <1>6 DEF Inv, ListLock
<1>8. PICK w : w = op[t].owned  OBVIOUS
<1>9. \A m \in w : page_lock[m] = t /\ ~ Contains(op[t].frames, m)
      BY <1>2, <1>8 DEF ThreadInv, OwnedLocked
<1>10. \A i \in 1 .. Len(op[t].frames) : page_lock[op[t].frames[i]] = t
      BY <1>1, <1>2 DEF ThreadInv, FramesLocked
<1>11. CASE Available(t, n)
  <2>1. PICK o : o = w \cup Taken(t, n)  OBVIOUS
  <2>2. /\ page_lock[n] \in {None, t} /\ o \subseteq w \cup {n}
        /\ \A m \in o : ~ Contains(op[t].frames, m)
        BY <1>1, <1>9, <1>11, <2>1, AvailableFacts
  <2>3. PICK c : c = IF t \in Inserters THEN "link" ELSE "unlink"  OBVIOUS
  <2>4. /\ page_lock' = [page_lock EXCEPT ![n] = t]
        /\ op' = [op EXCEPT ![t].pc = c, ![t].owned = o]
    <3>1. n = IF Inserting(t) THEN op[t].ahead ELSE op[t].behind  BY <1>1, <1>3, <1>4
    <3>2. op' = [op EXCEPT ![t].pc = IF Inserting(t) THEN "link" ELSE "unlink",
                           ![t].owned = @ \cup Taken(t, n)]
          BY <1>11, <3>1 DEF LockSecond
    <3>3. op[t].owned \cup Taken(t, n) = o  BY <1>8, <2>1
    <3>4. c = IF Inserting(t) THEN "link" ELSE "unlink"  BY <1>1, <2>3
    <3>5. page_lock' = [page_lock EXCEPT ![n] = t]
          BY <1>11, <3>1 DEF LockSecond, Take
    <3>6. [op EXCEPT ![t].pc = c, ![t].owned = @ \cup Taken(t, n)]
          = [op EXCEPT ![t].pc = c, ![t].owned = o]
          BY <1>1, <3>3 DEF Inv, Types, Operation
    <3> QED  BY <3>2, <3>4, <3>5, <3>6
  <2>5. /\ page_lock' \in [Nodes -> Threads \cup {None}] /\ page_lock'[n] = t
        /\ \A m \in Nodes \ {n} : page_lock'[m] = page_lock[m]
        /\ \A u \in Threads \ {t}, m \in Nodes : page_lock'[m] = u <=> page_lock[m] = u
        BY <2>2, <2>4, TakeLock DEF Inv
  <2>6. /\ op' \in [Threads -> Operation] /\ op'[t].pc = c
        /\ op'[t].frames = op[t].frames /\ op'[t].owned = o
        /\ op'[t].ahead = a /\ op'[t].behind = b
        /\ \A u \in Threads \ {t} : op'[u] = op[u]
    <3>1. o \in SUBSET Nodes  BY <1>1, <1>8, <2>2
    <3>2. c \in BatchPcs \cup InsertPcs  BY <2>3 DEF InsertPcs, BatchPcs, PopPcs, RescuePcs
    <3> QED  BY <1>1, <1>3, <2>4, <3>1, <3>2 DEF Inv, Types, Operation
  <2>7. Types'  BY <1>6, <2>5, <2>6 DEF Inv, Types
  <2>8. OwnStep(t)  BY <1>6, <2>5, <2>6 DEF OwnStep
  <2>9. Pcs(t)' /\ ListHeld(t)' /\ Frames(t)'
    <3>1. Pcs(t)'
          BY <1>2, <2>3, <2>6, NoThread
             DEF ThreadInv, Pcs, InsertPcs, BatchPcs, PopPcs, RescuePcs
    <3>2. ListHeld(t)'
          BY <1>1, <1>2, <1>6, <2>3, <2>6
             DEF ThreadInv, ListHeld, HoldsList, Unlisted, Sharing
    <3>3. Frames(t)'  BY <1>1, <1>2, <2>3, <2>6 DEF ThreadInv, Frames
    <3> QED  BY <3>1, <3>2, <3>3
  <2>10. FramesLocked(t)' /\ OwnedLocked(t)'
    <3>1. \A i \in 1 .. Len(op[t].frames) : page_lock'[op[t].frames[i]] = t
          BY <1>10, <2>5, OpTypes, NoThread DEF Inv
    <3>2. \A m \in o : page_lock'[m] = t  BY <1>1, <1>8, <1>9, <2>2, <2>5
    <3>3. FramesLocked(t)'  BY <2>6, <3>1 DEF FramesLocked
    <3>4. OwnedLocked(t)'  BY <2>2, <2>3, <2>6, <3>2 DEF OwnedLocked
    <3> QED  BY <3>3, <3>4
  <2>11. NextLocked(t)' /\ NoOthersLocked(t)'
        BY <2>3, <2>6 DEF NextLocked, NoOthersLocked
  <2>12. NeighboursLocked(t)' /\ Neighbours(t)'
    <3>1. Section(t)' = Section(t)  BY <2>6 DEF Section
    <3>2. page_lock'[a] = t /\ page_lock'[b] = t
          BY <1>4, <1>5, <2>5, NoThread
    <3>3. NeighboursLocked(t)'  BY <2>3, <2>6, <3>2 DEF NeighboursLocked, At
    <3>4. Neighbours(t)'  BY <1>5, <1>6, <2>3, <2>6, <3>1 DEF Neighbours, At
    <3> QED  BY <3>3, <3>4
  <2>13. InsertsNew(t)' /\ InsertsLinked(t)' /\ Walks(t)'
        BY <1>1, <1>2, <1>6, <2>3, <2>6
           DEF ThreadInv, InsertsNew, InsertsLinked, Walks, Unlinked, At
  <2>14. PopsEnd(t)' /\ RescuesListed(t)'
        BY <1>1, <1>2, <1>6, <2>3, <2>6 DEF ThreadInv, PopsEnd, RescuesListed, At
  <2>15. ThreadInv(t)'
        BY <2>9, <2>10, <2>11, <2>12, <2>13, <2>14 DEF ThreadInv
  <2> QED  BY <1>1, <1>6, <1>7, <2>7, <2>8, <2>15, QuietStep
<1>12. CASE ~ Available(t, n)
  <2>1. /\ page_lock' = Unlocked(w)
        /\ op' = [op EXCEPT ![t].pc = "unshare", ![t].owned = {}]
        BY <1>1, <1>3, <1>4, <1>8, <1>12 DEF LockSecond
  <2>2. /\ op' \in [Threads -> Operation] /\ op'[t].pc = "unshare"
        /\ op'[t].frames = op[t].frames /\ op'[t].owned = {}
        /\ \A u \in Threads \ {t} : op'[u] = op[u]
        BY <1>1, <2>1 DEF Inv, Types, Operation, InsertPcs, ListPcs
  <2>3. /\ page_lock' \in [Nodes -> Threads \cup {None}]
        /\ \A m \in Nodes : page_lock'[m] = IF m \in w THEN None ELSE page_lock[m]
        /\ \A u \in Threads \ {t}, m \in Nodes : page_lock'[m] = u <=> page_lock[m] = u
    <3>1. Types /\ \A m \in w : page_lock[m] = t  BY <1>9 DEF Inv
    <3> QED  BY <2>1, <3>1, FreeLocks
  <2>4. Types'  BY <1>6, <2>2, <2>3 DEF Inv, Types
  <2>5. OwnStep(t)  BY <1>6, <2>2, <2>3 DEF OwnStep
  <2>6. ThreadInv(t)'
    <3>1. \A i \in 1 .. Len(op[t].frames) : page_lock'[op[t].frames[i]] = t
      <4>1. \A i \in 1 .. Len(op[t].frames) : op[t].frames[i] \notin w
            BY <1>9 DEF Contains
      <4> QED  BY <1>10, <2>3, <4>1, OpTypes, NoThread DEF Inv
    <3> QED  BY <1>1, <1>2, <1>6, <2>2, <3>1, UnsharingThread
  <2> QED  BY <1>1, <1>6, <1>7, <2>4, <2>5, <2>6, QuietStep
<1> QED  BY <1>11, <1>12

LEMMA WalkReleaseStep ==
    ASSUME Inv, Trimmers = {}, NEW t \in Threads, WalkRelease(t)
    PROVE  Inv'
<1>1. PICK s : s = op[t].frames  OBVIOUS
<1>2. op[t].pc = "walk" /\ ThreadInv(t)  BY DEF WalkRelease, At, Inv
<1>3. /\ t \in Inserters /\ s \in Seq(Pages) /\ Len(s) \in Nat /\ NoRepeats(s) /\ s # <<>>
      /\ HoldsList(t) /\ op[t].owned = {} /\ Last(s) = s[Len(s)]
      /\ \A i \in 1 .. Len(s) : s[i] \in Nodes
      BY <1>1, <1>2, OpTypes, NoThread DEF Inv, ThreadInv, Pcs, Frames, ListHeld, OwnedLocked,
                              BatchPcs, PopPcs, RescuePcs, ListPcs, Unlisted
<1>4. PICK j \in 1 .. Len(s) :
          /\ op[t].behind = s[j] /\ page_lock[s[j]] = t
          /\ \A i \in j + 1 .. Len(s) : page_lock[s[i]] = t
          /\ \A i \in j .. Len(s) - 1 : Adjacent(order, s[i], s[i + 1])
      BY <1>1, <1>2 DEF ThreadInv, Walks, At
<1>5. UNCHANGED <<flink, blink, shared, exclusive, order>>  BY DEF WalkRelease
<1>6. PICK c : c = IF s[j] = Last(s) THEN "leave" ELSE "walk_on"  OBVIOUS
<1>7. page_lock' = Unlocked({s[j]}) /\ Goto(t, c)  BY <1>1, <1>4, <1>6 DEF WalkRelease
<1>8. /\ op' \in [Threads -> Operation] /\ op'[t].pc = c
      /\ op'[t].frames = s /\ op'[t].owned = {} /\ op'[t].behind = s[j]
      /\ \A u \in Threads \ {t} : op'[u] = op[u]
      BY <1>1, <1>3, <1>4, <1>6, <1>7, GotoFacts DEF Inv, InsertPcs, ListPcs
<1>9. /\ page_lock' \in [Nodes -> Threads \cup {None}]
      /\ \A n \in Nodes : page_lock'[n] = IF n \in {s[j]} THEN None ELSE page_lock[n]
      /\ \A u \in Threads \ {t}, n \in Nodes : page_lock'[n] = u <=> page_lock[n] = u
  <2>1. PICK S : S = {s[j]}  OBVIOUS
  <2>2. page_lock' = Unlocked(S)  BY <1>7, <2>1
  <2>3. Types /\ \A n \in S : page_lock[n] = t  BY <1>4, <2>1 DEF Inv
  <2>4. /\ page_lock' \in [Nodes -> Threads \cup {None}]
        /\ \A n \in Nodes : page_lock'[n] = IF n \in S THEN None ELSE page_lock[n]
        /\ \A u \in Threads \ {t}, n \in Nodes : page_lock'[n] = u <=> page_lock[n] = u
        BY <2>2, <2>3, FreeLocks
  <2> QED  BY <2>1, <2>4
<1>10. Types'  BY <1>5, <1>8, <1>9 DEF Inv, Types
<1>11. OwnStep(t)  BY <1>5, <1>8, <1>9 DEF OwnStep
<1>12. ListLock'  BY <1>5 DEF Inv, ListLock
<1>13. ThreadInv(t)'
  <2>1. c \in {"leave", "walk_on"}  BY <1>6
  <2>2. Pcs(t)' /\ ListHeld(t)' /\ Frames(t)'
    <3>1. Pcs(t)'  BY <1>3, <1>8, <2>1, NoThread DEF Pcs, InsertPcs, ListPcs
    <3>2. ListHeld(t)'
          BY <1>3, <1>5, <1>8, <2>1 DEF ListHeld, HoldsList, Unlisted, Sharing
    <3>3. Frames(t)'  BY <1>3, <1>8, <2>1, NoThread DEF Frames
    <3> QED  BY <3>1, <3>2, <3>3
  <2>3. FramesLocked(t)' /\ OwnedLocked(t)'
        BY <1>3, <1>8, <2>1 DEF FramesLocked, OwnedLocked
  <2>4. NextLocked(t)' /\ NoOthersLocked(t)'  BY <1>8, <2>1 DEF NextLocked, NoOthersLocked
  <2>5. NeighboursLocked(t)' /\ Neighbours(t)'
        BY <1>8, <2>1 DEF NeighboursLocked, Neighbours, At
  <2>6. InsertsNew(t)' /\ InsertsLinked(t)'
        BY <1>8, <2>1 DEF InsertsNew, InsertsLinked, Unlinked, At
  <2>7. Walks(t)'
    <3>1. SUFFICES ASSUME c = "walk_on"
          PROVE  \E i \in 1 .. Len(s) :
                    /\ s[j] = s[i] /\ i < Len(s)
                    /\ \A k \in i + 1 .. Len(s) : page_lock'[s[k]] = t
                    /\ \A k \in i .. Len(s) - 1 : Adjacent(order', s[k], s[k + 1])
          BY <1>8, <2>1 DEF Walks, At
    <3>2. j # Len(s)  BY <1>3, <1>6, <3>1
    <3>3. j < Len(s)  BY <1>3, <3>2
    <3>4. ASSUME NEW k \in j + 1 .. Len(s)  PROVE  page_lock'[s[k]] = t
      <4>1. k \in 1 .. Len(s) /\ k # j  BY <1>3
      <4>2. s[k] # s[j]  BY <1>3, <4>1 DEF NoRepeats
      <4> QED  BY <1>3, <1>4, <1>9, <4>1, <4>2
    <3> QED  BY <1>4, <1>5, <3>3, <3>4
  <2>8. PopsEnd(t)' /\ RescuesListed(t)'
        BY <1>3, <1>8, <2>1, NoThread DEF PopsEnd, RescuesListed, At
  <2> QED  BY <2>2, <2>3, <2>4, <2>5, <2>6, <2>7, <2>8 DEF ThreadInv
<1> QED  BY <1>2, <1>5, <1>10, <1>11, <1>12, <1>13, QuietStep

LEMMA WalkOnStep ==
    ASSUME Inv, Trimmers = {}, NEW t \in Threads, WalkOn(t)
    PROVE  Inv'
<1>1. PICK s : s = op[t].frames  OBVIOUS
<1>2. op[t].pc = "walk_on" /\ ThreadInv(t)  BY DEF WalkOn, At, Inv
<1>3. /\ t \in Inserters /\ s \in Seq(Pages) /\ Len(s) \in Nat /\ NoRepeats(s) /\ s # <<>>
      /\ HoldsList(t) /\ op[t].owned = {} /\ op[t] \in Operation
      /\ \A i \in 1 .. Len(s) : s[i] \in Nodes
      /\ order \in Seq(Pages) /\ NoRepeats(order)
      BY <1>1, <1>2, OpTypes, NoThread DEF Inv, Types, ThreadInv, Pcs, Frames, ListHeld,
            OwnedLocked, BatchPcs, PopPcs, RescuePcs, ListPcs, Unlisted
<1>4. PICK j \in 1 .. Len(s) :
          /\ op[t].behind = s[j] /\ j < Len(s)
          /\ \A i \in j + 1 .. Len(s) : page_lock[s[i]] = t
          /\ \A i \in j .. Len(s) - 1 : Adjacent(order, s[i], s[i + 1])
      BY <1>1, <1>2 DEF ThreadInv, Walks, At
<1>5. UNCHANGED <<flink, blink, page_lock, shared, exclusive, order>>  BY DEF WalkOn
<1>6. j \in j .. Len(s) - 1 /\ j + 1 \in j + 1 .. Len(s) /\ j + 1 \in 1 .. Len(s)
      BY <1>3, <1>4
<1>7. flink[s[j]] = s[j + 1]
  <2>1. Adjacent(order, s[j], s[j + 1]) /\ page_lock[s[j + 1]] = t  BY <1>4, <1>6
  <2>2. ASSUME NEW u \in Threads, At(u, "link_ends"), s[j] = Last(op[u].frames)
        PROVE  FALSE
    <3>1. u # t  BY <1>2, <2>2 DEF At
    <3>2. Adjacent(order, s[j], op[u].ahead)  BY <2>2 DEF Inv, ThreadInv, Neighbours
    <3>3. op[u].ahead = s[j + 1]  BY <1>3, <2>1, <3>2, AdjacentOnce
    <3>4. exclusive = u  BY <2>1, <2>2, <3>1, <3>3 DEF Inv, ThreadInv, NeighboursLocked
    <3> QED  BY <1>3, <3>1, <3>4, ExclusiveAlone
  <2> QED  BY <1>3, <1>6, <2>1, <2>2 DEF Inv, LinksHold
<1>8. PICK q \in Nodes : q = s[j + 1]  BY <1>3, <1>6
<1>9. op' = [op EXCEPT ![t].pc = "walk", ![t].behind = q]
  <2>1. op' = [op EXCEPT ![t].pc = "walk", ![t].behind = flink[op[t].behind]]
        BY <1>3 DEF WalkOn, Inv, Types, Operation
  <2>2. flink[op[t].behind] = q  BY <1>4, <1>7, <1>8
  <2> QED  BY <2>1, <2>2
<1>10. /\ op' \in [Threads -> Operation] /\ op'[t].pc = "walk"
       /\ op'[t].frames = s /\ op'[t].owned = {} /\ op'[t].behind = s[j + 1]
       /\ \A u \in Threads \ {t} : op'[u] = op[u]
       BY <1>1, <1>3, <1>8, <1>9 DEF Inv, Types, Operation, InsertPcs
<1>11. Types'  BY <1>5, <1>10 DEF Inv, Types
<1>12. OwnStep(t)  BY <1>5, <1>10 DEF OwnStep
<1>13. ListLock'  BY <1>5 DEF Inv, ListLock
<1>14. ThreadInv(t)'
  <2>1. Pcs(t)' /\ ListHeld(t)' /\ Frames(t)'
    <3>1. Pcs(t)'  BY <1>3, <1>10, NoThread DEF Pcs, InsertPcs
    <3>2. ListHeld(t)'  BY <1>3, <1>5, <1>10 DEF ListHeld, HoldsList, Unlisted, Sharing
    <3>3. Frames(t)'  BY <1>3, <1>10, NoThread DEF Frames
    <3> QED  BY <3>1, <3>2, <3>3
  <2>2. FramesLocked(t)' /\ OwnedLocked(t)'
        BY <1>3, <1>10 DEF FramesLocked, OwnedLocked
  <2>3. NextLocked(t)' /\ NoOthersLocked(t)'  BY <1>10 DEF NextLocked, NoOthersLocked
  <2>4. NeighboursLocked(t)' /\ Neighbours(t)'
        BY <1>10 DEF NeighboursLocked, Neighbours, At
  <2>5. InsertsNew(t)' /\ InsertsLinked(t)'
        BY <1>10 DEF InsertsNew, InsertsLinked, Unlinked, At
  <2>6. Walks(t)'
    <3>1. SUFFICES
             \E i \in 1 .. Len(s) :
                /\ s[j + 1] = s[i] /\ page_lock[s[i]] = t
                /\ \A k \in i + 1 .. Len(s) : page_lock[s[k]] = t
                /\ \A k \in i .. Len(s) - 1 : Adjacent(order, s[k], s[k + 1])
          BY <1>5, <1>10 DEF Walks, At
    <3>2. /\ \A k \in j + 1 + 1 .. Len(s) : k \in j + 1 .. Len(s)
          /\ \A k \in j + 1 .. Len(s) - 1 : k \in j .. Len(s) - 1
          BY <1>3
    <3> QED  BY <1>4, <1>6, <3>2
  <2>7. PopsEnd(t)' /\ RescuesListed(t)'
        BY <1>3, <1>10, NoThread DEF PopsEnd, RescuesListed, At
  <2> QED  BY <2>1, <2>2, <2>3, <2>4, <2>5, <2>6, <2>7 DEF ThreadInv
<1> QED  BY <1>2, <1>5, <1>11, <1>12, <1>13, <1>14, QuietStep

LEMMA LeaveStep ==
    ASSUME Inv, NEW t \in Threads, Leave(t)
    PROVE  Inv'
<1>1. /\ op[t].pc = "leave" /\ UNCHANGED <<flink, blink, order>>
      /\ shared' = shared \ {t} /\ exclusive' = IF exclusive = t THEN None ELSE exclusive
      /\ op' = [op EXCEPT ![t] = Idle]
      /\ order \in Seq(Pages) /\ exclusive \in Threads \cup {None} /\ shared \subseteq Threads
      BY DEF Leave, At, Inv, Types
<1>2. PICK S : S = {n \in Nodes : page_lock[n] = t}  OBVIOUS
<1>3. page_lock' = Unlocked(S)  BY <1>2 DEF Leave
<1>4. /\ page_lock' \in [Nodes -> Threads \cup {None}]
      /\ \A n \in Nodes : page_lock'[n] = IF n \in S THEN None ELSE page_lock[n]
      /\ \A u \in Threads \ {t}, n \in Nodes : page_lock'[n] = u <=> page_lock[n] = u
  <2>1. Types /\ \A n \in S : page_lock[n] = t  BY <1>2 DEF Inv
  <2> QED  BY <1>3, <2>1, FreeLocks
<1>5. /\ op' \in [Threads -> Operation] /\ op'[t].frames = <<>> /\ op'[t].owned = {}
      /\ op'[t].pc = "idle" /\ \A u \in Threads \ {t} : op'[u] = op[u]
  <2>1. /\ Idle \in Operation /\ Idle.frames = <<>> /\ Idle.owned = {} /\ Idle.pc = "idle"
        BY DEF Idle, Operation, InsertPcs, ListPcs
  <2> QED  BY <1>1, <2>1 DEF Inv, Types
<1>6. Types'
  <2>1. shared' \subseteq Threads /\ exclusive' \in Threads \cup {None}  BY <1>1
  <2> QED  BY <1>1, <1>4, <1>5, <2>1 DEF Inv, Types
<1>7. OwnStep(t)
  <2>1. \A u \in Threads \ {t} : (u \in shared' <=> u \in shared)
                                 /\ (exclusive' = u <=> exclusive = u)
        BY <1>1, NoThread
  <2> QED  BY <1>4, <1>5, <2>1 DEF OwnStep
<1>8. ListLock'  BY <1>1 DEF Inv, ListLock
<1>9. ThreadInv(t)'
  <2>1. ~ HoldsList(t)' /\ order' \in Seq(Pages)  BY <1>1, NoThread DEF HoldsList
  <2>2. \A n \in Nodes : page_lock'[n] # t  BY <1>2, <1>4, NoThread
  <2> QED  BY <1>5, <2>1, <2>2, EmptyThread
<1> QED  BY <1>1, <1>6, <1>7, <1>8, <1>9, QuietStep

\* The neighbours are unlocked: an inserter walks along its section.
LEMMA UnlockInserterStep ==
    ASSUME Inv, Trimmers = {}, NEW t \in Inserters, Unlock(t)
    PROVE  Inv'
<1>1. PICK s : s = op[t].frames  OBVIOUS
<1>2. t \in Threads /\ op[t].pc = "unlock" /\ ThreadInv(t)
      BY DEF Unlock, At, Inv, Threads
<1>3. /\ s \in Seq(Pages) /\ Len(s) \in Nat /\ Len(s) >= 1 /\ NoRepeats(s) /\ s # <<>>
      /\ HoldsList(t) /\ op[t] \in Operation /\ Head(s) = s[1] /\ s[1] \in Pages
      /\ \A i \in 1 .. Len(s) : page_lock[s[i]] = t /\ s[i] \in Nodes
      /\ \A i \in 1 .. Len(s) - 1 : Adjacent(order, s[i], s[i + 1])
      BY <1>1, <1>2, OpTypes, NoThread
         DEF Inv, ThreadInv, Frames, ListHeld, FramesLocked, InsertsLinked, Unlisted, At
<1>4. PICK w : w = op[t].owned  OBVIOUS
<1>5. \A m \in w : page_lock[m] = t /\ ~ Contains(s, m)
      BY <1>1, <1>2, <1>4 DEF ThreadInv, OwnedLocked
<1>6. UNCHANGED <<flink, blink, shared, exclusive, order>>  BY DEF Unlock
<1>7. /\ page_lock' = Unlocked(w)
      /\ op' = [op EXCEPT ![t].pc = "walk", ![t].owned = {}, ![t].behind = Head(s)]
      BY <1>1, <1>4 DEF Unlock
<1>8. /\ op' \in [Threads -> Operation] /\ op'[t].pc = "walk"
      /\ op'[t].frames = s /\ op'[t].owned = {} /\ op'[t].behind = s[1]
      /\ \A u \in Threads \ {t} : op'[u] = op[u]
  <2>1. Head(s) \in Nodes \cup {None}  BY <1>3, NoThread
  <2> QED  BY <1>1, <1>2, <1>3, <1>7, <2>1 DEF Inv, Types, Operation, InsertPcs
<1>9. /\ page_lock' \in [Nodes -> Threads \cup {None}]
      /\ \A n \in Nodes : page_lock'[n] = IF n \in w THEN None ELSE page_lock[n]
      /\ \A u \in Threads \ {t}, n \in Nodes : page_lock'[n] = u <=> page_lock[n] = u
  <2>1. Types /\ \A n \in w : page_lock[n] = t  BY <1>5 DEF Inv
  <2> QED  BY <1>2, <1>7, <2>1, FreeLocks
<1>10. Types'  BY <1>6, <1>8, <1>9 DEF Inv, Types
<1>11. OwnStep(t)  BY <1>6, <1>8, <1>9 DEF OwnStep
<1>12. ListLock'  BY <1>6 DEF Inv, ListLock
<1>13. ThreadInv(t)'
  <2>1. Pcs(t)' /\ ListHeld(t)' /\ Frames(t)'
    <3>1. Pcs(t)'  BY <1>8, NoThread DEF Pcs, InsertPcs
    <3>2. ListHeld(t)'  BY <1>3, <1>6, <1>8 DEF ListHeld, HoldsList, Unlisted, Sharing
    <3>3. Frames(t)'  BY <1>3, <1>8, NoThread DEF Frames
    <3> QED  BY <3>1, <3>2, <3>3
  <2>2. FramesLocked(t)' /\ OwnedLocked(t)'  BY <1>8 DEF FramesLocked, OwnedLocked
  <2>3. NextLocked(t)' /\ NoOthersLocked(t)'  BY <1>8 DEF NextLocked, NoOthersLocked
  <2>4. NeighboursLocked(t)' /\ Neighbours(t)'
        BY <1>8 DEF NeighboursLocked, Neighbours, At
  <2>5. InsertsNew(t)' /\ InsertsLinked(t)'
        BY <1>8 DEF InsertsNew, InsertsLinked, Unlinked, At
  <2>6. Walks(t)'
    <3>1. SUFFICES
             \E i \in 1 .. Len(s) :
                /\ s[1] = s[i] /\ page_lock'[s[i]] = t
                /\ \A k \in i + 1 .. Len(s) : page_lock'[s[k]] = t
                /\ \A k \in i .. Len(s) - 1 : Adjacent(order, s[k], s[k + 1])
          BY <1>6, <1>8 DEF Walks, At
    <3>2. 1 \in 1 .. Len(s) /\ \A k \in 1 + 1 .. Len(s) : k \in 1 .. Len(s)
          BY <1>3
    <3>3. \A k \in 1 .. Len(s) : page_lock'[s[k]] = t
          BY <1>3, <1>5, <1>9 DEF Contains
    <3> QED  BY <1>3, <3>2, <3>3
  <2>7. PopsEnd(t)' /\ RescuesListed(t)'
        BY <1>8, NoThread DEF PopsEnd, RescuesListed
  <2> QED  BY <2>1, <2>2, <2>3, <2>4, <2>5, <2>6, <2>7 DEF ThreadInv
<1> QED  BY <1>2, <1>6, <1>10, <1>11, <1>12, <1>13, QuietStep

\* A scattered batch goes on with its next frame.
LEMMA UnlockRescuerStep ==
    ASSUME Inv, Trimmers = {}, NEW t \in Rescuers, Unlock(t), Tail(op[t].frames) # <<>>
    PROVE  Inv'
<1>1. PICK s : s = op[t].frames  OBVIOUS
<1>2. PICK r : r = Tail(s)  OBVIOUS
<1>3. t \in Threads /\ t \notin Inserters /\ op[t].pc = "unlock" /\ ThreadInv(t)
      BY NoThread DEF Unlock, At, Inv, Threads
<1>4. /\ s \in Seq(Pages) /\ Len(s) \in Nat /\ Len(s) >= 1 /\ NoRepeats(s) /\ s # <<>>
      /\ HoldsList(t) /\ op[t] \in Operation
      /\ \A i \in 1 .. Len(s) : page_lock[s[i]] = t /\ s[i] \in Nodes
      /\ \A i \in 2 .. Len(s) : Contains(order, s[i])
      BY <1>1, <1>3, OpTypes, NoThread
         DEF Inv, ThreadInv, Frames, ListHeld, FramesLocked, RescuesListed, Unlisted, At
<1>5. /\ r \in Seq(Pages) /\ r # <<>> /\ Len(r) = Len(s) - 1
      /\ \A i \in 1 .. Len(r) : r[i] = s[i + 1]
      BY <1>1, <1>2, <1>4, HeadTailProperties
<1>6. /\ Len(r) >= 1 /\ Head(r) = r[1]
      /\ \A i \in 1 .. Len(r) : i + 1 \in 1 .. Len(s) /\ i + 1 \in 2 .. Len(s)
  <2>1. \A i \in 1 .. Len(r) : i + 1 \in 1 .. Len(s) /\ i + 1 \in 2 .. Len(s)
        BY <1>4, <1>5
  <2> QED  BY <1>5, <2>1
<1>7. /\ NoRepeats(r)
      /\ \A i \in 1 .. Len(r) : /\ page_lock[r[i]] = t /\ Contains(order, r[i])
                                /\ Contains(s, r[i]) /\ r[i] \in Nodes
  <2>1. ASSUME NEW i \in 1 .. Len(r)
        PROVE  /\ page_lock[r[i]] = t /\ Contains(order, r[i])
               /\ Contains(s, r[i]) /\ r[i] \in Nodes
    <3>1. i + 1 \in 1 .. Len(s) /\ i + 1 \in 2 .. Len(s) /\ r[i] = s[i + 1]
          BY <1>5, <1>6
    <3>2. Contains(s, r[i])  BY <3>1 DEF Contains
    <3> QED  BY <1>4, <3>1, <3>2
  <2>2. ASSUME NEW i \in 1 .. Len(r), NEW j \in 1 .. Len(r), r[i] = r[j]  PROVE  i = j
    <3>1. i + 1 \in 1 .. Len(s) /\ j + 1 \in 1 .. Len(s) /\ s[i + 1] = s[j + 1]
          BY <1>5, <1>6, <2>2
    <3>2. i + 1 = j + 1  BY <1>4, <3>1 DEF NoRepeats
    <3> QED  BY <3>2
  <2> QED  BY <2>1, <2>2 DEF NoRepeats
<1>8. PICK w : w = op[t].owned  OBVIOUS
<1>9. \A m \in w : page_lock[m] = t /\ ~ Contains(s, m)
      BY <1>1, <1>3, <1>8 DEF ThreadInv, OwnedLocked
<1>10. UNCHANGED <<flink, blink, shared, exclusive, order>>  BY DEF Unlock
<1>11. 1 \in 1 .. Len(r)  BY <1>4, <1>5, <1>6
<1>12. /\ page_lock[Head(r)] = t /\ Contains(order, Head(r))
       /\ Adjacent(order, Head(r), flink[Head(r)]) /\ Adjacent(order, blink[Head(r)], Head(r))
  <2>1. page_lock[Head(r)] = t /\ Contains(order, Head(r))  BY <1>6, <1>7, <1>11
  <2>2. ~ At(t, "link_ends")  BY <1>3 DEF At
  <2> QED  BY <1>3, <2>1, <2>2, LinksRight
<1>13. PICK a \in Nodes \cup {None}, b \in Nodes \cup {None},
            c \in {"unlink", "first"} :
          /\ a = IF exclusive = t THEN flink[Head(r)] ELSE None
          /\ b = IF exclusive = t THEN blink[Head(r)] ELSE None
          /\ c = IF exclusive = t THEN "unlink" ELSE "first"
  <2>1. order \in Seq(Pages)  BY DEF Inv, Types
  <2>2. flink[Head(r)] \in Nodes /\ blink[Head(r)] \in Nodes  BY <1>12, <2>1, AdjacentNodes
  <2> QED  BY <2>2
<1>14. PICK o : o = [Idle EXCEPT !.frames = r, !.ahead = a, !.behind = b, !.pc = c]
       OBVIOUS
<1>15. /\ o \in Operation /\ o.frames = r /\ o.owned = {} /\ o.ahead = a /\ o.behind = b
       /\ o.pc = c /\ c \in {"unlink", "first"}
       /\ c = "unlink" <=> exclusive = t
  <2>1. c \in {"unlink", "first"} /\ (c = "unlink" <=> exclusive = t)  BY <1>13
  <2>2. c \in BatchPcs \cup InsertPcs  BY <2>1 DEF BatchPcs, PopPcs, RescuePcs, ListPcs
  <2>3. o = [pc |-> c, frames |-> r, ahead |-> a, behind |-> b, owned |-> {}]
        BY <1>14 DEF Idle
  <2> QED  BY <1>5, <1>13, <2>1, <2>2, <2>3 DEF Operation
<1>16. page_lock' = Unlocked(w) /\ op' = [op EXCEPT ![t] = o]
  <2>1. op' = [op EXCEPT ![t] = [Idle EXCEPT !.frames = r,
                  !.ahead = IF exclusive = t THEN flink[Head(r)] ELSE None,
                  !.behind = IF exclusive = t THEN blink[Head(r)] ELSE None,
                  !.pc = IF exclusive = t THEN "unlink" ELSE "first"]]
        BY <1>1, <1>2, <1>3, <1>5 DEF Unlock
  <2>2. op' = [op EXCEPT ![t] = [Idle EXCEPT !.frames = r, !.ahead = a, !.behind = b, !.pc = c]]
        BY <1>13, <2>1, Zenon
  <2> QED  BY <1>8, <1>14, <2>2 DEF Unlock
<1>17. /\ op' \in [Threads -> Operation] /\ op'[t] = o
       /\ \A u \in Threads \ {t} : op'[u] = op[u]
       BY <1>3, <1>15, <1>16 DEF Inv, Types
<1>18. /\ page_lock' \in [Nodes -> Threads \cup {None}]
       /\ \A n \in Nodes : page_lock'[n] = IF n \in w THEN None ELSE page_lock[n]
       /\ \A u \in Threads \ {t}, n \in Nodes : page_lock'[n] = u <=> page_lock[n] = u
  <2>1. Types /\ \A n \in w : page_lock[n] = t  BY <1>9 DEF Inv
  <2> QED  BY <1>3, <1>16, <2>1, FreeLocks
<1>19. Types'  BY <1>10, <1>17, <1>18 DEF Inv, Types
<1>20. OwnStep(t)  BY <1>10, <1>17, <1>18 DEF OwnStep
<1>21. ListLock'  BY <1>10 DEF Inv, ListLock
<1>22. ThreadInv(t)'
  <2>1. Pcs(t)' /\ ListHeld(t)' /\ Frames(t)'
    <3>1. Pcs(t)'
          BY <1>3, <1>15, <1>17, NoThread DEF Pcs, BatchPcs, PopPcs, RescuePcs, ListPcs
    <3>2. ListHeld(t)'
          BY <1>4, <1>10, <1>15, <1>17 DEF ListHeld, HoldsList, Unlisted, Sharing
    <3>3. Frames(t)'  BY <1>5, <1>7, <1>15, <1>17, NoThread DEF Frames
    <3> QED  BY <3>1, <3>2, <3>3
  <2>2. FramesLocked(t)' /\ OwnedLocked(t)'
        BY <1>7, <1>9, <1>15, <1>17, <1>18 DEF FramesLocked, OwnedLocked
  <2>3. NextLocked(t)' /\ NoOthersLocked(t)'
        BY <1>15, <1>17 DEF NextLocked, NoOthersLocked
  <2>4. NeighboursLocked(t)' /\ Neighbours(t)'
    <3>1. NeighboursLocked(t)'
          BY <1>10, <1>15, <1>17 DEF NeighboursLocked, At
    <3>2. t \notin BatchPoppers  BY NoThread
    <3>3. Section(t)' = <<Head(r)>>  BY <1>15, <1>17, <3>2 DEF Section
    <3>4. Head(<<Head(r)>>) = Head(r) /\ Last(<<Head(r)>>) = Head(r)  BY DEF Last
    <3>5. Neighbours(t)'
          BY <1>3, <1>10, <1>12, <1>13, <1>15, <1>17, <3>3, <3>4 DEF Neighbours, At
    <3> QED  BY <3>1, <3>5
  <2>5. InsertsNew(t)' /\ InsertsLinked(t)' /\ Walks(t)'
        BY <1>3, <1>15, <1>17 DEF InsertsNew, InsertsLinked, Walks, At
  <2>6. PopsEnd(t)' /\ RescuesListed(t)'
        BY <1>7, <1>10, <1>15, <1>17, NoThread DEF PopsEnd, RescuesListed, At
  <2> QED  BY <2>1, <2>2, <2>3, <2>4, <2>5, <2>6 DEF ThreadInv
<1> QED  BY <1>3, <1>10, <1>19, <1>20, <1>21, <1>22, QuietStep

LEMMA UnlockStep ==
    ASSUME Inv, Trimmers = {}, NEW t \in Threads, Unlock(t)
    PROVE  Inv'
<1>1. CASE t \in Inserters  BY <1>1, UnlockInserterStep
<1>2. CASE t \in Rescuers /\ Tail(op[t].frames) # <<>>  BY <1>2, UnlockRescuerStep
<1>3. CASE t \notin Inserters /\ ~ (t \in Rescuers /\ Tail(op[t].frames) # <<>>)
  <2>1. op[t].pc = "unlock" /\ ThreadInv(t) /\ op[t] \in Operation
        BY OpTypes DEF Unlock, At, Inv
  <2>2. PICK w : w = op[t].owned  OBVIOUS
  <2>3. \A m \in w : page_lock[m] = t /\ ~ Contains(op[t].frames, m)
        BY <2>1, <2>2 DEF ThreadInv, OwnedLocked
  <2>4. UNCHANGED <<flink, blink, shared, exclusive, order>>  BY DEF Unlock
  <2>5. page_lock' = Unlocked(w) /\ op' = [op EXCEPT ![t].pc = "leave", ![t].owned = {}]
        BY <1>3, <2>2 DEF Unlock
  <2>6. /\ op' \in [Threads -> Operation] /\ op'[t].pc = "leave"
        /\ op'[t].frames = op[t].frames /\ op'[t].owned = {}
        /\ \A u \in Threads \ {t} : op'[u] = op[u]
        BY <2>1, <2>5 DEF Inv, Types, Operation, InsertPcs, ListPcs
  <2>7. /\ page_lock' \in [Nodes -> Threads \cup {None}]
        /\ \A n \in Nodes : page_lock'[n] = IF n \in w THEN None ELSE page_lock[n]
        /\ \A u \in Threads \ {t}, n \in Nodes : page_lock'[n] = u <=> page_lock[n] = u
    <3>1. Types /\ \A n \in w : page_lock[n] = t  BY <2>3 DEF Inv
    <3> QED  BY <2>5, <3>1, FreeLocks
  <2>8. Types'  BY <2>4, <2>6, <2>7 DEF Inv, Types
  <2>9. OwnStep(t)  BY <2>4, <2>6, <2>7 DEF OwnStep
  <2>10. ListLock'  BY <2>4 DEF Inv, ListLock
  <2>11. Pcs(t)' /\ ListHeld(t)' /\ Frames(t)'
        BY <1>3, <2>1, <2>4, <2>6 DEF ThreadInv, Pcs, ListHeld, HoldsList, Frames,
           Unlisted, Sharing, InsertPcs, BatchPcs, PopPcs, RescuePcs, ListPcs
  <2>12. FramesLocked(t)' /\ OwnedLocked(t)'
    <3>1. \A i \in 1 .. Len(op[t].frames) :
              op[t].frames[i] \in Nodes /\ page_lock[op[t].frames[i]] = t
          BY <1>3, <2>1, OpTypes, NoThread DEF Inv, ThreadInv, FramesLocked
    <3>2. \A i \in 1 .. Len(op[t].frames) : page_lock'[op[t].frames[i]] = t
          BY <2>3, <2>7, <3>1 DEF Contains
    <3> QED  BY <2>6, <3>2 DEF FramesLocked, OwnedLocked
  <2>13. NextLocked(t)' /\ NoOthersLocked(t)'  BY <2>6 DEF NextLocked, NoOthersLocked
  <2>14. NeighboursLocked(t)' /\ Neighbours(t)'
        BY <2>6 DEF NeighboursLocked, Neighbours, At
  <2>15. InsertsNew(t)' /\ InsertsLinked(t)' /\ Walks(t)'
        BY <2>6 DEF InsertsNew, InsertsLinked, Walks, Unlinked, At
  <2>16. PopsEnd(t)' /\ RescuesListed(t)'  BY <2>6 DEF PopsEnd, RescuesListed, At
  <2>17. ThreadInv(t)'
        BY <2>11, <2>12, <2>13, <2>14, <2>15, <2>16 DEF ThreadInv
  <2> QED  BY <2>1, <2>4, <2>8, <2>9, <2>10, <2>17, QuietStep
<1> QED  BY <1>1, <1>2, <1>3

\* The batches of frames an operation may be given.
LEMMA BatchFacts ==
    ASSUME NEW S, S \subseteq Pages, NEW s \in Batches(S)
    PROVE  /\ s \in Seq(Pages) /\ s # <<>> /\ NoRepeats(s)
           /\ \A i \in 1 .. Len(s) : s[i] \in S
<1>1. MaxBatch \in Nat  BY ListAssumption
<1>2. PICK n \in 1 .. MaxBatch : s \in [1 .. n -> S]  BY DEF Batches
<1>3. IsInjective(s)  BY DEF Batches
<1>4. n \in Nat /\ n # 0  BY <1>1, <1>2
<1>5. s \in Seq(Pages) /\ Len(s) = n  BY <1>2, <1>4
<1>6. s # <<>>  BY <1>4, <1>5
<1>7. DOMAIN s = 1 .. Len(s)  BY <1>2, <1>5
<1>8. NoRepeats(s)  BY <1>3, <1>7 DEF IsInjective, NoRepeats
<1> QED  BY <1>2, <1>5, <1>6, <1>8

LEMMA BeginRescueStep ==
    ASSUME Inv, Trimmers = {}, NEW t \in Threads, BeginRescue(t)
    PROVE  Inv'
<1>1. PICK s \in Batches({p \in ToSet(order) : page_lock[p] = None}) :
          /\ op' = [op EXCEPT ![t] = [Idle EXCEPT !.pc = "share", !.frames = s]]
          /\ page_lock' = [n \in Nodes |-> IF Contains(s, n) THEN t ELSE page_lock[n]]
      BY DEF BeginRescue
<1>2. /\ t \in Rescuers /\ t \notin Inserters /\ op[t].pc = "idle" /\ ThreadInv(t)
      /\ UNCHANGED <<flink, blink, shared, exclusive, order>>
      /\ order \in Seq(Pages) /\ page_lock \in [Nodes -> Threads \cup {None}]
      /\ op \in [Threads -> Operation]
      BY NoThread DEF BeginRescue, At, Inv, Types
<1>3. /\ s \in Seq(Pages) /\ s # <<>> /\ NoRepeats(s)
      /\ \A i \in 1 .. Len(s) : /\ Contains(order, s[i]) /\ page_lock[s[i]] = None
                                /\ s[i] \in Nodes
  <2>1. {p \in ToSet(order) : page_lock[p] = None} \subseteq Pages
        BY <1>2, NodeFacts DEF ToSet
  <2>2. /\ s \in Seq(Pages) /\ s # <<>> /\ NoRepeats(s)
        /\ \A i \in 1 .. Len(s) : s[i] \in {p \in ToSet(order) : page_lock[p] = None}
        BY <2>1, BatchFacts
  <2>3. \A p \in ToSet(order) : Contains(order, p)  BY <1>2 DEF ToSet, Contains
  <2> QED  BY <2>1, <2>2, <2>3, NoThread
<1>4. PICK o : o = [Idle EXCEPT !.pc = "share", !.frames = s]  OBVIOUS
<1>5. /\ o \in Operation /\ o.frames = s /\ o.owned = {} /\ o.pc = "share"
  <2>1. o = [pc |-> "share", frames |-> s, ahead |-> None, behind |-> None, owned |-> {}]
        BY <1>4 DEF Idle
  <2> QED  BY <1>3, <2>1 DEF Operation, InsertPcs, ListPcs
<1>6. /\ op' \in [Threads -> Operation] /\ op'[t] = o
      /\ \A u \in Threads \ {t} : op'[u] = op[u]
      BY <1>1, <1>2, <1>4, <1>5
<1>7. \A n \in Nodes : Contains(s, n) => page_lock[n] = None  BY <1>3 DEF Contains
<1>8. /\ page_lock' \in [Nodes -> Threads \cup {None}]
      /\ \A i \in 1 .. Len(s) : page_lock'[s[i]] = t
      /\ \A u \in Threads \ {t}, n \in Nodes : page_lock'[n] = u <=> page_lock[n] = u
  <2>1. page_lock' \in [Nodes -> Threads \cup {None}]  BY <1>1, <1>2
  <2>2. \A i \in 1 .. Len(s) : page_lock'[s[i]] = t  BY <1>1, <1>3 DEF Contains
  <2>3. \A u \in Threads \ {t}, n \in Nodes : page_lock'[n] = u <=> page_lock[n] = u
        BY <1>1, <1>7, NoThread
  <2> QED  BY <2>1, <2>2, <2>3
<1>9. Types'  BY <1>2, <1>6, <1>8 DEF Inv, Types
<1>10. OwnStep(t)  BY <1>2, <1>6, <1>8 DEF OwnStep
<1>11. ListLock'  BY <1>2 DEF Inv, ListLock
<1>12. ThreadInv(t)'
  <2>1. Pcs(t)' /\ ListHeld(t)' /\ Frames(t)'
    <3>1. Pcs(t)'
          BY <1>2, <1>5, <1>6, NoThread DEF Pcs, BatchPcs, PopPcs, RescuePcs, ListPcs
    <3>2. ListHeld(t)'
          BY <1>2, <1>5, <1>6 DEF ThreadInv, ListHeld, HoldsList, Unlisted, Sharing
    <3>3. Frames(t)'  BY <1>2, <1>3, <1>5, <1>6, NoThread DEF Frames
    <3> QED  BY <3>1, <3>2, <3>3
  <2>2. FramesLocked(t)' /\ OwnedLocked(t)'
        BY <1>5, <1>6, <1>8 DEF FramesLocked, OwnedLocked
  <2>3. NextLocked(t)' /\ NoOthersLocked(t)'
        BY <1>5, <1>6 DEF NextLocked, NoOthersLocked
  <2>4. NeighboursLocked(t)' /\ Neighbours(t)'
        BY <1>5, <1>6 DEF NeighboursLocked, Neighbours, At
  <2>5. InsertsNew(t)' /\ InsertsLinked(t)' /\ Walks(t)'
        BY <1>2, <1>5, <1>6 DEF InsertsNew, InsertsLinked, Walks, At
  <2>6. PopsEnd(t)' /\ RescuesListed(t)'
        BY <1>2, <1>3, <1>5, <1>6, NoThread DEF PopsEnd, RescuesListed, At
  <2> QED  BY <2>1, <2>2, <2>3, <2>4, <2>5, <2>6 DEF ThreadInv
<1> QED  BY <1>2, <1>9, <1>10, <1>11, <1>12, QuietStep

\* What create_chain_of_pages does to the links in one direction.
LEMMA ChainedFacts ==
    ASSUME NEW s \in Seq(Pages), NoRepeats(s), NEW link \in [Nodes -> Nodes \cup {None}]
    PROVE  /\ Chained(link, s) \in [Nodes -> Nodes \cup {None}]
           /\ \A n \in Nodes : ~ Contains(s, n) => Chained(link, s)[n] = link[n]
           /\ \A i \in 1 .. Len(s) - 1 : Chained(link, s)[s[i]] = s[i + 1]
<1>1. Len(s) \in Nat /\ \A i \in 1 .. Len(s) : s[i] \in Nodes  BY NodeFacts, NoThread
<1>2. \A i \in 1 .. Len(s) - 1 : i \in 1 .. Len(s) /\ i + 1 \in 1 .. Len(s)  BY <1>1
<1> DEFINE next(n) == CHOOSE i \in 1 .. Len(s) - 1 : s[i] = n
           c(n) == IF \E i \in 1 .. Len(s) - 1 : s[i] = n THEN s[1 + next(n)] ELSE link[n]
<1>3. ASSUME NEW i \in 1 .. Len(s) - 1  PROVE  next(s[i]) = i
  <2>1. next(s[i]) \in 1 .. Len(s) - 1 /\ s[next(s[i])] = s[i]  OBVIOUS
  <2> HIDE DEF next
  <2> QED  BY <1>2, <2>1 DEF NoRepeats
<1> HIDE DEF next
<1>4. ASSUME NEW n \in Nodes, NEW i \in 1 .. Len(s) - 1, s[i] = n
      PROVE  c(n) = s[i + 1] /\ c(n) \in Nodes
  <2>1. next(n) = i  BY <1>3, <1>4
  <2>2. 1 + i = i + 1  BY <1>1
  <2> QED  BY <1>1, <1>2, <1>4, <2>1, <2>2
<1>5. ASSUME NEW n \in Nodes, ~ \E i \in 1 .. Len(s) - 1 : s[i] = n
      PROVE  c(n) = link[n] /\ c(n) \in Nodes \cup {None}
      BY <1>5
<1>6. Chained(link, s) = [n \in Nodes |-> c(n)]  BY DEF Chained, next
<1> HIDE DEF c
<1>7. \A n \in Nodes : c(n) \in Nodes \cup {None}  BY <1>4, <1>5
<1>8. \A n \in Nodes : ~ Contains(s, n) => c(n) = link[n]
      BY <1>2, <1>5 DEF Contains
<1>9. \A i \in 1 .. Len(s) - 1 : c(s[i]) = s[i + 1] /\ s[i] \in Nodes
      BY <1>1, <1>2, <1>4
<1> QED  BY <1>6, <1>7, <1>8, <1>9

LEMMA ReverseFacts ==
    ASSUME NEW s \in Seq(Pages), NoRepeats(s)
    PROVE  /\ Reverse(s) \in Seq(Pages) /\ NoRepeats(Reverse(s))
           /\ \A n : Contains(Reverse(s), n) => Contains(s, n)
           /\ Len(Reverse(s)) = Len(s)
           /\ \A i \in 1 .. Len(s) : Reverse(s)[i] = s[Len(s) - i + 1]
<1> DEFINE r == Reverse(s)
<1>1. Len(s) \in Nat  OBVIOUS
<1>2. \A i \in 1 .. Len(s) : Len(s) - i + 1 \in 1 .. Len(s)  BY <1>1
<1>3. r = [i \in 1 .. Len(s) |-> s[(Len(s) - i) + 1]]  BY DEF Reverse
<1> HIDE DEF r
<1>4. \A i \in 1 .. Len(s) : r[i] = s[Len(s) - i + 1] /\ r[i] \in Pages
      BY <1>2, <1>3, NodeFacts
<1>5. r \in [1 .. Len(s) -> Pages]  BY <1>3, <1>4
<1>6. r \in Seq(Pages) /\ Len(r) = Len(s)  BY <1>1, <1>5
<1>7. ASSUME NEW i \in 1 .. Len(r), NEW j \in 1 .. Len(r), r[i] = r[j]  PROVE  i = j
  <2>1. Len(s) - i + 1 = Len(s) - j + 1  BY <1>2, <1>4, <1>6, <1>7 DEF NoRepeats
  <2> QED  BY <1>1, <1>6, <2>1
<1>8. \A n : Contains(r, n) => Contains(s, n)  BY <1>2, <1>4, <1>6 DEF Contains
<1> QED  BY <1>4, <1>6, <1>7, <1>8 DEF r, NoRepeats

\* The frames to insert get links to each other; they are in no list and nobody's.
LEMMA BeginInsertStep ==
    ASSUME Inv, Trimmers = {}, NEW t \in Threads, BeginInsert(t)
    PROVE  Inv'
<1>1. PICK s \in Batches(Loose) :
          /\ op' = [op EXCEPT ![t] = [Idle EXCEPT !.pc = "share", !.frames = s]]
          /\ flink' = Chained(flink, s) /\ blink' = Chained(blink, Reverse(s))
          /\ page_lock' = [n \in Nodes |->
                             IF t \in Inserters /\ Contains(s, n) THEN t ELSE page_lock[n]]
      BY DEF BeginInsert
<1>2. /\ t \in Inserters /\ op[t].pc = "idle" /\ ThreadInv(t)
      /\ UNCHANGED <<shared, exclusive, order>>
      /\ order \in Seq(Pages) /\ page_lock \in [Nodes -> Threads \cup {None}]
      /\ op \in [Threads -> Operation]
      /\ flink \in [Nodes -> Nodes \cup {None}] /\ blink \in [Nodes -> Nodes \cup {None}]
      BY DEF BeginInsert, At, Inv, Types
<1>3. /\ s \in Seq(Pages) /\ s # <<>> /\ NoRepeats(s)
      /\ \A i \in 1 .. Len(s) : /\ ~ Contains(order, s[i]) /\ page_lock[s[i]] = None
                                /\ s[i] \in Nodes /\ s[i] \in Pages
  <2>1. Loose \subseteq Pages  BY DEF Loose
  <2>2. s \in Seq(Pages) /\ s # <<>> /\ NoRepeats(s) /\ \A i \in 1 .. Len(s) : s[i] \in Loose
        BY <2>1, BatchFacts
  <2> QED  BY <2>1, <2>2, NoThread DEF Loose
<1>4. \A n : Contains(s, n) => page_lock[n] = None /\ ~ Contains(order, n) /\ n \in Pages
      BY <1>3 DEF Contains
<1>5. /\ flink' \in [Nodes -> Nodes \cup {None}] /\ blink' \in [Nodes -> Nodes \cup {None}]
      /\ \A n \in Nodes : ~ Contains(s, n) => flink'[n] = flink[n] /\ blink'[n] = blink[n]
      /\ \A i \in 1 .. Len(s) - 1 : flink'[s[i]] = s[i + 1] /\ blink'[s[i + 1]] = s[i]
  <2>1. PICK r : r = Reverse(s)  OBVIOUS
  <2>2. /\ r \in Seq(Pages) /\ NoRepeats(r) /\ \A n : Contains(r, n) => Contains(s, n)
        /\ Len(r) = Len(s) /\ \A i \in 1 .. Len(s) : r[i] = s[Len(s) - i + 1]
        BY <1>3, <2>1, ReverseFacts
  <2>3. PICK f \in [Nodes -> Nodes \cup {None}], b \in [Nodes -> Nodes \cup {None}] :
            f = flink /\ b = blink
        BY <1>2
  <2>4. flink' = Chained(f, s) /\ blink' = Chained(b, r)  BY <1>1, <2>1, <2>3
  <2>5. /\ Chained(f, s) \in [Nodes -> Nodes \cup {None}]
        /\ \A n \in Nodes : ~ Contains(s, n) => Chained(f, s)[n] = f[n]
        /\ \A i \in 1 .. Len(s) - 1 : Chained(f, s)[s[i]] = s[i + 1]
        BY <1>3, ChainedFacts
  <2>6. /\ Chained(b, r) \in [Nodes -> Nodes \cup {None}]
        /\ \A n \in Nodes : ~ Contains(r, n) => Chained(b, r)[n] = b[n]
        /\ \A i \in 1 .. Len(r) - 1 : Chained(b, r)[r[i]] = r[i + 1]
        BY <2>2, ChainedFacts
  <2>7. ASSUME NEW i \in 1 .. Len(s) - 1  PROVE  Chained(b, r)[s[i + 1]] = s[i]
    <3>1. /\ Len(s) \in Nat /\ Len(s) - i \in 1 .. Len(r) - 1
          /\ Len(s) - i \in 1 .. Len(s) /\ Len(s) - i + 1 \in 1 .. Len(s)
          /\ Len(s) - (Len(s) - i) + 1 = i + 1 /\ Len(s) - (Len(s) - i + 1) + 1 = i
          BY <1>3, <2>2
    <3>2. r[Len(s) - i] = s[i + 1] /\ r[Len(s) - i + 1] = s[i]  BY <2>2, <3>1
    <3>3. Chained(b, r)[r[Len(s) - i]] = r[Len(s) - i + 1]  BY <2>6, <3>1
    <3> QED  BY <3>2, <3>3
  <2>8. flink' \in [Nodes -> Nodes \cup {None}] /\ blink' \in [Nodes -> Nodes \cup {None}]
        BY <2>4, <2>5, <2>6
  <2>9. \A n \in Nodes : ~ Contains(s, n) => flink'[n] = flink[n] /\ blink'[n] = blink[n]
        BY <2>2, <2>3, <2>4, <2>5, <2>6
  <2>10. \A i \in 1 .. Len(s) - 1 : flink'[s[i]] = s[i + 1] /\ blink'[s[i + 1]] = s[i]
        BY <2>4, <2>5, <2>7
  <2> QED  BY <2>8, <2>9, <2>10
<1>6. PICK o : o = [Idle EXCEPT !.pc = "share", !.frames = s]  OBVIOUS
<1>7. /\ o \in Operation /\ o.frames = s /\ o.owned = {} /\ o.pc = "share"
  <2>1. o = [pc |-> "share", frames |-> s, ahead |-> None, behind |-> None, owned |-> {}]
        BY <1>6 DEF Idle
  <2> QED  BY <1>3, <2>1 DEF Operation, InsertPcs, ListPcs
<1>8. /\ op' \in [Threads -> Operation] /\ op'[t] = o
      /\ \A u \in Threads \ {t} : op'[u] = op[u]
      BY <1>1, <1>2, <1>6, <1>7
<1>9. /\ page_lock' \in [Nodes -> Threads \cup {None}]
      /\ \A i \in 1 .. Len(s) : page_lock'[s[i]] = t
      /\ \A u \in Threads \ {t}, n \in Nodes : page_lock'[n] = u <=> page_lock[n] = u
  <2>1. page_lock' \in [Nodes -> Threads \cup {None}]  BY <1>1, <1>2
  <2>2. \A i \in 1 .. Len(s) : page_lock'[s[i]] = t  BY <1>1, <1>2, <1>3 DEF Contains
  <2>3. \A u \in Threads \ {t}, n \in Nodes : page_lock'[n] = u <=> page_lock[n] = u
        BY <1>1, <1>2, <1>4, NoThread
  <2> QED  BY <2>1, <2>2, <2>3
<1>10. Types'  BY <1>2, <1>5, <1>8, <1>9 DEF Inv, Types
<1>11. ListLock' /\ NoRepeats(order)'  BY <1>2 DEF Inv, ListLock, NoRepeats
<1>12. ThreadInv(t)'
  <2>1. Pcs(t)' /\ ListHeld(t)' /\ Frames(t)'
    <3>1. Pcs(t)'  BY <1>2, <1>7, <1>8, NoThread DEF Pcs, InsertPcs, ListPcs
    <3>2. ListHeld(t)'
          BY <1>2, <1>7, <1>8 DEF ThreadInv, ListHeld, HoldsList, Unlisted, Sharing
    <3>3. Frames(t)'  BY <1>2, <1>3, <1>7, <1>8, NoThread DEF Frames
    <3> QED  BY <3>1, <3>2, <3>3
  <2>2. FramesLocked(t)' /\ OwnedLocked(t)'
        BY <1>7, <1>8, <1>9 DEF FramesLocked, OwnedLocked
  <2>3. NextLocked(t)' /\ NoOthersLocked(t)'
        BY <1>7, <1>8 DEF NextLocked, NoOthersLocked
  <2>4. NeighboursLocked(t)' /\ Neighbours(t)'
        BY <1>7, <1>8 DEF NeighboursLocked, Neighbours, At
  <2>5. InsertsNew(t)'  BY <1>2, <1>3, <1>5, <1>7, <1>8 DEF InsertsNew
  <2>6. InsertsLinked(t)' /\ Walks(t)'  BY <1>7, <1>8 DEF InsertsLinked, Walks, At
  <2>7. PopsEnd(t)' /\ RescuesListed(t)'
        BY <1>2, NoThread DEF PopsEnd, RescuesListed
  <2> QED  BY <2>1, <2>2, <2>3, <2>4, <2>5, <2>6, <2>7 DEF ThreadInv
<1>13. ASSUME NEW u \in Threads \ {t}  PROVE  Undisturbed(u)
  <2>1. \A p \in Pages : page_lock[p] = u => flink'[p] = flink[p] /\ blink'[p] = blink[p]
        BY <1>4, <1>5, NoThread
  <2> QED  BY <1>2, <1>8, <1>9, <2>1 DEF Undisturbed
<1>14. \A u \in Threads : ThreadInv(u)'  BY <1>12, <1>13, OthersKept
<1>15. LinksHold'
  <2>1. SUFFICES ASSUME NEW a \in Nodes, NEW b \in Nodes, Adjacent(order, a, b)
        PROVE  /\ \/ flink'[a] = b
                  \/ \E u \in Threads : op'[u].pc = "link_ends" /\ a = Last(op'[u].frames)
               /\ \/ blink'[b] = a
                  \/ \E u \in Threads : op'[u].pc = "link_ends" /\ b = Head(op'[u].frames)
        BY <1>2 DEF LinksHold, At
  <2>2. ~ Contains(s, a) /\ ~ Contains(s, b)
        BY <1>2, <1>4, <2>1, AdjacentNodes, NoThread
  <2>3. flink'[a] = flink[a] /\ blink'[b] = blink[b]  BY <1>5, <2>1, <2>2
  <2>4. \A u \in Threads : op[u].pc = "link_ends" => op'[u] = op[u]  BY <1>2, <1>8
  <2> QED  BY <2>1, <2>3, <2>4 DEF Inv, LinksHold, At
<1> QED  BY <1>10, <1>11, <1>14, <1>15 DEF Inv

\* The links the other way: from then on they hold without exception for t.
LEMMA LinkEndsStep ==
    ASSUME Inv, Trimmers = {}, NEW t \in Threads, LinkEnds(t)
    PROVE  Inv'
<1>1. PICK s : s = op[t].frames  OBVIOUS
<1>2. /\ op[t].pc = "link_ends" /\ ThreadInv(t)
      /\ UNCHANGED <<page_lock, shared, exclusive, order>>
      /\ order \in Seq(Pages) /\ NoRepeats(order)
      /\ flink \in [Nodes -> Nodes \cup {None}] /\ blink \in [Nodes -> Nodes \cup {None}]
      BY DEF LinkEnds, At, Inv, Types
<1>3. /\ t \in Inserters /\ s \in Seq(Pages) /\ s # <<>> /\ HoldsList(t)
      /\ Head(s) \in Nodes /\ Last(s) \in Nodes
      /\ page_lock[Head(s)] = t /\ page_lock[Last(s)] = t
      /\ Adjacent(order, "head", Head(s)) /\ Adjacent(order, Last(s), op[t].ahead)
      /\ Contains(order, Head(s)) /\ Contains(order, Last(s))
  <2>1. t \in Inserters
        BY <1>2 DEF ThreadInv, Pcs, BatchPcs, PopPcs, RescuePcs, ListPcs
  <2>2. s # <<>> /\ s \in Seq(Pages)
        BY <1>1, <1>2, OpTypes DEF Inv, ThreadInv, Frames
  <2>3. /\ HoldsList(t) /\ Head(s) \in Pages /\ Last(s) \in Pages
        /\ page_lock[Head(s)] = t /\ page_lock[Last(s)] = t
        BY <1>1, <1>2, LinkerLocks DEF At
  <2>4. Adjacent(order, "head", Head(s)) /\ Adjacent(order, Last(s), op[t].ahead)
        BY <1>1, <1>2 DEF ThreadInv, Neighbours, At
  <2> QED  BY <1>2, <2>1, <2>2, <2>3, <2>4, AdjacentNodes, NoThread
<1>4. PICK a \in Nodes : a = op[t].ahead  BY <1>2, <1>3, AdjacentNodes
<1>5. /\ blink' = [blink EXCEPT ![Head(s)] = "head"]
      /\ flink' = [flink EXCEPT ![Last(s)] = a]
      /\ Goto(t, "unlock")
      BY <1>1, <1>4 DEF LinkEnds
<1>6. /\ op' \in [Threads -> Operation] /\ op'[t].pc = "unlock"
      /\ op'[t].frames = s /\ op'[t].owned = op[t].owned
      /\ \A u \in Threads \ {t} : op'[u] = op[u]
      BY <1>1, <1>5, GotoFacts DEF Inv, InsertPcs, ListPcs
<1>7. Types'
  <2>1. flink' \in [Nodes -> Nodes \cup {None}] /\ blink' \in [Nodes -> Nodes \cup {None}]
        BY <1>2, <1>5, NoThread
  <2> QED  BY <1>2, <1>6, <2>1 DEF Inv, Types
<1>8. ListLock' /\ NoRepeats(order)'  BY <1>2 DEF Inv, ListLock, NoRepeats
<1>9. ThreadInv(t)'
  <2>1. Pcs(t)' /\ ListHeld(t)' /\ Frames(t)'
    <3>1. Pcs(t)'  BY <1>3, <1>6, NoThread DEF Pcs, InsertPcs, ListPcs
    <3>2. ListHeld(t)'
          BY <1>2, <1>3, <1>6 DEF ListHeld, HoldsList, Unlisted, Sharing
    <3>3. Frames(t)'  BY <1>1, <1>2, <1>6 DEF ThreadInv, Frames
    <3> QED  BY <3>1, <3>2, <3>3
  <2>2. FramesLocked(t)' /\ OwnedLocked(t)'
        BY <1>1, <1>2, <1>6 DEF ThreadInv, FramesLocked, OwnedLocked
  <2>3. NextLocked(t)' /\ NoOthersLocked(t)'  BY <1>6 DEF NextLocked, NoOthersLocked
  <2>4. NeighboursLocked(t)' /\ Neighbours(t)'
        BY <1>6 DEF NeighboursLocked, Neighbours, At
  <2>5. InsertsNew(t)' /\ Walks(t)'  BY <1>6 DEF InsertsNew, Walks, Unlinked, At
  <2>6. InsertsLinked(t)'  BY <1>1, <1>2, <1>6 DEF ThreadInv, InsertsLinked, At
  <2>7. PopsEnd(t)' /\ RescuesListed(t)'
        BY <1>3, NoThread DEF PopsEnd, RescuesListed
  <2> QED  BY <2>1, <2>2, <2>3, <2>4, <2>5, <2>6, <2>7 DEF ThreadInv
<1>10. ASSUME NEW u \in Threads \ {t}  PROVE  Undisturbed(u)
  <2>1. \A p \in Pages : ~ Contains(order, p) =>
            flink'[p] = flink[p] /\ blink'[p] = blink[p]
        BY <1>2, <1>3, <1>5, NoThread
  <2> QED  BY <1>2, <1>6, <2>1 DEF Undisturbed
<1>11. \A u \in Threads : ThreadInv(u)'  BY <1>9, <1>10, OthersKept
<1>12. LinksHold'
  <2>1. SUFFICES ASSUME NEW x \in Nodes, NEW y \in Nodes, Adjacent(order, x, y)
        PROVE  /\ \/ flink'[x] = y
                  \/ \E u \in Threads : op'[u].pc = "link_ends" /\ x = Last(op'[u].frames)
               /\ \/ blink'[y] = x
                  \/ \E u \in Threads : op'[u].pc = "link_ends" /\ y = Head(op'[u].frames)
        BY <1>2 DEF LinksHold, At
  <2>2. \/ flink[x] = y
        \/ \E u \in Threads : op[u].pc = "link_ends" /\ x = Last(op[u].frames)
        BY <2>1 DEF Inv, LinksHold, At
  <2>3. \/ blink[y] = x
        \/ \E u \in Threads : op[u].pc = "link_ends" /\ y = Head(op[u].frames)
        BY <2>1 DEF Inv, LinksHold, At
  <2>4. \/ flink'[x] = y
        \/ \E u \in Threads : op'[u].pc = "link_ends" /\ x = Last(op'[u].frames)
    <3>1. CASE x = Last(s)
      <4>1. y = a  BY <1>2, <1>3, <1>4, <2>1, <3>1, AdjacentOnce
      <4> QED  BY <1>2, <1>3, <1>5, <3>1, <4>1
    <3>2. CASE x # Last(s)
      <4>1. flink'[x] = flink[x]  BY <1>2, <1>5, <3>2
      <4> QED  BY <1>1, <1>6, <2>2, <3>2, <4>1
    <3> QED  BY <3>1, <3>2
  <2>5. \/ blink'[y] = x
        \/ \E u \in Threads : op'[u].pc = "link_ends" /\ y = Head(op'[u].frames)
    <3>1. CASE y = Head(s)
      <4>1. x = "head"  BY <1>2, <1>3, <2>1, <3>1, AdjacentOnce
      <4> QED  BY <1>2, <1>3, <1>5, <3>1, <4>1
    <3>2. CASE y # Head(s)
      <4>1. blink'[y] = blink[y]  BY <1>2, <1>5, <3>2
      <4> QED  BY <1>1, <1>6, <2>3, <3>2, <4>1
    <3> QED  BY <3>1, <3>2
  <2> QED  BY <2>4, <2>5
<1> QED  BY <1>7, <1>8, <1>11, <1>12 DEF Inv

\* The list leads to the section: only "head" and the node behind it lose their
\* neighbour, and t has both of them or the whole list.
LEMMA LinkStep ==
    ASSUME Inv, Trimmers = {}, NEW t \in Threads, Link(t)
    PROVE  Inv'
<1>1. PICK s : s = op[t].frames  OBVIOUS
<1>2. PICK o : o = order  OBVIOUS
<1>3. /\ op[t].pc = "link" /\ ThreadInv(t)
      /\ UNCHANGED <<page_lock, shared, exclusive>>
      /\ o \in Seq(Pages) /\ NoRepeats(o)
      /\ flink \in [Nodes -> Nodes \cup {None}] /\ blink \in [Nodes -> Nodes \cup {None}]
      BY <1>2 DEF Link, At, Inv, Types
<1>4. /\ t \in Inserters /\ s \in Seq(Pages) /\ s # <<>> /\ NoRepeats(s) /\ HoldsList(t)
      /\ Len(s) \in Nat /\ Len(s) >= 1
      /\ Head(s) = s[1] /\ Last(s) = s[Len(s)] /\ Head(s) \in Pages /\ Last(s) \in Pages
      /\ \A i \in 1 .. Len(s) : s[i] \in Pages /\ page_lock[s[i]] = t
  <2>1. t \in Inserters
        BY <1>3 DEF ThreadInv, Pcs, BatchPcs, PopPcs, RescuePcs, ListPcs
  <2>2. s # <<>> /\ NoRepeats(s)  BY <1>1, <1>3 DEF ThreadInv, Frames
  <2>3. HoldsList(t)  BY <1>3 DEF ThreadInv, ListHeld, Unlisted
  <2>4. \A i \in 1 .. Len(s) : page_lock[s[i]] = t
        BY <1>1, <1>3 DEF ThreadInv, FramesLocked
  <2> QED  BY <1>1, <2>1, <2>2, <2>3, <2>4, OpTypes DEF Inv
<1>5. /\ \A i \in 1 .. Len(s) : ~ Contains(o, s[i])
      /\ \A i \in 1 .. Len(s) - 1 : flink[s[i]] = s[i + 1] /\ blink[s[i + 1]] = s[i]
      BY <1>1, <1>2, <1>3, <1>4 DEF ThreadInv, InsertsNew, Unlinked
<1>6. op[t].behind = "head" /\ Adjacent(o, "head", op[t].ahead)
      BY <1>2, <1>3, <1>4 DEF ThreadInv, Neighbours, At
<1>7. PICK a \in Nodes : a = op[t].ahead  BY <1>3, <1>6, AdjacentNodes
<1>8. a = "tail" \/ Contains(o, a)  BY <1>3, <1>6, <1>7, AdjacentNodes
<1>9. exclusive = t \/ (page_lock[a] = t /\ page_lock["head"] = t)
      BY <1>3, <1>6, <1>7 DEF ThreadInv, NeighboursLocked, At
<1>10. /\ flink' = [flink EXCEPT !["head"] = Head(s)]
       /\ blink' = [blink EXCEPT ![a] = Last(s)]
       /\ Goto(t, "link_ends")
       BY <1>1, <1>7 DEF Link
<1>11. PICK n : n = s \o o  OBVIOUS
<1>12. order' = n  BY <1>1, <1>2, <1>11 DEF Link
<1>13. n \in Seq(Pages) /\ NoRepeats(n)
  <2>1. n \in Seq(Pages)  BY <1>3, <1>4, <1>11
  <2>2. NoRepeats(s \o o)  BY <1>3, <1>4, <1>5, PutNoRepeats
  <2> QED  BY <1>11, <2>1, <2>2
<1>14. \A p : Contains(n, p) <=> Contains(s, p) \/ Contains(o, p)
       BY <1>3, <1>4, <1>11, PutContains
<1>15. /\ \A x, y : Adjacent(n, x, y) =>
             \/ x = "head" /\ y = Head(s)
             \/ \E i \in 1 .. Len(s) - 1 : x = s[i] /\ y = s[i + 1]
             \/ x = Last(s) /\ Adjacent(o, "head", y)
             \/ x # "head" /\ Adjacent(o, x, y)
       /\ Adjacent(n, "head", Head(s))
       /\ \A i \in 1 .. Len(s) - 1 : Adjacent(n, s[i], s[i + 1])
       /\ \A y : Adjacent(o, "head", y) => Adjacent(n, Last(s), y)
       /\ \A x, y : Adjacent(o, x, y) /\ x # "head" => Adjacent(n, x, y)
  <2>1. /\ \A x, y : Adjacent(s \o o, x, y) =>
              \/ x = "head" /\ y = Head(s)
              \/ \E i \in 1 .. Len(s) - 1 : x = s[i] /\ y = s[i + 1]
              \/ x = Last(s) /\ Adjacent(o, "head", y)
              \/ x # "head" /\ Adjacent(o, x, y)
        /\ Adjacent(s \o o, "head", Head(s))
        /\ \A i \in 1 .. Len(s) - 1 : Adjacent(s \o o, s[i], s[i + 1])
        /\ \A y : Adjacent(o, "head", y) => Adjacent(s \o o, Last(s), y)
        /\ \A x, y : Adjacent(o, x, y) /\ x # "head" => Adjacent(s \o o, x, y)
        BY <1>3, <1>4, PutAdjacent, Zenon
  <2> QED  BY <1>11, <2>1, Zenon
<1>16. /\ \A m \in Nodes \ {"head"} : flink'[m] = flink[m]
       /\ \A m \in Nodes \ {a} : blink'[m] = blink[m]
       /\ flink'["head"] = Head(s) /\ blink'[a] = Last(s)
       /\ flink' \in [Nodes -> Nodes \cup {None}] /\ blink' \in [Nodes -> Nodes \cup {None}]
       BY <1>3, <1>4, <1>10, NoThread
<1>17. /\ op' \in [Threads -> Operation] /\ op'[t].pc = "link_ends"
       /\ op'[t].frames = s /\ op'[t].owned = op[t].owned /\ op'[t].ahead = a
       /\ \A u \in Threads \ {t} : op'[u] = op[u]
       BY <1>1, <1>7, <1>10, GotoFacts DEF Inv, InsertPcs
<1>18. Types'  BY <1>3, <1>12, <1>13, <1>16, <1>17 DEF Inv, Types
<1>19. ListLock' /\ NoRepeats(order)'
  <2>1. ListLock'  BY <1>3 DEF Inv, ListLock
  <2> QED  BY <1>12, <1>13, <2>1
<1>20. ThreadInv(t)'
  <2>1. Pcs(t)' /\ ListHeld(t)' /\ Frames(t)'
    <3>1. Pcs(t)'  BY <1>4, <1>17, NoThread DEF Pcs, InsertPcs
    <3>2. ListHeld(t)'
          BY <1>3, <1>4, <1>17 DEF ListHeld, HoldsList, Unlisted, Sharing
    <3>3. Frames(t)'  BY <1>4, <1>17, NoThread DEF Frames
    <3> QED  BY <3>1, <3>2, <3>3
  <2>2. FramesLocked(t)' /\ OwnedLocked(t)'
        BY <1>1, <1>3, <1>17 DEF ThreadInv, FramesLocked, OwnedLocked
  <2>3. NextLocked(t)' /\ NoOthersLocked(t)'  BY <1>17 DEF NextLocked, NoOthersLocked
  <2>4. NeighboursLocked(t)'
        BY <1>3, <1>9, <1>17 DEF NeighboursLocked, At
  <2>5. Neighbours(t)'
        BY <1>6, <1>7, <1>12, <1>15, <1>17 DEF Neighbours, At
  <2>6. InsertsNew(t)' /\ Walks(t)'  BY <1>17 DEF InsertsNew, Walks, Unlinked, At
  <2>7. InsertsLinked(t)'  BY <1>12, <1>15, <1>17 DEF InsertsLinked, At
  <2>8. PopsEnd(t)' /\ RescuesListed(t)'
        BY <1>4, NoThread DEF PopsEnd, RescuesListed
  <2> QED  BY <2>1, <2>2, <2>3, <2>4, <2>5, <2>6, <2>7, <2>8 DEF ThreadInv
<1>21. ASSUME NEW u \in Threads \ {t}  PROVE  Undisturbed(u)
  <2>1. /\ op'[u] = op[u]
        /\ \A m \in Nodes : page_lock'[m] = u <=> page_lock[m] = u
        /\ u \in shared' <=> u \in shared
        /\ exclusive' = u <=> exclusive = u
        BY <1>3, <1>17
  <2>2. \A p \in Pages : page_lock[p] = u => (Contains(n, p) <=> Contains(o, p))
        BY <1>4, <1>14 DEF Contains
  <2>3. \A p \in Pages : page_lock[p] = u /\ ~ Contains(o, p) =>
            flink'[p] = flink[p] /\ blink'[p] = blink[p]
        BY <1>8, <1>16, NoThread
  <2>4. ASSUME HoldsList(u), NEW x \in Nodes, NEW y \in Nodes, Adjacent(o, x, y),
               page_lock[x] = u \/ page_lock[y] = u \/ exclusive = u
        PROVE  Adjacent(n, x, y)
    <3>1. CASE x = "head"
      <4>1. y = a  BY <1>3, <1>6, <1>7, <2>4, <3>1, AdjacentOnce
      <4>2. exclusive # t /\ exclusive # u  BY <1>4, <2>4, ExclusiveAlone
      <4> QED  BY <1>9, <2>4, <3>1, <4>1, <4>2
    <3>2. CASE x # "head"  BY <1>15, <2>4, <3>2
    <3> QED  BY <3>1, <3>2
  <2>5. ASSUME NEW e \in Seq(Pages), EndsWith(o, e)  PROVE  EndsWith(n, e)
        BY <1>3, <1>4, <1>11, <2>5, PutEndsWith
  <2> QED  BY <1>2, <1>12, <2>1, <2>2, <2>3, <2>4, <2>5 DEF Undisturbed
<1>22. \A u \in Threads : ThreadInv(u)'  BY <1>20, <1>21, OthersKept
<1>23. LinksHold'
  <2>1. SUFFICES ASSUME NEW x \in Nodes, NEW y \in Nodes, Adjacent(n, x, y)
        PROVE  /\ \/ flink'[x] = y
                  \/ \E u \in Threads : op'[u].pc = "link_ends" /\ x = Last(op'[u].frames)
               /\ \/ blink'[y] = x
                  \/ \E u \in Threads : op'[u].pc = "link_ends" /\ y = Head(op'[u].frames)
        BY <1>12 DEF LinksHold, At
  <2>2. CASE x = "head" /\ y = Head(s)  BY <1>16, <1>17, <2>2
  <2>3. ASSUME NEW i \in 1 .. Len(s) - 1, x = s[i], y = s[i + 1]
        PROVE  flink'[x] = y /\ blink'[y] = x
    <3>1. i \in 1 .. Len(s) /\ i + 1 \in 1 .. Len(s)  BY <1>4
    <3>2. x # "head" /\ y # a  BY <1>4, <1>5, <1>8, <2>3, <3>1, NoThread
    <3> QED  BY <1>5, <1>16, <2>1, <2>3, <3>2
  <2>4. CASE x = Last(s) /\ Adjacent(o, "head", y)
    <3>1. y = a  BY <1>3, <1>6, <1>7, <2>4, AdjacentOnce
    <3> QED  BY <1>16, <1>17, <2>4, <3>1
  <2>5. CASE x # "head" /\ Adjacent(o, x, y)
    <3>1. y # a  BY <1>3, <1>6, <1>7, <2>5, AdjacentOnce
    <3>2. flink'[x] = flink[x] /\ blink'[y] = blink[y]  BY <1>16, <2>1, <2>5, <3>1
    <3>3. \A u \in Threads : op[u].pc = "link_ends" => op'[u] = op[u]  BY <1>3, <1>17
    <3>4. /\ \/ flink[x] = y
             \/ \E u \in Threads : op[u].pc = "link_ends" /\ x = Last(op[u].frames)
          /\ \/ blink[y] = x
             \/ \E u \in Threads : op[u].pc = "link_ends" /\ y = Head(op[u].frames)
          BY <1>2, <2>1, <2>5 DEF Inv, LinksHold, At
    <3> QED  BY <3>2, <3>3, <3>4
  <2> QED  BY <1>15, <2>1, <2>2, <2>3, <2>4, <2>5
<1> QED  BY <1>18, <1>19, <1>22, <1>23 DEF Inv

\* What is to be unlinked is a section of the list.
LEMMA SectionOccurs ==
    ASSUME Inv, Trimmers = {}, NEW t \in Threads, t \notin Inserters, At(t, "unlink")
    PROVE  \E k : Occurs(order, Section(t), k)
<1>1. PICK s : s = op[t].frames  OBVIOUS
<1>2. PICK o : o = order  OBVIOUS
<1>3. ThreadInv(t) /\ o \in Seq(Pages) /\ Len(o) \in Nat  BY <1>2 DEF Inv, Types
<1>4. s # <<>> /\ s \in Seq(Pages) /\ Len(s) \in Nat /\ Len(s) >= 1
      BY <1>1, <1>3, OpTypes DEF ThreadInv, Frames, At, Inv
<1>5. CASE t \in Poppers \cup BatchPoppers
  <2>1. Section(t) = s  BY <1>1, <1>4, <1>5, SectionFacts
  <2>2. EndsWith(o, s)  BY <1>1, <1>2, <1>3, <1>5 DEF ThreadInv, PopsEnd, At
  <2>3. PICK k : k = Len(o) - Len(s) + 1  OBVIOUS
  <2>4. k \in 1 .. Len(o) /\ k + Len(s) - 1 <= Len(o)
        BY <1>3, <1>4, <2>2, <2>3 DEF EndsWith
  <2>5. ASSUME NEW i \in 1 .. Len(s)  PROVE  s[i] = o[k + i - 1]
    <3>1. k + i - 1 = Len(o) - Len(s) + i  BY <1>3, <1>4, <2>3
    <3> QED  BY <2>2, <3>1 DEF EndsWith
  <2> QED  BY <1>2, <2>1, <2>4, <2>5 DEF Occurs
<1>6. CASE t \in Rescuers
  <2>1. Section(t) = <<s[1]>>  BY <1>1, <1>4, <1>6, SectionFacts
  <2>2. 1 \in 1 .. Len(s)  BY <1>4
  <2>3. Contains(o, s[1])  BY <1>1, <1>2, <1>3, <1>6, <2>2 DEF ThreadInv, RescuesListed, At
  <2>4. PICK k \in 1 .. Len(o) : o[k] = s[1]  BY <2>3 DEF Contains
  <2>5. k + 1 - 1 = k /\ k <= Len(o)  BY <1>3
  <2>6. PICK c : c = <<s[1]>>  OBVIOUS
  <2>7. Len(c) = 1 /\ c[1] = s[1]  BY <2>6
  <2>8. \A i \in 1 .. Len(c) : i = 1  BY <2>7
  <2>9. Occurs(o, c, k)  BY <2>4, <2>5, <2>7, <2>8 DEF Occurs
  <2> QED  BY <1>2, <2>1, <2>6, <2>9
<1> QED  BY <1>5, <1>6 DEF Threads

\* Within a section each frame is followed by the section's next one.
LEMMA OccursAdjacent ==
    ASSUME NEW o \in Seq(Pages), NoRepeats(o), NEW c \in Seq(Pages), c # <<>>,
           NEW k, Occurs(o, c, k), NEW a, NEW b, Adjacent(o, a, b)
    PROVE  /\ Contains(c, a) => Contains(c, b) \/ a = Last(c)
           /\ Contains(c, b) => Contains(c, a) \/ b = Head(c)
<1>1. /\ Len(o) \in Nat /\ Len(c) \in Nat \ {0} /\ k \in 1 .. Len(o)
      /\ k + Len(c) - 1 <= Len(o)
      /\ Head(c) = c[1] /\ Last(c) = c[Len(c)]
      BY CutNodes
<1>2. PICK j \in 0 .. Len(o) : Node(o, j) = a /\ Node(o, j + 1) = b  BY DEF Adjacent
<1>3. \A i \in 1 .. Len(c) : /\ k + i - 1 \in 1 .. Len(o) /\ k + i - 1 \in 0 .. Len(o) + 1
                             /\ Node(o, k + i - 1) = c[i]
  <2>1. ASSUME NEW i \in 1 .. Len(c)
        PROVE  k + i - 1 \in 1 .. Len(o) /\ k + i - 1 \in 0 .. Len(o) + 1
        BY <1>1
  <2>2. \A i \in 1 .. Len(c) : c[i] = o[k + i - 1]  BY DEF Occurs
  <2> QED  BY <2>1, <2>2, NodeFacts
<1>4. j \in 0 .. Len(o) + 1 /\ j + 1 \in 0 .. Len(o) + 1  BY <1>1
<1>5. ASSUME NEW i \in 1 .. Len(c), c[i] = a, i # Len(c)  PROVE  Contains(c, b)
  <2>1. j = k + i - 1  BY <1>2, <1>3, <1>4, <1>5, NodeOnce
  <2>2. i + 1 \in 1 .. Len(c) /\ j + 1 = k + (i + 1) - 1  BY <1>1, <1>5, <2>1
  <2>3. c[i + 1] = b  BY <1>2, <1>3, <2>2
  <2> QED  BY <2>2, <2>3 DEF Contains
<1>6. ASSUME NEW i \in 1 .. Len(c), c[i] = b, i # 1  PROVE  Contains(c, a)
  <2>1. j + 1 = k + i - 1  BY <1>2, <1>3, <1>4, <1>6, NodeOnce
  <2>2. i - 1 \in 1 .. Len(c) /\ j = k + (i - 1) - 1  BY <1>1, <1>6, <2>1
  <2>3. c[i - 1] = a  BY <1>2, <1>3, <2>2
  <2> QED  BY <2>2, <2>3 DEF Contains
<1> QED  BY <1>1, <1>5, <1>6 DEF Contains

\* The section's neighbours become each other's: t has them or the whole list,
\* and it has the locks of what it unlinks.
LEMMA UnlinkStep ==
    ASSUME Inv, Trimmers = {}, NEW t \in Threads, Unlink(t)
    PROVE  Inv'
<1>1. PICK s : s = op[t].frames  OBVIOUS
<1>2. PICK o : o = order  OBVIOUS
<1>3. PICK c : c = Section(t)  OBVIOUS
<1>4. /\ op[t].pc = "unlink" /\ ThreadInv(t)
      /\ UNCHANGED <<page_lock, shared, exclusive>>
      /\ o \in Seq(Pages) /\ NoRepeats(o)
      /\ flink \in [Nodes -> Nodes \cup {None}] /\ blink \in [Nodes -> Nodes \cup {None}]
      BY <1>2 DEF Unlink, At, Inv, Types
<1>5. /\ t \notin Inserters /\ s \in Seq(Pages) /\ s # <<>> /\ NoRepeats(s) /\ HoldsList(t)
      /\ Len(s) \in Nat /\ Len(s) >= 1 /\ Head(s) = s[1]
  <2>1. t \notin Inserters  BY <1>4 DEF ThreadInv, Pcs, InsertPcs, ListPcs
  <2>2. s # <<>> /\ NoRepeats(s)  BY <1>1, <1>4 DEF ThreadInv, Frames
  <2>3. HoldsList(t)  BY <1>4 DEF ThreadInv, ListHeld, Unlisted
  <2> QED  BY <1>1, <2>1, <2>2, <2>3, OpTypes DEF Inv
<1>6. /\ c \in Seq(Pages) /\ c # <<>> /\ Head(c) = s[1]
      /\ \A m : Contains(c, m) => page_lock[m] = t /\ m \in Pages
      /\ Contains(c, Head(c)) /\ Contains(c, Last(c))
      /\ t \in Rescuers => c = <<s[1]>>
  <2>1. c \in Seq(Pages) => \A m : Contains(c, m) => m \in Pages  BY DEF Contains
  <2> QED  BY <1>1, <1>3, <1>5, <2>1, SectionFacts
<1>7. PICK k : Occurs(o, c, k)  BY <1>2, <1>3, <1>4, <1>5, SectionOccurs DEF At
<1>8. /\ Adjacent(o, op[t].behind, Head(c)) /\ Adjacent(o, Last(c), op[t].ahead)
      BY <1>2, <1>3, <1>4, <1>5 DEF ThreadInv, Neighbours, At
<1>9. op[t].behind \in Nodes /\ op[t].ahead \in Nodes  BY <1>4, <1>8, AdjacentNodes
<1>10. PICK x \in Nodes, y \in Nodes : x = op[t].behind /\ y = op[t].ahead  BY <1>9
<1>11. PICK n : n = Cut(o, c, k)  OBVIOUS
<1>12. n \in Seq(Pages) /\ NoRepeats(n)
  <2>1. Cut(o, c, k) \in Seq(Pages)  BY <1>4, <1>6, <1>7, CutNodes
  <2> QED  BY <1>4, <1>6, <1>7, <1>11, <2>1, CutNoRepeats
<1>13. \A p : Contains(n, p) <=> Contains(o, p) /\ ~ Contains(c, p)
       BY <1>4, <1>6, <1>7, <1>11, CutContains
<1>14. /\ \A a, b : Adjacent(n, a, b) =>
             (a = x /\ b = y) \/ (Adjacent(o, a, b) /\ a # x /\ b # y)
       /\ Adjacent(n, x, y)
       /\ \A a, b : Adjacent(o, a, b) /\ ~ Contains(c, a) /\ ~ Contains(c, b) =>
             Adjacent(n, a, b)
  <2>1. Adjacent(o, x, Head(c)) /\ Adjacent(o, Last(c), y)  BY <1>8, <1>10
  <2>2. /\ \A a, b : Adjacent(Cut(o, c, k), a, b) =>
              (a = x /\ b = y) \/ (Adjacent(o, a, b) /\ a # x /\ b # y)
        /\ Adjacent(Cut(o, c, k), x, y)
        /\ \A a, b : Adjacent(o, a, b) /\ ~ Contains(c, a) /\ ~ Contains(c, b) =>
              Adjacent(Cut(o, c, k), a, b)
        BY <1>4, <1>6, <1>7, <2>1, CutAdjacent, Zenon
  <2> QED  BY <1>11, <2>2, Zenon
<1>15. \A a, b : Adjacent(n, a, b) => ~ Contains(c, a) /\ ~ Contains(c, b)
       BY <1>6, <1>12, <1>13, AdjacentNodes, NoThread
<1>16. order' = n
  <2>1. order' = Without(c)  BY <1>3 DEF Unlink
  <2>2. Without(c) = Cut(order, c, k)  BY <1>2, <1>4, <1>6, <1>7, WithoutSection
  <2> QED  BY <1>2, <1>11, <2>1, <2>2
<1>17. exclusive = t \/ (page_lock[x] = t /\ page_lock[y] = t)
       BY <1>4, <1>10 DEF ThreadInv, NeighboursLocked, At
<1>18. PICK clear : clear = IF t \in BatchPoppers THEN {} ELSE {s[1]}  OBVIOUS
<1>19. \A m \in clear : Contains(c, m)  BY <1>6, <1>18
<1>20. ~ Contains(c, x) /\ ~ Contains(c, y)  BY <1>14, <1>15
<1>21. /\ flink' = [m \in Nodes |-> IF m \in clear THEN None
                                    ELSE [flink EXCEPT ![x] = y][m]]
       /\ blink' = [m \in Nodes |-> IF m \in clear THEN None
                                    ELSE [blink EXCEPT ![y] = x][m]]
       /\ Goto(t, "unlock")
       BY <1>1, <1>5, <1>10, <1>18 DEF Unlink
<1>22. /\ \A m \in Nodes : ~ Contains(c, m) /\ m # x => flink'[m] = flink[m]
       /\ \A m \in Nodes : ~ Contains(c, m) /\ m # y => blink'[m] = blink[m]
       /\ flink'[x] = y /\ blink'[y] = x
       /\ flink' \in [Nodes -> Nodes \cup {None}] /\ blink' \in [Nodes -> Nodes \cup {None}]
  <2>1. \A m \in Nodes : ~ Contains(c, m) => m \notin clear  BY <1>19
  <2>2. \A m \in Nodes : ~ Contains(c, m) /\ m # x => flink'[m] = flink[m]
        BY <1>4, <1>21, <2>1
  <2>3. \A m \in Nodes : ~ Contains(c, m) /\ m # y => blink'[m] = blink[m]
        BY <1>4, <1>21, <2>1
  <2>4. flink'[x] = y /\ blink'[y] = x  BY <1>4, <1>20, <1>21, <2>1
  <2>5. flink' \in [Nodes -> Nodes \cup {None}] /\ blink' \in [Nodes -> Nodes \cup {None}]
        BY <1>4, <1>21
  <2> QED  BY <2>2, <2>3, <2>4, <2>5
<1>23. /\ op' \in [Threads -> Operation] /\ op'[t].pc = "unlock"
       /\ op'[t].frames = s /\ op'[t].owned = op[t].owned
       /\ \A u \in Threads \ {t} : op'[u] = op[u]
       BY <1>1, <1>21, GotoFacts DEF Inv, InsertPcs, ListPcs
<1>24. Types'  BY <1>4, <1>12, <1>16, <1>22, <1>23 DEF Inv, Types
<1>25. ListLock' /\ NoRepeats(order)'
  <2>1. ListLock'  BY <1>4 DEF Inv, ListLock
  <2> QED  BY <1>12, <1>16, <2>1
<1>26. ThreadInv(t)'
  <2>1. Pcs(t)' /\ ListHeld(t)' /\ Frames(t)'
    <3>1. Pcs(t)'
          BY <1>5, <1>23, NoThread DEF Pcs, BatchPcs, PopPcs, RescuePcs, ListPcs
    <3>2. ListHeld(t)'
          BY <1>4, <1>5, <1>23 DEF ListHeld, HoldsList, Unlisted, Sharing
    <3>3. Frames(t)'  BY <1>1, <1>4, <1>5, <1>23 DEF ThreadInv, Frames
    <3> QED  BY <3>1, <3>2, <3>3
  <2>2. FramesLocked(t)' /\ OwnedLocked(t)'
        BY <1>1, <1>4, <1>23 DEF ThreadInv, FramesLocked, OwnedLocked
  <2>3. NextLocked(t)' /\ NoOthersLocked(t)'  BY <1>23 DEF NextLocked, NoOthersLocked
  <2>4. NeighboursLocked(t)' /\ Neighbours(t)'
        BY <1>23 DEF NeighboursLocked, Neighbours, At
  <2>5. InsertsNew(t)' /\ InsertsLinked(t)' /\ Walks(t)'
        BY <1>5, <1>23 DEF InsertsNew, InsertsLinked, Walks, At
  <2>6. PopsEnd(t)'  BY <1>23 DEF PopsEnd
  <2>7. RescuesListed(t)'
    <3>1. SUFFICES ASSUME t \in Rescuers, NEW i \in 2 .. Len(s)  PROVE  Contains(n, s[i])
          BY <1>16, <1>23 DEF RescuesListed, At
    <3>2. i \in 1 .. Len(s) /\ 1 \in 1 .. Len(s) /\ i # 1  BY <1>5, <3>1
    <3>3. Contains(o, s[i])  BY <1>1, <1>2, <1>4, <3>1, <3>2 DEF ThreadInv, RescuesListed
    <3>4. s[i] # s[1]  BY <1>5, <3>2 DEF NoRepeats
    <3>5. \A m : Contains(<<s[1]>>, m) => m = s[1]  BY DEF Contains
    <3> QED  BY <1>6, <1>13, <3>1, <3>3, <3>4, <3>5
  <2> QED  BY <2>1, <2>2, <2>3, <2>4, <2>5, <2>6, <2>7 DEF ThreadInv
<1>27. ASSUME NEW u \in Threads \ {t}  PROVE  Undisturbed(u)
  <2>1. /\ op'[u] = op[u]
        /\ \A m \in Nodes : page_lock'[m] = u <=> page_lock[m] = u
        /\ u \in shared' <=> u \in shared
        /\ exclusive' = u <=> exclusive = u
        BY <1>4, <1>23
  <2>2. \A m : page_lock[m] = u => ~ Contains(c, m)  BY <1>6
  <2>3. \A p \in Pages : page_lock[p] = u => (Contains(n, p) <=> Contains(o, p))
        BY <1>13, <2>2
  <2>4. (x = "head" \/ Contains(o, x)) /\ (y = "tail" \/ Contains(o, y))
        BY <1>4, <1>8, <1>10, AdjacentNodes
  <2>5. \A p \in Pages : page_lock[p] = u /\ ~ Contains(o, p) =>
            flink'[p] = flink[p] /\ blink'[p] = blink[p]
        BY <1>22, <2>2, <2>4, NoThread
  <2>6. ASSUME HoldsList(u), NEW a \in Nodes, NEW b \in Nodes, Adjacent(o, a, b),
               page_lock[a] = u \/ page_lock[b] = u \/ exclusive = u
        PROVE  Adjacent(n, a, b)
    <3>1. exclusive # t /\ exclusive # u  BY <1>5, <2>6, ExclusiveAlone
    <3>2. page_lock[x] = t /\ page_lock[y] = t  BY <1>17, <3>1
    <3>3. Contains(c, a) => Contains(c, b) \/ b = y
      <4>1. Contains(c, a) => Contains(c, b) \/ a = Last(c)
            BY <1>4, <1>6, <1>7, <2>6, OccursAdjacent
      <4> QED  BY <1>4, <1>8, <1>10, <2>6, <4>1, AdjacentOnce
    <3>4. Contains(c, b) => Contains(c, a) \/ a = x
      <4>1. Contains(c, b) => Contains(c, a) \/ b = Head(c)
            BY <1>4, <1>6, <1>7, <2>6, OccursAdjacent
      <4> QED  BY <1>4, <1>8, <1>10, <2>6, <4>1, AdjacentOnce
    <3>5. ~ Contains(c, a) /\ ~ Contains(c, b)
          BY <1>6, <2>6, <3>1, <3>2, <3>3, <3>4
    <3> QED  BY <1>14, <2>6, <3>5
  <2>7. ASSUME NEW e \in Seq(Pages), EndsWith(o, e),
               \A i \in 1 .. Len(e) : page_lock[e[i]] = u
        PROVE  EndsWith(n, e)
    <3>1. \A i \in 1 .. Len(e) : ~ Contains(c, e[i])  BY <2>2, <2>7
    <3> QED  BY <1>4, <1>6, <1>7, <1>11, <2>7, <3>1, CutEndsWith
  <2> QED  BY <1>2, <1>16, <2>1, <2>3, <2>5, <2>6, <2>7 DEF Undisturbed
<1>28. \A u \in Threads : ThreadInv(u)'  BY <1>26, <1>27, OthersKept
<1>29. LinksHold'
  <2>1. SUFFICES ASSUME NEW a \in Nodes, NEW b \in Nodes, Adjacent(n, a, b)
        PROVE  /\ \/ flink'[a] = b
                  \/ \E u \in Threads : op'[u].pc = "link_ends" /\ a = Last(op'[u].frames)
               /\ \/ blink'[b] = a
                  \/ \E u \in Threads : op'[u].pc = "link_ends" /\ b = Head(op'[u].frames)
        BY <1>16 DEF LinksHold, At
  <2>2. CASE a = x /\ b = y  BY <1>22, <2>2
  <2>3. CASE Adjacent(o, a, b) /\ a # x /\ b # y
    <3>1. flink'[a] = flink[a] /\ blink'[b] = blink[b]  BY <1>15, <1>22, <2>1, <2>3
    <3>2. \A u \in Threads : op[u].pc = "link_ends" => op'[u] = op[u]  BY <1>4, <1>23
    <3>3. /\ \/ flink[a] = b
             \/ \E u \in Threads : op[u].pc = "link_ends" /\ a = Last(op[u].frames)
          /\ \/ blink[b] = a
             \/ \E u \in Threads : op[u].pc = "link_ends" /\ b = Head(op[u].frames)
          BY <1>2, <2>1, <2>3 DEF Inv, LinksHold, At
    <3> QED  BY <3>1, <3>2, <3>3
  <2> QED  BY <1>14, <2>1, <2>2, <2>3
<1> QED  BY <1>24, <1>25, <1>28, <1>29 DEF Inv

----------------------------------------------------------------------------
(* The invariant *)

LEMMA InitInv == Init => Inv
<1>1. SUFFICES ASSUME Init  PROVE  Inv
      OBVIOUS
<1>2. PICK o : o = order  OBVIOUS
<1>3. o = <<>> /\ o \in Seq(Pages) /\ Len(o) = 0  BY <1>1, <1>2 DEF Init
<1>4. /\ flink = [n \in Nodes |-> IF n = "head" THEN "tail" ELSE None]
      /\ blink = [n \in Nodes |-> IF n = "tail" THEN "head" ELSE None]
      /\ page_lock = [n \in Nodes |-> None]
      /\ shared = {} /\ exclusive = None
      BY <1>1 DEF Init
<1>5. PICK e : e = Idle  OBVIOUS
<1>6. /\ e \in Operation /\ e.pc = "idle" /\ e.frames = <<>> /\ e.owned = {}
      BY <1>5 DEF Idle, Operation, InsertPcs, ListPcs
<1>7. op \in [Threads -> Operation] /\ \A t \in Threads : op[t] = e
      BY <1>1, <1>5, <1>6 DEF Init
<1>8. Types  BY <1>2, <1>3, <1>4, <1>7, NoThread DEF Types
<1>9. NoRepeats(order) /\ ListLock  BY <1>2, <1>3, <1>4 DEF NoRepeats, ListLock
<1>10. ASSUME NEW t \in Threads  PROVE  ThreadInv(t)
  <2>1. Pcs(t) /\ ListHeld(t)
        BY <1>4, <1>6, <1>7, NoThread
           DEF Pcs, ListHeld, HoldsList, Unlisted, Sharing, InsertPcs, BatchPcs, PopPcs,
               RescuePcs, ListPcs
  <2>2. Frames(t) /\ FramesLocked(t) /\ OwnedLocked(t)
        BY <1>6, <1>7 DEF Frames, NoRepeats, FramesLocked, OwnedLocked
  <2>3. NextLocked(t) /\ NoOthersLocked(t)
        BY <1>4, <1>6, <1>7, NoThread DEF NextLocked, NoOthersLocked
  <2>4. NeighboursLocked(t) /\ Neighbours(t)
        BY <1>6, <1>7 DEF NeighboursLocked, Neighbours, At
  <2>5. InsertsNew(t) /\ InsertsLinked(t) /\ Walks(t)
        BY <1>6, <1>7 DEF InsertsNew, InsertsLinked, Walks, Unlinked, At
  <2>6. PopsEnd(t) /\ RescuesListed(t)
        BY <1>2, <1>3, <1>6, <1>7 DEF PopsEnd, RescuesListed, EndsWith, At
  <2> QED  BY <2>1, <2>2, <2>3, <2>4, <2>5, <2>6 DEF ThreadInv
<1>11. LinksHold
  <2>1. SUFFICES ASSUME NEW a \in Nodes, NEW b \in Nodes, Adjacent(o, a, b)
        PROVE  flink[a] = b /\ blink[b] = a
        BY <1>2 DEF LinksHold
  <2>2. PICK i \in 0 .. Len(o) : Node(o, i) = a /\ Node(o, i + 1) = b
        BY <2>1 DEF Adjacent
  <2>3. i = 0 /\ i + 1 = Len(o) + 1  BY <1>3, <2>2
  <2>4. a = "head" /\ b = "tail"  BY <1>3, <2>2, <2>3, NodeFacts
  <2> QED  BY <1>4, <2>4, NoThread
<1> QED  BY <1>8, <1>9, <1>10, <1>11 DEF Inv

LEMMA StepInv == Trimmers = {} /\ Inv /\ [Next]_vars => Inv'
<1>1. SUFFICES ASSUME Trimmers = {}, Inv, [Next]_vars  PROVE  Inv'
      OBVIOUS
<1>2. CASE UNCHANGED vars
  <2>1. UNCHANGED <<flink, blink, page_lock, shared, exclusive, order, op>>
        BY <1>2 DEF vars
  <2>2. Types' /\ NoRepeats(order)' /\ ListLock'
        BY <1>1, <2>1 DEF Inv, Types, NoRepeats, ListLock
  <2>3. LinksHold'  BY <1>1, <2>1 DEF Inv, LinksHold, At
  <2>4. ASSUME NEW t \in Threads  PROVE  ThreadInv(t)'
    <3>1. Undisturbed(t)  BY <2>1 DEF Undisturbed
    <3> QED  BY <1>1, <3>1, UndisturbedInv DEF Inv
  <2> QED  BY <2>2, <2>3, <2>4 DEF Inv
<1>3. ASSUME NEW t \in Threads, BeginInsert(t)  PROVE  Inv'  BY <1>1, <1>3, BeginInsertStep
<1>4. ASSUME NEW t \in Threads, BeginRescue(t)  PROVE  Inv'  BY <1>1, <1>4, BeginRescueStep
<1>5. ASSUME NEW t \in Threads, FindTail(t)  PROVE  Inv'  BY <1>1, <1>5, FindTailStep
<1>6. ASSUME NEW t \in Threads, LockTail(t)  PROVE  Inv'  BY <1>1, <1>6, LockTailStep
<1>7. ASSUME NEW t \in Threads, CheckTail(t)  PROVE  Inv'  BY <1>1, <1>7, CheckTailStep
<1>8. ASSUME NEW t \in Threads, GrowBatch(t)  PROVE  Inv'  BY <1>1, <1>8, GrowBatchStep
<1>9. ASSUME NEW t \in Threads, LockNext(t)  PROVE  Inv'  BY <1>1, <1>9, LockNextStep
<1>10. ASSUME NEW t \in Threads, CheckNext(t)  PROVE  Inv'  BY <1>1, <1>10, CheckNextStep
<1>11. ASSUME NEW t \in Threads, Share(t)  PROVE  Inv'  BY <1>1, <1>11, ShareStep
<1>12. ASSUME NEW t \in Threads, LockFirst(t)  PROVE  Inv'  BY <1>1, <1>12, LockFirstStep
<1>13. ASSUME NEW t \in Threads, LockSecond(t)  PROVE  Inv'  BY <1>1, <1>13, LockSecondStep
<1>14. ASSUME NEW t \in Threads, Unshare(t)  PROVE  Inv'  BY <1>1, <1>14, UnshareStep
<1>15. ASSUME NEW t \in Threads, Exclude(t)  PROVE  Inv'  BY <1>1, <1>15, ExcludeStep
<1>16. ASSUME NEW t \in Threads, Link(t)  PROVE  Inv'  BY <1>1, <1>16, LinkStep
<1>17. ASSUME NEW t \in Threads, LinkEnds(t)  PROVE  Inv'  BY <1>1, <1>17, LinkEndsStep
<1>18. ASSUME NEW t \in Threads, Unlink(t)  PROVE  Inv'  BY <1>1, <1>18, UnlinkStep
<1>19. ASSUME NEW t \in Threads, Unlock(t)  PROVE  Inv'  BY <1>1, <1>19, UnlockStep
<1>20. ASSUME NEW t \in Threads, WalkRelease(t)  PROVE  Inv'  BY <1>1, <1>20, WalkReleaseStep
<1>21. ASSUME NEW t \in Threads, WalkOn(t)  PROVE  Inv'  BY <1>1, <1>21, WalkOnStep
<1>22. ASSUME NEW t \in Threads, Leave(t)  PROVE  Inv'  BY <1>1, <1>22, LeaveStep
<1> QED  BY <1>1, <1>2, <1>3, <1>4, <1>5, <1>6, <1>7, <1>8, <1>9, <1>10, <1>11, <1>12,
            <1>13, <1>14, <1>15, <1>16, <1>17, <1>18, <1>19, <1>20, <1>21, <1>22
         DEF Next, Step

\* Who holds which locks, what the links are, and what is known to a thread that
\* is about to change them: the invariant behind the theorems that follow.
THEOREM Invariance ==
    ASSUME Trimmers = {}
    PROVE  Spec => []Inv
<1>1. Init => Inv  BY InitInv
<1>2. Inv /\ [Next]_vars => Inv'  BY StepInv
<1> QED  BY <1>1, <1>2, PTL DEF Spec

\* Links, locks and operations keep their types: a thread that takes a link for a
\* node gets one, and "None" is never followed.
THEOREM TypeCorrectness ==
    ASSUME Trimmers = {}
    PROVE  Spec => []TypeOK
<1>1. Inv => TypeOK
  <2>1. SUFFICES ASSUME Inv  PROVE  TypeOK
        OBVIOUS
  <2>2. ASSUME NEW t \in Threads
        PROVE  /\ op[t].frames \in Seq(Pages)
               /\ op[t].ahead \in Nodes \cup {None} /\ op[t].behind \in Nodes \cup {None}
               /\ op[t].owned \subseteq Nodes
    <3>1. op[t] \in Operation  BY <2>1, <2>2 DEF Inv, Types
    <3> QED  BY <3>1 DEF Operation
  <2> QED  BY <2>1, <2>2 DEF Inv, Types, TypeOK
<1> QED  BY <1>1, Invariance, PTL

----------------------------------------------------------------------------
(* What follows for the links *)

LEMMA LinkedNodes ==
    ASSUME order \in Seq(Pages)
    PROVE  /\ Len(Linked) = Len(order) + 2
           /\ \A i \in 0 .. Len(order) + 1 : Linked[i + 1] = Node(order, i)
<1>1. PICK o \in Seq(Nodes) : o = order
  <2>1. order \in [1 .. Len(order) -> Nodes] /\ Len(order) \in Nat  BY NodeFacts, NoThread
  <2> QED  BY <2>1
<1>2. PICK h \in Seq(Nodes), e \in Seq(Nodes) : h = <<"head">> /\ e = <<"tail">>
  <2>1. "head" \in Nodes /\ "tail" \in Nodes  BY NoThread
  <2>2. <<"head">> \in Seq(Nodes) /\ <<"tail">> \in Seq(Nodes)  BY <2>1
  <2> QED  BY <2>2
<1>3. PICK m : m = h \o o  OBVIOUS
<1>4. /\ m \in Seq(Nodes) /\ Len(m) = Len(o) + 1 /\ Len(o) \in Nat
      /\ m[1] = "head" /\ \A i \in 1 .. Len(o) : m[i + 1] = o[i]
      BY <1>2, <1>3
<1>5. PICK l : l = m \o e  OBVIOUS
<1>6. /\ Len(l) = Len(o) + 2 /\ l[Len(o) + 2] = "tail"
      /\ \A i \in 1 .. Len(o) + 1 : l[i] = m[i]
      BY <1>2, <1>4, <1>5
<1>7. Linked = l  BY <1>1, <1>2, <1>3, <1>5 DEF Linked
<1>8. ASSUME NEW i \in 0 .. Len(order) + 1  PROVE  l[i + 1] = Node(order, i)
  <2>1. CASE i = 0  BY <1>1, <1>4, <1>6, <2>1, NodeFacts
  <2>2. CASE i \in 1 .. Len(order)
    <3>1. i + 1 \in 1 .. Len(o) + 1  BY <1>1, <1>4, <2>2
    <3>2. l[i + 1] = o[i]  BY <1>1, <1>4, <1>6, <2>2, <3>1
    <3> QED  BY <1>1, <2>2, <3>2, NodeFacts
  <2>3. CASE i = Len(order) + 1
    <3>1. i + 1 = Len(o) + 2  BY <1>1, <1>4, <2>3
    <3> QED  BY <1>6, <2>3, <3>1, NodeFacts
  <2> QED  BY <1>1, <1>4, <2>1, <2>2, <2>3
<1> QED  BY <1>1, <1>6, <1>7, <1>8

\* pagelists.c 319-400, 470-610: threads that share the list lock and have the page
\* locks of the nodes they write leave the links in both directions as one list,
\* however their steps interleave.
THEOREM LinksStayMatched ==
    ASSUME Trimmers = {}
    PROVE  Spec => []LinksMatch
<1>1. Inv => LinksMatch
  <2>1. SUFFICES ASSUME Inv, \A t \in Threads : ~ At(t, "link_ends"),
                        NEW i \in 1 .. Len(Linked) - 1
        PROVE  flink[Linked[i]] = Linked[i + 1] /\ blink[Linked[i + 1]] = Linked[i]
        BY DEF LinksMatch
  <2>2. PICK o : o = order  OBVIOUS
  <2>3. o \in Seq(Pages) /\ Len(o) \in Nat  BY <2>1, <2>2 DEF Inv, Types
  <2>4. /\ Len(Linked) = Len(o) + 2
        /\ \A j \in 0 .. Len(o) + 1 : Linked[j + 1] = Node(o, j)
        BY <2>2, <2>3, LinkedNodes
  <2>5. PICK j \in 0 .. Len(o) : i = j + 1
    <3>1. i - 1 \in 0 .. Len(o) /\ i = (i - 1) + 1  BY <2>1, <2>3, <2>4
    <3> QED  BY <3>1
  <2>6. /\ j \in 0 .. Len(o) + 1 /\ j + 1 \in 0 .. Len(o) + 1
        BY <2>3, <2>5
  <2>7. Linked[i] = Node(o, j) /\ Linked[i + 1] = Node(o, j + 1)  BY <2>4, <2>5, <2>6
  <2>8. /\ Adjacent(o, Node(o, j), Node(o, j + 1))
        /\ Node(o, j) \in Nodes /\ Node(o, j + 1) \in Nodes
        BY <2>3, <2>5, AdjacentAt
  <2> QED  BY <2>1, <2>2, <2>7, <2>8 DEF Inv, LinksHold
<1> QED  BY <1>1, Invariance, PTL

\* pagelists.c 429-431, 570-572: what a removal is about to join are the nodes its
\* frames are between, also if it has read them under the shared list lock.
THEOREM RemovalsBetweenNeighbours ==
    ASSUME Trimmers = {}
    PROVE  Spec => []RemovesBetweenNeighbours
<1>1. Inv => RemovesBetweenNeighbours
  <2>1. SUFFICES ASSUME Inv, NEW t \in Threads, At(t, "unlink")
        PROVE  \E i \in 1 .. Len(order) :
                  /\ SubSeq(order, i, i + Len(Section(t)) - 1) = Section(t)
                  /\ op[t].behind = Linked[i]
                  /\ op[t].ahead = Linked[i + 1 + Len(Section(t))]
        BY DEF RemovesBetweenNeighbours
  <2>2. PICK o : o = order  OBVIOUS
  <2>3. PICK c : c = Section(t)  OBVIOUS
  <2>4. o \in Seq(Pages) /\ NoRepeats(o) /\ ThreadInv(t)  BY <2>1, <2>2 DEF Inv, Types
  <2>5. t \notin Inserters  BY <2>1, <2>4 DEF ThreadInv, Pcs, InsertPcs, ListPcs, At
  <2>6. op[t].frames # <<>>  BY <2>1, <2>4 DEF ThreadInv, Frames, At
  <2>7. c \in Seq(Pages) /\ c # <<>>  BY <2>1, <2>3, <2>5, <2>6, SectionFacts
  <2>8. PICK k : Occurs(o, c, k)  BY <2>1, <2>2, <2>3, <2>5, SectionOccurs
  <2>9. /\ Adjacent(o, op[t].behind, Head(c)) /\ Adjacent(o, Last(c), op[t].ahead)
        BY <2>1, <2>2, <2>3, <2>4, <2>5 DEF ThreadInv, Neighbours
  <2>10. /\ Len(o) \in Nat /\ Len(c) \in Nat \ {0} /\ k \in 1 .. Len(o)
         /\ k + Len(c) - 1 <= Len(o)
         /\ Head(c) = c[1] /\ Last(c) = c[Len(c)]
         BY <2>4, <2>7, <2>8, CutNodes
  <2>11. SubSeq(o, k, k + Len(c) - 1) = c
    <3>1. PICK d : d = SubSeq(o, k, k + Len(c) - 1)  OBVIOUS
    <3>2. /\ d \in Seq(Pages) /\ Len(d) = Len(c)
          /\ \A i \in 1 .. Len(c) : d[i] = o[k + i - 1]
          BY <2>4, <2>10, <3>1
    <3>3. \A i \in 1 .. Len(c) : d[i] = c[i]  BY <2>8, <3>2 DEF Occurs
    <3>4. d = c  BY <2>7, <3>2, <3>3
    <3> QED  BY <3>1, <3>4
  <2>12. Node(o, k) = Head(c) /\ Node(o, k + Len(c) - 1) = Last(c)
    <3>1. c[1] = o[k] /\ c[Len(c)] = o[k + Len(c) - 1]
      <4>1. 1 \in 1 .. Len(c) /\ Len(c) \in 1 .. Len(c) /\ k + 1 - 1 = k  BY <2>10
      <4> QED  BY <2>8, <4>1 DEF Occurs
    <3>2. k + Len(c) - 1 \in 1 .. Len(o)  BY <2>10
    <3> QED  BY <2>4, <2>10, <3>1, <3>2, NodeFacts
  <2>13. op[t].behind = Node(o, k - 1)
    <3>1. k - 1 \in 0 .. Len(o) /\ (k - 1) + 1 = k  BY <2>10
    <3>2. Adjacent(o, Node(o, k - 1), Head(c))  BY <2>4, <2>12, <3>1, AdjacentAt
    <3> QED  BY <2>4, <2>9, <3>2, AdjacentOnce
  <2>14. op[t].ahead = Node(o, k + Len(c))
    <3>1. k + Len(c) - 1 \in 0 .. Len(o) /\ (k + Len(c) - 1) + 1 = k + Len(c)  BY <2>10
    <3>2. Adjacent(o, Last(c), Node(o, k + Len(c)))  BY <2>4, <2>12, <3>1, AdjacentAt
    <3> QED  BY <2>4, <2>9, <3>2, AdjacentOnce
  <2>15. \A j \in 0 .. Len(o) + 1 : Linked[j + 1] = Node(o, j)  BY <2>2, <2>4, LinkedNodes
  <2>16. /\ k - 1 \in 0 .. Len(o) + 1 /\ (k - 1) + 1 = k
         /\ k + Len(c) \in 0 .. Len(o) + 1 /\ (k + Len(c)) + 1 = k + 1 + Len(c)
         BY <2>10
  <2>17. Linked[k] = Node(o, k - 1) /\ Linked[k + 1 + Len(c)] = Node(o, k + Len(c))
         BY <2>15, <2>16
  <2> QED  BY <2>2, <2>3, <2>10, <2>11, <2>13, <2>14, <2>17
<1> QED  BY <1>1, Invariance, PTL

\* pagelists.c 500-513: a frame's flink is followed after its lock is given up; until
\* the list lock is too, the section stays as it was linked and still locked ahead.
THEOREM WalksKeepToSection ==
    ASSUME Trimmers = {}
    PROVE  Spec => []WalkKeepsToSection
<1>1. Inv => WalkKeepsToSection
  <2>1. SUFFICES ASSUME Inv, NEW t \in Threads, At(t, "walk")
        PROVE  Contains(op[t].frames, op[t].behind) /\ page_lock[op[t].behind] = t
        BY DEF WalkKeepsToSection
  <2> QED  BY <2>1 DEF Inv, ThreadInv, Walks, Contains
<1> QED  BY <1>1, Invariance, PTL

----------------------------------------------------------------------------
(* What follows for the locks taken without the list lock *)

LEMMA EndsWithSuffix ==
    ASSUME NEW o \in Seq(Pages), NEW s \in Seq(Pages), NoRepeats(o), NoRepeats(s),
           EndsWith(o, s)
    PROVE  IsSuffix(s, o)
<1>1. PICK r : r = Reverse(s)  OBVIOUS
<1>2. PICK q : q = Reverse(o)  OBVIOUS
<1>3. /\ r \in Seq(Pages) /\ Len(r) = Len(s) /\ Len(s) \in Nat
      /\ \A i \in 1 .. Len(s) : r[i] = s[Len(s) - i + 1]
      BY <1>1, ReverseFacts
<1>4. /\ q \in Seq(Pages) /\ Len(q) = Len(o) /\ Len(o) \in Nat
      /\ \A i \in 1 .. Len(o) : q[i] = o[Len(o) - i + 1]
      BY <1>2, ReverseFacts
<1>5. Len(s) <= Len(o)  BY DEF EndsWith
<1>6. ASSUME NEW i \in 1 .. Len(s)  PROVE  r[i] = q[i]
  <2>1. /\ Len(s) - i + 1 \in 1 .. Len(s) /\ i \in 1 .. Len(o)
        /\ Len(o) - Len(s) + (Len(s) - i + 1) = Len(o) - i + 1
        BY <1>3, <1>4, <1>5
  <2>2. s[Len(s) - i + 1] = o[Len(o) - i + 1]  BY <2>1 DEF EndsWith
  <2> QED  BY <1>3, <1>4, <2>1, <2>2
<1>7. PICK a, b : a = SubSeq(r, 1, Len(r)) /\ b = SubSeq(q, 1, Len(r))  OBVIOUS
<1>8. /\ a \in Seq(Pages) /\ Len(a) = Len(s) /\ \A i \in 1 .. Len(s) : a[i] = r[i]
      BY <1>3, <1>7
<1>9. /\ b \in Seq(Pages) /\ Len(b) = Len(s) /\ \A i \in 1 .. Len(s) : b[i] = q[i]
      BY <1>3, <1>4, <1>5, <1>7
<1>10. a = b  BY <1>6, <1>8, <1>9
<1> QED  BY <1>1, <1>2, <1>3, <1>4, <1>5, <1>7, <1>10 DEF IsSuffix, IsPrefix

\* pagelist_operations.c 581-691: the frames a pop has locked one by one, without the
\* list lock, are the oldest of the list, and stay so until it unlinks them.
THEOREM PopsTakeOldest ==
    ASSUME Trimmers = {}
    PROVE  Spec => []PopsOldest
<1>1. Inv => PopsOldest
  <2>1. SUFFICES ASSUME Inv, NEW t \in Poppers \cup BatchPoppers,
                        ~ At(t, "unlock") /\ ~ At(t, "leave")
        PROVE  IsSuffix(op[t].frames, order)
        BY DEF PopsOldest
  <2>2. t \in Threads /\ order \in Seq(Pages) /\ NoRepeats(order)
        BY <2>1 DEF Threads, Inv, Types
  <2>3. ThreadInv(t) /\ op[t].frames \in Seq(Pages)  BY <2>1, <2>2, OpTypes DEF Inv
  <2>4. EndsWith(order, op[t].frames)  BY <2>1, <2>3 DEF ThreadInv, PopsEnd, At
  <2>5. NoRepeats(op[t].frames)  BY <2>3 DEF ThreadInv, Frames
  <2> QED  BY <2>2, <2>3, <2>4, <2>5, EndsWithSuffix
<1> QED  BY <1>1, Invariance, PTL

\* pagelist_operations.c 645-691: if everyone who inserts locks what is inserted, a
\* walk towards the head, by links read without the list lock, only comes to frames.
THEOREM WalksStayOnFrames ==
    ASSUME Trimmers = {}
    PROVE  Spec => []WalksOntoFrames
<1>1. Inv => WalksOntoFrames
  <2>1. SUFFICES ASSUME Inv, NEW t \in Threads, At(t, "lock_next")
        PROVE  op[t].behind \in Pages
        BY DEF WalksOntoFrames
  <2> QED  BY <2>1 DEF Inv, ThreadInv, NextLocked, At
<1> QED  BY <1>1, Invariance, PTL

\* Two sections that both reach to the list's end share its last frame.
LEMMA EndsShareLast ==
    ASSUME NEW o \in Seq(Pages), NEW s \in Seq(Pages), NEW c \in Seq(Pages),
           s # <<>>, c # <<>>, EndsWith(o, s), EndsWith(o, c)
    PROVE  \E p : Contains(s, p) /\ Contains(c, p)
<1>1. /\ Len(o) \in Nat /\ Len(s) \in Nat /\ Len(c) \in Nat
      /\ Len(s) \in 1 .. Len(s) /\ Len(c) \in 1 .. Len(c)
      OBVIOUS
<1>2. Len(o) - Len(s) + Len(s) = Len(o) /\ Len(o) - Len(c) + Len(c) = Len(o)  BY <1>1
<1>3. s[Len(s)] = o[Len(o)] /\ c[Len(c)] = o[Len(o)]  BY <1>1, <1>2 DEF EndsWith
<1> QED  BY <1>1, <1>3 DEF Contains

\* A thread that waits for the next frame of a batch pop waits for one that some
\* other thread has locked and will give up: it is not locked by a second batch pop
\* (which would have the tail too), nor by the thread itself.
LEMMA NextNotWaited ==
    ASSUME Inv, Trimmers = {}, NEW t \in Threads, At(t, "lock_next"),
           page_lock[op[t].behind] # None, blink[Head(op[t].frames)] = op[t].behind
    PROVE  \E u \in Threads : op[u].pc \notin {"idle", "lock_tail", "lock_next"}
<1>1. SUFFICES ASSUME \A u \in Threads : op[u].pc \in {"idle", "lock_tail", "lock_next"}
      PROVE  FALSE
      OBVIOUS
<1>2. PICK s : s = op[t].frames  OBVIOUS
<1>3. PICK o : o = order  OBVIOUS
<1>4. PICK p : p = op[t].behind  OBVIOUS
<1>5. /\ o \in Seq(Pages) /\ Len(o) \in Nat /\ NoRepeats(o) /\ ThreadInv(t)
      /\ page_lock \in [Nodes -> Threads \cup {None}]
      BY <1>3 DEF Inv, Types
<1>6. p \in Pages /\ p \in Nodes  BY <1>4, <1>5, NoThread DEF ThreadInv, NextLocked, At
<1>7. PICK u \in Threads : page_lock[p] = u  BY <1>4, <1>5, <1>6
<1>8. ASSUME NEW v \in Threads, At(v, "lock_next")
      PROVE  /\ op[v].frames # <<>> /\ EndsWith(o, op[v].frames)
             /\ op[v].frames \in Seq(Pages)
             /\ \A n : Contains(op[v].frames, n) => page_lock[n] = v
  <2>1. ThreadInv(v)  BY <1>8 DEF Inv
  <2>2. op[v].frames # <<>> /\ op[v].frames \in Seq(Pages)
        BY <1>8, <2>1, OpTypes DEF Inv, ThreadInv, Frames, At
  <2>3. v \in BatchPoppers
        BY <1>8, <2>1 DEF ThreadInv, Pcs, InsertPcs, PopPcs, RescuePcs, ListPcs, At, Threads
  <2>4. EndsWith(o, op[v].frames)  BY <1>3, <1>8, <2>1, <2>3 DEF ThreadInv, PopsEnd, At
  <2>5. \A n : Contains(op[v].frames, n) => page_lock[n] = v
        BY <1>8, <2>1 DEF ThreadInv, FramesLocked, Contains, At
  <2> QED  BY <2>2, <2>4, <2>5
<1>9. Contains(op[u].frames, p)
  <2>1. ThreadInv(u) /\ op[u].pc \in {"idle", "lock_tail", "lock_next"}  BY <1>1 DEF Inv
  <2> QED  BY <1>6, <1>7, <2>1 DEF ThreadInv, NoOthersLocked
<1>10. At(u, "lock_next")
  <2>1. ThreadInv(u) /\ op[u].pc \in {"idle", "lock_tail", "lock_next"}  BY <1>1 DEF Inv
  <2>2. op[u].frames # <<>>  BY <1>9 DEF Contains
  <2> QED  BY <2>1, <2>2 DEF ThreadInv, Frames, At
<1>11. u = t
  <2>1. \E q : Contains(op[t].frames, q) /\ Contains(op[u].frames, q)
        BY <1>5, <1>8, <1>10, EndsShareLast
  <2> QED  BY <1>8, <1>10, <2>1
<1>12. /\ s \in Seq(Pages) /\ s # <<>> /\ EndsWith(o, s) /\ Contains(s, p)
       /\ Len(s) \in Nat /\ Len(s) >= 1 /\ Head(s) = s[1] /\ page_lock[Head(s)] = t
       /\ Contains(o, Head(s))
  <2>1. s \in Seq(Pages) /\ s # <<>> /\ EndsWith(o, s) /\ Contains(s, p)
        BY <1>2, <1>8, <1>9, <1>11
  <2>2. Len(s) \in Nat /\ Len(s) >= 1 /\ Head(s) = s[1]  BY <2>1
  <2>3. Contains(s, Head(s))  BY <2>2 DEF Contains
  <2> QED  BY <1>2, <1>5, <1>8, <2>1, <2>2, <2>3, EndsContains
<1>13. Adjacent(o, p, Head(s))
  <2>1. ~ At(t, "link_ends")  BY DEF At
  <2>2. Adjacent(order, blink[Head(s)], Head(s))  BY <1>3, <1>12, <2>1, LinksRight
  <2> QED  BY <1>2, <1>3, <1>4, <2>2
<1>14. PICK j \in 1 .. Len(s) : s[j] = p  BY <1>12 DEF Contains
<1>15. PICK i \in 0 .. Len(o) : Node(o, i) = p /\ Node(o, i + 1) = Head(s)
       BY <1>13 DEF Adjacent
<1>16. PICK k : k = Len(o) - Len(s)  OBVIOUS
<1>17. k \in Nat /\ k + Len(s) = Len(o)  BY <1>5, <1>12, <1>16 DEF EndsWith
<1>18. \A l \in 1 .. Len(s) : s[l] = o[k + l] /\ k + l \in 1 .. Len(o)
  <2>1. \A l \in 1 .. Len(s) : s[l] = o[k + l]  BY <1>12, <1>16 DEF EndsWith
  <2>2. \A l \in 1 .. Len(s) : k + l \in 1 .. Len(o)  BY <1>12, <1>17
  <2> QED  BY <2>1, <2>2
<1>19. Node(o, k + j) = p /\ k + j \in 0 .. Len(o) + 1
  <2>1. k + j \in 1 .. Len(o)  BY <1>14, <1>18
  <2> QED  BY <1>5, <1>14, <1>18, <2>1, NodeFacts
<1>20. Node(o, k + 1) = Head(s) /\ k + 1 \in 0 .. Len(o) + 1
  <2>1. 1 \in 1 .. Len(s)  BY <1>12
  <2>2. k + 1 \in 1 .. Len(o)  BY <1>18, <2>1
  <2> QED  BY <1>5, <1>12, <1>18, <2>1, <2>2, NodeFacts
<1>21. i = k + j /\ i + 1 = k + 1
  <2>1. i \in 0 .. Len(o) + 1 /\ i + 1 \in 0 .. Len(o) + 1  BY <1>5, <1>15
  <2> QED  BY <1>5, <1>15, <1>19, <1>20, <2>1, NodeOnce
<1> QED  BY <1>14, <1>17, <1>21

\* pagelists.c 319-395, 409-455: not all threads are ever waiting for one another,
\* though they lock pages in no common order: who waits for the list lock holds
\* only its own frames, and among those who wait for page locks without the list
\* lock one has the tail frame and what it waits for.
THEOREM NobodyWaitsInCircles ==
    ASSUME Trimmers = {}
    PROVE  Spec => []NoCircularWait
<1>1. Inv => NoCircularWait
  <2>1. SUFFICES ASSUME Inv, NEW t \in Threads, ~ At(t, "idle"),
                        \A u \in Threads : ~ GetsOn(u)
        PROVE  FALSE
        BY DEF NoCircularWait
  <2>2. \A u \in Threads : op[u].pc \in {"idle", "share", "exclude", "lock_tail", "lock_next"}
        BY <2>1 DEF GetsOn
  <2>3. \A u \in Threads : ~ HoldsList(u)
        BY <2>1, <2>2 DEF Inv, ThreadInv, ListHeld, Unlisted
  <2>4. shared = {} /\ exclusive = None
        BY <2>1, <2>3 DEF Inv, Types, HoldsList
  <2>5. \A u \in Threads : op[u].pc \in {"idle", "lock_tail", "lock_next"}
        BY <2>1, <2>2, <2>4 DEF GetsOn, At
  <2>6. \A u \in Threads : ~ At(u, "lock_next")
    <3>1. SUFFICES ASSUME NEW u \in Threads, At(u, "lock_next")  PROVE  FALSE
          OBVIOUS
    <3>2. /\ page_lock[op[u].behind] # None
          /\ blink[Head(op[u].frames)] = op[u].behind
          BY <2>1, <3>1 DEF GetsOn
    <3> QED  BY <2>1, <2>5, <3>1, <3>2, NextNotWaited
  <2>7. At(t, "lock_tail")  BY <2>1, <2>5, <2>6 DEF At
  <2>8. page_lock[op[t].behind] # None  BY <2>1, <2>7 DEF GetsOn
  <2>9. op[t].behind \in Nodes
        BY <2>1, <2>7, NoThread DEF Inv, ThreadInv, NextLocked, At
  <2>10. PICK u \in Threads : page_lock[op[t].behind] = u
         BY <2>1, <2>8, <2>9 DEF Inv, Types
  <2>11. ThreadInv(u) /\ op[u].pc \in {"idle", "lock_tail"}
         BY <2>1, <2>5, <2>6 DEF Inv, At
  <2>12. Contains(op[u].frames, op[t].behind)
         BY <2>9, <2>10, <2>11 DEF ThreadInv, NoOthersLocked
  <2>13. op[u].frames = <<>>  BY <2>11 DEF ThreadInv, Frames
  <2> QED  BY <2>12, <2>13 DEF Contains
<1> QED  BY <1>1, Invariance, PTL

=============================================================================
