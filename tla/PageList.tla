------------------------------ MODULE PageList ------------------------------
(***************************************************************************)
(* One page list (pagelists.c) and its locks.  A thread that changes links *)
(* holds the list lock shared and the page locks of the nodes it writes,   *)
(* or, if one of those was taken, the list lock exclusively.  Frames are   *)
(* found at the tail without the list lock.  What an operation is given:   *)
(*   insert   insert_page_section: the frames are locked and are unlocked  *)
(*            one after the other once they are linked (refresher, writer) *)
(*   trim     insert_page_section_no_release: the frames are not locked    *)
(*   pop      allocate_batch_*_frames: the tail frame, unlink_page         *)
(*   batch    standby_pop_batch: frames from the tail on, as one section   *)
(*   rescue   unlink_batch_scattered_pages: any frames, already locked     *)
(* unlink_page is the same as unlinking a scattered batch of one frame.    *)
(* The modified writer's pop is not one of these: once it has locked the   *)
(* frame it found at the tail it looks at its status, not at the tail      *)
(* again (trim.c 803-828).  VirtualMemory has what that leads to.          *)
(***************************************************************************)
EXTENDS Integers, Sequences, SequencesExt

CONSTANTS Pages,
          Inserters, Trimmers, Poppers, BatchPoppers, Rescuers,
          MaxBatch, \* frames one operation works on
          None

Threads == Inserters \cup Trimmers \cup Poppers \cup BatchPoppers \cup Rescuers
Nodes == Pages \cup {"head", "tail"}

ASSUME ListAssumption ==
    /\ MaxBatch \in Nat \ {0}
    /\ None \notin Nodes \cup Threads
    /\ {"head", "tail"} \cap Pages = {}
    /\ Inserters \cap (Trimmers \cup Poppers \cup BatchPoppers \cup Rescuers) = {}
    /\ Trimmers \cap (Poppers \cup BatchPoppers \cup Rescuers) = {}
    /\ Poppers \cap (BatchPoppers \cup Rescuers) = {}
    /\ BatchPoppers \cap Rescuers = {}

VARIABLES
    flink, blink,
    page_lock,  \* holder of each node's page lock
    shared,     \* threads that hold the list lock shared
    exclusive,  \* the thread that holds it exclusively
    order,      \* history: the frames linked, from head to tail
    op          \* the operation of each thread

vars == <<flink, blink, page_lock, shared, exclusive, order, op>>

Idle == [pc |-> "idle", frames |-> <<>>, ahead |-> None, behind |-> None,
         owned |-> {}]

\* Frames no list and no operation has.
Loose == {p \in Pages : /\ page_lock[p] = None
                        /\ ~ Contains(order, p)
                        /\ \A t \in Threads : ~ Contains(op[t].frames, p)}

Init ==
    /\ flink = [n \in Nodes |-> IF n = "head" THEN "tail" ELSE None]
    /\ blink = [n \in Nodes |-> IF n = "tail" THEN "head" ELSE None]
    /\ page_lock = [n \in Nodes |-> None]
    /\ shared = {} /\ exclusive = None
    /\ order = <<>>
    /\ op = [t \in Threads |-> Idle]

At(t, pc) == op[t].pc = pc
Goto(t, pc) == op' = [op EXCEPT ![t].pc = pc]
Unlocked(S) == [n \in Nodes |-> IF n \in S THEN None ELSE page_lock[n]]
Batches(S) == {s \in UNION {[1 .. n -> S] : n \in 1 .. MaxBatch} :
                  IsInjective(s)}

----------------------------------------------------------------------------
(* The frames of an operation *)

\* create_chain_of_pages links the frames to each other; the ends keep
\* whatever they have.
Chained(link, s) ==
    [n \in Nodes |-> IF \E i \in 1 .. Len(s) - 1 : s[i] = n
                     THEN s[1 + CHOOSE i \in 1 .. Len(s) - 1 : s[i] = n]
                     ELSE link[n]]

BeginInsert(t) ==
    /\ t \in Inserters \cup Trimmers
    /\ At(t, "idle")
    /\ \E s \in Batches(Loose) :
          /\ op' = [op EXCEPT ![t] = [Idle EXCEPT !.pc = "share", !.frames = s]]
          /\ flink' = Chained(flink, s)
          /\ blink' = Chained(blink, Reverse(s))
          /\ page_lock' = [n \in Nodes |->
                             IF t \in Inserters /\ Contains(s, n) THEN t
                             ELSE page_lock[n]]
    /\ UNCHANGED <<shared, exclusive, order>>

\* The frames of a batch to rescue are found through their PTEs.
BeginRescue(t) ==
    /\ t \in Rescuers
    /\ At(t, "idle")
    /\ \E s \in Batches({p \in ToSet(order) : page_lock[p] = None}) :
          /\ op' = [op EXCEPT ![t] = [Idle EXCEPT !.pc = "share", !.frames = s]]
          /\ page_lock' = [n \in Nodes |-> IF Contains(s, n) THEN t
                                           ELSE page_lock[n]]
    /\ UNCHANGED <<flink, blink, shared, exclusive, order>>

\* acquire_list_tail_pagelock: look at the tail, lock what is there, look again.
LookAtTail(t) ==
    op' = [op EXCEPT ![t] =
             IF blink["tail"] = "head" THEN Idle
             ELSE [Idle EXCEPT !.pc = "lock_tail", !.behind = blink["tail"]]]

FindTail(t) ==
    /\ t \in Poppers \cup BatchPoppers
    /\ At(t, "idle")
    /\ blink["tail"] # "head"
    /\ LookAtTail(t)
    /\ UNCHANGED <<flink, blink, page_lock, shared, exclusive, order>>

\* When the lock is taken a batch pop spins, and so does a single pop that has
\* failed often enough; otherwise a single pop tries another list.
LockTail(t) ==
    LET p == op[t].behind
    IN  /\ At(t, "lock_tail")
        /\ \/ /\ page_lock[p] = None
              /\ page_lock' = [page_lock EXCEPT ![p] = t]
              /\ Goto(t, "check_tail")
           \/ /\ page_lock[p] # None
              /\ \/ LookAtTail(t)
                 \/ /\ t \in Poppers
                    /\ op' = [op EXCEPT ![t] = Idle]
              /\ UNCHANGED page_lock
        /\ UNCHANGED <<flink, blink, shared, exclusive, order>>

\* Mutant: the tail is not looked at again.
TrustTail(t) ==
    /\ At(t, "check_tail")
    /\ op' = [op EXCEPT ![t].pc = IF t \in Poppers THEN "share" ELSE "grow",
                        ![t].frames = <<op[t].behind>>]
    /\ UNCHANGED <<flink, blink, page_lock, shared, exclusive, order>>

CheckTail(t) ==
    LET p == op[t].behind
    IN  /\ At(t, "check_tail")
        /\ IF blink["tail"] = p
           THEN /\ op' = [op EXCEPT
                            ![t].pc = IF t \in Poppers THEN "share" ELSE "grow",
                            ![t].frames = <<p>>]
                /\ UNCHANGED page_lock
           ELSE /\ page_lock' = Unlocked({p})
                /\ LookAtTail(t)
        /\ UNCHANGED <<flink, blink, shared, exclusive, order>>

\* acquire_batch_list_tail_pagelocks: walk towards the head.  The first frame
\* of the section is the one nearest to the head.
\* Mutant: the walk does not see that it has reached the list's head.
GrowPastHead(t) ==
    LET s == op[t].frames
    IN  /\ At(t, "grow")
        /\ op' = IF Len(s) < MaxBatch
                 THEN [op EXCEPT ![t].pc = "lock_next",
                                 ![t].behind = blink[Head(s)]]
                 ELSE [op EXCEPT ![t].pc = "share"]
        /\ UNCHANGED <<flink, blink, page_lock, shared, exclusive, order>>

GrowBatch(t) ==
    LET s == op[t].frames
    IN  /\ At(t, "grow")
        /\ op' = IF Len(s) < MaxBatch /\ blink[Head(s)] # "head"
                 THEN [op EXCEPT ![t].pc = "lock_next",
                                 ![t].behind = blink[Head(s)]]
                 ELSE [op EXCEPT ![t].pc = "share"]
        /\ UNCHANGED <<flink, blink, page_lock, shared, exclusive, order>>

LockNext(t) ==
    LET p == op[t].behind
    IN  /\ At(t, "lock_next")
        /\ IF page_lock[p] = None
           THEN /\ page_lock' = [page_lock EXCEPT ![p] = t]
                /\ Goto(t, "check_next")
           ELSE /\ Goto(t, "grow")
                /\ UNCHANGED page_lock
        /\ UNCHANGED <<flink, blink, shared, exclusive, order>>

CheckNext(t) ==
    LET p == op[t].behind
        s == op[t].frames
    IN  /\ At(t, "check_next")
        /\ IF blink[Head(s)] = p
           THEN /\ op' = [op EXCEPT ![t].pc = "grow", ![t].frames = <<p>> \o s]
                /\ UNCHANGED page_lock
           ELSE /\ page_lock' = Unlocked({p})
                /\ Goto(t, "grow")
        /\ UNCHANGED <<flink, blink, shared, exclusive, order>>

----------------------------------------------------------------------------
(* The list lock and the locks of the neighbours *)

Inserting(t) == t \in Inserters \cup Trimmers

\* The section a removal unlinks in one go: the whole batch of a batch pop, the
\* next frame of a scattered batch.
Section(t) == IF t \in BatchPoppers THEN op[t].frames ELSE <<Head(op[t].frames)>>

\* What an insertion goes between, and what a removal joins.
AheadOf(t) == IF Inserting(t) THEN flink["head"] ELSE flink[Last(Section(t))]
BehindOf(t) == IF Inserting(t) THEN "head" ELSE blink[Head(Section(t))]

Share(t) ==
    /\ At(t, "share")
    /\ exclusive = None
    /\ shared' = shared \cup {t}
    /\ Goto(t, "first")
    /\ UNCHANGED <<flink, blink, page_lock, exclusive, order>>

\* A scattered batch holds the locks of the frames it has yet to unlink.
Available(t, n) ==
    \/ page_lock[n] = None
    \/ t \in Rescuers /\ Contains(Tail(op[t].frames), n)
Take(t, n) == page_lock' = [page_lock EXCEPT ![n] = t]
Taken(t, n) == IF page_lock[n] = None THEN {n} ELSE {}

\* An insertion locks the head first and then reads the node behind which it
\* goes, a removal reads both neighbours and locks the one ahead first.
LockFirst(t) ==
    LET n == IF Inserting(t) THEN "head" ELSE AheadOf(t)
    IN  /\ At(t, "first")
        /\ IF Available(t, n)
           THEN /\ Take(t, n)
                /\ op' = [op EXCEPT ![t].pc = "second",
                             ![t].ahead = AheadOf(t), ![t].behind = BehindOf(t),
                             ![t].owned = Taken(t, n)]
           ELSE /\ Goto(t, "unshare")
                /\ UNCHANGED page_lock
        /\ UNCHANGED <<flink, blink, shared, exclusive, order>>

\* Mutant: the second lock is not needed.
LinkWithOneLock(t) ==
    /\ At(t, "second")
    /\ Goto(t, IF Inserting(t) THEN "link" ELSE "unlink")
    /\ UNCHANGED <<flink, blink, page_lock, shared, exclusive, order>>

LockSecond(t) ==
    LET n == IF Inserting(t) THEN op[t].ahead ELSE op[t].behind
    IN  /\ At(t, "second")
        /\ IF Available(t, n)
           THEN /\ Take(t, n)
                /\ op' = [op EXCEPT
                             ![t].pc = IF Inserting(t) THEN "link" ELSE "unlink",
                             ![t].owned = @ \cup Taken(t, n)]
           ELSE /\ page_lock' = Unlocked(op[t].owned)
                /\ op' = [op EXCEPT ![t].pc = "unshare", ![t].owned = {}]
        /\ UNCHANGED <<flink, blink, shared, exclusive, order>>

\* Mutant: the shared lock is kept while the exclusive one is waited for.
UpgradeInPlace(t) ==
    /\ At(t, "unshare")
    /\ Goto(t, "exclude")
    /\ UNCHANGED <<flink, blink, page_lock, shared, exclusive, order>>

Unshare(t) ==
    /\ At(t, "unshare")
    /\ shared' = shared \ {t}
    /\ Goto(t, "exclude")
    /\ UNCHANGED <<flink, blink, page_lock, exclusive, order>>

\* Mutant: the neighbours read under the shared lock are used.
ExcludeStale(t) ==
    /\ At(t, "exclude")
    /\ exclusive = None /\ shared = {}
    /\ exclusive' = t
    /\ Goto(t, IF Inserting(t) THEN "link" ELSE "unlink")
    /\ UNCHANGED <<flink, blink, page_lock, shared, order>>

\* With the exclusive lock the neighbours are read again and need no lock.
Exclude(t) ==
    /\ At(t, "exclude")
    /\ exclusive = None /\ shared = {}
    /\ exclusive' = t
    /\ op' = [op EXCEPT ![t].pc = IF Inserting(t) THEN "link" ELSE "unlink",
                        ![t].ahead = AheadOf(t), ![t].behind = BehindOf(t)]
    /\ UNCHANGED <<flink, blink, page_lock, shared, order>>

----------------------------------------------------------------------------
(* The links *)

\* pagelists.c 489-490, 573-574: the list leads to the section ...
Link(t) ==
    LET s == op[t].frames
    IN  /\ At(t, "link")
        /\ flink' = [flink EXCEPT !["head"] = Head(s)]
        /\ blink' = [blink EXCEPT ![op[t].ahead] = Last(s)]
        /\ order' = s \o order
        /\ Goto(t, "link_ends")
        /\ UNCHANGED <<page_lock, shared, exclusive>>

\* ... and 491-492, 575-576: the section leads back to the list.
LinkEnds(t) ==
    LET s == op[t].frames
    IN  /\ At(t, "link_ends")
        /\ blink' = [blink EXCEPT ![Head(s)] = "head"]
        /\ flink' = [flink EXCEPT ![Last(s)] = op[t].ahead]
        /\ Goto(t, "unlock")
        /\ UNCHANGED <<page_lock, shared, exclusive, order>>

\* The order without the frames of s, which follow each other in it.
Without(s) ==
    IF ~ Contains(order, Head(s)) THEN order
    ELSE LET i == CHOOSE i \in 1 .. Len(order) : order[i] = Head(s)
         IN SubSeq(order, 1, i - 1) \o SubSeq(order, i + Len(s), Len(order))

\* A single frame's own links are cleared, those of a section are left.
Unlink(t) ==
    LET clear == IF t \in BatchPoppers THEN {} ELSE {Head(op[t].frames)}
        Cleared(link) == [n \in Nodes |-> IF n \in clear THEN None ELSE link[n]]
    IN  /\ At(t, "unlink")
        /\ flink' = Cleared([flink EXCEPT ![op[t].behind] = op[t].ahead])
        /\ blink' = Cleared([blink EXCEPT ![op[t].ahead] = op[t].behind])
        /\ order' = Without(Section(t))
        /\ Goto(t, "unlock")
        /\ UNCHANGED <<page_lock, shared, exclusive>>

\* Mutant: the list lock is released before the inserted frames are unlocked.
UnlockList(t) ==
    /\ At(t, "unlock")
    /\ page_lock' = Unlocked(op[t].owned)
    /\ shared' = shared \ {t}
    /\ exclusive' = IF exclusive = t THEN None ELSE exclusive
    /\ op' = [op EXCEPT ![t].pc = IF t \in Inserters THEN "walk" ELSE "leave",
                        ![t].behind = Head(op[t].frames), ![t].owned = {}]
    /\ UNCHANGED <<flink, blink, order>>

\* The neighbours are unlocked.  A scattered batch goes on with its next frame,
\* an inserted section is unlocked frame by frame.
Unlock(t) ==
    LET rest == Tail(op[t].frames)
    IN  /\ At(t, "unlock")
        /\ page_lock' = Unlocked(op[t].owned)
        /\ op' = IF t \in Inserters
                 THEN [op EXCEPT ![t].pc = "walk", ![t].owned = {},
                                 ![t].behind = Head(op[t].frames)]
                 ELSE IF t \in Rescuers /\ rest # <<>>
                 THEN [op EXCEPT ![t] = [Idle EXCEPT !.frames = rest,
                          !.ahead = IF exclusive = t THEN flink[Head(rest)] ELSE None,
                          !.behind = IF exclusive = t THEN blink[Head(rest)] ELSE None,
                          !.pc = IF exclusive = t THEN "unlink" ELSE "first"]]
                 ELSE [op EXCEPT ![t].pc = "leave", ![t].owned = {}]
        /\ UNCHANGED <<flink, blink, shared, exclusive, order>>

\* release_pagelock(curr_page); curr_page = curr_page->flink;
WalkRelease(t) ==
    /\ At(t, "walk")
    /\ page_lock' = Unlocked({op[t].behind})
    /\ Goto(t, IF op[t].behind = Last(op[t].frames) THEN "leave" ELSE "walk_on")
    /\ UNCHANGED <<flink, blink, shared, exclusive, order>>

WalkOn(t) ==
    /\ At(t, "walk_on")
    /\ op' = [op EXCEPT ![t].pc = "walk", ![t].behind = flink[@]]
    /\ UNCHANGED <<flink, blink, page_lock, shared, exclusive, order>>

\* The frames removed stay locked until their new owner has set them up.
Leave(t) ==
    /\ At(t, "leave")
    /\ shared' = shared \ {t}
    /\ exclusive' = IF exclusive = t THEN None ELSE exclusive
    /\ page_lock' = Unlocked({n \in Nodes : page_lock[n] = t})
    /\ op' = [op EXCEPT ![t] = Idle]
    /\ UNCHANGED <<flink, blink, order>>

----------------------------------------------------------------------------
Step(t) == \/ LockTail(t) \/ CheckTail(t)
           \/ GrowBatch(t) \/ LockNext(t) \/ CheckNext(t)
           \/ Share(t) \/ LockFirst(t) \/ LockSecond(t) \/ Unshare(t)
           \/ Exclude(t) \/ Link(t) \/ LinkEnds(t) \/ Unlink(t) \/ Unlock(t)
           \/ WalkRelease(t) \/ WalkOn(t) \/ Leave(t)

Next == \E t \in Threads :
           BeginInsert(t) \/ BeginRescue(t) \/ FindTail(t) \/ Step(t)

Spec == Init /\ [][Next]_vars

----------------------------------------------------------------------------
(* Properties *)

TypeOK ==
    /\ flink \in [Nodes -> Nodes \cup {None}]
    /\ blink \in [Nodes -> Nodes \cup {None}]
    /\ page_lock \in [Nodes -> Threads \cup {None}]
    /\ shared \subseteq Threads /\ exclusive \in Threads \cup {None}
    /\ order \in Seq(Pages)
    /\ \A t \in Threads :
          /\ op[t].frames \in Seq(Pages)
          /\ op[t].ahead \in Nodes \cup {None} /\ op[t].behind \in Nodes \cup {None}
          /\ op[t].owned \subseteq Nodes

\* Except while a section is half linked, the links in both directions are the
\* order in which the frames were inserted, whoever shared the list lock.
Linked == <<"head">> \o order \o <<"tail">>
LinksMatch ==
    (\A t \in Threads : ~ At(t, "link_ends")) =>
        \A i \in 1 .. Len(Linked) - 1 :
            /\ flink[Linked[i]] = Linked[i + 1]
            /\ blink[Linked[i + 1]] = Linked[i]

\* pagelists.c 570-572, 429-431: with the page locks and the list lock in hand a
\* removal joins the two nodes its frames are really between.
RemovesBetweenNeighbours ==
    \A t \in Threads :
        At(t, "unlink") =>
            \E i \in 1 .. Len(order) :
                /\ SubSeq(order, i, i + Len(Section(t)) - 1) = Section(t)
                /\ op[t].behind = Linked[i]
                /\ op[t].ahead = Linked[i + 1 + Len(Section(t))]

\* A pop takes the frames that were inserted first: from when it has locked and
\* looked at the tail again until it unlinks them, the frames it has locked
\* without the list lock are the last of the list, with none left out.
PopsOldest ==
    \A t \in Poppers \cup BatchPoppers :
        ~ At(t, "unlock") /\ ~ At(t, "leave") => IsSuffix(op[t].frames, order)

\* pagelists.c 570-572, "we have all of the pagelocks necessary to insert the
\* page into the list": nobody gets at the section while it is half linked, so a
\* batch pop that walks towards the head only ever comes to frames.
WalksOntoFrames ==
    \A t \in Threads : At(t, "lock_next") => op[t].behind \in Pages

\* pagelists.c 503-506: a frame's flink is read after its lock is given up, and
\* still leads along the section and to locks the inserter holds.
WalkKeepsToSection ==
    \A t \in Threads :
        At(t, "walk") => /\ Contains(op[t].frames, op[t].behind)
                         /\ page_lock[op[t].behind] = t

\* pagelists.c 319-395, 409-455: threads wait for the list lock while they hold
\* page locks and spin on page locks while they hold others, in no common order;
\* backing off with try-locks keeps them from all waiting for each other.
GetsOn(t) ==
    \/ At(t, "share") /\ exclusive = None
    \/ At(t, "exclude") /\ exclusive = None /\ shared = {}
    \/ At(t, "lock_tail") /\ (page_lock[op[t].behind] = None
                               \/ blink["tail"] # op[t].behind)
    \/ At(t, "lock_next") /\ (page_lock[op[t].behind] = None
                               \/ blink[Head(op[t].frames)] # op[t].behind)
    \/ op[t].pc \notin {"idle", "share", "exclude", "lock_tail", "lock_next"}
NoCircularWait ==
    (\E t \in Threads : ~ At(t, "idle")) => \E t \in Threads : GetsOn(t)
=============================================================================
