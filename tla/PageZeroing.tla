----------------------------- MODULE PageZeroing -----------------------------
(***************************************************************************)
(* How standby frames become free and zeroed ones                          *)
(* (pagelist_operations.c).  The refresher pops standby frames, puts some  *)
(* on the free lists and passes others to the zeroing thread through a     *)
(* ring of slots, each OPEN, CLAIMED or READY; the zeroing thread clears   *)
(* them in one mapping and puts them on the zero lists.  Faulters take     *)
(* frames from all lists and ask for a refresh when these run low, and     *)
(* frames no longer in use return to the standby list.  The lists of all   *)
(* cache colors are one set here.                                          *)
(***************************************************************************)
EXTENDS Integers, FiniteSets

CONSTANTS Frames,
          Users,        \* faulting threads
          RingSize,     \* NUM_THREAD_ZERO_SLOTS
          BatchSize,    \* NUM_PAGES_THREAD_REFRESH
          StandbyHigh,  \* physical_page_count / STANDBY_LIST_REFRESH_PROPORTION
          ZeroLow,      \* physical_page_count / ZERO_LIST_REFRESH_PROPORTION
          FreeLow,      \* physical_page_count / FREE_LIST_REFRESH_PROPORTION
          NoFrame

ASSUME RingAssumption == RingSize \in Nat \ {0}
ASSUME BatchAssumption == BatchSize \in Nat \ {0}
ASSUME LowAssumption == StandbyHigh \in Nat /\ ZeroLow \in Nat /\ FreeLow \in Nat
ASSUME FramesAssumption == IsFiniteSet(Frames) /\ NoFrame \notin Frames

Ring == 0 .. RingSize - 1
ToFree == BatchSize \div 2  \* FREE_FRAMES_PROPORTION

VARIABLES
    standby, free, zero,    \* the frames on each list
    in_use,                 \* the frames faulters have mapped, or on the way back
    available,              \* total_available_pages
    free_total, zero_total, \* total_available of the free and the zero lists
    returning,              \* how many of in_use are counted as available again
    zeroed,                 \* the frames whose contents are all zero
    status_map, pages_to_zero, curr_idx, slots_used, \* page_zeroing
    zero_event, refresh_event, refreshing,
    refresher, zeroer, user

lists == <<standby, free, zero, in_use>>
counts == <<available, free_total, zero_total, returning>>
ring == <<status_map, pages_to_zero, curr_idx, slots_used>>
signals == <<zero_event, refresh_event, refreshing>>
vars == <<lists, counts, zeroed, ring, signals, refresher, zeroer, user>>

(***************************************************************************)
(* hand     frames the thread took off a list or out of the ring           *)
(* to_free  those of them the refresher puts on the free lists             *)
(***************************************************************************)
Resting == [pc |-> "wait", kind |-> "free", then |-> "end", slot |-> 0,
            hand |-> {}, to_free |-> {}]

Init ==
    /\ standby = {} /\ free = {} /\ in_use = {}
    /\ zero = Frames
    /\ available = Cardinality(Frames)
    /\ free_total = 0 /\ zero_total = Cardinality(Frames)
    /\ returning = 0
    /\ zeroed = Frames
    /\ status_map = [i \in Ring |-> "OPEN"]
    /\ pages_to_zero = [i \in Ring |-> NoFrame]
    /\ curr_idx = 0 /\ slots_used = 0
    /\ zero_event = FALSE /\ refresh_event = FALSE /\ refreshing = FALSE
    /\ refresher = Resting
    /\ zeroer = [pc |-> "wait", slot |-> 0, hand |-> {}]
    /\ user = [u \in Users |-> [pc |-> "run", hand |-> {}]]

RefresherAt(pc) == refresher.pc = pc
ZeroerAt(pc) == zeroer.pc = pc

----------------------------------------------------------------------------
(* Faulters and the trimmer *)

\* allocate_batch_zeroed_frames and allocate_batch_free_frames look at the
\* list's counter first; standby_pop_batch is the last resort.
TakeZeroed(u) ==
    /\ user[u].pc = "run" /\ zero_total # 0
    /\ \E f \in zero :
          /\ zero' = zero \ {f}
          /\ user' = [user EXCEPT ![u] = [pc |-> "zero", hand |-> {f}]]
    /\ UNCHANGED <<standby, free, in_use, counts, zeroed, ring, signals,
                   refresher, zeroer>>

TakeFree(u) ==
    /\ user[u].pc = "run" /\ free_total # 0
    /\ \E f \in free :
          /\ free' = free \ {f}
          /\ user' = [user EXCEPT ![u] = [pc |-> "free", hand |-> {f}]]
    /\ UNCHANGED <<standby, zero, in_use, counts, zeroed, ring, signals,
                   refresher, zeroer>>

TakeStandby(u) ==
    /\ user[u].pc = "run"
    /\ \E f \in standby :
          /\ standby' = standby \ {f}
          /\ user' = [user EXCEPT ![u] = [pc |-> "standby", hand |-> {f}]]
    /\ UNCHANGED <<free, zero, in_use, counts, zeroed, ring, signals,
                   refresher, zeroer>>

\* The counters follow, and the frame is mapped and written to.
UseFrame(u) ==
    /\ user[u].pc \in {"zero", "free", "standby"}
    /\ available' = available - 1
    /\ zero_total' = zero_total - IF user[u].pc = "zero" THEN 1 ELSE 0
    /\ free_total' = free_total - IF user[u].pc = "free" THEN 1 ELSE 0
    /\ in_use' = in_use \cup user[u].hand
    /\ zeroed' = zeroed \ user[u].hand
    /\ user' = [user EXCEPT ![u] = [pc |-> "end", hand |-> {}]]
    /\ UNCHANGED <<standby, free, zero, returning, ring, signals, refresher,
                   zeroer>>

\* potential_list_refresh
NeedsRefresh ==
    /\ ~ refreshing
    /\ Cardinality(standby) > StandbyHigh
    /\ zero_total < ZeroLow \/ free_total < FreeLow

EndFault(u) ==
    /\ user[u].pc = "end"
    /\ refresh_event' = (refresh_event \/ NeedsRefresh)
    /\ user' = [user EXCEPT ![u].pc = "run"]
    /\ UNCHANGED <<lists, counts, zeroed, ring, zero_event, refreshing,
                   refresher, zeroer>>

\* The trimmer and the modified writer give frames back: a frame is counted
\* before it can be found on the standby list.
CountBack ==
    /\ returning < Cardinality(in_use)
    /\ available' = available + 1
    /\ returning' = returning + 1
    /\ UNCHANGED <<lists, free_total, zero_total, zeroed, ring, signals,
                   refresher, zeroer, user>>

GiveBack ==
    /\ returning # 0
    /\ \E f \in in_use :
          /\ in_use' = in_use \ {f}
          /\ standby' = standby \cup {f}
    /\ returning' = returning - 1
    /\ UNCHANGED <<free, zero, available, free_total, zero_total, zeroed, ring,
                   signals, refresher, zeroer, user>>

----------------------------------------------------------------------------
(* thread_free_and_zero_refresher *)

\* Both lists low: refresh_free_and_zero_lists runs first, then one of the others.
StartRefresh ==
    /\ RefresherAt("wait") /\ refresh_event
    /\ refresh_event' = FALSE /\ refreshing' = TRUE
    /\ refresher' = IF zero_total < ZeroLow /\ free_total < FreeLow
                    THEN [refresher EXCEPT !.pc = "pop", !.kind = "both"]
                    ELSE [refresher EXCEPT !.pc = "choose"]
    /\ UNCHANGED <<lists, counts, zeroed, ring, zero_event, zeroer, user>>

ChooseRefresh ==
    /\ RefresherAt("choose")
    /\ refresher' = [refresher EXCEPT !.pc = "pop",
                        !.kind = IF zero_total < ZeroLow THEN "zero" ELSE "free"]
    /\ UNCHANGED <<lists, counts, zeroed, ring, signals, zeroer, user>>

\* Where the refresher goes when one of the three functions returns.
Returned == IF refresher.kind = "both" THEN "choose" ELSE "end"

PopStandby ==
    /\ RefresherAt("pop")
    /\ \E S \in SUBSET standby :
          /\ Cardinality(S) = IF Cardinality(standby) < BatchSize
                              THEN Cardinality(standby) ELSE BatchSize
          /\ standby' = standby \ S
          /\ refresher' = IF S = {} THEN [refresher EXCEPT !.pc = Returned]
                          ELSE [refresher EXCEPT !.pc = "lower", !.hand = S]
    /\ UNCHANGED <<free, zero, in_use, counts, zeroed, ring, signals,
                   zeroer, user>>

\* Which of the frames go to the free lists, and what comes after that.
LowerAvailable ==
    /\ RefresherAt("lower")
    /\ available' = available - Cardinality(refresher.hand)
    /\ \E S \in SUBSET refresher.hand :
          /\ Cardinality(S) = CASE refresher.kind = "free" -> Cardinality(refresher.hand)
                                [] refresher.kind = "zero" -> 0
                                [] Cardinality(refresher.hand) < ToFree
                                     -> Cardinality(refresher.hand)
                                [] OTHER -> ToFree
          /\ refresher' = [refresher EXCEPT
                              !.pc = IF S = {} THEN "claim" ELSE "free",
                              !.hand = @ \ S, !.to_free = S,
                              !.then = IF refresher.hand = S THEN Returned ELSE "claim"]
    /\ UNCHANGED <<lists, free_total, zero_total, returning, zeroed, ring,
                   signals, zeroer, user>>

\* free_frames_add_batch
CountFree ==
    /\ RefresherAt("free")
    /\ free_total' = free_total + Cardinality(refresher.to_free)
    /\ available' = available + Cardinality(refresher.to_free)
    /\ refresher' = [refresher EXCEPT !.pc = "insert"]
    /\ UNCHANGED <<lists, zero_total, returning, zeroed, ring, signals, zeroer,
                   user>>

InsertFree ==
    /\ RefresherAt("insert")
    /\ free' = free \cup refresher.to_free
    /\ refresher' = [refresher EXCEPT !.pc = refresher.then, !.then = "end",
                                       !.to_free = {}]
    /\ UNCHANGED <<standby, zero, in_use, counts, zeroed, ring, signals, zeroer, user>>

\* Mutant: the slot is taken without a look at its state.
ClaimAnySlot ==
    LET i == (curr_idx + 1) % RingSize
    IN  /\ RefresherAt("claim")
        /\ curr_idx' = i
        /\ status_map' = [status_map EXCEPT ![i] = "CLAIMED"]
        /\ refresher' = [refresher EXCEPT !.pc = "fill", !.slot = i]
        /\ UNCHANGED <<lists, counts, zeroed, pages_to_zero, slots_used,
                       signals, zeroer, user>>

\* get_zeroing_struct_idx and the compare-exchange of the slot.  When the slot is
\* not open the ring is full: the frames that are left go to the free lists.
ClaimSlot ==
    LET i == (curr_idx + 1) % RingSize
    IN  /\ RefresherAt("claim")
        /\ curr_idx' = i
        /\ \/ /\ status_map[i] = "OPEN"
              /\ status_map' = [status_map EXCEPT ![i] = "CLAIMED"]
              /\ refresher' = [refresher EXCEPT !.pc = "fill", !.slot = i]
              /\ UNCHANGED zero_event
           \/ /\ status_map[i] # "OPEN"
              /\ zero_event' = TRUE
              /\ refresher' = [refresher EXCEPT !.pc = "free", !.then = "signal",
                                  !.to_free = refresher.hand, !.hand = {}]
              /\ UNCHANGED status_map
        /\ UNCHANGED <<lists, counts, zeroed, pages_to_zero, slots_used,
                       refresh_event, refreshing, zeroer, user>>

FillSlot ==
    /\ RefresherAt("fill")
    /\ \E f \in refresher.hand :
          /\ pages_to_zero' = [pages_to_zero EXCEPT ![refresher.slot] = f]
          /\ refresher' = [refresher EXCEPT !.pc = "publish", !.hand = @ \ {f}]
    /\ UNCHANGED <<lists, counts, zeroed, status_map, curr_idx, slots_used,
                   signals, zeroer, user>>

PublishSlot ==
    /\ RefresherAt("publish")
    /\ status_map' = [status_map EXCEPT ![refresher.slot] = "READY"]
    /\ refresher' = [refresher EXCEPT !.pc = "count"]
    /\ UNCHANGED <<lists, counts, zeroed, pages_to_zero, curr_idx, slots_used,
                   signals, zeroer, user>>

CountSlot ==
    /\ RefresherAt("count")
    /\ slots_used' = slots_used + 1
    /\ refresher' = [refresher EXCEPT !.slot = 0,
                        !.pc = IF refresher.hand = {} THEN "signal" ELSE "claim"]
    /\ UNCHANGED <<lists, counts, zeroed, status_map, pages_to_zero, curr_idx,
                   signals, zeroer, user>>

\* Mutant: the zeroing thread is told only of a full ring.
SignalWhenFull ==
    /\ RefresherAt("signal")
    /\ refresher' = [refresher EXCEPT !.pc = Returned]
    /\ UNCHANGED <<lists, counts, zeroed, ring, signals, zeroer, user>>

SignalZeroing ==
    /\ RefresherAt("signal")
    /\ zero_event' = TRUE
    /\ refresher' = [refresher EXCEPT !.pc = Returned]
    /\ UNCHANGED <<lists, counts, zeroed, ring, refresh_event, refreshing,
                   zeroer, user>>

EndRefresh ==
    /\ RefresherAt("end")
    /\ refreshing' = FALSE
    /\ refresher' = Resting
    /\ UNCHANGED <<lists, counts, zeroed, ring, zero_event, refresh_event,
                   zeroer, user>>

----------------------------------------------------------------------------
(* thread_populate_zero_lists *)

StartZeroing ==
    /\ ZeroerAt("wait") /\ zero_event
    /\ zero_event' = FALSE
    /\ zeroer' = [zeroer EXCEPT !.pc = "scan", !.slot = 0]
    /\ UNCHANGED <<lists, counts, zeroed, ring, refresh_event, refreshing,
                   refresher, user>>

\* The slot the scan goes on with, or what follows the scan.
NextSlot(z) ==
    IF z.slot + 1 < RingSize THEN [z EXCEPT !.pc = "scan", !.slot = @ + 1]
    ELSE [z EXCEPT !.pc = IF z.hand = {} THEN "wait" ELSE "clear", !.slot = 0]

\* Mutant: a slot that is only claimed counts as ready.
TakeClaimed ==
    /\ ZeroerAt("scan")
    /\ zeroer' = IF status_map[zeroer.slot] # "OPEN"
                 THEN [zeroer EXCEPT !.pc = "open",
                          !.hand = @ \cup {pages_to_zero[zeroer.slot]}]
                 ELSE NextSlot(zeroer)
    /\ UNCHANGED <<lists, counts, zeroed, ring, signals, refresher, user>>

ScanSlot ==
    /\ ZeroerAt("scan")
    /\ zeroer' = IF status_map[zeroer.slot] = "READY"
                 THEN [zeroer EXCEPT !.pc = "open",
                          !.hand = @ \cup {pages_to_zero[zeroer.slot]}]
                 ELSE NextSlot(zeroer)
    /\ UNCHANGED <<lists, counts, zeroed, ring, signals, refresher, user>>

OpenSlot ==
    /\ ZeroerAt("open")
    /\ status_map' = [status_map EXCEPT ![zeroer.slot] = "OPEN"]
    /\ zeroer' = [zeroer EXCEPT !.pc = "uncount"]
    /\ UNCHANGED <<lists, counts, zeroed, pages_to_zero, curr_idx, slots_used,
                   signals, refresher, user>>

\* Mutant: having scanned, the thread takes the ring to be empty.
ResetCount ==
    /\ ZeroerAt("uncount")
    /\ slots_used' = 0
    /\ zeroer' = NextSlot(zeroer)
    /\ UNCHANGED <<lists, counts, zeroed, status_map, pages_to_zero, curr_idx,
                   signals, refresher, user>>

UncountSlot ==
    /\ ZeroerAt("uncount")
    /\ slots_used' = slots_used - 1
    /\ zeroer' = NextSlot(zeroer)
    /\ UNCHANGED <<lists, counts, zeroed, status_map, pages_to_zero, curr_idx,
                   signals, refresher, user>>

\* All frames are mapped to the thread's window, cleared and unmapped.
ClearFrames ==
    /\ ZeroerAt("clear")
    /\ zeroed' = zeroed \cup zeroer.hand
    /\ zeroer' = [zeroer EXCEPT !.pc = "count"]
    /\ UNCHANGED <<lists, counts, ring, signals, refresher, user>>

\* Mutant: the frames are inserted first.
InsertFirst ==
    /\ ZeroerAt("count")
    /\ zero' = zero \cup zeroer.hand
    /\ zeroer' = [zeroer EXCEPT !.pc = "insert"]
    /\ UNCHANGED <<standby, free, in_use, counts, zeroed, ring, signals,
                   refresher, user>>

\* zero_list_add_batch: frames are counted before they can be found.
CountZeroed ==
    /\ ZeroerAt("count")
    /\ zero_total' = zero_total + Cardinality(zeroer.hand)
    /\ available' = available + Cardinality(zeroer.hand)
    /\ zeroer' = [zeroer EXCEPT !.pc = "insert"]
    /\ UNCHANGED <<lists, free_total, returning, zeroed, ring, signals,
                   refresher, user>>

InsertZeroed ==
    /\ ZeroerAt("insert")
    /\ zero' = zero \cup zeroer.hand
    /\ zeroer' = [zeroer EXCEPT !.pc = "end", !.hand = {}]
    /\ UNCHANGED <<standby, free, in_use, counts, zeroed, ring, signals,
                   refresher, user>>

\* With few slots in use the thread asks for a refresh itself; the counter is
\* unsigned, so one that is lowered below zero is large.
EndZeroing ==
    /\ ZeroerAt("end")
    /\ refresh_event' = \/ refresh_event
                        \/ /\ 0 <= slots_used /\ slots_used < RingSize \div 4
                           /\ NeedsRefresh
    /\ zeroer' = [zeroer EXCEPT !.pc = "wait"]
    /\ UNCHANGED <<lists, counts, zeroed, ring, zero_event, refreshing,
                   refresher, user>>

----------------------------------------------------------------------------
Refresh == \/ ChooseRefresh \/ PopStandby \/ LowerAvailable
           \/ CountFree \/ InsertFree \/ ClaimSlot \/ FillSlot \/ PublishSlot
           \/ CountSlot \/ SignalZeroing \/ EndRefresh
Zeroing == \/ StartZeroing \/ ScanSlot \/ OpenSlot \/ UncountSlot \/ ClearFrames
           \/ CountZeroed \/ InsertZeroed \/ EndZeroing
Next == \/ \E u \in Users : \/ TakeZeroed(u) \/ TakeFree(u) \/ TakeStandby(u)
                             \/ UseFrame(u) \/ EndFault(u)
        \/ CountBack \/ GiveBack
        \/ StartRefresh \/ Refresh \/ Zeroing

Spec == Init /\ [][Next]_vars

----------------------------------------------------------------------------
(* Properties *)

TypeOK ==
    /\ standby \subseteq Frames /\ free \subseteq Frames /\ zero \subseteq Frames
    /\ in_use \subseteq Frames /\ zeroed \subseteq Frames
    /\ available \in Int /\ free_total \in Int /\ zero_total \in Int
    /\ returning \in Nat
    /\ status_map \in [Ring -> {"OPEN", "CLAIMED", "READY"}]
    /\ pages_to_zero \in [Ring -> Frames \cup {NoFrame}]
    /\ curr_idx \in Ring /\ slots_used \in Int
    /\ zero_event \in BOOLEAN /\ refresh_event \in BOOLEAN /\ refreshing \in BOOLEAN
    /\ refresher \in [pc : {"wait", "choose", "pop", "lower", "free", "insert", "claim",
                             "fill", "publish", "count", "signal", "end"},
                       kind : {"both", "free", "zero"},
                       then : {"choose", "end", "claim", "signal"},
                       hand : SUBSET Frames, to_free : SUBSET Frames, slot : Ring]
    /\ zeroer \in [pc : {"wait", "scan", "open", "uncount", "clear", "count",
                          "insert", "end"},
                    hand : SUBSET Frames, slot : Ring]
    /\ user \in [Users -> [pc : {"run", "zero", "free", "standby", "end"},
                            hand : SUBSET Frames]]

\* The slots whose frame waits for the zeroing thread: published and not yet
\* taken, or filled and about to be published.
Filled == {i \in Ring : \/ /\ status_map[i] = "READY"
                           /\ ~ (ZeroerAt("open") /\ zeroer.slot = i)
                        \/ RefresherAt("publish") /\ refresher.slot = i}

\* Every place a frame can be.
Places == <<standby, free, zero, in_use, refresher.hand, refresher.to_free,
            zeroer.hand, {pages_to_zero[i] : i \in Filled},
            UNION {user[u].hand : u \in Users}>>

\* Frames pass from thread to thread through slots that are claimed, filled and
\* taken without a lock: no frame is lost in the ring, in it twice, or on a list
\* while a thread works on it.
FramesOnce ==
    /\ \A f \in Frames : \E p \in DOMAIN Places : f \in Places[p]
    /\ \A p, q \in DOMAIN Places : p # q => Places[p] \cap Places[q] = {}
    /\ \A i, j \in Filled : i # j => pages_to_zero[i] # pages_to_zero[j]
    /\ \A u, v \in Users : u # v => user[u].hand \cap user[v].hand = {}

\* A frame on the zero lists has been cleared since it was last written to: a
\* faulter gets it without zeroing it again.
ZeroListsZeroed == zero \subseteq zeroed

\* The counters are looked at without the lists' locks before a list is tried.
\* Whatever is between counting and inserting, or removing and counting, a list's
\* counter says that it is empty only when it is, and never goes below zero.
CountersCover ==
    /\ Cardinality(free) <= free_total
    /\ Cardinality(zero) <= zero_total
    /\ Cardinality(free) + Cardinality(zero) + Cardinality(standby) <= available

\* total_slots_used is changed after the slot is, by both threads: it is one off for
\* a slot in passing and comes out even.
SlotsCounted ==
    slots_used = Cardinality({i \in Ring : status_map[i] = "READY"})
                 - (IF RefresherAt("count") THEN 1 ELSE 0)
                 + (IF ZeroerAt("uncount") THEN 1 ELSE 0)

\* The zeroing thread resets its event before it scans, and the ring is filled
\* behind its back.  Even so a frame in the ring is not left there: the thread
\* has yet to scan its slot, or is or will be signalled to scan again.
WillSignal == \/ refresher.pc \in {"claim", "fill", "publish", "count", "signal"}
              \/ refresher.pc \in {"free", "insert"} /\ refresher.then = "signal"
NoSlotForgotten ==
    \A i \in Ring :
        status_map[i] = "READY" =>
            \/ zero_event
            \/ WillSignal
            \/ ZeroerAt("scan") /\ zeroer.slot <= i
            \/ zeroer.pc \in {"open", "uncount"} /\ zeroer.slot < i
            \/ ZeroerAt("open") /\ zeroer.slot = i
=============================================================================
