------------------------- MODULE PageZeroingProofs -------------------------
(***************************************************************************)
(* Proofs about PageZeroing.  Slots and hands: which slot is claimed, and  *)
(* at which steps a thread has frames in hand, follow from where the       *)
(* threads are; with that, every frame is in one place, and the counters   *)
(* count sets of frames that can be named.                                 *)
(***************************************************************************)
EXTENDS PageZeroing, FiniteSetTheorems, TLAPS

\* A slot is claimed exactly while the refresher fills it, and names a frame
\* from when it is filled until the zeroing thread has taken it.
SlotStates ==
    /\ \A i \in Ring : status_map[i] = "CLAIMED" <=>
                        /\ refresher.pc \in {"fill", "publish"}
                        /\ refresher.slot = i
    /\ \A i \in Filled : pages_to_zero[i] \in Frames
    /\ zeroer.pc = "open" => status_map[zeroer.slot] = "READY"

\* Where the threads have nothing in hand.
HandStates ==
    /\ refresher.pc \in {"wait", "choose", "pop", "signal", "end"} =>
          refresher.hand = {}
    /\ refresher.pc \in {"free", "insert"} /\ refresher.then # "claim" =>
          refresher.hand = {}
    /\ refresher.pc \notin {"free", "insert"} => refresher.to_free = {}
    /\ zeroer.pc \in {"wait", "end"} => zeroer.hand = {}
    /\ \A u \in Users :
          /\ user[u].pc \in {"run", "end"} => user[u].hand = {}
          /\ user[u].pc \in {"zero", "free", "standby"} =>
                \E f \in Frames : user[u].hand = {f}

StateInv == TypeOK /\ SlotStates /\ HandStates

\* The initial state satisfies the invariants of slots and hands.
LEMMA InitStateInv == Init => StateInv
<1>. SUFFICES ASSUME Init PROVE StateInv
    OBVIOUS
<1>. USE DEF Init, Resting
<1>1. Cardinality(Frames) \in Nat
    BY FramesAssumption, FS_CardinalityType
<1>2. 0 \in Ring
    BY RingAssumption DEF Ring
<1>3. TypeOK
    <2>1. refresher \in [pc : {"wait"}, kind : {"free"}, then : {"end"},
                         hand : SUBSET Frames, to_free : SUBSET Frames,
                         slot : Ring]
        BY <1>2
    <2>2. zeroer \in [pc : {"wait"}, hand : SUBSET Frames, slot : Ring]
        BY <1>2
    <2>3. user \in [Users -> [pc : {"run"}, hand : SUBSET Frames]]
        OBVIOUS
    <2>4. /\ status_map \in [Ring -> {"OPEN"}]
          /\ pages_to_zero \in [Ring -> {NoFrame}]
        OBVIOUS
    <2>5. /\ standby = {} /\ free = {} /\ in_use = {} /\ zero = Frames
          /\ zeroed = Frames
          /\ available \in Int /\ free_total \in Int /\ zero_total \in Int
          /\ returning \in Nat
          /\ curr_idx \in Ring /\ slots_used \in Int
          /\ zero_event = FALSE /\ refresh_event = FALSE /\ refreshing = FALSE
        BY <1>1, <1>2
    <2>6. QED
        <3>. HIDE DEF Init, Resting
        <3>. QED
            BY <2>1, <2>2, <2>3, <2>4, <2>5 DEF TypeOK
<1>4. SlotStates
    BY DEF SlotStates, Filled, RefresherAt, ZeroerAt
<1>5. HandStates
    BY DEF HandStates
<1>6. QED
    BY <1>3, <1>4, <1>5 DEF StateInv

\* What threads have in hand is finite.
LEMMA HandsFinite ==
    ASSUME TypeOK
    PROVE  /\ IsFiniteSet(refresher.hand)
           /\ IsFiniteSet(refresher.to_free)
           /\ IsFiniteSet(zeroer.hand)
<1>1. /\ refresher.hand \subseteq Frames
      /\ refresher.to_free \subseteq Frames
      /\ zeroer.hand \subseteq Frames
    BY DEF TypeOK
<1>2. QED
    BY <1>1, FramesAssumption, FS_Subset

\* A scan begins in the ring.
LEMMA FirstSlot == 0 \in Ring
BY RingAssumption DEF Ring

\* The scan stays in the ring.
LEMMA NextSlotType ==
    ASSUME TypeOK
    PROVE  NextSlot(zeroer) \in [pc : {"wait", "scan", "clear"},
                                hand : SUBSET Frames, slot : Ring]
<1>1. CASE zeroer.slot + 1 < RingSize
    <2>1. zeroer.slot + 1 \in Ring
        BY <1>1, RingAssumption DEF TypeOK, Ring
    <2>2. QED
        BY <1>1, <2>1 DEF NextSlot, TypeOK
<1>2. CASE ~ zeroer.slot + 1 < RingSize
    BY <1>2, FirstSlot DEF NextSlot, TypeOK
<1>3. QED
    BY <1>1, <1>2

\* Every step keeps the types.
LEMMA TypeStep ==
    ASSUME StateInv, [Next]_vars
    PROVE  TypeOK'
<1>1. CASE \E u \in Users : TakeZeroed(u)
    BY <1>1 DEF StateInv, TypeOK, lists, counts, ring, signals, TakeZeroed
<1>2. CASE \E u \in Users : TakeFree(u)
    BY <1>2 DEF StateInv, TypeOK, lists, counts, ring, signals, TakeFree
<1>3. CASE \E u \in Users : TakeStandby(u)
    BY <1>3 DEF StateInv, TypeOK, lists, counts, ring, signals, TakeStandby
<1>4. CASE \E u \in Users : UseFrame(u)
    BY <1>4 DEF StateInv, TypeOK, lists, counts, ring, signals, UseFrame
<1>5. CASE \E u \in Users : EndFault(u)
    BY <1>5 DEF StateInv, TypeOK, lists, counts, ring, signals, EndFault
<1>6. CASE CountBack \/ GiveBack
    BY <1>6 DEF StateInv, TypeOK, lists, counts, ring, signals, CountBack,
       GiveBack
<1>7. CASE StartRefresh
    BY <1>7 DEF StateInv, TypeOK, lists, counts, ring, signals, StartRefresh,
        RefresherAt
<1>8. CASE ChooseRefresh
    BY <1>8 DEF StateInv, TypeOK, lists, counts, ring, signals, ChooseRefresh,
        RefresherAt
<1>9. CASE PopStandby
    <2>1. PICK S \in SUBSET standby :
             /\ standby' = standby \ S
             /\ \/ refresher' = [refresher EXCEPT !.pc = Returned]
                \/ refresher' = [refresher EXCEPT !.pc = "lower", !.hand = S]
        BY <1>9 DEF PopStandby
    <2>2. standby' \subseteq Frames /\ S \subseteq Frames
        BY <2>1 DEF StateInv, TypeOK
    <2>3. refresher' \in [pc : {"choose", "end", "lower"},
                          kind : {"both", "free", "zero"},
                          then : {"choose", "end", "claim", "signal"},
                          hand : SUBSET Frames, to_free : SUBSET Frames, slot : Ring]
        BY <2>1, <2>2, ZenonT(30) DEF StateInv, TypeOK, Returned
    <2>4. UNCHANGED <<free, zero, in_use, counts, zeroed, ring, signals,
                      zeroer, user>>
        BY <1>9 DEF PopStandby
    <2>5. QED
        BY <2>2, <2>3, <2>4 DEF StateInv, TypeOK, counts, ring, signals
<1>10. CASE LowerAvailable
    <2>1. Cardinality(refresher.hand) \in Nat
        BY HandsFinite, FS_CardinalityType DEF StateInv
    <2>2. PICK S \in SUBSET refresher.hand :
             refresher' = [refresher EXCEPT
                              !.pc = IF S = {} THEN "claim" ELSE "free",
                              !.hand = @ \ S, !.to_free = S,
                              !.then = IF refresher.hand = S THEN Returned
                                       ELSE "claim"]
        BY <1>10 DEF LowerAvailable
    <2>3. refresher' \in [pc : {"claim", "free"}, kind : {"both", "free", "zero"},
                          then : {"choose", "end", "claim"},
                          hand : SUBSET Frames, to_free : SUBSET Frames, slot : Ring]
        BY <2>2 DEF StateInv, TypeOK, Returned
    <2>4. QED
        <3>1. /\ available' = available - Cardinality(refresher.hand)
              /\ UNCHANGED <<lists, free_total, zero_total, returning, zeroed,
                             ring, signals, zeroer, user>>
            BY <1>10 DEF LowerAvailable
        <3>2. QED
            BY <2>1, <2>3, <3>1 DEF StateInv, TypeOK, lists, ring, signals
<1>11. CASE CountFree
    <2>1. Cardinality(refresher.to_free) \in Nat
        BY HandsFinite, FS_CardinalityType DEF StateInv
    <2>2. /\ refresher' = [refresher EXCEPT !.pc = "insert"]
          /\ free_total' \in Int /\ available' \in Int
          /\ UNCHANGED <<lists, zero_total, returning, zeroed, ring, signals, zeroer,
                         user>>
        BY <1>11, <2>1 DEF StateInv, TypeOK, CountFree
    <2>3. QED
        BY <2>2 DEF StateInv, TypeOK, lists, ring, signals
<1>12. CASE InsertFree
    BY <1>12 DEF StateInv, TypeOK, lists, counts, ring, signals, InsertFree,
        RefresherAt
<1>13. CASE ClaimSlot
    <2>1. (curr_idx + 1) % RingSize \in Ring
        BY RingAssumption DEF Ring, StateInv, TypeOK
    <2>2. QED
        BY <1>13, <2>1 DEF StateInv, TypeOK, ClaimSlot, RefresherAt,
            lists, counts, ring, signals
<1>14. CASE FillSlot
    <2>1. PICK f \in refresher.hand :
             /\ pages_to_zero' = [pages_to_zero EXCEPT ![refresher.slot] = f]
             /\ refresher' = [refresher EXCEPT !.pc = "publish", !.hand = @ \ {f}]
        BY <1>14 DEF FillSlot
    <2>2. f \in Frames
        BY DEF StateInv, TypeOK
    <2>3. QED
        BY <1>14, <2>1, <2>2 DEF StateInv, TypeOK, FillSlot,
            lists, counts, ring, signals
<1>15. CASE PublishSlot
    BY <1>15 DEF StateInv, TypeOK, lists, counts, ring, signals, PublishSlot,
        RefresherAt
<1>16. CASE CountSlot
    <2>1. refresher' \in [pc : {"signal", "claim"},
                          kind : {"both", "free", "zero"},
                          then : {"choose", "end", "claim", "signal"},
                          hand : SUBSET Frames, to_free : SUBSET Frames, slot : Ring]
        <3>1. refresher' = [refresher EXCEPT !.slot = 0,
                              !.pc = IF refresher.hand = {} THEN "signal"
                                     ELSE "claim"]
            BY <1>16 DEF CountSlot
        <3>2. CASE refresher.hand = {}
            BY <3>1, <3>2, FirstSlot DEF StateInv, TypeOK
        <3>3. CASE refresher.hand # {}
            BY <3>1, <3>3, FirstSlot DEF StateInv, TypeOK
        <3>4. QED
            BY <3>2, <3>3
    <2>2. /\ slots_used' = slots_used + 1
          /\ UNCHANGED <<lists, counts, zeroed, status_map, pages_to_zero,
                         curr_idx, signals, zeroer, user>>
        BY <1>16 DEF CountSlot
    <2>3. QED
        BY <2>1, <2>2 DEF StateInv, TypeOK, lists, counts, signals
<1>17. CASE SignalZeroing
    BY <1>17 DEF StateInv, TypeOK, lists, counts, ring, signals,
        SignalZeroing, RefresherAt, Returned
<1>18. CASE EndRefresh
    BY <1>18, FirstSlot DEF StateInv, TypeOK, lists, counts, ring, signals,
        EndRefresh, Resting
<1>19. CASE StartZeroing
    BY <1>19, FirstSlot DEF StateInv, TypeOK, lists, counts, ring, signals,
        StartZeroing
<1>20. CASE ScanSlot
    <2>1. CASE status_map[zeroer.slot] = "READY"
        <3>1. zeroer.slot \in Filled
            BY <1>20, <2>1 DEF Filled, ScanSlot, ZeroerAt, StateInv, TypeOK
        <3>2. pages_to_zero[zeroer.slot] \in Frames
            BY <3>1 DEF StateInv, SlotStates
        <3>3. QED
            BY <1>20, <2>1, <3>2, ZenonT(30) DEF StateInv, TypeOK, ScanSlot,
                lists, counts, ring, signals
    <2>2. CASE status_map[zeroer.slot] # "READY"
        BY <1>20, <2>2, NextSlotType DEF StateInv, TypeOK, ScanSlot, 
            lists, counts, ring, signals
    <2>3. QED
        BY <2>1, <2>2
<1>21. CASE OpenSlot
    BY <1>21 DEF StateInv, TypeOK, lists, counts, ring, signals, OpenSlot,
        ZeroerAt
<1>22. CASE UncountSlot
    BY <1>22, NextSlotType DEF StateInv, TypeOK, UncountSlot,
        lists, counts, ring, signals
<1>23. CASE ClearFrames
    BY <1>23 DEF StateInv, TypeOK, lists, counts, ring, signals, ClearFrames,
        ZeroerAt
<1>24. CASE CountZeroed
    <2>1. Cardinality(zeroer.hand) \in Nat
        BY HandsFinite, FS_CardinalityType DEF StateInv
    <2>2. QED
        BY <1>24, <2>1 DEF StateInv, TypeOK, CountZeroed, ZeroerAt,
            lists, counts, ring, signals
<1>25. CASE InsertZeroed
    BY <1>25, ZenonT(30) DEF StateInv, TypeOK, lists, counts, ring, signals, InsertZeroed,
        ZeroerAt
<1>26. CASE EndZeroing
    BY <1>26 DEF StateInv, TypeOK, lists, counts, ring, signals, EndZeroing,
        ZeroerAt
<1>27. CASE UNCHANGED vars
    BY <1>27 DEF StateInv, TypeOK, lists, counts, ring, signals, vars
<1>28. QED
    BY <1>1, <1>2, <1>3, <1>4, <1>5, <1>6, <1>7, <1>8, <1>9, <1>10, <1>11,
        <1>12, <1>13, <1>14, <1>15, <1>16, <1>17, <1>18, <1>19, <1>20, <1>21,
        <1>22, <1>23, <1>24, <1>25, <1>26, <1>27 DEF Next, Refresh, Zeroing

\* Every step keeps the states of the slots.
LEMMA SlotStep ==
    ASSUME StateInv, [Next]_vars
    PROVE  SlotStates'
<1>. USE DEF StateInv, TypeOK, SlotStates, Filled, RefresherAt, ZeroerAt,
            lists, counts, ring, signals
<1>1. CASE \E u \in Users : TakeZeroed(u)
    BY <1>1 DEF TakeZeroed
<1>2. CASE \E u \in Users : TakeFree(u)
    BY <1>2 DEF TakeFree
<1>3. CASE \E u \in Users : TakeStandby(u)
    BY <1>3 DEF TakeStandby
<1>4. CASE \E u \in Users : UseFrame(u)
    BY <1>4 DEF UseFrame
<1>5. CASE \E u \in Users : EndFault(u)
    BY <1>5 DEF EndFault
<1>6. CASE CountBack \/ GiveBack
    BY <1>6 DEF CountBack, GiveBack, lists
<1>7. CASE StartRefresh
    BY <1>7 DEF StartRefresh
<1>8. CASE ChooseRefresh
    BY <1>8 DEF ChooseRefresh
<1>9. CASE PopStandby
    BY <1>9 DEF PopStandby, Returned
<1>10. CASE LowerAvailable
    BY <1>10 DEF LowerAvailable, Returned
<1>11. CASE CountFree
    BY <1>11 DEF CountFree
<1>12. CASE InsertFree
    BY <1>12 DEF InsertFree
<1>13. CASE ClaimSlot
    <2>1. PICK i \in Ring :
             \/ /\ status_map[i] = "OPEN"
                /\ status_map' = [status_map EXCEPT ![i] = "CLAIMED"]
                /\ refresher' = [refresher EXCEPT !.pc = "fill", !.slot = i]
             \/ /\ refresher' = [refresher EXCEPT !.pc = "free", !.then = "signal",
                                      !.to_free = refresher.hand, !.hand = {}]
                /\ UNCHANGED status_map
        <3>1. (curr_idx + 1) % RingSize \in Ring
            BY RingAssumption DEF Ring
        <3>2. QED
            BY <1>13, <3>1 DEF ClaimSlot
    <2>2. refresher.pc = "claim" /\ UNCHANGED <<pages_to_zero, zeroer>>
        BY <1>13 DEF ClaimSlot
    <2>3. CASE /\ status_map[i] = "OPEN"
               /\ status_map' = [status_map EXCEPT ![i] = "CLAIMED"]
               /\ refresher' = [refresher EXCEPT !.pc = "fill", !.slot = i]
        <3>1. Filled' = Filled
            BY <2>2, <2>3
        <3>2. QED
            BY <2>2, <2>3, <3>1
    <2>4. CASE /\ refresher' = [refresher EXCEPT !.pc = "free", !.then = "signal",
                                    !.to_free = refresher.hand, !.hand = {}]
               /\ UNCHANGED status_map
        BY <2>2, <2>4
    <2>5. QED
        BY <2>1, <2>3, <2>4
<1>14. CASE FillSlot
    BY <1>14 DEF FillSlot
<1>15. CASE PublishSlot
    BY <1>15 DEF PublishSlot
<1>16. CASE CountSlot
    BY <1>16 DEF CountSlot
<1>17. CASE SignalZeroing
    BY <1>17 DEF SignalZeroing, Returned
<1>18. CASE EndRefresh
    BY <1>18 DEF EndRefresh, Resting
<1>19. CASE StartZeroing
    BY <1>19 DEF StartZeroing
<1>20. CASE ScanSlot
    BY <1>20 DEF ScanSlot, NextSlot
<1>21. CASE OpenSlot
    BY <1>21 DEF OpenSlot
<1>22. CASE UncountSlot
    BY <1>22 DEF UncountSlot, NextSlot
<1>23. CASE ClearFrames
    BY <1>23 DEF ClearFrames
<1>24. CASE CountZeroed
    BY <1>24 DEF CountZeroed
<1>25. CASE InsertZeroed
    BY <1>25 DEF InsertZeroed
<1>26. CASE EndZeroing
    BY <1>26 DEF EndZeroing
<1>27. CASE UNCHANGED vars
    BY <1>27 DEF vars
<1>28. QED
    BY <1>1, <1>2, <1>3, <1>4, <1>5, <1>6, <1>7, <1>8, <1>9, <1>10, <1>11,
        <1>12, <1>13, <1>14, <1>15, <1>16, <1>17, <1>18, <1>19, <1>20, <1>21,
        <1>22, <1>23, <1>24, <1>25, <1>26, <1>27 DEF Next, Refresh, Zeroing

\* Every step keeps the states of the hands.
LEMMA HandStep ==
    ASSUME StateInv, [Next]_vars
    PROVE  HandStates'
<1>. USE DEF StateInv, TypeOK, HandStates, RefresherAt, ZeroerAt, lists,
            counts, ring, signals
<1>1. CASE \E u \in Users : TakeZeroed(u)
    BY <1>1 DEF TakeZeroed
<1>2. CASE \E u \in Users : TakeFree(u)
    BY <1>2 DEF TakeFree
<1>3. CASE \E u \in Users : TakeStandby(u)
    BY <1>3 DEF TakeStandby
<1>4. CASE \E u \in Users : UseFrame(u)
    BY <1>4 DEF UseFrame
<1>5. CASE \E u \in Users : EndFault(u)
    BY <1>5 DEF EndFault
<1>6. CASE CountBack \/ GiveBack
    BY <1>6 DEF CountBack, GiveBack, lists
<1>7. CASE StartRefresh
    BY <1>7 DEF StartRefresh
<1>8. CASE ChooseRefresh
    BY <1>8 DEF ChooseRefresh
<1>9. CASE PopStandby
    BY <1>9 DEF PopStandby, Returned
<1>10. CASE LowerAvailable
    BY <1>10 DEF LowerAvailable, Returned
<1>11. CASE CountFree
    BY <1>11 DEF CountFree
<1>12. CASE InsertFree
    BY <1>12 DEF InsertFree
<1>13. CASE ClaimSlot
    BY <1>13 DEF ClaimSlot
<1>14. CASE FillSlot
    BY <1>14 DEF FillSlot
<1>15. CASE PublishSlot
    BY <1>15 DEF PublishSlot
<1>16. CASE CountSlot
    BY <1>16 DEF CountSlot
<1>17. CASE SignalZeroing
    BY <1>17 DEF SignalZeroing, Returned
<1>18. CASE EndRefresh
    BY <1>18 DEF EndRefresh, Resting
<1>19. CASE StartZeroing
    BY <1>19 DEF StartZeroing
<1>20. CASE ScanSlot
    BY <1>20 DEF ScanSlot, NextSlot
<1>21. CASE OpenSlot
    BY <1>21 DEF OpenSlot
<1>22. CASE UncountSlot
    BY <1>22 DEF UncountSlot, NextSlot
<1>23. CASE ClearFrames
    BY <1>23 DEF ClearFrames
<1>24. CASE CountZeroed
    BY <1>24 DEF CountZeroed
<1>25. CASE InsertZeroed
    BY <1>25 DEF InsertZeroed
<1>26. CASE EndZeroing
    BY <1>26 DEF EndZeroing
<1>27. CASE UNCHANGED vars
    BY <1>27 DEF vars
<1>28. QED
    BY <1>1, <1>2, <1>3, <1>4, <1>5, <1>6, <1>7, <1>8, <1>9, <1>10, <1>11,
        <1>12, <1>13, <1>14, <1>15, <1>16, <1>17, <1>18, <1>19, <1>20, <1>21,
        <1>22, <1>23, <1>24, <1>25, <1>26, <1>27 DEF Next, Refresh, Zeroing

\* No step leaves a ready slot behind.
LEMMA ScanStep ==
    ASSUME StateInv, NoSlotForgotten, [Next]_vars
    PROVE  NoSlotForgotten'
<1>. USE RingAssumption DEF StateInv, TypeOK, SlotStates, NoSlotForgotten,
            WillSignal, RefresherAt, ZeroerAt, Ring, lists, counts, ring,
            signals
<1>1. CASE \E u \in Users : TakeZeroed(u)
    BY <1>1 DEF TakeZeroed
<1>2. CASE \E u \in Users : TakeFree(u)
    BY <1>2 DEF TakeFree
<1>3. CASE \E u \in Users : TakeStandby(u)
    BY <1>3 DEF TakeStandby
<1>4. CASE \E u \in Users : UseFrame(u)
    BY <1>4 DEF UseFrame
<1>5. CASE \E u \in Users : EndFault(u)
    BY <1>5 DEF EndFault
<1>6. CASE CountBack \/ GiveBack
    BY <1>6 DEF CountBack, GiveBack, lists
<1>7. CASE StartRefresh
    BY <1>7 DEF StartRefresh
<1>8. CASE ChooseRefresh
    BY <1>8 DEF ChooseRefresh
<1>9. CASE PopStandby
    BY <1>9 DEF PopStandby, Returned
<1>10. CASE LowerAvailable
    BY <1>10 DEF LowerAvailable, Returned
<1>11. CASE CountFree
    BY <1>11 DEF CountFree
<1>12. CASE InsertFree
    BY <1>12 DEF InsertFree
<1>13. CASE ClaimSlot
    BY <1>13 DEF ClaimSlot
<1>14. CASE FillSlot
    BY <1>14 DEF FillSlot
<1>15. CASE PublishSlot
    BY <1>15 DEF PublishSlot
<1>16. CASE CountSlot
    BY <1>16 DEF CountSlot
<1>17. CASE SignalZeroing
    BY <1>17 DEF SignalZeroing, Returned
<1>18. CASE EndRefresh
    BY <1>18 DEF EndRefresh, Resting
<1>19. CASE StartZeroing
    BY <1>19 DEF StartZeroing
<1>20. CASE ScanSlot
    BY <1>20 DEF ScanSlot, NextSlot
<1>21. CASE OpenSlot
    BY <1>21 DEF OpenSlot
<1>22. CASE UncountSlot
    BY <1>22 DEF UncountSlot, NextSlot
<1>23. CASE ClearFrames
    BY <1>23 DEF ClearFrames
<1>24. CASE CountZeroed
    BY <1>24 DEF CountZeroed
<1>25. CASE InsertZeroed
    BY <1>25 DEF InsertZeroed
<1>26. CASE EndZeroing
    BY <1>26 DEF EndZeroing
<1>27. CASE UNCHANGED vars
    BY <1>27 DEF vars
<1>28. QED
    BY <1>1, <1>2, <1>3, <1>4, <1>5, <1>6, <1>7, <1>8, <1>9, <1>10, <1>11,
        <1>12, <1>13, <1>14, <1>15, <1>16, <1>17, <1>18, <1>19, <1>20, <1>21,
        <1>22, <1>23, <1>24, <1>25, <1>26, <1>27 DEF Next, Refresh, Zeroing

\* The invariants of slots and hands, and with them that no slot is forgotten,
\* hold in every reachable state.
THEOREM Invariance == Spec => [](StateInv /\ NoSlotForgotten)
<1>1. Init => StateInv /\ NoSlotForgotten
    BY InitStateInv DEF Init, NoSlotForgotten
<1>2. StateInv /\ NoSlotForgotten /\ [Next]_vars
        => (StateInv /\ NoSlotForgotten)'
    BY TypeStep, SlotStep, HandStep, ScanStep DEF StateInv
<1>3. QED
    BY <1>1, <1>2, PTL DEF Spec

\* Type correctness.  That the ring only names frames where a thread looks for
\* one rests on who has claimed which slot.
THEOREM TypeCorrectness == Spec => []TypeOK
<1>1. StateInv /\ NoSlotForgotten => TypeOK
    BY DEF StateInv
<1>2. QED
    BY <1>1, Invariance, PTL

\* A frame in the ring is never left there: the zeroing thread has yet to come to
\* its slot in this scan, or is or will be signalled to scan again.
THEOREM NeverForgotten == Spec => []NoSlotForgotten
<1>1. StateInv /\ NoSlotForgotten => NoSlotForgotten
    OBVIOUS
<1>2. QED
    BY <1>1, Invariance, PTL

=============================================================================
