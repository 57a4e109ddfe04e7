----------------------- MODULE PageZeroingFrameProofs -----------------------
(***************************************************************************)
(* Proofs about where the frames of PageZeroing are.  Every step moves a   *)
(* set of frames from one place to another or leaves all where they are;   *)
(* so the places partition the frames for good, what is on the zero lists  *)
(* has been zeroed, and each counter is the size of a set that is named    *)
(* below.                                                                  *)
(***************************************************************************)
EXTENDS PageZeroingProofs

\* The frames in the ring and those that users have in hand.
Queued == {pages_to_zero[i] : i \in Filled}
Held == UNION {user[u].hand : u \in Users}

\* A step takes the frames S from the place p to the place q.
Move(p, q, S) ==
    /\ p \in 1 .. 9 /\ q \in 1 .. 9 /\ p # q
    /\ S \subseteq Places[p]
    /\ Places'[p] = Places[p] \ S
    /\ Places'[q] = Places[q] \cup S
    /\ \A k \in 1 .. 9 \ {p, q} : Places'[k] = Places[k]

Partition == /\ \A f \in Frames : \E p \in 1 .. 9 : f \in Places[p]
             /\ \A p, q \in 1 .. 9 : p # q => Places[p] \cap Places[q] = {}
RingApart == \A i, j \in Filled : i # j => pages_to_zero[i] # pages_to_zero[j]
HandsApart == \A u, v \in Users : u # v => user[u].hand \cap user[v].hand = {}

\* The places by name.
LEMMA PlacesNamed ==
    /\ DOMAIN Places = 1 .. 9
    /\ Places[1] = standby /\ Places[2] = free /\ Places[3] = zero
    /\ Places[4] = in_use /\ Places[5] = refresher.hand
    /\ Places[6] = refresher.to_free /\ Places[7] = zeroer.hand
    /\ Places[8] = Queued /\ Places[9] = Held
BY DEF Places, Queued, Held

\* The places by name, after a step.
LEMMA PlacesNamedNext ==
    /\ DOMAIN Places' = 1 .. 9
    /\ Places'[1] = standby' /\ Places'[2] = free' /\ Places'[3] = zero'
    /\ Places'[4] = in_use' /\ Places'[5] = refresher'.hand
    /\ Places'[6] = refresher'.to_free /\ Places'[7] = zeroer'.hand
    /\ Places'[8] = Queued' /\ Places'[9] = Held'
BY DEF Places, Queued, Held

\* FramesOnce in its three parts.
LEMMA FramesOnceParts == FramesOnce <=> Partition /\ RingApart /\ HandsApart
BY PlacesNamed DEF FramesOnce, Partition, RingApart, HandsApart

\* FramesOnce in its three parts, after a step.
LEMMA FramesOncePartsNext ==
    Partition' /\ RingApart' /\ HandsApart' => FramesOnce'
BY PlacesNamedNext DEF FramesOnce, Partition, RingApart, HandsApart

\* Moving frames from place to place keeps the partition.
LEMMA MoveKeepsPartition ==
    ASSUME Partition, NEW p, NEW q, NEW S, Move(p, q, S)
    PROVE  Partition'
BY ZenonT(30) DEF Partition, Move

\* When no frame is moved the partition stays.
LEMMA StayKeepsPartition ==
    ASSUME Partition, \A k \in 1 .. 9 : Places'[k] = Places[k]
    PROVE  Partition'
BY DEF Partition

\* A slot that the ring gains gets a frame the ring did not have.
LEMMA RingGains ==
    ASSUME RingApart, NEW f, f \notin Queued, NEW i \in Ring, i \notin Filled,
           Filled' = Filled \cup {i}, pages_to_zero'[i] = f,
           \A j \in Filled : pages_to_zero'[j] = pages_to_zero[j]
    PROVE  RingApart' /\ Queued' = Queued \cup {f}
BY DEF RingApart, Queued

\* A slot that the ring loses takes its frame with it.
LEMMA RingLoses ==
    ASSUME RingApart, NEW i \in Filled, Filled' = Filled \ {i},
           pages_to_zero' = pages_to_zero
    PROVE  RingApart' /\ Queued' = Queued \ {pages_to_zero[i]}
BY DEF RingApart, Queued

\* A user with empty hands takes a frame no user has.
LEMMA HandGains ==
    ASSUME HandsApart, NEW P, user \in [Users -> [pc : P, hand : SUBSET Frames]],
           NEW u \in Users, user[u].hand = {}, NEW f, f \notin Held, NEW c,
           user' = [user EXCEPT ![u] = [pc |-> c, hand |-> {f}]]
    PROVE  HandsApart' /\ Held' = Held \cup {f}
BY DEF HandsApart, Held

\* A user puts down what it has in hand.
LEMMA HandLoses ==
    ASSUME HandsApart, NEW P, user \in [Users -> [pc : P, hand : SUBSET Frames]],
           NEW u \in Users, NEW c,
           user' = [user EXCEPT ![u] = [pc |-> c, hand |-> {}]]
    PROVE  HandsApart' /\ Held' = Held \ user[u].hand
BY DEF HandsApart, Held

\* Steps that move a set S from one place to another, both outside of the ring
\* and of the users' hands.
LEMMA MoveOutside ==
    ASSUME FramesOnce, NEW p \in 1 .. 7, NEW q \in 1 .. 7, p # q, NEW S,
           S \subseteq Places[p],
           Places'[p] = Places[p] \ S, Places'[q] = Places[q] \cup S,
           \A k \in 1 .. 7 \ {p, q} : Places'[k] = Places[k],
           Filled' = Filled, UNCHANGED <<pages_to_zero, user>>
    PROVE  FramesOnce'
<1>1. /\ Queued' = Queued /\ Held' = Held
      /\ RingApart' /\ HandsApart'
    BY FramesOnceParts DEF Queued, Held, RingApart, HandsApart
<1>2. Move(p, q, S)
    BY <1>1, PlacesNamed, PlacesNamedNext DEF Move
<1>3. QED
    BY <1>1, <1>2, FramesOnceParts, FramesOncePartsNext, MoveKeepsPartition

\* Steps that move no frame.
LEMMA NothingMoved ==
    ASSUME FramesOnce, UNCHANGED <<lists, pages_to_zero, user>>,
           refresher'.hand = refresher.hand,
           refresher'.to_free = refresher.to_free,
           zeroer'.hand = zeroer.hand, Filled' = Filled
    PROVE  FramesOnce'
<1>1. /\ Queued' = Queued /\ Held' = Held
      /\ RingApart' /\ HandsApart'
    BY FramesOnceParts DEF Queued, Held, RingApart, HandsApart
<1>2. \A k \in 1 .. 9 : Places'[k] = Places[k]
    BY <1>1, PlacesNamed, PlacesNamedNext DEF lists
<1>3. QED
    BY <1>1, <1>2, FramesOnceParts, FramesOncePartsNext, StayKeepsPartition

\* A user takes a frame off the list p.
LEMMA UserTakes ==
    ASSUME StateInv, FramesOnce, NEW u \in Users, user[u].pc = "run",
           NEW p \in 1 .. 3, NEW f \in Places[p], NEW c,
           user' = [user EXCEPT ![u] = [pc |-> c, hand |-> {f}]],
           Places'[p] = Places[p] \ {f},
           \A k \in 1 .. 7 \ {p} : Places'[k] = Places[k],
           Filled' = Filled, UNCHANGED pages_to_zero
    PROVE  FramesOnce'
<1>1. /\ user \in [Users -> [pc : {"run", "zero", "free", "standby", "end"},
                            hand : SUBSET Frames]]
      /\ user[u].hand = {}
    BY DEF StateInv, TypeOK, HandStates
<1>2. f \notin Held
    BY FramesOnceParts, PlacesNamed DEF Partition
<1>3. HandsApart' /\ Held' = Held \cup {f}
    BY <1>1, <1>2, FramesOnceParts, HandGains
<1>4. Queued' = Queued /\ RingApart'
    BY FramesOnceParts DEF Queued, RingApart
<1>5. Move(p, 9, {f})
    BY <1>3, <1>4, PlacesNamed, PlacesNamedNext DEF Move
<1>6. QED
    BY <1>3, <1>4, <1>5, FramesOnceParts, FramesOncePartsNext, MoveKeepsPartition

\* Every step moves frames from one place to one other, or none.
LEMMA FramesOnceStep ==
    ASSUME StateInv, FramesOnce, [Next]_vars
    PROVE  FramesOnce'
<1>. USE DEF RefresherAt, ZeroerAt, Filled, lists, ring
<1>1. CASE \E u \in Users : TakeZeroed(u)
    <2>1. PICK u \in Users, f \in zero :
             /\ user[u].pc = "run"
             /\ zero' = zero \ {f}
             /\ user' = [user EXCEPT ![u] = [pc |-> "zero", hand |-> {f}]]
        BY <1>1 DEF TakeZeroed
    <2>2. /\ Filled' = Filled /\ UNCHANGED pages_to_zero
          /\ \A k \in 1 .. 7 \ {3} : Places'[k] = Places[k]
        BY <1>1, PlacesNamed, PlacesNamedNext DEF TakeZeroed
    <2>3. f \in Places[3] /\ Places'[3] = Places[3] \ {f}
        BY <2>1, PlacesNamed, PlacesNamedNext
    <2>4. 3 \in 1 .. 3
        OBVIOUS
    <2>5. QED
        <3>. HIDE DEF Filled, lists, ring
        <3>. QED
            BY <2>1, <2>2, <2>3, <2>4, UserTakes
<1>2. CASE \E u \in Users : TakeFree(u)
    <2>1. PICK u \in Users, f \in free :
             /\ user[u].pc = "run"
             /\ free' = free \ {f}
             /\ user' = [user EXCEPT ![u] = [pc |-> "free", hand |-> {f}]]
        BY <1>2 DEF TakeFree
    <2>2. /\ Filled' = Filled /\ UNCHANGED pages_to_zero
          /\ \A k \in 1 .. 7 \ {2} : Places'[k] = Places[k]
        BY <1>2, PlacesNamed, PlacesNamedNext DEF TakeFree
    <2>3. f \in Places[2] /\ Places'[2] = Places[2] \ {f}
        BY <2>1, PlacesNamed, PlacesNamedNext
    <2>4. 2 \in 1 .. 3
        OBVIOUS
    <2>5. QED
        <3>. HIDE DEF Filled, lists, ring
        <3>. QED
            BY <2>1, <2>2, <2>3, <2>4, UserTakes
<1>3. CASE \E u \in Users : TakeStandby(u)
    <2>1. PICK u \in Users, f \in standby :
             /\ user[u].pc = "run"
             /\ standby' = standby \ {f}
             /\ user' = [user EXCEPT ![u] = [pc |-> "standby", hand |-> {f}]]
        BY <1>3 DEF TakeStandby
    <2>2. /\ Filled' = Filled /\ UNCHANGED pages_to_zero
          /\ \A k \in 1 .. 7 \ {1} : Places'[k] = Places[k]
        BY <1>3, PlacesNamed, PlacesNamedNext DEF TakeStandby
    <2>3. f \in Places[1] /\ Places'[1] = Places[1] \ {f}
        BY <2>1, PlacesNamed, PlacesNamedNext
    <2>4. 1 \in 1 .. 3
        OBVIOUS
    <2>5. QED
        <3>. HIDE DEF Filled, lists, ring
        <3>. QED
            BY <2>1, <2>2, <2>3, <2>4, UserTakes
<1>4. CASE \E u \in Users : UseFrame(u)
    <2>1. PICK u \in Users :
             /\ in_use' = in_use \cup user[u].hand
             /\ user' = [user EXCEPT ![u] = [pc |-> "end", hand |-> {}]]
        BY <1>4 DEF UseFrame
    <2>2. user \in [Users -> [pc : {"run", "zero", "free", "standby", "end"},
                              hand : SUBSET Frames]]
        BY DEF StateInv, TypeOK
    <2>3. HandsApart' /\ Held' = Held \ user[u].hand
        BY <2>1, <2>2, FramesOnceParts, HandLoses
    <2>4. /\ Filled' = Filled /\ UNCHANGED pages_to_zero
          /\ \A k \in 1 .. 7 \ {4} : Places'[k] = Places[k]
        BY <1>4, PlacesNamed, PlacesNamedNext DEF UseFrame
    <2>5. Queued' = Queued /\ RingApart'
        BY <2>4, FramesOnceParts DEF Queued, RingApart
    <2>6. user[u].hand \subseteq Held
        BY DEF Held
    <2>7. Move(9, 4, user[u].hand)
        BY <2>1, <2>3, <2>4, <2>5, <2>6, PlacesNamed, PlacesNamedNext DEF Move
    <2>8. QED
        BY <2>3, <2>5, <2>7, FramesOnceParts, FramesOncePartsNext,
            MoveKeepsPartition
<1>5. CASE \E u \in Users : EndFault(u)
    <2>1. PICK u \in Users :
             /\ user' = [user EXCEPT ![u].pc = "run"]
             /\ UNCHANGED <<lists, ring, refresher, zeroer>>
        BY <1>5 DEF EndFault
    <2>2. \A v \in Users : user'[v].hand = user[v].hand
        BY <2>1 DEF StateInv, TypeOK
    <2>3. /\ Queued' = Queued /\ Held' = Held
          /\ RingApart' /\ HandsApart'
        BY <2>1, <2>2, FramesOnceParts DEF Queued, Held, RingApart, HandsApart
    <2>4. \A k \in 1 .. 9 : Places'[k] = Places[k]
        BY <2>1, <2>3, PlacesNamed, PlacesNamedNext
    <2>5. QED
        BY <2>3, <2>4, FramesOnceParts, FramesOncePartsNext, StayKeepsPartition
<1>29. CASE CountBack
    BY <1>29, NothingMoved DEF CountBack, ring, Filled, RefresherAt, ZeroerAt
<1>6. CASE GiveBack
    <2>1. PICK f \in in_use :
             /\ in_use' = in_use \ {f}
             /\ standby' = standby \cup {f}
        BY <1>6 DEF GiveBack
    <2>2. Filled' = Filled /\ UNCHANGED <<free, zero, refresher, zeroer,
                                         pages_to_zero, user>>
        BY <1>6 DEF GiveBack
    <2>3. PICK S : S = {f}
        OBVIOUS
    <2>4. /\ S \subseteq Places[4]
          /\ Places'[4] = Places[4] \ S /\ Places'[1] = Places[1] \cup S
          /\ \A k \in 1 .. 7 \ {4, 1} : Places'[k] = Places[k]
        BY <2>1, <2>2, <2>3, PlacesNamed, PlacesNamedNext
    <2>5. QED
        BY <2>2, <2>4, MoveOutside
<1>7. CASE StartRefresh
    BY <1>7, NothingMoved DEF StartRefresh, StateInv, TypeOK
<1>8. CASE ChooseRefresh
    BY <1>8, NothingMoved DEF ChooseRefresh, StateInv, TypeOK
<1>9. CASE PopStandby
    <2>1. PICK S \in SUBSET standby :
             /\ standby' = standby \ S
             /\ refresher' = IF S = {} THEN [refresher EXCEPT !.pc = Returned]
                             ELSE [refresher EXCEPT !.pc = "lower", !.hand = S]
        BY <1>9 DEF PopStandby
    <2>2. /\ refresher.pc = "pop"
          /\ UNCHANGED <<free, zero, in_use, zeroer, ring, user>>
        BY <1>9 DEF PopStandby
    <2>3. /\ refresher'.hand = refresher.hand \cup S
          /\ refresher'.to_free = refresher.to_free
          /\ refresher'.pc # "publish"
        BY <2>1, <2>2 DEF StateInv, TypeOK, HandStates, Returned
    <2>4. Filled' = Filled
        BY <2>2, <2>3
    <2>5. /\ S \subseteq Places[1]
          /\ Places'[1] = Places[1] \ S /\ Places'[5] = Places[5] \cup S
          /\ \A k \in 1 .. 7 \ {1, 5} : Places'[k] = Places[k]
        BY <2>1, <2>2, <2>3, PlacesNamed, PlacesNamedNext
    <2>6. QED
        BY <2>2, <2>4, <2>5, MoveOutside
<1>10. CASE LowerAvailable
    <2>1. PICK S \in SUBSET refresher.hand :
             refresher' = [refresher EXCEPT
                              !.pc = IF S = {} THEN "claim" ELSE "free",
                              !.hand = @ \ S, !.to_free = S,
                              !.then = IF refresher.hand = S THEN Returned
                                       ELSE "claim"]
        BY <1>10 DEF LowerAvailable
    <2>2. /\ refresher.pc = "lower"
          /\ UNCHANGED <<lists, zeroer, ring, user>>
        BY <1>10 DEF LowerAvailable
    <2>3. /\ refresher'.hand = refresher.hand \ S
          /\ refresher'.to_free = refresher.to_free \cup S
          /\ refresher'.pc # "publish"
        BY <2>1, <2>2 DEF StateInv, TypeOK, HandStates
    <2>4. Filled' = Filled
        BY <2>2, <2>3
    <2>5. /\ S \subseteq Places[5]
          /\ Places'[5] = Places[5] \ S /\ Places'[6] = Places[6] \cup S
          /\ \A k \in 1 .. 7 \ {5, 6} : Places'[k] = Places[k]
        BY <2>1, <2>2, <2>3, PlacesNamed, PlacesNamedNext
    <2>6. QED
        BY <2>2, <2>4, <2>5, MoveOutside
<1>11. CASE CountFree
    BY <1>11, NothingMoved DEF CountFree, StateInv, TypeOK
<1>12. CASE InsertFree
    <2>1. /\ free' = free \cup refresher.to_free
          /\ refresher'.hand = refresher.hand /\ refresher'.to_free = {}
          /\ UNCHANGED <<standby, zero, in_use, zeroer, ring, user>>
          /\ Filled' = Filled
        BY <1>12 DEF InsertFree, StateInv, TypeOK
    <2>2. /\ Places'[6] = Places[6] \ refresher.to_free
          /\ Places'[2] = Places[2] \cup refresher.to_free
          /\ \A k \in 1 .. 7 \ {6, 2} : Places'[k] = Places[k]
        BY <2>1, PlacesNamed, PlacesNamedNext
    <2>3. QED
        BY <2>1, <2>2, PlacesNamed, MoveOutside
<1>13. CASE ClaimSlot
    <2>1. PICK i \in Ring :
             \/ /\ status_map[i] = "OPEN"
                /\ status_map' = [status_map EXCEPT ![i] = "CLAIMED"]
                /\ refresher' = [refresher EXCEPT !.pc = "fill", !.slot = i]
             \/ /\ refresher' = [refresher EXCEPT !.pc = "free", !.then = "signal",
                                      !.to_free = refresher.hand, !.hand = {}]
                /\ UNCHANGED status_map
        <3>1. (curr_idx + 1) % RingSize \in Ring
            BY RingAssumption DEF Ring, StateInv, TypeOK
        <3>2. QED
            BY <1>13, <3>1 DEF ClaimSlot
    <2>2. /\ refresher.pc = "claim"
          /\ UNCHANGED <<lists, pages_to_zero, zeroer, user>>
        BY <1>13 DEF ClaimSlot
    <2>3. CASE /\ status_map[i] = "OPEN"
               /\ status_map' = [status_map EXCEPT ![i] = "CLAIMED"]
               /\ refresher' = [refresher EXCEPT !.pc = "fill", !.slot = i]
        <3>1. Filled' = Filled
            BY <2>2, <2>3 DEF StateInv, TypeOK
        <3>2. /\ refresher'.hand = refresher.hand
              /\ refresher'.to_free = refresher.to_free
            BY <2>3 DEF StateInv, TypeOK
        <3>3. QED
            BY <2>2, <3>1, <3>2, NothingMoved
    <2>4. CASE /\ refresher' = [refresher EXCEPT !.pc = "free", !.then = "signal",
                                    !.to_free = refresher.hand, !.hand = {}]
               /\ UNCHANGED status_map
        <3>1. /\ refresher'.hand = {}
              /\ refresher'.to_free = refresher.to_free \cup refresher.hand
            BY <2>2, <2>4 DEF StateInv, TypeOK, HandStates
        <3>2. Filled' = Filled
            BY <2>2, <2>4 DEF StateInv, TypeOK
        <3>3. /\ Places'[5] = Places[5] \ refresher.hand
              /\ Places'[6] = Places[6] \cup refresher.hand
              /\ \A k \in 1 .. 7 \ {5, 6} : Places'[k] = Places[k]
            BY <2>2, <3>1, PlacesNamed, PlacesNamedNext
        <3>4. QED
            BY <2>2, <3>2, <3>3, PlacesNamed, MoveOutside
    <2>5. QED
        BY <2>1, <2>3, <2>4
<1>14. CASE FillSlot
    <2>. DEFINE i == refresher.slot
    <2>1. PICK f \in refresher.hand :
             /\ pages_to_zero' = [pages_to_zero EXCEPT ![i] = f]
             /\ refresher' = [refresher EXCEPT !.pc = "publish", !.hand = @ \ {f}]
        BY <1>14 DEF FillSlot
    <2>2. /\ refresher.pc = "fill"
          /\ UNCHANGED <<lists, status_map, zeroer, user>>
        BY <1>14 DEF FillSlot
    <2>3. i \in Ring /\ status_map[i] = "CLAIMED"
        BY <2>2 DEF StateInv, TypeOK, SlotStates
    <2>4. i \notin Filled /\ Filled' = Filled \cup {i}
        BY <2>1, <2>2, <2>3 DEF StateInv, TypeOK
    <2>5. /\ pages_to_zero'[i] = f
          /\ \A j \in Filled : pages_to_zero'[j] = pages_to_zero[j]
        BY <2>1, <2>3, <2>4 DEF StateInv, TypeOK
    <2>6. f \notin Queued
        BY FramesOnceParts, PlacesNamed DEF Partition
    <2>7. RingApart' /\ Queued' = Queued \cup {f}
        BY <2>3, <2>4, <2>5, <2>6, FramesOnceParts, RingGains
    <2>8. Held' = Held /\ HandsApart'
        BY <2>2, FramesOnceParts DEF Held, HandsApart
    <2>9. /\ refresher'.hand = refresher.hand \ {f}
          /\ refresher'.to_free = refresher.to_free
        BY <2>1 DEF StateInv, TypeOK
    <2>10. Move(5, 8, {f})
        BY <2>2, <2>7, <2>8, <2>9, PlacesNamed, PlacesNamedNext DEF Move
    <2>11. QED
        BY <2>7, <2>8, <2>10, FramesOnceParts, FramesOncePartsNext,
            MoveKeepsPartition
<1>15. CASE PublishSlot
    <2>1. Filled' = Filled
        BY <1>15 DEF PublishSlot, StateInv, TypeOK, SlotStates
    <2>2. QED
        BY <1>15, <2>1, NothingMoved DEF PublishSlot, StateInv, TypeOK
<1>16. CASE CountSlot
    <2>1. /\ refresher'.pc # "publish" /\ refresher'.hand = refresher.hand
          /\ refresher'.to_free = refresher.to_free
        BY <1>16 DEF CountSlot, StateInv, TypeOK
    <2>2. /\ refresher.pc = "count"
          /\ UNCHANGED <<lists, status_map, pages_to_zero, zeroer, user>>
        BY <1>16 DEF CountSlot
    <2>3. QED
        BY <2>1, <2>2, NothingMoved
<1>17. CASE SignalZeroing
    BY <1>17, NothingMoved DEF SignalZeroing, Returned, StateInv, TypeOK
<1>18. CASE EndRefresh
    BY <1>18, NothingMoved DEF EndRefresh, Resting, StateInv, HandStates
<1>19. CASE StartZeroing
    BY <1>19, NothingMoved DEF StartZeroing, StateInv, TypeOK
<1>20. CASE ScanSlot
    <2>. DEFINE i == zeroer.slot
                f == pages_to_zero[i]
    <2>1. CASE status_map[i] = "READY"
        <3>1. /\ zeroer.pc = "scan"
              /\ UNCHANGED <<lists, ring, refresher, user>>
            BY <1>20 DEF ScanSlot
        <3>2. /\ zeroer'.pc = "open" /\ zeroer'.slot = i
              /\ zeroer'.hand = zeroer.hand \cup {f}
            BY <1>20, <2>1 DEF ScanSlot, StateInv, TypeOK
        <3>3. i \in Filled /\ Filled' = Filled \ {i}
            BY <2>1, <3>1, <3>2 DEF StateInv, TypeOK, SlotStates
        <3>4. RingApart' /\ Queued' = Queued \ {f}
            BY <3>1, <3>3, FramesOnceParts, RingLoses
        <3>5. Held' = Held /\ HandsApart'
            BY <3>1, FramesOnceParts DEF Held, HandsApart
        <3>6. f \in Queued
            BY <3>3 DEF Queued
        <3>7. Move(8, 7, {f})
            BY <3>1, <3>2, <3>4, <3>5, <3>6, PlacesNamed, PlacesNamedNext
                DEF Move
        <3>8. QED
            BY <3>4, <3>5, <3>7, FramesOnceParts, FramesOncePartsNext,
                MoveKeepsPartition
    <2>2. CASE status_map[i] # "READY"
        BY <1>20, <2>2, NothingMoved DEF ScanSlot, NextSlot, StateInv, TypeOK
    <2>3. QED
        BY <2>1, <2>2
<1>21. CASE OpenSlot
    <2>1. Filled' = Filled
        BY <1>21 DEF OpenSlot, StateInv, TypeOK, SlotStates
    <2>2. QED
        BY <1>21, <2>1, NothingMoved DEF OpenSlot, StateInv, TypeOK
<1>22. CASE UncountSlot
    BY <1>22, NothingMoved DEF UncountSlot, NextSlot, StateInv, TypeOK
<1>23. CASE ClearFrames
    BY <1>23, NothingMoved DEF ClearFrames, StateInv, TypeOK
<1>24. CASE CountZeroed
    BY <1>24, NothingMoved DEF CountZeroed, StateInv, TypeOK
<1>25. CASE InsertZeroed
    <2>1. /\ zero' = zero \cup zeroer.hand
          /\ zeroer'.hand = {}
          /\ UNCHANGED <<standby, free, in_use, refresher, ring, user>>
          /\ Filled' = Filled
        BY <1>25 DEF InsertZeroed, StateInv, TypeOK
    <2>2. /\ Places'[7] = Places[7] \ zeroer.hand
          /\ Places'[3] = Places[3] \cup zeroer.hand
          /\ \A k \in 1 .. 7 \ {7, 3} : Places'[k] = Places[k]
        BY <2>1, PlacesNamed, PlacesNamedNext
    <2>3. QED
        BY <2>1, <2>2, PlacesNamed, MoveOutside, SMTT(20)
<1>26. CASE EndZeroing
    BY <1>26, NothingMoved DEF EndZeroing, StateInv, TypeOK
<1>27. CASE UNCHANGED vars
    BY <1>27, NothingMoved DEF vars
<1>28. QED
    BY <1>1, <1>2, <1>3, <1>4, <1>5, <1>6, <1>7, <1>8, <1>9, <1>10, <1>11,
        <1>12, <1>13, <1>14, <1>15, <1>16, <1>17, <1>18, <1>19, <1>20, <1>21,
        <1>22, <1>23, <1>24, <1>25, <1>26, <1>27, <1>29 DEF Next, Refresh, Zeroing

\* Initially all frames are on the zero lists.
LEMMA InitFramesOnce == Init => FramesOnce
<1>. SUFFICES ASSUME Init PROVE FramesOnce
    OBVIOUS
<1>1. /\ standby = {} /\ zero = Frames /\ free = {} /\ in_use = {}
      /\ refresher.hand = {} /\ refresher.to_free = {} /\ zeroer.hand = {}
    BY DEF Init, Resting
<1>2. Filled = {}
    BY DEF Init, Resting, Filled, RefresherAt, ZeroerAt
<1>3. Queued = {} /\ Held = {} /\ RingApart /\ HandsApart
    BY <1>2 DEF Init, Queued, Held, RingApart, HandsApart
<1>4. Partition
    BY <1>1, <1>3, PlacesNamed DEF Partition
<1>5. QED
    BY <1>3, <1>4, FramesOnceParts

\* No frame is lost between the threads, in two slots of the ring, or on a list
\* while a thread works on it.
THEOREM FramesInOnePlace == Spec => []FramesOnce
<1>1. StateInv /\ FramesOnce /\ [Next]_vars => FramesOnce'
    BY FramesOnceStep
<1>2. StateInv /\ NoSlotForgotten => StateInv
    OBVIOUS
<1>3. QED
    BY <1>1, <1>2, InitFramesOnce, Invariance, PTL DEF Spec

----------------------------------------------------------------------------
(* What is on the zero lists *)

\* The zeroing thread lists only what it has cleared.
ClearedInv == /\ ZeroListsZeroed
              /\ zeroer.pc \in {"count", "insert"} => zeroer.hand \subseteq zeroed

\* Between clearing and listing no other thread has the frames.
LEMMA ClearedStep ==
    ASSUME StateInv, FramesOnce, ClearedInv, [Next]_vars
    PROVE  ClearedInv'
<1>. USE DEF StateInv, TypeOK, ClearedInv, ZeroListsZeroed, RefresherAt,
             ZeroerAt, lists
<1>1. CASE \E u \in Users : TakeZeroed(u)
    BY <1>1 DEF TakeZeroed
<1>2. CASE \E u \in Users : TakeFree(u)
    BY <1>2 DEF TakeFree
<1>3. CASE \E u \in Users : TakeStandby(u)
    BY <1>3 DEF TakeStandby
<1>4. CASE \E u \in Users : UseFrame(u)
    <2>1. PICK u \in Users :
             /\ zeroed' = zeroed \ user[u].hand
             /\ UNCHANGED <<zero, zeroer>>
        BY <1>4 DEF UseFrame
    <2>2. user[u].hand \subseteq Held
        BY DEF Held
    <2>3. Held \cap zero = {} /\ Held \cap zeroer.hand = {}
        BY FramesOnceParts, PlacesNamed DEF Partition
    <2>4. QED
        BY <2>1, <2>2, <2>3
<1>5. CASE \E u \in Users : EndFault(u)
    BY <1>5 DEF EndFault
<1>6. CASE CountBack \/ GiveBack
    BY <1>6 DEF CountBack, GiveBack, lists
<1>7. CASE StartRefresh
    BY <1>7 DEF StartRefresh
<1>8. CASE ChooseRefresh
    BY <1>8 DEF ChooseRefresh
<1>9. CASE PopStandby
    BY <1>9 DEF PopStandby
<1>10. CASE LowerAvailable
    BY <1>10 DEF LowerAvailable
<1>11. CASE CountFree
    BY <1>11 DEF CountFree
<1>12. CASE InsertFree
    BY <1>12 DEF InsertFree
<1>13. CASE ClaimSlot
    BY <1>13 DEF ClaimSlot
<1>14. CASE FillSlot
    BY <1>14 DEF FillSlot
<1>15. CASE PublishSlot
    BY <1>15 DEF PublishSlot
<1>16. CASE CountSlot
    BY <1>16 DEF CountSlot
<1>17. CASE SignalZeroing
    BY <1>17 DEF SignalZeroing
<1>18. CASE EndRefresh
    BY <1>18 DEF EndRefresh
<1>19. CASE StartZeroing
    BY <1>19 DEF StartZeroing
<1>20. CASE ScanSlot
    BY <1>20 DEF ScanSlot, NextSlot
<1>21. CASE OpenSlot
    BY <1>21 DEF OpenSlot
<1>22. CASE UncountSlot
    BY <1>22 DEF UncountSlot, NextSlot
<1>23. CASE ClearFrames
    BY <1>23 DEF ClearFrames
<1>24. CASE CountZeroed
    BY <1>24 DEF CountZeroed
<1>25. CASE InsertZeroed
    BY <1>25 DEF InsertZeroed
<1>26. CASE EndZeroing
    BY <1>26 DEF EndZeroing
<1>27. CASE UNCHANGED vars
    BY <1>27 DEF vars
<1>28. QED
    BY <1>1, <1>2, <1>3, <1>4, <1>5, <1>6, <1>7, <1>8, <1>9, <1>10, <1>11,
        <1>12, <1>13, <1>14, <1>15, <1>16, <1>17, <1>18, <1>19, <1>20, <1>21,
        <1>22, <1>23, <1>24, <1>25, <1>26, <1>27 DEF Next, Refresh, Zeroing

\* Faulters get frames from the zero lists that need no clearing.
THEOREM ZeroListsStayZeroed == Spec => []ZeroListsZeroed
<1>1. Init => ClearedInv
    BY DEF Init, ClearedInv, ZeroListsZeroed
<1>2. StateInv /\ FramesOnce /\ ClearedInv /\ [Next]_vars => ClearedInv'
    BY ClearedStep
<1>3. ClearedInv => ZeroListsZeroed
    BY DEF ClearedInv
<1>4. StateInv /\ NoSlotForgotten => StateInv
    OBVIOUS
<1>5. QED
    BY <1>1, <1>2, <1>3, <1>4, FramesInOnePlace, Invariance, PTL DEF Spec

----------------------------------------------------------------------------
(* The counter of the ring *)

ReadySlots == {i \in Ring : status_map[i] = "READY"}

\* total_slots_used follows the slots that become ready and open again.
LEMMA SlotsCountedStep ==
    ASSUME StateInv, SlotsCounted, [Next]_vars
    PROVE  SlotsCounted'
<1>. USE DEF StateInv, TypeOK, SlotsCounted, RefresherAt, ZeroerAt, ring
<1>a. IsFiniteSet(Ring)
    BY RingAssumption, FS_Interval DEF Ring
<1>b. IsFiniteSet(ReadySlots) /\ Cardinality(ReadySlots) \in Nat
    BY <1>a, FS_Subset, FS_CardinalityType DEF ReadySlots
<1>1. CASE \E u \in Users : TakeZeroed(u)
    BY <1>1 DEF TakeZeroed
<1>2. CASE \E u \in Users : TakeFree(u)
    BY <1>2 DEF TakeFree
<1>3. CASE \E u \in Users : TakeStandby(u)
    BY <1>3 DEF TakeStandby
<1>4. CASE \E u \in Users : UseFrame(u)
    BY <1>4 DEF UseFrame
<1>5. CASE \E u \in Users : EndFault(u)
    BY <1>5 DEF EndFault
<1>6. CASE CountBack \/ GiveBack
    BY <1>6 DEF CountBack, GiveBack, lists
<1>7. CASE StartRefresh
    BY <1>7 DEF StartRefresh
<1>8. CASE ChooseRefresh
    BY <1>8 DEF ChooseRefresh
<1>9. CASE PopStandby
    BY <1>9 DEF PopStandby, Returned
<1>10. CASE LowerAvailable
    BY <1>10 DEF LowerAvailable
<1>11. CASE CountFree
    BY <1>11 DEF CountFree
<1>12. CASE InsertFree
    BY <1>12 DEF InsertFree
<1>13. CASE ClaimSlot
    <2>1. ReadySlots' = ReadySlots
        BY <1>13, RingAssumption DEF ClaimSlot, ReadySlots, Ring
    <2>2. /\ refresher.pc = "claim" /\ refresher'.pc # "count"
          /\ UNCHANGED <<slots_used, zeroer>>
        BY <1>13 DEF ClaimSlot
    <2>3. QED
        BY <2>1, <2>2 DEF ReadySlots
<1>14. CASE FillSlot
    BY <1>14 DEF FillSlot
<1>15. CASE PublishSlot
    <2>1. /\ refresher.pc = "publish" /\ refresher'.pc = "count"
          /\ status_map' = [status_map EXCEPT ![refresher.slot] = "READY"]
          /\ UNCHANGED <<slots_used, zeroer>>
        BY <1>15 DEF PublishSlot
    <2>2. refresher.slot \in Ring /\ status_map[refresher.slot] = "CLAIMED"
        BY <2>1 DEF SlotStates
    <2>3. /\ refresher.slot \notin ReadySlots
          /\ ReadySlots' = ReadySlots \cup {refresher.slot}
        BY <2>1, <2>2 DEF ReadySlots
    <2>4. Cardinality(ReadySlots') = Cardinality(ReadySlots) + 1
        BY ONLY <1>b, <2>3, FS_AddElement
    <2>5. QED
        BY <1>b, <2>1, <2>4 DEF ReadySlots
<1>16. CASE CountSlot
    <2>1. /\ refresher.pc = "count" /\ refresher'.pc # "count"
          /\ slots_used' = slots_used + 1
          /\ UNCHANGED <<status_map, zeroer>>
        BY <1>16 DEF CountSlot
    <2>2. QED
        BY <1>b, <2>1 DEF ReadySlots
<1>17. CASE SignalZeroing
    BY <1>17 DEF SignalZeroing, Returned
<1>18. CASE EndRefresh
    BY <1>18 DEF EndRefresh, Resting
<1>19. CASE StartZeroing
    BY <1>19 DEF StartZeroing
<1>20. CASE ScanSlot
    BY <1>20 DEF ScanSlot, NextSlot
<1>21. CASE OpenSlot
    <2>1. /\ zeroer.pc = "open" /\ zeroer'.pc = "uncount"
          /\ status_map' = [status_map EXCEPT ![zeroer.slot] = "OPEN"]
          /\ UNCHANGED <<slots_used, refresher>>
        BY <1>21 DEF OpenSlot
    <2>2. zeroer.slot \in Ring /\ status_map[zeroer.slot] = "READY"
        BY <2>1 DEF SlotStates
    <2>3. /\ zeroer.slot \in ReadySlots
          /\ ReadySlots' = ReadySlots \ {zeroer.slot}
        BY <2>1, <2>2 DEF ReadySlots
    <2>4. Cardinality(ReadySlots') = Cardinality(ReadySlots) - 1
        BY ONLY <1>b, <2>3, FS_RemoveElement
    <2>5. QED
        BY <1>b, <2>1, <2>4 DEF ReadySlots
<1>22. CASE UncountSlot
    <2>1. /\ zeroer.pc = "uncount" /\ zeroer'.pc # "uncount"
          /\ slots_used' = slots_used - 1
          /\ UNCHANGED <<status_map, refresher>>
        BY <1>22 DEF UncountSlot, NextSlot
    <2>2. QED
        BY <1>b, <2>1 DEF ReadySlots
<1>23. CASE ClearFrames
    BY <1>23 DEF ClearFrames
<1>24. CASE CountZeroed
    BY <1>24 DEF CountZeroed
<1>25. CASE InsertZeroed
    BY <1>25 DEF InsertZeroed
<1>26. CASE EndZeroing
    BY <1>26 DEF EndZeroing
<1>27. CASE UNCHANGED vars
    BY <1>27 DEF vars
<1>28. QED
    BY <1>1, <1>2, <1>3, <1>4, <1>5, <1>6, <1>7, <1>8, <1>9, <1>10, <1>11,
        <1>12, <1>13, <1>14, <1>15, <1>16, <1>17, <1>18, <1>19, <1>20, <1>21,
        <1>22, <1>23, <1>24, <1>25, <1>26, <1>27 DEF Next, Refresh, Zeroing

\* However the two threads take turns, total_slots_used comes out even.
THEOREM SlotsStayCounted == Spec => []SlotsCounted
<1>1. Init => SlotsCounted
    <2>1. SUFFICES ASSUME Init PROVE SlotsCounted
        OBVIOUS
    <2>2. {i \in Ring : status_map[i] = "READY"} = {}
        BY <2>1 DEF Init
    <2>3. QED
        BY <2>1, <2>2, FS_EmptySet, SMTT(20) DEF Init, SlotsCounted, Resting,
            RefresherAt, ZeroerAt
<1>2. StateInv /\ SlotsCounted /\ [Next]_vars => SlotsCounted'
    BY SlotsCountedStep
<1>3. StateInv /\ NoSlotForgotten => StateInv
    OBVIOUS
<1>4. QED
    BY <1>1, <1>2, <1>3, Invariance, PTL DEF Spec

----------------------------------------------------------------------------
(* The counters of the lists *)

\* The frames of users who took them off the list c and have yet to say so.
HeldAt(c) == UNION {user[u].hand : u \in {v \in Users : user[v].pc = c}}

\* The frames that each of the counters counts.
CountedFree == free \cup HeldAt("free")
               \cup (IF RefresherAt("insert") THEN refresher.to_free ELSE {})
CountedZero == zero \cup HeldAt("zero")
               \cup (IF ZeroerAt("insert") THEN zeroer.hand ELSE {})
CountedAvailable ==
    free \cup zero \cup standby \cup Held
    \cup (IF RefresherAt("lower") THEN refresher.hand ELSE {})
    \cup (IF RefresherAt("insert") THEN refresher.to_free ELSE {})
    \cup (IF ZeroerAt("insert") THEN zeroer.hand ELSE {})

FreeSized == free_total = Cardinality(CountedFree)
ZeroSized == zero_total = Cardinality(CountedZero)
AvailableSized == available = Cardinality(CountedAvailable) + returning

\* A user who has no frame from the list c before and after a step.
LEMMA HeldAtStays ==
    ASSUME StateInv, NEW u \in Users, NEW d, NEW h, NEW c,
           user' = [user EXCEPT ![u] = [pc |-> d, hand |-> h]],
           user[u].pc # c \/ user[u].hand = {}, d # c \/ h = {}
    PROVE  HeldAt(c)' = HeldAt(c)
BY DEF StateInv, TypeOK, HeldAt

\* A user with empty hands takes a frame off the list c.
LEMMA HeldAtGains ==
    ASSUME StateInv, NEW u \in Users, NEW h, NEW c, user[u].hand = {},
           user' = [user EXCEPT ![u] = [pc |-> c, hand |-> h]]
    PROVE  HeldAt(c)' = HeldAt(c) \cup h
BY DEF StateInv, TypeOK, HeldAt

\* A user puts down the frame it took off the list c.
LEMMA HeldAtLoses ==
    ASSUME StateInv, HandsApart, NEW u \in Users, NEW c, NEW d, c # d,
           user[u].pc = c,
           user' = [user EXCEPT ![u] = [pc |-> d, hand |-> {}]]
    PROVE  HeldAt(c)' = HeldAt(c) \ user[u].hand
BY DEF StateInv, TypeOK, HeldAt, HandsApart

\* What is counted is finite.
LEMMA CountedFinite ==
    ASSUME StateInv
    PROVE  /\ IsFiniteSet(CountedFree) /\ Cardinality(CountedFree) \in Nat
           /\ IsFiniteSet(CountedZero) /\ Cardinality(CountedZero) \in Nat
           /\ IsFiniteSet(CountedAvailable)
           /\ Cardinality(CountedAvailable) \in Nat
<1>1. /\ Held \subseteq Frames
      /\ \A c : HeldAt(c) \subseteq Frames
    BY DEF StateInv, TypeOK, Held, HeldAt
<1>2. /\ CountedFree \subseteq Frames /\ CountedZero \subseteq Frames
      /\ CountedAvailable \subseteq Frames
    BY <1>1 DEF StateInv, TypeOK, CountedFree, CountedZero, CountedAvailable
<1>3. QED
    BY <1>2, FramesAssumption, FS_Subset, FS_CardinalityType

\* The frames of a user are among those of all users.
LEMMA HeldAtInHeld == \A c : HeldAt(c) \subseteq Held
BY DEF HeldAt, Held

\* The size of a set and what it gains.
LEMMA DisjointSizes ==
    ASSUME NEW S, NEW T, IsFiniteSet(S), IsFiniteSet(T), S \cap T = {}
    PROVE  Cardinality(S \cup T) = Cardinality(S) + Cardinality(T)
<1>1. Cardinality(S) \in Nat /\ Cardinality(T) \in Nat /\ Cardinality({}) = 0
    BY FS_EmptySet, FS_CardinalityType
<1>2. Cardinality(S \cup T) = Cardinality(S) + Cardinality(T) - Cardinality({})
    BY FS_Union
<1>3. QED
    BY <1>1, <1>2

\* The size of a set and what it loses.
LEMMA RemainderSize ==
    ASSUME NEW S, NEW T, IsFiniteSet(S), T \subseteq S
    PROVE  Cardinality(S \ T) = Cardinality(S) - Cardinality(T)
<1>1. S \cap T = T
    OBVIOUS
<1>2. QED
    BY <1>1, FS_Difference

\* The counter of the free lists follows the frames it counts.
LEMMA FreeSizedStep ==
    ASSUME StateInv, FramesOnce, FreeSized, [Next]_vars
    PROVE  FreeSized'
<1>. USE DEF StateInv, TypeOK, FreeSized, CountedFree, RefresherAt, ZeroerAt,
             lists, counts
<1>a. UNCHANGED user => HeldAt("free")' = HeldAt("free")
    BY DEF HeldAt
<1>1. CASE \E u \in Users : TakeZeroed(u)
    <2>1. PICK u \in Users, f \in zero :
             /\ user[u].pc = "run"
             /\ zero' = zero \ {f}
             /\ user' = [user EXCEPT ![u] = [pc |-> "zero", hand |-> {f}]]
        BY <1>1 DEF TakeZeroed
    <2>2. HeldAt("free")' = HeldAt("free")
        <3>1. user[u].hand = {}
            BY <2>1 DEF HandStates
        <3>2. PICK h, c, d :
                 /\ c = "free" /\ d = "zero" /\ c # d
                 /\ user' = [user EXCEPT ![u] = [pc |-> d, hand |-> h]]
            BY ONLY <2>1
        <3>3. HeldAt(c)' = HeldAt(c)
            <4>. HIDE DEF StateInv, TypeOK, CountedFree
            <4>. QED
                BY <3>1, <3>2, HeldAtStays
        <3>4. QED
            BY <3>2, <3>3
    <2>3. CountedFree' = CountedFree
        BY <1>1, <2>1, <2>2 DEF TakeZeroed
    <2>4. QED
        BY <1>1, <2>3 DEF TakeZeroed
<1>2. CASE \E u \in Users : TakeFree(u)
    <2>1. PICK u \in Users, f \in free :
             /\ user[u].pc = "run"
             /\ free' = free \ {f}
             /\ user' = [user EXCEPT ![u] = [pc |-> "free", hand |-> {f}]]
        BY <1>2 DEF TakeFree
    <2>2. HeldAt("free")' = HeldAt("free") \cup {f}
        BY <2>1, HeldAtGains, ZenonT(30) DEF HandStates
    <2>3. CountedFree' = CountedFree
        BY <1>2, <2>1, <2>2 DEF TakeFree
    <2>4. QED
        BY <1>2, <2>3 DEF TakeFree
<1>3. CASE \E u \in Users : TakeStandby(u)
    <2>1. PICK u \in Users, f \in standby :
             /\ user[u].pc = "run"
             /\ standby' = standby \ {f}
             /\ user' = [user EXCEPT ![u] = [pc |-> "standby", hand |-> {f}]]
        BY <1>3 DEF TakeStandby
    <2>2. HeldAt("free")' = HeldAt("free")
        <3>1. user[u].hand = {}
            BY <2>1 DEF HandStates
        <3>2. PICK h, c, d :
                 /\ c = "free" /\ d = "standby" /\ c # d
                 /\ user' = [user EXCEPT ![u] = [pc |-> d, hand |-> h]]
            BY ONLY <2>1
        <3>3. HeldAt(c)' = HeldAt(c)
            <4>. HIDE DEF StateInv, TypeOK, CountedFree
            <4>. QED
                BY <3>1, <3>2, HeldAtStays
        <3>4. QED
            BY <3>2, <3>3
    <2>3. CountedFree' = CountedFree
        BY <1>3, <2>1, <2>2 DEF TakeStandby
    <2>4. QED
        BY <1>3, <2>3 DEF TakeStandby
<1>4. CASE \E u \in Users : UseFrame(u)
    <2>1. PICK u \in Users :
             /\ user[u].pc \in {"zero", "free", "standby"}
             /\ user' = [user EXCEPT ![u] = [pc |-> "end", hand |-> {}]]
             /\ free_total' = free_total - IF user[u].pc = "free" THEN 1 ELSE 0
             /\ UNCHANGED <<free, zero, refresher, zeroer>>
        BY <1>4 DEF UseFrame
    <2>2. CASE user[u].pc = "free"
        <3>1. PICK f : user[u].hand = {f}
            BY <2>2 DEF HandStates
        <3>2. f \in HeldAt("free") /\ HeldAt("free")' = HeldAt("free") \ {f}
            <4>1. f \in HeldAt("free")
                BY <2>2, <3>1 DEF HeldAt
            <4>2. QED
                BY <2>1, <2>2, <3>1, <4>1, FramesOnceParts, HeldAtLoses, ZenonT(30)
        <3>3. f \in CountedFree /\ CountedFree' = CountedFree \ {f}
            BY <2>1, <3>2, HeldAtInHeld, FramesOnceParts, PlacesNamed
                DEF Partition
        <3>4. Cardinality(CountedFree') = Cardinality(CountedFree) - 1
            <4>. HIDE DEF StateInv, TypeOK, CountedFree
            <4>. QED
                BY <3>3, CountedFinite, FS_RemoveElement
        <3>5. free_total' = free_total - 1
            BY <2>1, <2>2
        <3>6. QED
            <4>. HIDE DEF StateInv, TypeOK, CountedFree
            <4>. QED
                BY <3>4, <3>5
    <2>3. CASE user[u].pc # "free"
        <3>1. HeldAt("free")' = HeldAt("free")
            <4>. HIDE DEF StateInv, TypeOK, CountedFree
            <4>. QED
                BY <2>1, <2>3, HeldAtStays
        <3>2. CountedFree' = CountedFree
            BY <2>1, <3>1
        <3>3. free_total' = free_total
            BY <2>1, <2>3
        <3>4. QED
            <4>. HIDE DEF StateInv, TypeOK, CountedFree
            <4>. QED
                BY <3>2, <3>3
    <2>4. QED
        BY <2>2, <2>3
<1>5. CASE \E u \in Users : EndFault(u)
    <2>1. HeldAt("free")' = HeldAt("free")
        BY <1>5 DEF EndFault, HeldAt, HandStates
    <2>2. QED
        BY <1>5, <2>1 DEF EndFault
<1>6. CASE CountBack \/ GiveBack
    BY <1>6, <1>a DEF CountBack, GiveBack, lists
<1>7. CASE StartRefresh
    BY <1>7, <1>a DEF StartRefresh
<1>8. CASE ChooseRefresh
    BY <1>8, <1>a DEF ChooseRefresh
<1>9. CASE PopStandby
    BY <1>9, <1>a DEF PopStandby, Returned
<1>10. CASE LowerAvailable
    BY <1>10, <1>a DEF LowerAvailable, Returned
<1>11. CASE CountFree
    <2>1. /\ refresher.pc = "free" /\ refresher'.pc = "insert"
          /\ refresher'.to_free = refresher.to_free
          /\ free_total' = free_total + Cardinality(refresher.to_free)
          /\ UNCHANGED <<free, user>>
        BY <1>11 DEF CountFree
    <2>2. /\ CountedFree' = CountedFree \cup refresher.to_free
          /\ CountedFree \cap refresher.to_free = {}
        BY <1>a, <2>1, HeldAtInHeld, FramesOnceParts, PlacesNamed DEF Partition
    <2>3. Cardinality(CountedFree')
             = Cardinality(CountedFree) + Cardinality(refresher.to_free)
        BY <2>2, CountedFinite, HandsFinite, DisjointSizes, ZenonT(30)
    <2>4. QED
        BY <2>1, <2>3
<1>12. CASE InsertFree
    <2>1. CountedFree' = CountedFree
        BY <1>12, <1>a DEF InsertFree
    <2>2. QED
        BY <1>12, <2>1 DEF InsertFree
<1>13. CASE ClaimSlot
    BY <1>13, <1>a DEF ClaimSlot
<1>14. CASE FillSlot
    BY <1>14, <1>a DEF FillSlot
<1>15. CASE PublishSlot
    BY <1>15, <1>a DEF PublishSlot
<1>16. CASE CountSlot
    BY <1>16, <1>a DEF CountSlot
<1>17. CASE SignalZeroing
    BY <1>17, <1>a DEF SignalZeroing, Returned
<1>18. CASE EndRefresh
    BY <1>18, <1>a DEF EndRefresh, Resting
<1>19. CASE StartZeroing
    BY <1>19, <1>a DEF StartZeroing
<1>20. CASE ScanSlot
    BY <1>20, <1>a DEF ScanSlot, NextSlot
<1>21. CASE OpenSlot
    BY <1>21, <1>a DEF OpenSlot
<1>22. CASE UncountSlot
    BY <1>22, <1>a DEF UncountSlot, NextSlot
<1>23. CASE ClearFrames
    BY <1>23, <1>a DEF ClearFrames
<1>24. CASE CountZeroed
    BY <1>24, <1>a DEF CountZeroed
<1>25. CASE InsertZeroed
    BY <1>25, <1>a DEF InsertZeroed
<1>26. CASE EndZeroing
    BY <1>26, <1>a DEF EndZeroing
<1>27. CASE UNCHANGED vars
    BY <1>27, <1>a DEF vars
<1>28. QED
    BY <1>1, <1>2, <1>3, <1>4, <1>5, <1>6, <1>7, <1>8, <1>9, <1>10, <1>11,
        <1>12, <1>13, <1>14, <1>15, <1>16, <1>17, <1>18, <1>19, <1>20, <1>21,
        <1>22, <1>23, <1>24, <1>25, <1>26, <1>27 DEF Next, Refresh, Zeroing

\* The counter of the zero lists follows the frames it counts.
LEMMA ZeroSizedStep ==
    ASSUME StateInv, FramesOnce, ZeroSized, [Next]_vars
    PROVE  ZeroSized'
<1>. USE DEF StateInv, TypeOK, ZeroSized, CountedZero, RefresherAt, ZeroerAt,
             lists, counts
<1>a. UNCHANGED user => HeldAt("zero")' = HeldAt("zero")
    BY DEF HeldAt
<1>1. CASE \E u \in Users : TakeZeroed(u)
    <2>1. PICK u \in Users, f \in zero :
             /\ user[u].pc = "run"
             /\ zero' = zero \ {f}
             /\ user' = [user EXCEPT ![u] = [pc |-> "zero", hand |-> {f}]]
        BY <1>1 DEF TakeZeroed
    <2>2. HeldAt("zero")' = HeldAt("zero") \cup {f}
        BY <2>1, HeldAtGains, ZenonT(30) DEF HandStates
    <2>3. CountedZero' = CountedZero
        BY <1>1, <2>1, <2>2 DEF TakeZeroed
    <2>4. QED
        BY <1>1, <2>3 DEF TakeZeroed
<1>2. CASE \E u \in Users : TakeFree(u)
    <2>1. PICK u \in Users, f \in free :
             /\ user[u].pc = "run"
             /\ free' = free \ {f}
             /\ user' = [user EXCEPT ![u] = [pc |-> "free", hand |-> {f}]]
        BY <1>2 DEF TakeFree
    <2>2. HeldAt("zero")' = HeldAt("zero")
        <3>1. user[u].hand = {}
            BY <2>1 DEF HandStates
        <3>2. PICK h, c, d :
                 /\ c = "zero" /\ d = "free" /\ c # d
                 /\ user' = [user EXCEPT ![u] = [pc |-> d, hand |-> h]]
            BY ONLY <2>1
        <3>3. HeldAt(c)' = HeldAt(c)
            <4>. HIDE DEF StateInv, TypeOK, CountedZero
            <4>. QED
                BY <3>1, <3>2, HeldAtStays
        <3>4. QED
            BY <3>2, <3>3
    <2>3. CountedZero' = CountedZero
        BY <1>2, <2>1, <2>2 DEF TakeFree
    <2>4. QED
        BY <1>2, <2>3 DEF TakeFree
<1>3. CASE \E u \in Users : TakeStandby(u)
    <2>1. PICK u \in Users, f \in standby :
             /\ user[u].pc = "run"
             /\ standby' = standby \ {f}
             /\ user' = [user EXCEPT ![u] = [pc |-> "standby", hand |-> {f}]]
        BY <1>3 DEF TakeStandby
    <2>2. HeldAt("zero")' = HeldAt("zero")
        <3>1. user[u].hand = {}
            BY <2>1 DEF HandStates
        <3>2. PICK h, c, d :
                 /\ c = "zero" /\ d = "standby" /\ c # d
                 /\ user' = [user EXCEPT ![u] = [pc |-> d, hand |-> h]]
            BY ONLY <2>1
        <3>3. HeldAt(c)' = HeldAt(c)
            <4>. HIDE DEF StateInv, TypeOK, CountedZero
            <4>. QED
                BY <3>1, <3>2, HeldAtStays
        <3>4. QED
            BY <3>2, <3>3
    <2>3. CountedZero' = CountedZero
        BY <1>3, <2>1, <2>2 DEF TakeStandby
    <2>4. QED
        BY <1>3, <2>3 DEF TakeStandby
<1>4. CASE \E u \in Users : UseFrame(u)
    <2>1. PICK u \in Users :
             /\ user[u].pc \in {"zero", "free", "standby"}
             /\ user' = [user EXCEPT ![u] = [pc |-> "end", hand |-> {}]]
             /\ zero_total' = zero_total - IF user[u].pc = "zero" THEN 1 ELSE 0
             /\ UNCHANGED <<free, zero, refresher, zeroer>>
        BY <1>4 DEF UseFrame
    <2>2. CASE user[u].pc = "zero"
        <3>1. PICK f : user[u].hand = {f}
            BY <2>2 DEF HandStates
        <3>2. f \in HeldAt("zero") /\ HeldAt("zero")' = HeldAt("zero") \ {f}
            <4>1. f \in HeldAt("zero")
                BY <2>2, <3>1 DEF HeldAt
            <4>2. QED
                BY <2>1, <2>2, <3>1, <4>1, FramesOnceParts, HeldAtLoses, ZenonT(30)
        <3>3. f \in CountedZero /\ CountedZero' = CountedZero \ {f}
            BY <2>1, <3>2, HeldAtInHeld, FramesOnceParts, PlacesNamed
                DEF Partition
        <3>4. Cardinality(CountedZero') = Cardinality(CountedZero) - 1
            <4>. HIDE DEF StateInv, TypeOK, CountedZero
            <4>. QED
                BY <3>3, CountedFinite, FS_RemoveElement
        <3>5. zero_total' = zero_total - 1
            BY <2>1, <2>2
        <3>6. QED
            <4>. HIDE DEF StateInv, TypeOK, CountedZero
            <4>. QED
                BY <3>4, <3>5
    <2>3. CASE user[u].pc # "zero"
        <3>1. HeldAt("zero")' = HeldAt("zero")
            <4>. HIDE DEF StateInv, TypeOK, CountedZero
            <4>. QED
                BY <2>1, <2>3, HeldAtStays
        <3>2. CountedZero' = CountedZero
            BY <2>1, <3>1
        <3>3. zero_total' = zero_total
            BY <2>1, <2>3
        <3>4. QED
            <4>. HIDE DEF StateInv, TypeOK, CountedZero
            <4>. QED
                BY <3>2, <3>3
    <2>4. QED
        BY <2>2, <2>3
<1>5. CASE \E u \in Users : EndFault(u)
    <2>1. HeldAt("zero")' = HeldAt("zero")
        BY <1>5 DEF EndFault, HeldAt, HandStates
    <2>2. QED
        BY <1>5, <2>1 DEF EndFault
<1>6. CASE CountBack \/ GiveBack
    BY <1>6, <1>a DEF CountBack, GiveBack, lists
<1>7. CASE StartRefresh
    BY <1>7, <1>a DEF StartRefresh
<1>8. CASE ChooseRefresh
    BY <1>8, <1>a DEF ChooseRefresh
<1>9. CASE PopStandby
    BY <1>9, <1>a DEF PopStandby, Returned
<1>10. CASE LowerAvailable
    BY <1>10, <1>a DEF LowerAvailable, Returned
<1>11. CASE CountFree
    BY <1>11, <1>a DEF CountFree
<1>12. CASE InsertFree
    BY <1>12, <1>a DEF InsertFree
<1>13. CASE ClaimSlot
    BY <1>13, <1>a DEF ClaimSlot
<1>14. CASE FillSlot
    BY <1>14, <1>a DEF FillSlot
<1>15. CASE PublishSlot
    BY <1>15, <1>a DEF PublishSlot
<1>16. CASE CountSlot
    BY <1>16, <1>a DEF CountSlot
<1>17. CASE SignalZeroing
    BY <1>17, <1>a DEF SignalZeroing, Returned
<1>18. CASE EndRefresh
    BY <1>18, <1>a DEF EndRefresh, Resting
<1>19. CASE StartZeroing
    BY <1>19, <1>a DEF StartZeroing
<1>20. CASE ScanSlot
    BY <1>20, <1>a DEF ScanSlot, NextSlot
<1>21. CASE OpenSlot
    BY <1>21, <1>a DEF OpenSlot
<1>22. CASE UncountSlot
    BY <1>22, <1>a DEF UncountSlot, NextSlot
<1>23. CASE ClearFrames
    BY <1>23, <1>a DEF ClearFrames
<1>24. CASE CountZeroed
    <2>1. /\ zeroer.pc = "count" /\ zeroer'.pc = "insert"
          /\ zeroer'.hand = zeroer.hand
          /\ zero_total' = zero_total + Cardinality(zeroer.hand)
          /\ UNCHANGED <<zero, user>>
        BY <1>24 DEF CountZeroed
    <2>2. /\ CountedZero' = CountedZero \cup zeroer.hand
          /\ CountedZero \cap zeroer.hand = {}
        BY <1>a, <2>1, HeldAtInHeld, FramesOnceParts, PlacesNamed DEF Partition
    <2>3. Cardinality(CountedZero')
             = Cardinality(CountedZero) + Cardinality(zeroer.hand)
        BY <2>2, CountedFinite, HandsFinite, DisjointSizes, ZenonT(30)
    <2>4. QED
        BY <2>1, <2>3
<1>25. CASE InsertZeroed
    <2>1. CountedZero' = CountedZero
        BY <1>25, <1>a DEF InsertZeroed
    <2>2. QED
        BY <1>25, <2>1 DEF InsertZeroed
<1>26. CASE EndZeroing
    BY <1>26, <1>a DEF EndZeroing
<1>27. CASE UNCHANGED vars
    BY <1>27, <1>a DEF vars
<1>28. QED
    BY <1>1, <1>2, <1>3, <1>4, <1>5, <1>6, <1>7, <1>8, <1>9, <1>10, <1>11,
        <1>12, <1>13, <1>14, <1>15, <1>16, <1>17, <1>18, <1>19, <1>20, <1>21,
        <1>22, <1>23, <1>24, <1>25, <1>26, <1>27 DEF Next, Refresh, Zeroing

\* The counter of all available frames follows the frames it counts.
LEMMA AvailableSizedStep ==
    ASSUME StateInv, FramesOnce, AvailableSized, [Next]_vars
    PROVE  AvailableSized'
<1>. USE DEF StateInv, TypeOK, AvailableSized, CountedAvailable, RefresherAt,
             ZeroerAt, lists, counts
<1>a. UNCHANGED user => Held' = Held
    BY DEF Held
<1>b. IsFiniteSet(CountedAvailable)
    BY CountedFinite
<1>c. /\ IsFiniteSet(refresher.hand) /\ IsFiniteSet(refresher.to_free)
      /\ IsFiniteSet(zeroer.hand)
    BY HandsFinite
<1>d. /\ Cardinality(CountedAvailable) \in Nat /\ returning \in Nat /\ available \in Int
      /\ Cardinality(refresher.hand) \in Nat /\ Cardinality(refresher.to_free) \in Nat
      /\ Cardinality(zeroer.hand) \in Nat
    BY <1>c, CountedFinite, FS_CardinalityType
<1>1. CASE \E u \in Users : TakeZeroed(u)
    <2>1. PICK u \in Users, f \in zero :
             /\ user[u].pc = "run"
             /\ zero' = zero \ {f}
             /\ user' = [user EXCEPT ![u] = [pc |-> "zero", hand |-> {f}]]
        BY <1>1 DEF TakeZeroed
    <2>2. Held' = Held \cup {f}
        <3>1. user[u].hand = {} /\ f \notin Held
            BY <2>1, FramesOnceParts, PlacesNamed DEF Partition, HandStates
        <3>2. HandsApart
            BY FramesOnceParts
        <3>3. QED
            BY <2>1, <3>1, <3>2, HandGains
    <2>3. CountedAvailable' = CountedAvailable
        BY <1>1, <2>1, <2>2 DEF TakeZeroed
    <2>4. QED
        BY <1>1, <2>3 DEF TakeZeroed
<1>2. CASE \E u \in Users : TakeFree(u)
    <2>1. PICK u \in Users, f \in free :
             /\ user[u].pc = "run"
             /\ free' = free \ {f}
             /\ user' = [user EXCEPT ![u] = [pc |-> "free", hand |-> {f}]]
        BY <1>2 DEF TakeFree
    <2>2. Held' = Held \cup {f}
        <3>1. user[u].hand = {} /\ f \notin Held
            BY <2>1, FramesOnceParts, PlacesNamed DEF Partition, HandStates
        <3>2. HandsApart
            BY FramesOnceParts
        <3>3. QED
            BY <2>1, <3>1, <3>2, HandGains
    <2>3. CountedAvailable' = CountedAvailable
        BY <1>2, <2>1, <2>2 DEF TakeFree
    <2>4. QED
        BY <1>2, <2>3 DEF TakeFree
<1>3. CASE \E u \in Users : TakeStandby(u)
    <2>1. PICK u \in Users, f \in standby :
             /\ user[u].pc = "run"
             /\ standby' = standby \ {f}
             /\ user' = [user EXCEPT ![u] = [pc |-> "standby", hand |-> {f}]]
        BY <1>3 DEF TakeStandby
    <2>2. Held' = Held \cup {f}
        <3>1. user[u].hand = {} /\ f \notin Held
            BY <2>1, FramesOnceParts, PlacesNamed DEF Partition, HandStates
        <3>2. HandsApart
            BY FramesOnceParts
        <3>3. QED
            BY <2>1, <3>1, <3>2, HandGains
    <2>3. CountedAvailable' = CountedAvailable
        BY <1>3, <2>1, <2>2 DEF TakeStandby
    <2>4. QED
        BY <1>3, <2>3 DEF TakeStandby
<1>4. CASE \E u \in Users : UseFrame(u)
    <2>1. PICK u \in Users :
             /\ user[u].pc \in {"zero", "free", "standby"}
             /\ user' = [user EXCEPT ![u] = [pc |-> "end", hand |-> {}]]
             /\ available' = available - 1
             /\ UNCHANGED <<standby, free, zero, returning, refresher, zeroer>>
        BY <1>4 DEF UseFrame
    <2>2. PICK f : user[u].hand = {f}
        BY <2>1 DEF HandStates
    <2>3. f \in Held /\ Held' = Held \ {f}
        <3>1. f \in Held
            BY <2>2 DEF Held
        <3>2. HandsApart
            BY FramesOnceParts
        <3>3. QED
            BY <2>1, <2>2, <3>1, <3>2, HandLoses
    <2>4. /\ f \in CountedAvailable
          /\ CountedAvailable' = CountedAvailable \ {f}
        BY <2>1, <2>3, FramesOnceParts, PlacesNamed DEF Partition
    <2>5. QED
        <3>. HIDE DEF StateInv, TypeOK, CountedAvailable
        <3>1. Cardinality(CountedAvailable') = Cardinality(CountedAvailable) - 1
            BY <2>4, CountedFinite, FS_RemoveElement
        <3>2. QED
            BY <1>d, <2>1, <3>1
<1>5. CASE \E u \in Users : EndFault(u)
    <2>1. Held' = Held
        BY <1>5 DEF EndFault, Held
    <2>2. QED
        BY <1>5, <2>1 DEF EndFault
<1>29. CASE CountBack
    <2>1. CountedAvailable' = CountedAvailable
        BY <1>29, <1>a DEF CountBack
    <2>2. /\ available' = available + 1
          /\ returning' = returning + 1
        BY <1>29 DEF CountBack
    <2>3. QED
        <3>. HIDE DEF StateInv, TypeOK, CountedAvailable
        <3>. QED
            BY <1>d, <2>1, <2>2
<1>6. CASE GiveBack
    <2>1. PICK f \in in_use :
             /\ in_use' = in_use \ {f}
             /\ standby' = standby \cup {f}
             /\ returning' = returning - 1 /\ available' = available
             /\ UNCHANGED <<free, zero, refresher, zeroer, user>>
        BY <1>6 DEF GiveBack
    <2>2. /\ f \notin CountedAvailable
          /\ CountedAvailable' = CountedAvailable \cup {f}
        BY <1>a, <2>1, FramesOnceParts, PlacesNamed DEF Partition
    <2>3. QED
        <3>. HIDE DEF StateInv, TypeOK, CountedAvailable
        <3>1. Cardinality(CountedAvailable') = Cardinality(CountedAvailable) + 1
            BY <2>2, CountedFinite, FS_AddElement
        <3>2. QED
            BY <1>d, <2>1, <3>1
<1>7. CASE StartRefresh
    BY <1>7, <1>a DEF StartRefresh
<1>8. CASE ChooseRefresh
    BY <1>8, <1>a DEF ChooseRefresh
<1>9. CASE PopStandby
    <2>1. PICK S \in SUBSET standby :
             /\ standby' = standby \ S
             /\ refresher' = IF S = {} THEN [refresher EXCEPT !.pc = Returned]
                             ELSE [refresher EXCEPT !.pc = "lower", !.hand = S]
        BY <1>9 DEF PopStandby
    <2>2. CountedAvailable' = CountedAvailable
        <3>1. /\ refresher.pc = "pop"
              /\ UNCHANGED <<free, zero, zeroer, user>>
            BY <1>9 DEF PopStandby
        <3>2. CASE S = {}
            BY <1>a, <2>1, <3>1, <3>2 DEF Returned
        <3>3. CASE S # {}
            BY <1>a, <2>1, <3>1, <3>3
        <3>4. QED
            BY <3>2, <3>3
    <2>3. QED
        BY <1>9, <2>2 DEF PopStandby
<1>10. CASE LowerAvailable
    <2>1. /\ refresher.pc = "lower" /\ refresher'.pc \in {"claim", "free"}
          /\ available' = available - Cardinality(refresher.hand)
          /\ UNCHANGED <<lists, returning, zeroer, user>>
        BY <1>10 DEF LowerAvailable
    <2>2. /\ CountedAvailable' = CountedAvailable \ refresher.hand
          /\ refresher.hand \subseteq CountedAvailable
        BY <1>a, <2>1, HeldAtInHeld, FramesOnceParts, PlacesNamed DEF Partition
    <2>3. Cardinality(CountedAvailable') = Cardinality(CountedAvailable)
                                            - Cardinality(refresher.hand)
        <3>. HIDE DEF StateInv, TypeOK, CountedAvailable
        <3>. QED
            BY <1>b, <1>c, <2>2, CountedFinite, HandsFinite, DisjointSizes,
                RemainderSize
    <2>4. QED
        <3>. HIDE DEF StateInv, TypeOK, CountedAvailable
        <3>. QED
            BY <1>d, <2>1, <2>3
<1>11. CASE CountFree
    <2>1. /\ refresher.pc = "free" /\ refresher'.pc = "insert"
          /\ refresher'.to_free = refresher.to_free
          /\ available' = available + Cardinality(refresher.to_free)
          /\ UNCHANGED <<lists, returning, zeroer, user>>
        BY <1>11 DEF CountFree
    <2>2. /\ CountedAvailable' = CountedAvailable \cup refresher.to_free
          /\ CountedAvailable \cap refresher.to_free = {}
        BY <1>a, <2>1, HeldAtInHeld, FramesOnceParts, PlacesNamed DEF Partition
    <2>3. Cardinality(CountedAvailable') = Cardinality(CountedAvailable)
                                            + Cardinality(refresher.to_free)
        <3>. HIDE DEF StateInv, TypeOK, CountedAvailable
        <3>. QED
            BY <1>b, <1>c, <2>2, CountedFinite, HandsFinite, DisjointSizes,
                RemainderSize
    <2>4. QED
        <3>. HIDE DEF StateInv, TypeOK, CountedAvailable
        <3>. QED
            BY <1>d, <2>1, <2>3
<1>12. CASE InsertFree
    <2>1. CountedAvailable' = CountedAvailable
        BY <1>12, <1>a DEF InsertFree
    <2>2. QED
        BY <1>12, <2>1 DEF InsertFree
<1>13. CASE ClaimSlot
    BY <1>13, <1>a DEF ClaimSlot
<1>14. CASE FillSlot
    BY <1>14, <1>a DEF FillSlot
<1>15. CASE PublishSlot
    BY <1>15, <1>a DEF PublishSlot
<1>16. CASE CountSlot
    BY <1>16, <1>a DEF CountSlot
<1>17. CASE SignalZeroing
    BY <1>17, <1>a DEF SignalZeroing, Returned
<1>18. CASE EndRefresh
    BY <1>18, <1>a DEF EndRefresh, Resting
<1>19. CASE StartZeroing
    BY <1>19, <1>a DEF StartZeroing
<1>20. CASE ScanSlot
    BY <1>20, <1>a DEF ScanSlot, NextSlot
<1>21. CASE OpenSlot
    BY <1>21, <1>a DEF OpenSlot
<1>22. CASE UncountSlot
    BY <1>22, <1>a DEF UncountSlot, NextSlot
<1>23. CASE ClearFrames
    BY <1>23, <1>a DEF ClearFrames
<1>24. CASE CountZeroed
    <2>1. /\ zeroer.pc = "count" /\ zeroer'.pc = "insert"
          /\ zeroer'.hand = zeroer.hand
          /\ available' = available + Cardinality(zeroer.hand)
          /\ UNCHANGED <<lists, returning, refresher, user>>
        BY <1>24 DEF CountZeroed
    <2>2. /\ CountedAvailable' = CountedAvailable \cup zeroer.hand
          /\ CountedAvailable \cap zeroer.hand = {}
        BY <1>a, <2>1, HeldAtInHeld, FramesOnceParts, PlacesNamed DEF Partition
    <2>3. Cardinality(CountedAvailable') = Cardinality(CountedAvailable)
                                            + Cardinality(zeroer.hand)
        <3>. HIDE DEF StateInv, TypeOK, CountedAvailable
        <3>. QED
            BY <1>b, <1>c, <2>2, CountedFinite, HandsFinite, DisjointSizes,
                RemainderSize
    <2>4. QED
        <3>. HIDE DEF StateInv, TypeOK, CountedAvailable
        <3>. QED
            BY <1>d, <2>1, <2>3
<1>25. CASE InsertZeroed
    <2>1. CountedAvailable' = CountedAvailable
        BY <1>25, <1>a DEF InsertZeroed
    <2>2. QED
        BY <1>25, <2>1 DEF InsertZeroed
<1>26. CASE EndZeroing
    BY <1>26, <1>a DEF EndZeroing
<1>27. CASE UNCHANGED vars
    BY <1>27, <1>a DEF vars
<1>28. QED
    BY <1>1, <1>2, <1>3, <1>4, <1>5, <1>6, <1>7, <1>8, <1>9, <1>10, <1>11,
        <1>12, <1>13, <1>14, <1>15, <1>16, <1>17, <1>18, <1>19, <1>20, <1>21,
        <1>22, <1>23, <1>24, <1>25, <1>26, <1>27, <1>29 DEF Next, Refresh, Zeroing

\* The three counters, and what they say of the lists.
SizesInv == FreeSized /\ ZeroSized /\ AvailableSized

\* Initially the frames on the free lists are counted.
LEMMA InitSizes == Init => SizesInv
<1>. SUFFICES ASSUME Init PROVE SizesInv
    OBVIOUS
<1>1. HeldAt("free") = {} /\ HeldAt("zero") = {} /\ Held = {}
    BY DEF Init, HeldAt, Held
<1>2. CountedFree = {} /\ CountedZero = Frames /\ CountedAvailable = Frames
    BY <1>1 DEF Init, Resting, RefresherAt, ZeroerAt, CountedFree, CountedZero,
        CountedAvailable
<1>3. Cardinality(Frames) \in Nat
    BY FramesAssumption, FS_CardinalityType
<1>4. QED
    BY <1>2, <1>3, FS_EmptySet DEF Init, SizesInv, FreeSized, ZeroSized, AvailableSized

\* What is on a list is counted.
LEMMA SizesCover ==
    ASSUME StateInv, FramesOnce, SizesInv
    PROVE  CountersCover
<1>1. /\ free \subseteq CountedFree /\ zero \subseteq CountedZero
      /\ free \cup zero \cup standby \subseteq CountedAvailable
    BY DEF CountedFree, CountedZero, CountedAvailable
<1>2. /\ Cardinality(free) <= Cardinality(CountedFree)
      /\ Cardinality(zero) <= Cardinality(CountedZero)
      /\ Cardinality(free \cup zero \cup standby)
            <= Cardinality(CountedAvailable)
    BY <1>1, CountedFinite, FS_Subset
<1>3. /\ IsFiniteSet(free) /\ IsFiniteSet(zero) /\ IsFiniteSet(standby)
      /\ IsFiniteSet(free \cup zero)
    BY FramesAssumption, FS_Subset DEF StateInv, TypeOK
<1>4. free \cap zero = {} /\ (free \cup zero) \cap standby = {}
    BY FramesOnceParts, PlacesNamed DEF Partition
<1>5. Cardinality(free \cup zero \cup standby)
         = Cardinality(free) + Cardinality(zero) + Cardinality(standby)
    BY <1>3, <1>4, DisjointSizes
<1>6. /\ returning \in Nat /\ Cardinality(CountedAvailable) \in Nat
      /\ Cardinality(free) \in Nat /\ Cardinality(zero) \in Nat
      /\ Cardinality(standby) \in Nat
    BY <1>3, CountedFinite, FS_CardinalityType DEF StateInv, TypeOK
<1>7. QED
    BY <1>2, <1>5, <1>6 DEF SizesInv, FreeSized, ZeroSized, AvailableSized,
        CountersCover

\* A thread that finds a counter at zero, and does not try the list, is right:
\* the counters never claim fewer frames than the lists hold.
THEOREM CountersStayAbove == Spec => []CountersCover
<1>1. StateInv /\ FramesOnce /\ SizesInv /\ [Next]_vars => SizesInv'
    BY FreeSizedStep, ZeroSizedStep, AvailableSizedStep DEF SizesInv
<1>2. StateInv /\ FramesOnce /\ SizesInv => CountersCover
    BY SizesCover
<1>3. StateInv /\ NoSlotForgotten => StateInv
    OBVIOUS
<1>4. QED
    BY <1>1, <1>2, <1>3, InitSizes, FramesInOnePlace, Invariance, PTL DEF Spec
=============================================================================
