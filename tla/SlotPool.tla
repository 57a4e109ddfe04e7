------------------------------ MODULE SlotPool ------------------------------
(***************************************************************************)
(* What the page file promises to the modified writer and to the faults    *)
(* (disk_operations.h): a request for slots that are available is granted  *)
(* in full, a slot has one owner, a slot that was given back can be        *)
(* granted again.                                                          *)
(***************************************************************************)
EXTENDS Integers, FiniteSets

CONSTANT Slots

VARIABLES free,  \* slots nobody has
          owned, \* slots of frames and PTEs
          want,  \* size of the request being served, 0 if there is none
          haul   \* slots set aside for it

vars == <<free, owned, want, haul>>

Init == free = Slots /\ owned = {} /\ want = 0 /\ haul = {}

Request ==
    /\ want = 0
    /\ want' \in 1 .. Cardinality(free)
    /\ UNCHANGED <<free, owned, haul>>

SetAside(d) ==
    /\ d \in free
    /\ Cardinality(haul) < want
    /\ haul' = haul \cup {d}
    /\ free' = free \ {d}
    /\ UNCHANGED <<owned, want>>

Grant ==
    /\ want > 0
    /\ Cardinality(haul) = want
    /\ owned' = owned \cup haul
    /\ want' = 0
    /\ haul' = {}
    /\ UNCHANGED free

GiveBack(d) ==
    /\ d \in owned
    /\ owned' = owned \ {d}
    /\ free' = free \cup {d}
    /\ UNCHANGED <<want, haul>>

Serve == Grant \/ \E d \in Slots : SetAside(d)

Next == Serve \/ Request \/ \E d \in Slots : GiveBack(d)

SafetySpec == Init /\ [][Next]_vars

\* A request is served to its end.
Spec == SafetySpec /\ WF_vars(Serve)
=============================================================================
