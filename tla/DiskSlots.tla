----------------------------- MODULE DiskSlots -----------------------------
(***************************************************************************)
(* The page file's slot table (disk.c 28-125, disk_operations.c 354-433):  *)
(* one status per slot, a count of open slots per section and a total.     *)
(* The modified writer, the only thread that allocates, scans the sections *)
(* without a lock while any thread may release slots.  The status and the  *)
(* two counters of a slot change in separate interlocked steps; each step  *)
(* is an action.                                                           *)
(***************************************************************************)
EXTENDS Integers, FiniteSets

CONSTANTS NumSlots,        \* DISK_STORAGE_SLOTS
          SlotsPerSection,
          NumSections,     \* the last one may be incomplete
          Users,           \* faulting threads
          MaxRequest       \* MAX_PAGES_WRITABLE

ASSUME SlotsAssumption ==
    /\ NumSlots \in Nat \ {0}
    /\ SlotsPerSection \in Nat \ {0}
    /\ NumSections \in Nat \ {0}
    /\ (NumSections - 1) * SlotsPerSection < NumSlots
    /\ NumSlots <= NumSections * SlotsPerSection
    /\ NumSections = 1 => NumSlots = SlotsPerSection
    /\ MaxRequest \in Nat
    /\ "writer" \notin Users
    /\ IsFiniteSet(Users)

Threads == Users \cup {"writer"}
Sections == 0 .. NumSections - 1
Start(section) == section * SlotsPerSection
SectionOf(d) == d \div SlotsPerSection
AllIndices == 0 .. Start(NumSections) - 1

\* Slot 0 is never used (a PTE that names it would look unaccessed), and the
\* padding of the last section is no slot.
Usable == 1 .. NumSlots - 1

VARIABLES
    disk_slot_statuses,
    open_slot_counts,
    total_available_slots,
    owned,   \* slots held by frames, PTEs and completed writes
    alloc,   \* allocate_many_disk_slots
    release  \* release_single_disk_slot of each thread

vars == <<disk_slot_statuses, open_slot_counts, total_available_slots, owned,
          alloc, release>>

Idle == [pc |-> "idle", num |-> 0, section |-> 0, idx |-> 0, got |-> {}]

InitialCount(s) ==
    IF s = 0 THEN SlotsPerSection - 1
    ELSE IF s = NumSections - 1 THEN NumSlots - Start(s) ELSE SlotsPerSection

Init ==
    /\ disk_slot_statuses =
          [d \in AllIndices |-> IF d \in Usable THEN "free" ELSE "used"]
    /\ open_slot_counts = [s \in Sections |-> InitialCount(s)]
    /\ total_available_slots = NumSlots - 1
    /\ owned = {}
    /\ alloc = Idle
    /\ release = [t \in Threads |-> [pc |-> "idle", slot |-> 0]]

----------------------------------------------------------------------------
(* Allocation *)

\* The scan goes to index i of the same section, or to the next section.
At(i) == IF i = Start(alloc.section + 1)
         THEN [alloc EXCEPT !.pc = "section", !.section = @ + 1, !.idx = i]
         ELSE [alloc EXCEPT !.pc = "slot", !.idx = i]

\* pagefault.c:69: what is to be written never exceeds what is available.
Request(n) ==
    /\ alloc.pc = "idle"
    /\ release["writer"].pc = "idle"
    /\ n <= total_available_slots
    /\ alloc' = [Idle EXCEPT !.pc = "section", !.num = n]
    /\ UNCHANGED <<disk_slot_statuses, open_slot_counts,
                   total_available_slots, owned, release>>

\* Mutant: a section with one open slot is skipped as well.
SkipSparseSection ==
    /\ alloc.pc = "section" /\ alloc.section \in Sections
    /\ alloc' = IF open_slot_counts[alloc.section] <= 1
                THEN At(Start(alloc.section + 1))
                ELSE [alloc EXCEPT !.pc = "slot"]
    /\ UNCHANGED <<disk_slot_statuses, open_slot_counts,
                   total_available_slots, owned, release>>

EnterSection ==
    /\ alloc.pc = "section" /\ alloc.section \in Sections
    /\ alloc' = IF open_slot_counts[alloc.section] = 0
                THEN At(Start(alloc.section + 1))
                ELSE [alloc EXCEPT !.pc = "slot"]
    /\ UNCHANGED <<disk_slot_statuses, open_slot_counts,
                   total_available_slots, owned, release>>

SkipUsedSlot ==
    /\ alloc.pc = "slot"
    /\ disk_slot_statuses[alloc.idx] = "used"
    /\ alloc' = At(alloc.idx + 1)
    /\ UNCHANGED <<disk_slot_statuses, open_slot_counts,
                   total_available_slots, owned, release>>

\* Mutant: the slot is taken without a look at its status.
ClaimAnySlot ==
    /\ alloc.pc = "slot"
    /\ disk_slot_statuses' = [disk_slot_statuses EXCEPT ![alloc.idx] = "used"]
    /\ alloc' = [alloc EXCEPT !.pc = "claimed", !.got = @ \cup {alloc.idx}]
    /\ UNCHANGED <<open_slot_counts, total_available_slots, owned, release>>

\* Nobody else allocates, so the exchange finds the slot as the test left it.
ClaimSlot ==
    /\ alloc.pc = "slot"
    /\ disk_slot_statuses[alloc.idx] = "free"
    /\ disk_slot_statuses' = [disk_slot_statuses EXCEPT ![alloc.idx] = "used"]
    /\ alloc' = [alloc EXCEPT !.pc = "claimed", !.got = @ \cup {alloc.idx}]
    /\ UNCHANGED <<open_slot_counts, total_available_slots, owned, release>>

LowerOpenCount ==
    /\ alloc.pc = "claimed"
    /\ open_slot_counts' = [open_slot_counts EXCEPT ![alloc.section] = @ - 1]
    /\ alloc' = [alloc EXCEPT !.pc = "counted"]
    /\ UNCHANGED <<disk_slot_statuses, total_available_slots, owned, release>>

LowerTotal ==
    /\ alloc.pc = "counted"
    /\ total_available_slots' = total_available_slots - 1
    /\ alloc' = [alloc EXCEPT !.pc = "taken"]
    /\ UNCHANGED <<disk_slot_statuses, open_slot_counts, owned, release>>

\* Mutant: the batch ends with the first slot.
FinishEarly ==
    /\ alloc.pc = "taken"
    /\ owned' = owned \cup alloc.got
    /\ alloc' = Idle
    /\ UNCHANGED <<disk_slot_statuses, open_slot_counts,
                   total_available_slots, release>>

FinishRequest ==
    /\ alloc.pc = "taken"
    /\ Cardinality(alloc.got) = alloc.num
    /\ owned' = owned \cup alloc.got
    /\ alloc' = Idle
    /\ UNCHANGED <<disk_slot_statuses, open_slot_counts,
                   total_available_slots, release>>

ContinueScan ==
    /\ alloc.pc = "taken"
    /\ Cardinality(alloc.got) # alloc.num
    /\ alloc' = At(IF open_slot_counts[alloc.section] = 0
                   THEN Start(alloc.section + 1) ELSE alloc.idx + 1)
    /\ UNCHANGED <<disk_slot_statuses, open_slot_counts,
                   total_available_slots, owned, release>>

----------------------------------------------------------------------------
(* Release: section count, status, total, in this order *)

\* Mutant: the total is raised while the slot is still used.
RaiseAllCounts(t, d) ==
    /\ release[t].pc = "idle"
    /\ t = "writer" => alloc.pc = "idle"
    /\ d \in owned
    /\ owned' = owned \ {d}
    /\ open_slot_counts' = [open_slot_counts EXCEPT ![SectionOf(d)] = @ + 1]
    /\ total_available_slots' = total_available_slots + 1
    /\ release' = [release EXCEPT ![t] = [pc |-> "counted", slot |-> d]]
    /\ UNCHANGED <<disk_slot_statuses, alloc>>

RaiseOpenCount(t, d) ==
    /\ release[t].pc = "idle"
    /\ t = "writer" => alloc.pc = "idle"
    /\ d \in owned
    /\ owned' = owned \ {d}
    /\ open_slot_counts' = [open_slot_counts EXCEPT ![SectionOf(d)] = @ + 1]
    /\ release' = [release EXCEPT ![t] = [pc |-> "counted", slot |-> d]]
    /\ UNCHANGED <<disk_slot_statuses, total_available_slots, alloc>>

FreeSlot(t) ==
    /\ release[t].pc = "counted"
    /\ disk_slot_statuses' =
          [disk_slot_statuses EXCEPT ![release[t].slot] = "free"]
    /\ release' = [release EXCEPT ![t].pc = "freed"]
    /\ UNCHANGED <<open_slot_counts, total_available_slots, owned, alloc>>

RaiseTotal(t) ==
    /\ release[t].pc = "freed"
    /\ total_available_slots' = total_available_slots + 1
    /\ release' = [release EXCEPT ![t] = [pc |-> "idle", slot |-> 0]]
    /\ UNCHANGED <<disk_slot_statuses, open_slot_counts, owned, alloc>>

----------------------------------------------------------------------------
Allocate == \/ EnterSection \/ SkipUsedSlot \/ ClaimSlot \/ LowerOpenCount
            \/ LowerTotal \/ FinishRequest \/ ContinueScan

Release(t) == \/ \E d \in Usable : RaiseOpenCount(t, d)
              \/ FreeSlot(t)
              \/ RaiseTotal(t)

Next == \/ \E n \in 1 .. MaxRequest : Request(n)
        \/ Allocate
        \/ \E t \in Threads : Release(t)

SafetySpec == Init /\ [][Next]_vars

\* The writer's thread goes on running; nothing is asked of the releases.
Spec == SafetySpec /\ WF_vars(Allocate)

----------------------------------------------------------------------------
(* Properties *)

Free == {d \in AllIndices : disk_slot_statuses[d] = "free"}
BeingFreed == {release[t].slot : t \in {u \in Threads : release[u].pc = "counted"}}
NotTotalled == {t \in Threads : release[t].pc = "freed"}
Claimed(pcs) == IF alloc.pc \in pcs THEN {alloc.idx} ELSE {}

\* The slots that the section counts and the total stand for.
Open == Free \cup BeingFreed \cup Claimed({"claimed"})
OpenIn(s) == {d \in Open : SectionOf(d) = s}
Available == Free \cup Claimed({"claimed", "counted"})

TypeOK ==
    /\ disk_slot_statuses \in [AllIndices -> {"free", "used"}]
    /\ open_slot_counts \in [Sections -> Nat]
    /\ total_available_slots \in Nat
    /\ owned \subseteq Usable
    /\ alloc \in [pc : {"idle", "section", "slot", "claimed", "counted", "taken"},
                  num : 0 .. MaxRequest, section : 0 .. NumSections,
                  idx : 0 .. Start(NumSections), got : SUBSET Usable]
    /\ release \in [Threads -> [pc : {"idle", "counted", "freed"},
                                slot : Usable \cup {0}]]

\* disk_operations.c:394: a request for no more slots than were available is
\* not found short, whatever is released meanwhile: no section with a free
\* slot is ever skipped and the scan does not run out of sections.
AllocationNotShort ==
    alloc.pc = "section" => alloc.section \in Sections

\* The counters and the statuses differ only by the steps under way: a section's
\* count includes slots about to be freed (so it never hides a free slot),
\* the total leaves out slots just freed (so it never promises a used one).
CountersExact ==
    /\ \A s \in Sections : open_slot_counts[s] = Cardinality(OpenIn(s))
    /\ total_available_slots + Cardinality(NotTotalled) = Cardinality(Available)

\* The table implements the abstract pool: a slot is free from the step that
\* clears its status to the step that claims it; a request is always granted.
Pool == INSTANCE SlotPool WITH
            Slots <- Usable, free <- Free, owned <- owned \cup BeingFreed,
            want <- alloc.num, haul <- alloc.got
ImplementsPool == Pool!Spec
=============================================================================
