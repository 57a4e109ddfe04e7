-------------------------- MODULE DiskSlotsProofs --------------------------
(***************************************************************************)
(* Proofs about the page file's slot table, for any number of slots,       *)
(* sections and releasing threads: the counters stand for the slots they   *)
(* should, the scan never falls short, and the table implements SlotPool.  *)
(***************************************************************************)
EXTENDS DiskSlots, FiniteSetTheorems, TLAPS

Scanning == {"slot", "claimed", "counted", "taken"}
Holding == {"claimed", "counted", "taken"}

\* A slot that is free has no owner; a slot in use has at most one.
SlotsOwned ==
    /\ \A d \in owned \cup alloc.got \cup BeingFreed :
          d \in Usable /\ disk_slot_statuses[d] = "used"
    /\ \A d \in AllIndices \ Usable : disk_slot_statuses[d] = "used"
    /\ owned \cap alloc.got = {}
    /\ owned \cap BeingFreed = {}
    /\ alloc.got \cap BeingFreed = {}
    /\ \A t, u \in Threads :
          /\ release[t].pc = "counted" /\ release[u].pc = "counted"
          /\ release[t].slot = release[u].slot
          => t = u

\* Where the scan stands.
ScanPosition ==
    /\ alloc.pc = "idle" => alloc.num = 0 /\ alloc.got = {}
    /\ alloc.pc # "idle" => alloc.num > 0
    /\ alloc.pc = "section" => alloc.idx = Start(alloc.section)
    /\ alloc.pc \in Scanning => /\ alloc.section \in Sections
                                /\ alloc.idx \in AllIndices
                                /\ SectionOf(alloc.idx) = alloc.section
    /\ alloc.pc \in Holding => alloc.idx \in alloc.got
    /\ alloc.pc \in {"section", "slot"} => Cardinality(alloc.got) < alloc.num
    /\ Cardinality(alloc.got) <= alloc.num

\* What is still wanted lies ahead of the scan, and the total covers it.
Ahead == {d \in Free : d >= alloc.idx}
EnoughAhead ==
    alloc.pc # "idle" =>
        /\ alloc.num - Cardinality(alloc.got) <= Cardinality(Ahead)
        /\ alloc.num - Cardinality(alloc.got)
               + Cardinality(Claimed({"claimed", "counted"}))
             <= total_available_slots

IInv == TypeOK /\ SlotsOwned /\ ScanPosition /\ CountersExact /\ EnoughAhead

----------------------------------------------------------------------------
(* Sections and indices *)

\* Sections are laid out one after the other.
LEMMA StartNext ==
    \A s \in Nat : Start(s) \in Nat /\ Start(s + 1) = Start(s) + SlotsPerSection
  BY SlotsAssumption DEF Start

LEMMA SectionBounds ==
    ASSUME NEW d \in AllIndices
    PROVE  /\ d \in Nat
           /\ SectionOf(d) \in Sections
           /\ Start(SectionOf(d)) <= d
           /\ d < Start(SectionOf(d) + 1)
  BY SlotsAssumption, SMTT(30) DEF Start, SectionOf, Sections, AllIndices

LEMMA SectionUnique ==
    ASSUME NEW s \in Sections, NEW d \in Nat, Start(s) <= d, d < Start(s + 1)
    PROVE  SectionOf(d) = s /\ d \in AllIndices
  <1>1. SectionOf(d) = s
    BY SlotsAssumption, SMTT(30) DEF Start, SectionOf, Sections
  <1>2. Start(s + 1) <= Start(NumSections)
    BY SlotsAssumption, SMTT(30) DEF Start, Sections
  <1>3. QED
    BY <1>1, <1>2, SlotsAssumption DEF AllIndices, Start, Sections

LEMMA UsableIndices ==
    /\ Usable \subseteq AllIndices
    /\ AllIndices \subseteq Nat
    /\ IsFiniteSet(AllIndices)
    /\ IsFiniteSet(Usable)
    /\ IsFiniteSet(Threads)
  <1>1. Start(NumSections) \in Nat /\ NumSlots <= Start(NumSections)
    BY SlotsAssumption DEF Start
  <1>2. Start(NumSections) - 1 \in Int /\ NumSlots - 1 \in Int /\ 0 \in Int /\ 1 \in Int
    BY <1>1, SlotsAssumption
  <1>a. IsFiniteSet(AllIndices) /\ IsFiniteSet(Usable)
    BY <1>2, FS_Interval DEF AllIndices, Usable
  <1>3. IsFiniteSet(Threads)
    BY FS_AddElement, SlotsAssumption DEF Threads
  <1>4. QED
    BY <1>1, <1>a, <1>3, SlotsAssumption DEF Usable, AllIndices

\* The sets that are counted are finite.
LEMMA FiniteSets ==
    ASSUME TypeOK, SlotsOwned, ScanPosition
    PROVE  /\ IsFiniteSet(Free) /\ Free \subseteq AllIndices
           /\ IsFiniteSet(Open) /\ Open \subseteq AllIndices
           /\ IsFiniteSet(Available) /\ Available \subseteq AllIndices
           /\ IsFiniteSet(NotTotalled)
           /\ IsFiniteSet(alloc.got)
           /\ IsFiniteSet(Ahead)
           /\ \A s : IsFiniteSet(OpenIn(s))
  <1>1. BeingFreed \subseteq AllIndices
    BY UsableIndices DEF SlotsOwned
  <1>2. \A pcs \in {{"claimed"}, {"claimed", "counted"}} :
           Claimed(pcs) \subseteq AllIndices
    BY DEF Claimed, ScanPosition, Scanning
  <1>3. /\ Free \subseteq AllIndices
        /\ Open \subseteq AllIndices
        /\ Available \subseteq AllIndices
        /\ Ahead \subseteq AllIndices
        /\ \A s : OpenIn(s) \subseteq AllIndices
        /\ alloc.got \subseteq AllIndices
        /\ NotTotalled \subseteq Threads
    BY <1>1, <1>2, UsableIndices
    DEF Free, Open, Available, Ahead, OpenIn, NotTotalled, TypeOK
  <1>4. QED
    BY <1>3, UsableIndices, FS_Subset

----------------------------------------------------------------------------
(* The initial state *)

\* Every section starts with as many open slots as it has.
LEMMA InitialCounts ==
    ASSUME Init
    PROVE  CountersExact
  <1>1. Free = Usable /\ BeingFreed = {} /\ NotTotalled = {}
    BY UsableIndices DEF Init, Free, BeingFreed, NotTotalled
  <1>2. \A pcs \in {{"claimed"}, {"claimed", "counted"}} : Claimed(pcs) = {}
    BY DEF Init, Idle, Claimed
  <1>3. Open = Usable /\ Available = Usable
    BY <1>1, <1>2 DEF Open, Available
  <1>4. Cardinality(Usable) = NumSlots - 1 /\ Cardinality({}) = 0
    <2>1. NumSlots - 1 \in Int /\ 1 \in Int /\ NumSlots >= 1
      BY SlotsAssumption
    <2>2. Cardinality(Usable)
            = IF 1 > NumSlots - 1 THEN 0 ELSE NumSlots - 1 - 1 + 1
      BY <2>1, FS_Interval DEF Usable
    <2>3. QED
      BY <2>1, <2>2, FS_EmptySet, SlotsAssumption
  <1>5. ASSUME NEW s \in Sections
        PROVE  Cardinality(OpenIn(s)) = InitialCount(s)
    <2> DEFINE first == IF s = 0 THEN 1 ELSE Start(s)
               last == IF s = NumSections - 1 THEN NumSlots - 1
                       ELSE Start(s + 1) - 1
    <2>1. Start(s) \in Nat /\ Start(s + 1) = Start(s) + SlotsPerSection
      BY StartNext, SlotsAssumption DEF Sections
    <2>2. s # 0 => Start(s) > 0
      BY SlotsAssumption, SMTT(30) DEF Start, Sections
    <2>3. Start(0) = 0
      BY SlotsAssumption DEF Start
    <2>4. s # NumSections - 1 => Start(s + 1) < NumSlots
      BY SlotsAssumption, SMTT(30) DEF Start, Sections
    <2>5. s = NumSections - 1 => /\ Start(s) < NumSlots
                                 /\ NumSlots <= Start(s + 1)
      BY SlotsAssumption DEF Start, Sections
    <2>6. first \in Nat /\ last \in Int /\ 1 <= first /\ last < NumSlots
      BY <2>1, <2>2, <2>3, <2>4, SlotsAssumption DEF Sections
    <2>7. first .. last \subseteq OpenIn(s)
      <3>1. ASSUME NEW d \in first .. last
            PROVE  d \in Usable /\ SectionOf(d) = s
        BY <2>1, <2>2, <2>3, <2>4, <2>5, <2>6, SectionUnique, SlotsAssumption
        DEF Usable, Sections
      <3>2. QED
        BY <3>1, <1>3 DEF OpenIn
    <2>8. OpenIn(s) \subseteq first .. last
      <3>1. ASSUME NEW d \in Usable, SectionOf(d) = s
            PROVE  d \in first .. last
        BY <3>1, <2>1, <2>6, SectionBounds, UsableIndices, SlotsAssumption
        DEF Usable, Sections
      <3>2. QED
        BY <3>1, <1>3 DEF OpenIn
    <2>9. OpenIn(s) = first .. last
      BY <2>7, <2>8
    <2>10. Cardinality(OpenIn(s))
             = IF first > last THEN 0 ELSE last - first + 1
      <3>1. first \in Int /\ last \in Int
        BY <2>6
      <3> HIDE DEF first, last
      <3>2. QED
        BY <3>1, <2>9, FS_Interval
    <2>11. QED
      BY <2>1, <2>3, <2>4, <2>5, <2>6, <2>10, SlotsAssumption
      DEF InitialCount, Sections
  <1>6. QED
    BY <1>1, <1>3, <1>4, <1>5, SlotsAssumption DEF Init, CountersExact

LEMMA InitIInv == Init => IInv
  <1> SUFFICES ASSUME Init PROVE IInv
    OBVIOUS
  <1>1. CountersExact
    BY InitialCounts
  <1>2. \A s \in Sections : InitialCount(s) \in Nat
    BY SlotsAssumption, SMTT(30) DEF InitialCount, Start, Sections
  <1>3. Start(NumSections) \in Nat
    BY SlotsAssumption, StartNext
  <1>4. TypeOK
    BY <1>2, <1>3, SlotsAssumption DEF Init, Idle, TypeOK
  <1>5. SlotsOwned
    BY DEF Init, Idle, SlotsOwned, BeingFreed
  <1>6. ScanPosition /\ EnoughAhead
    BY FS_EmptySet DEF Init, Idle, ScanPosition, Scanning, Holding, EnoughAhead
  <1>7. QED
    BY <1>1, <1>4, <1>5, <1>6 DEF IInv

----------------------------------------------------------------------------
(* Steps of the scan *)

AllocType ==
    [pc : {"idle", "section", "slot", "claimed", "counted", "taken"},
     num : 0 .. MaxRequest, section : 0 .. NumSections,
     idx : 0 .. Start(NumSections), got : SUBSET Usable]

\* A step that neither claims nor releases leaves all that is counted alone.
LEMMA QuietSets ==
    ASSUME UNCHANGED <<disk_slot_statuses, release>>,
           alloc.pc \notin {"claimed", "counted"},
           alloc'.pc \notin {"claimed", "counted"}
    PROVE  /\ Free' = Free
           /\ BeingFreed' = BeingFreed
           /\ Available' = Available
           /\ NotTotalled' = NotTotalled
           /\ \A s : OpenIn(s)' = OpenIn(s)
           /\ Claimed({"claimed", "counted"}) = {}
           /\ Claimed({"claimed", "counted"})' = {}
  <1>1. /\ Free' = Free
        /\ BeingFreed' = BeingFreed
        /\ NotTotalled' = NotTotalled
    BY DEF Free, BeingFreed, NotTotalled
  <1>2. \A pcs \in {{"claimed"}, {"claimed", "counted"}} :
           Claimed(pcs) = {} /\ Claimed(pcs)' = {}
    BY DEF Claimed
  <1>3. Open' = Open /\ Available' = Available
    BY <1>1, <1>2 DEF Open, Available
  <1>4. QED
    BY <1>1, <1>2, <1>3 DEF OpenIn

\* Where At puts the scan.
LEMMA AtPosition ==
    ASSUME alloc \in AllocType, alloc.section \in Sections,
           NEW i \in Nat,
           Start(alloc.section) <= i, i <= Start(alloc.section + 1)
    PROVE  /\ At(i) \in AllocType
           /\ At(i).idx = i /\ At(i).num = alloc.num /\ At(i).got = alloc.got
           /\ At(i).pc \in {"section", "slot"}
           /\ At(i).pc = "section" => i = Start(At(i).section)
           /\ At(i).pc = "slot" => /\ At(i).section \in Sections
                                   /\ i \in AllIndices
                                   /\ SectionOf(i) = At(i).section
  <1>1. Start(alloc.section + 1) <= Start(NumSections)
    BY SlotsAssumption, SMTT(30) DEF Start, Sections
  <1>2. i \in 0 .. Start(NumSections) /\ alloc.section + 1 \in 0 .. NumSections
    BY <1>1, SlotsAssumption DEF Sections, Start
  <1>3. CASE i = Start(alloc.section + 1)
    BY <1>2, <1>3 DEF At, AllocType
  <1>4. CASE i # Start(alloc.section + 1)
    <2>1. i < Start(alloc.section + 1)
      BY <1>4, SlotsAssumption DEF Start, Sections
    <2>2. SectionOf(i) = alloc.section /\ i \in AllIndices
      BY <2>1, SectionUnique
    <2>3. QED
      BY <1>2, <1>4, <2>2 DEF At, AllocType
  <1>5. QED
    BY <1>3, <1>4

\* The scan may leave behind what is not free.
LEMMA MoveScan ==
    ASSUME IInv,
           alloc.pc \in {"section", "slot", "taken"},
           alloc.section \in Sections,
           Cardinality(alloc.got) # alloc.num,
           NEW i \in Nat,
           alloc.idx <= i, i <= Start(alloc.section + 1),
           \A d \in Free : d >= alloc.idx => d >= i,
           alloc' = At(i),
           UNCHANGED <<disk_slot_statuses, open_slot_counts,
                       total_available_slots, owned, release>>
    PROVE  IInv'
  <1> USE DEF IInv
  <1>1. alloc \in AllocType
    BY DEF TypeOK, AllocType
  <1>2. Start(alloc.section) <= alloc.idx
    <2>1. CASE alloc.pc = "section"
      BY <2>1, SlotsAssumption DEF ScanPosition, Start, Sections
    <2>2. CASE alloc.pc # "section"
      BY <2>2, SectionBounds DEF ScanPosition, Scanning
    <2>3. QED
      BY <2>1, <2>2
  <1>3. Start(alloc.section) \in Nat /\ alloc.idx \in Nat
    BY <1>1, StartNext DEF AllocType, Sections
  <1>4. /\ At(i) \in AllocType
        /\ At(i).idx = i /\ At(i).num = alloc.num /\ At(i).got = alloc.got
        /\ At(i).pc \in {"section", "slot"}
        /\ At(i).pc = "section" => i = Start(At(i).section)
        /\ At(i).pc = "slot" => /\ At(i).section \in Sections
                                /\ i \in AllIndices
                                /\ SectionOf(i) = At(i).section
    BY <1>1, <1>2, <1>3, AtPosition
  <1>5. /\ Free' = Free
        /\ BeingFreed' = BeingFreed
        /\ Available' = Available
        /\ NotTotalled' = NotTotalled
        /\ \A s : OpenIn(s)' = OpenIn(s)
        /\ Claimed({"claimed", "counted"}) = {}
        /\ Claimed({"claimed", "counted"})' = {}
    BY <1>4, QuietSets
  <1>6. TypeOK'
    BY <1>4 DEF TypeOK, AllocType
  <1>7. SlotsOwned'
    BY <1>4, <1>5 DEF SlotsOwned
  <1>8. Cardinality(alloc.got) < alloc.num /\ alloc.num > 0
    <2>1. Cardinality(alloc.got) \in Nat /\ alloc.num \in Nat
      BY <1>1, FiniteSets, FS_CardinalityType, SlotsAssumption DEF AllocType
    <2>2. QED
      BY <2>1 DEF ScanPosition
  <1>9. ScanPosition'
    BY <1>4, <1>8 DEF ScanPosition, Scanning, Holding
  <1>10. CountersExact'
    BY <1>5 DEF CountersExact
  <1>11. Ahead' = Ahead
    <2>1. \A d \in Free : d \in Nat
      BY UsableIndices DEF Free
    <2>2. QED
      BY <1>3, <1>4, <1>5, <2>1 DEF Ahead
  <1>12. EnoughAhead'
    BY <1>4, <1>5, <1>11 DEF EnoughAhead
  <1>13. QED
    BY <1>6, <1>7, <1>9, <1>10, <1>12

\* A section whose count is 0 has no free slot.
LEMMA NoneOpen ==
    ASSUME IInv, NEW s \in Sections, open_slot_counts[s] = 0,
           NEW d \in Free
    PROVE  SectionOf(d) # s
  <1>1. IsFiniteSet(OpenIn(s)) /\ Cardinality(OpenIn(s)) = 0
    BY FiniteSets DEF IInv, CountersExact
  <1>2. OpenIn(s) = {}
    BY <1>1, FS_EmptySet
  <1>3. QED
    BY <1>2 DEF OpenIn, Open

\* Nothing free lies between the scan and the end of such a section.
LEMMA LeaveSection ==
    ASSUME IInv, alloc.section \in Sections, NEW d \in Free,
           open_slot_counts[alloc.section] = 0,
           Start(alloc.section) <= alloc.idx, d >= alloc.idx
    PROVE  d >= Start(alloc.section + 1)
  <1>1. d \in Nat /\ alloc.idx \in Nat /\ Start(alloc.section) \in Nat
        /\ Start(alloc.section + 1) \in Nat
    <2>1. alloc.section \in Nat /\ alloc.section + 1 \in Nat
      BY DEF Sections
    <2>2. QED
      BY <2>1, UsableIndices, StartNext, SlotsAssumption DEF Free, IInv, TypeOK
  <1>2. SUFFICES ASSUME d < Start(alloc.section + 1) PROVE FALSE
    BY <1>1
  <1>3. SectionOf(d) = alloc.section
    BY <1>1, <1>2, SectionUnique
  <1>4. QED
    BY <1>3, NoneOpen

LEMMA ScanSteps ==
    ASSUME IInv, EnterSection \/ SkipUsedSlot \/ ContinueScan
    PROVE  IInv'
  <1> USE DEF IInv
  <1>1. alloc \in AllocType
    BY DEF TypeOK, AllocType
  <1>2. ASSUME alloc.section \in Sections
        PROVE  /\ Start(alloc.section) \in Nat
               /\ Start(alloc.section + 1) \in Nat
               /\ Start(alloc.section) <= Start(alloc.section + 1)
               /\ alloc.idx \in Nat
    <2>1. alloc.section \in Nat /\ alloc.section + 1 \in Nat
      BY <1>2 DEF Sections
    <2>2. alloc.idx \in Nat
      BY <1>1, StartNext, SlotsAssumption DEF AllocType
    <2>3. QED
      BY <2>1, <2>2, StartNext, SlotsAssumption
  <1>3. CASE EnterSection
    <2>1. /\ alloc.section \in Sections /\ alloc.idx = Start(alloc.section)
          /\ alloc.pc = "section"
          /\ Cardinality(alloc.got) # alloc.num
      <3>1. alloc.pc = "section" /\ alloc.section \in Sections
        BY <1>3 DEF EnterSection
      <3>2. alloc.num \in Nat /\ Cardinality(alloc.got) \in Nat
        BY <1>1, FiniteSets, FS_CardinalityType, SlotsAssumption DEF AllocType
      <3>3. QED
        BY <3>1, <3>2 DEF ScanPosition
    <2>2. CASE open_slot_counts[alloc.section] = 0
      <3>1. \A d \in Free : d >= alloc.idx => d >= Start(alloc.section + 1)
        BY <1>2, <2>1, <2>2, LeaveSection
      <3>2. alloc' = At(Start(alloc.section + 1))
        BY <1>3, <2>2 DEF EnterSection
      <3>3. QED
        BY <1>2, <1>3, <2>1, <3>1, <3>2, MoveScan DEF EnterSection
    <2>3. CASE open_slot_counts[alloc.section] # 0
      <3>1. At(alloc.idx) = [alloc EXCEPT !.pc = "slot", !.idx = alloc.idx]
        BY <1>2, <2>1, StartNext, SlotsAssumption DEF At, Sections
      <3>2. [alloc EXCEPT !.pc = "slot"] = At(alloc.idx)
        BY <3>1, <1>1 DEF AllocType
      <3>3. alloc' = At(alloc.idx)
        BY <1>3, <2>3, <3>2 DEF EnterSection
      <3>4. QED
        BY <1>2, <1>3, <2>1, <3>3, MoveScan DEF EnterSection
    <2>4. QED
      BY <2>2, <2>3
  <1>4. ASSUME alloc.pc \in Scanning
        PROVE  /\ alloc.section \in Sections
               /\ Start(alloc.section) <= alloc.idx
               /\ alloc.idx + 1 <= Start(alloc.section + 1)
               /\ alloc.idx + 1 \in Nat
    <2>1. alloc.section \in Sections
      BY <1>4 DEF ScanPosition
    <2>2. QED
      BY <1>2, <1>4, <2>1, SectionBounds DEF ScanPosition
  <1>5. ASSUME alloc.pc \in Scanning,
               disk_slot_statuses[alloc.idx] = "used"
        PROVE  \A d \in Free : d >= alloc.idx => d >= alloc.idx + 1
    <2>1. \A d \in Free : d \in Nat /\ d # alloc.idx
      BY <1>5, UsableIndices DEF Free
    <2>2. QED
      BY <1>2, <1>4, <1>5, <2>1
  <1>6. CASE SkipUsedSlot
    <2>1. /\ alloc.pc = "slot" /\ disk_slot_statuses[alloc.idx] = "used"
          /\ alloc' = At(alloc.idx + 1)
      BY <1>6 DEF SkipUsedSlot
    <2>2. Cardinality(alloc.got) # alloc.num
      <3>1. alloc.num \in Nat /\ Cardinality(alloc.got) \in Nat
        BY <1>1, FiniteSets, FS_CardinalityType, SlotsAssumption DEF AllocType
      <3>2. QED
        BY <2>1, <3>1 DEF ScanPosition
    <2>3. alloc.idx <= alloc.idx + 1
      BY <1>2, <1>4, <2>1 DEF Scanning
    <2>4. QED
      BY <1>4, <1>5, <1>6, <2>1, <2>2, <2>3, MoveScan DEF SkipUsedSlot, Scanning
  <1>7. CASE ContinueScan
    <2>1. alloc.pc = "taken" /\ Cardinality(alloc.got) # alloc.num
      BY <1>7 DEF ContinueScan
    <2>2. alloc.section \in Sections /\ Start(alloc.section) <= alloc.idx
          /\ alloc.idx <= alloc.idx + 1
      BY <1>2, <1>4, <2>1 DEF Scanning
    <2>3. disk_slot_statuses[alloc.idx] = "used"
      BY <2>1 DEF ScanPosition, Holding, SlotsOwned
    <2>4. CASE open_slot_counts[alloc.section] = 0
      <3>1. \A d \in Free : d >= alloc.idx => d >= Start(alloc.section + 1)
        BY <2>2, <2>4, LeaveSection
      <3>2. alloc.idx <= Start(alloc.section + 1)
        BY <1>2, <1>4, <2>1, <2>2 DEF Scanning
      <3>3. alloc' = At(Start(alloc.section + 1))
        BY <1>7, <2>4 DEF ContinueScan
      <3>4. QED
        BY <1>2, <1>7, <2>1, <2>2, <3>1, <3>2, <3>3, MoveScan DEF ContinueScan
    <2>5. CASE open_slot_counts[alloc.section] # 0
      <3>1. alloc' = At(alloc.idx + 1)
        BY <1>7, <2>5 DEF ContinueScan
      <3>2. QED
        BY <1>4, <1>5, <1>7, <2>1, <2>2, <2>3, <3>1, MoveScan
        DEF ContinueScan, Scanning
    <2>6. QED
      BY <2>4, <2>5
  <1>8. QED
    BY <1>3, <1>6, <1>7

\* The request is within the total, hence within what is free.
LEMMA RequestStep ==
    ASSUME IInv, NEW n \in 1 .. MaxRequest, Request(n)
    PROVE  IInv'
  <1> USE DEF IInv
  <1>1. /\ alloc.pc = "idle" /\ n <= total_available_slots
        /\ alloc' = [pc |-> "section", num |-> n, section |-> 0, idx |-> 0,
                     got |-> {}]
        /\ alloc.got = {}
        /\ UNCHANGED <<disk_slot_statuses, open_slot_counts,
                       total_available_slots, owned, release>>
    BY DEF Request, Idle, ScanPosition
  <1>2. /\ Free' = Free
        /\ BeingFreed' = BeingFreed
        /\ Available' = Available
        /\ NotTotalled' = NotTotalled
        /\ \A s : OpenIn(s)' = OpenIn(s)
        /\ Claimed({"claimed", "counted"}) = {}
        /\ Claimed({"claimed", "counted"})' = {}
    BY <1>1, QuietSets
  <1>3. Start(0) = 0 /\ Start(NumSections) \in Nat
    BY SlotsAssumption DEF Start
  <1>4. TypeOK'
    BY <1>1, <1>3, SlotsAssumption DEF TypeOK
  <1>5. SlotsOwned'
    BY <1>1, <1>2 DEF SlotsOwned
  <1>6. ScanPosition'
    BY <1>1, <1>3, FS_EmptySet DEF ScanPosition, Scanning, Holding
  <1>7. CountersExact'
    BY <1>1, <1>2 DEF CountersExact
  <1>8. EnoughAhead'
    <2>1. Ahead' = Free
      <3>1. \A d \in Free : d >= 0
        BY UsableIndices DEF Free
      <3>2. QED
        BY <1>1, <1>2, <3>1 DEF Ahead
    <2>2. Available = Free
      BY <1>1 DEF Available, Claimed
    <2>3. total_available_slots <= Cardinality(Free)
      <3>1. Cardinality(NotTotalled) \in Nat /\ Cardinality(Free) \in Nat
        BY FiniteSets, FS_CardinalityType
      <3>2. QED
        BY <2>2, <3>1 DEF CountersExact, TypeOK
    <2>4. Cardinality(Free) \in Nat
      BY FiniteSets, FS_CardinalityType
    <2>5. n <= Cardinality(Free)
      BY <1>1, <2>3, <2>4 DEF TypeOK
    <2>6. alloc'.num = n /\ Cardinality(alloc'.got) = 0
          /\ Cardinality(Claimed({"claimed", "counted"})') = 0
      BY <1>1, <1>2, FS_EmptySet
    <2>7. QED
      BY <1>1, <2>1, <2>5, <2>6 DEF EnoughAhead
  <1>9. QED
    BY <1>4, <1>5, <1>6, <1>7, <1>8

\* The batch has its slots.
LEMMA FinishStep ==
    ASSUME IInv, FinishRequest
    PROVE  IInv'
  <1> USE DEF IInv
  <1>1. /\ alloc.pc = "taken" /\ owned' = owned \cup alloc.got
        /\ alloc' = [pc |-> "idle", num |-> 0, section |-> 0, idx |-> 0,
                     got |-> {}]
        /\ UNCHANGED <<disk_slot_statuses, open_slot_counts,
                       total_available_slots, release>>
    BY DEF FinishRequest, Idle
  <1>2. /\ Free' = Free
        /\ BeingFreed' = BeingFreed
        /\ Available' = Available
        /\ NotTotalled' = NotTotalled
        /\ \A s : OpenIn(s)' = OpenIn(s)
    BY <1>1, QuietSets
  <1>3. TypeOK'
    <2>1. Start(NumSections) \in Nat
      BY SlotsAssumption DEF Start
    <2>2. QED
      BY <1>1, <2>1, SlotsAssumption DEF TypeOK
  <1>4. SlotsOwned'
    BY <1>1, <1>2 DEF SlotsOwned
  <1>5. ScanPosition' /\ EnoughAhead'
    BY <1>1, FS_EmptySet DEF ScanPosition, Scanning, Holding, EnoughAhead
  <1>6. CountersExact'
    BY <1>1, <1>2 DEF CountersExact
  <1>7. QED
    BY <1>3, <1>4, <1>5, <1>6

----------------------------------------------------------------------------
(* Claiming a slot and lowering the counters *)

\* The claimed slot leaves Free and stays in Open and Available.
LEMMA ClaimStep ==
    ASSUME IInv, ClaimSlot
    PROVE  IInv'
  <1> USE DEF IInv
  <1> DEFINE i == alloc.idx
  <1>1. /\ alloc.pc = "slot" /\ disk_slot_statuses[i] = "free"
        /\ disk_slot_statuses' = [disk_slot_statuses EXCEPT ![i] = "used"]
        /\ alloc' = [alloc EXCEPT !.pc = "claimed", !.got = @ \cup {i}]
        /\ UNCHANGED <<open_slot_counts, total_available_slots, owned, release>>
    BY DEF ClaimSlot
  <1>2. /\ alloc.section \in Sections /\ i \in AllIndices
        /\ SectionOf(i) = alloc.section
        /\ Cardinality(alloc.got) < alloc.num
    BY <1>1 DEF ScanPosition, Scanning
  <1>3. /\ alloc'.pc = "claimed" /\ alloc'.idx = i /\ alloc'.num = alloc.num
        /\ alloc'.section = alloc.section /\ alloc'.got = alloc.got \cup {i}
    BY <1>1 DEF TypeOK
  <1>4. i \in Usable /\ i \notin owned \cup alloc.got \cup BeingFreed
    BY <1>1, <1>2 DEF SlotsOwned
  <1>5. Free' = Free \ {i} /\ i \in Free
    BY <1>1, <1>2 DEF Free, TypeOK
  <1>6. BeingFreed' = BeingFreed /\ NotTotalled' = NotTotalled
    BY <1>1 DEF BeingFreed, NotTotalled
  <1>7. /\ Claimed({"claimed"}) = {} /\ Claimed({"claimed", "counted"}) = {}
        /\ Claimed({"claimed"})' = {i} /\ Claimed({"claimed", "counted"})' = {i}
    BY <1>1, <1>3 DEF Claimed
  <1>8. Open' = Open /\ Available' = Available
    BY <1>5, <1>6, <1>7 DEF Open, Available
  <1>9. TypeOK'
    BY <1>1, <1>4 DEF TypeOK
  <1>10. SlotsOwned'
    <2>1. \A d \in AllIndices :
             disk_slot_statuses'[d] = IF d = i THEN "used" ELSE disk_slot_statuses[d]
      BY <1>1 DEF TypeOK
    <2>2. \A d \in owned' \cup alloc'.got \cup BeingFreed' :
             d \in Usable /\ disk_slot_statuses'[d] = "used"
      BY <1>1, <1>3, <1>4, <1>6, <2>1, UsableIndices DEF SlotsOwned
    <2>3. \A d \in AllIndices \ Usable : disk_slot_statuses'[d] = "used"
      BY <2>1 DEF SlotsOwned
    <2>4. QED
      BY <1>1, <1>3, <1>4, <1>6, <2>2, <2>3 DEF SlotsOwned
  <1>11. /\ Cardinality(alloc'.got) = Cardinality(alloc.got) + 1
         /\ Cardinality(alloc.got) \in Nat /\ alloc.num \in Nat
    <2>1. IsFiniteSet(alloc.got)
      BY FiniteSets
    <2>2. Cardinality(alloc.got) \in Nat
      BY <2>1, FS_CardinalityType
    <2>3. Cardinality(alloc.got \cup {i}) = Cardinality(alloc.got) + 1
      BY <1>4, <2>1, FS_AddElement
    <2>4. alloc.num \in Nat
      BY SlotsAssumption DEF TypeOK
    <2>5. QED
      BY <1>3, <2>2, <2>3, <2>4
  <1>12. ScanPosition'
    BY <1>2, <1>3, <1>11 DEF ScanPosition, Scanning, Holding
  <1>13. CountersExact'
    BY <1>1, <1>6, <1>8 DEF CountersExact, OpenIn
  <1>14. EnoughAhead'
    <2>1. Ahead' = Ahead \ {i} /\ i \in Ahead
      <3>1. i \in Nat
        BY <1>2, UsableIndices
      <3> HIDE DEF i
      <3>a. i >= i
        BY <3>1
      <3>2. QED
        BY <1>3, <1>5, <3>a DEF Ahead, i
    <2>2. /\ Cardinality(Ahead') = Cardinality(Ahead) - 1
          /\ Cardinality(Ahead) \in Nat
      BY <2>1, FiniteSets, FS_RemoveElement, FS_CardinalityType
    <2>3. /\ Cardinality(Claimed({"claimed", "counted"})) = 0
          /\ Cardinality(Claimed({"claimed", "counted"})') = 1
      BY <1>7, FS_EmptySet, FS_Singleton
    <2>4. alloc.pc # "idle"
      BY <1>1
    <2>5. QED
      BY <1>1, <1>3, <1>11, <2>2, <2>3, <2>4 DEF EnoughAhead, TypeOK
  <1>15. QED
    BY <1>9, <1>10, <1>12, <1>13, <1>14

\* It leaves Open when the section's count is lowered.
LEMMA LowerOpenCountStep ==
    ASSUME IInv, LowerOpenCount
    PROVE  IInv'
  <1> USE DEF IInv
  <1> DEFINE i == alloc.idx
             s == alloc.section
  <1>1. /\ alloc.pc = "claimed"
        /\ open_slot_counts' = [open_slot_counts EXCEPT ![s] = @ - 1]
        /\ alloc' = [alloc EXCEPT !.pc = "counted"]
        /\ UNCHANGED <<disk_slot_statuses, total_available_slots, owned, release>>
    BY DEF LowerOpenCount
  <1>2. s \in Sections /\ i \in AllIndices /\ SectionOf(i) = s /\ i \in alloc.got
    BY <1>1 DEF ScanPosition, Scanning, Holding
  <1>3. /\ alloc'.pc = "counted" /\ alloc'.idx = i /\ alloc'.num = alloc.num
        /\ alloc'.section = s /\ alloc'.got = alloc.got
    BY <1>1 DEF TypeOK
  <1>4. i \notin Free /\ i \notin BeingFreed
    BY <1>2 DEF SlotsOwned, Free
  <1>5. Free' = Free /\ BeingFreed' = BeingFreed /\ NotTotalled' = NotTotalled
    BY <1>1 DEF Free, BeingFreed, NotTotalled
  <1>6. /\ Claimed({"claimed"}) = {i} /\ Claimed({"claimed"})' = {}
        /\ Claimed({"claimed", "counted"})' = Claimed({"claimed", "counted"})
    BY <1>1, <1>3 DEF Claimed
  <1>7. Open' = Open \ {i} /\ i \in Open /\ Available' = Available
    BY <1>4, <1>5, <1>6 DEF Open, Available
  <1>8. CountersExact'
    <2>1. OpenIn(s)' = OpenIn(s) \ {i} /\ i \in OpenIn(s)
      BY <1>2, <1>3, <1>7 DEF OpenIn
    <2>2. \A r \in Sections \ {s} : OpenIn(r)' = OpenIn(r)
      BY <1>2, <1>7 DEF OpenIn
    <2>3. Cardinality(OpenIn(s)') = Cardinality(OpenIn(s)) - 1
      BY <2>1, FiniteSets, FS_RemoveElement
    <2>4. \A r \in Sections : open_slot_counts'[r] = Cardinality(OpenIn(r)')
      BY <1>1, <1>2, <1>3, <2>2, <2>3 DEF CountersExact, TypeOK
    <2>5. QED
      BY <1>1, <1>5, <1>7, <2>4 DEF CountersExact
  <1>9. TypeOK'
    <2>1. open_slot_counts[s] - 1 \in Nat
      <3>1. i \in OpenIn(s) /\ IsFiniteSet(OpenIn(s))
        BY <1>2, <1>7, FiniteSets DEF OpenIn
      <3>2. Cardinality(OpenIn(s)) # 0 /\ Cardinality(OpenIn(s)) \in Nat
        BY <3>1, FS_EmptySet, FS_CardinalityType
      <3>3. QED
        BY <1>2, <3>2 DEF CountersExact
    <2>2. open_slot_counts' \in [Sections -> Nat]
      BY <1>1, <2>1 DEF TypeOK
    <2>3. QED
      BY <1>1, <2>2 DEF TypeOK
  <1>10. SlotsOwned'
    BY <1>1, <1>3, <1>5 DEF SlotsOwned
  <1>11. ScanPosition'
    BY <1>1, <1>2, <1>3 DEF ScanPosition, Scanning, Holding
  <1>12. EnoughAhead'
    BY <1>1, <1>3, <1>5, <1>6 DEF EnoughAhead, Ahead
  <1>13. QED
    BY <1>8, <1>9, <1>10, <1>11, <1>12

\* And Available when the total is.
LEMMA LowerTotalStep ==
    ASSUME IInv, LowerTotal
    PROVE  IInv'
  <1> USE DEF IInv
  <1> DEFINE i == alloc.idx
  <1>1. /\ alloc.pc = "counted"
        /\ total_available_slots' = total_available_slots - 1
        /\ alloc' = [alloc EXCEPT !.pc = "taken"]
        /\ UNCHANGED <<disk_slot_statuses, open_slot_counts, owned, release>>
    BY DEF LowerTotal
  <1>2. i \in AllIndices /\ i \in alloc.got
    BY <1>1 DEF ScanPosition, Scanning, Holding
  <1>3. /\ alloc'.pc = "taken" /\ alloc'.idx = i /\ alloc'.num = alloc.num
        /\ alloc'.section = alloc.section /\ alloc'.got = alloc.got
    BY <1>1 DEF TypeOK
  <1>4. i \notin Free
    BY <1>2 DEF SlotsOwned, Free
  <1>5. Free' = Free /\ BeingFreed' = BeingFreed /\ NotTotalled' = NotTotalled
    BY <1>1 DEF Free, BeingFreed, NotTotalled
  <1>6. /\ Claimed({"claimed"}) = {} /\ Claimed({"claimed"})' = {}
        /\ Claimed({"claimed", "counted"}) = {i}
        /\ Claimed({"claimed", "counted"})' = {}
    BY <1>1, <1>3 DEF Claimed
  <1>7. Open' = Open /\ Available' = Available \ {i} /\ i \in Available
    BY <1>4, <1>5, <1>6 DEF Open, Available
  <1>8. /\ alloc.num \in Nat /\ Cardinality(alloc.got) \in Nat
        /\ Cardinality(alloc.got) <= alloc.num
        /\ Cardinality(Claimed({"claimed", "counted"})) = 1
        /\ Cardinality(Claimed({"claimed", "counted"})') = 0
    <2>1. IsFiniteSet(alloc.got)
      BY FiniteSets
    <2>2. Cardinality(alloc.got) \in Nat
      BY <2>1, FS_CardinalityType
    <2>3. alloc.num \in Nat /\ Cardinality(alloc.got) <= alloc.num
      BY SlotsAssumption DEF TypeOK, ScanPosition
    <2>4. /\ Cardinality(Claimed({"claimed", "counted"})) = 1
          /\ Cardinality(Claimed({"claimed", "counted"})') = 0
      BY <1>6, FS_EmptySet, FS_Singleton
    <2>5. QED
      BY <2>2, <2>3, <2>4
  <1>9. TypeOK'
    <2>1. total_available_slots - 1 \in Nat
      BY <1>1, <1>8 DEF EnoughAhead, TypeOK
    <2>2. QED
      BY <1>1, <2>1 DEF TypeOK
  <1>10. CountersExact'
    <2>1. Cardinality(Available') = Cardinality(Available) - 1
          /\ Cardinality(Available) \in Nat /\ Cardinality(NotTotalled) \in Nat
      BY <1>7, FiniteSets, FS_RemoveElement, FS_CardinalityType
    <2>2. QED
      BY <1>1, <1>5, <1>7, <2>1 DEF CountersExact, OpenIn, TypeOK
  <1>11. SlotsOwned'
    BY <1>1, <1>3, <1>5 DEF SlotsOwned
  <1>12. ScanPosition'
    BY <1>1, <1>2, <1>3 DEF ScanPosition, Scanning, Holding
  <1>13. EnoughAhead'
    <2>1. Ahead' = Ahead
      BY <1>3, <1>5 DEF Ahead
    <2>2. QED
      BY <1>1, <1>3, <1>8, <2>1 DEF EnoughAhead, TypeOK
  <1>14. QED
    BY <1>9, <1>10, <1>11, <1>12, <1>13

----------------------------------------------------------------------------
(* Releasing a slot *)

\* The section's count is raised first: the slot is in Open from then on.
LEMMA RaiseOpenCountStep ==
    ASSUME IInv, NEW t \in Threads, NEW d \in Usable, RaiseOpenCount(t, d)
    PROVE  IInv'
  <1> USE DEF IInv
  <1> DEFINE s == SectionOf(d)
  <1>1. /\ release[t].pc = "idle" /\ d \in owned /\ owned' = owned \ {d}
        /\ open_slot_counts' = [open_slot_counts EXCEPT ![s] = @ + 1]
        /\ release' = [release EXCEPT ![t] = [pc |-> "counted", slot |-> d]]
        /\ UNCHANGED <<disk_slot_statuses, total_available_slots, alloc>>
    BY DEF RaiseOpenCount
  <1>2. s \in Sections /\ d \in AllIndices
    BY SectionBounds, UsableIndices
  <1>3. /\ release'[t].pc = "counted" /\ release'[t].slot = d
        /\ \A u \in Threads \ {t} : release'[u] = release[u]
    BY <1>1 DEF TypeOK
  <1>4. d \notin Free /\ d \notin BeingFreed /\ d \notin alloc.got
    BY <1>1, <1>2 DEF SlotsOwned, Free
  <1>5. BeingFreed' = BeingFreed \cup {d}
    BY <1>1, <1>3 DEF BeingFreed
  <1>6. NotTotalled' = NotTotalled
    BY <1>1, <1>3 DEF NotTotalled
  <1>7. Free' = Free /\ \A pcs : Claimed(pcs)' = Claimed(pcs)
    BY <1>1 DEF Free, Claimed
  <1>8. d \notin Claimed({"claimed"})
    BY <1>4 DEF Claimed, ScanPosition, Holding
  <1>9. Open' = Open \cup {d} /\ d \notin Open /\ Available' = Available
    BY <1>4, <1>5, <1>7, <1>8 DEF Open, Available
  <1>10. TypeOK'
    <2>1. open_slot_counts' \in [Sections -> Nat]
      BY <1>1, <1>2 DEF TypeOK
    <2>2. release' \in [Threads -> [pc : {"idle", "counted", "freed"},
                                    slot : Usable \cup {0}]]
      BY <1>1 DEF TypeOK
    <2>3. QED
      BY <1>1, <2>1, <2>2 DEF TypeOK
  <1>11. CountersExact'
    <2>1. OpenIn(s)' = OpenIn(s) \cup {d} /\ d \notin OpenIn(s)
      BY <1>9 DEF OpenIn
    <2>2. \A r \in Sections \ {s} : OpenIn(r)' = OpenIn(r)
      BY <1>9 DEF OpenIn
    <2>3. Cardinality(OpenIn(s)') = Cardinality(OpenIn(s)) + 1
      BY <2>1, FiniteSets, FS_AddElement
    <2>4. \A r \in Sections : open_slot_counts'[r] = Cardinality(OpenIn(r)')
      BY <1>1, <1>2, <2>2, <2>3 DEF CountersExact, TypeOK
    <2>5. QED
      BY <1>1, <1>6, <1>9, <2>4 DEF CountersExact
  <1>12. SlotsOwned'
    <2>1. \A u, v \in Threads :
             /\ release'[u].pc = "counted" /\ release'[v].pc = "counted"
             /\ release'[u].slot = release'[v].slot
             => u = v
      <3>1. \A u \in Threads \ {t} :
               release[u].pc = "counted" => release[u].slot # d
        BY <1>4 DEF BeingFreed
      <3>2. QED
        BY <1>3, <3>1 DEF SlotsOwned
    <2>2. QED
      BY <1>1, <1>4, <1>5, <2>1 DEF SlotsOwned
  <1>13. ScanPosition' /\ EnoughAhead'
    BY <1>1, <1>7 DEF ScanPosition, EnoughAhead, Ahead
  <1>14. QED
    BY <1>10, <1>11, <1>12, <1>13

\* The slot becomes free, but the total does not say so yet.
LEMMA FreeSlotStep ==
    ASSUME IInv, NEW t \in Threads, FreeSlot(t)
    PROVE  IInv'
  <1> USE DEF IInv
  <1> DEFINE d == release[t].slot
  <1>1. /\ release[t].pc = "counted"
        /\ disk_slot_statuses' = [disk_slot_statuses EXCEPT ![d] = "free"]
        /\ release' = [release EXCEPT ![t].pc = "freed"]
        /\ UNCHANGED <<open_slot_counts, total_available_slots, owned, alloc>>
    BY DEF FreeSlot
  <1>2. d \in BeingFreed
    BY <1>1 DEF BeingFreed
  <1>3. /\ d \in Usable /\ d \in AllIndices /\ d \notin Free
        /\ d \notin owned /\ d \notin alloc.got
    BY <1>2, UsableIndices DEF SlotsOwned, Free
  <1>4. /\ release'[t].pc = "freed" /\ release'[t].slot = d
        /\ \A u \in Threads \ {t} : release'[u] = release[u]
    BY <1>1 DEF TypeOK
  <1>5. BeingFreed' = BeingFreed \ {d}
    <2>1. \A u \in Threads \ {t} : release[u].pc = "counted" => release[u].slot # d
      BY <1>1 DEF SlotsOwned
    <2>2. QED
      BY <1>4, <2>1 DEF BeingFreed
  <1>6. NotTotalled' = NotTotalled \cup {t} /\ t \notin NotTotalled
    BY <1>1, <1>4 DEF NotTotalled
  <1>7. \A e \in AllIndices :
           disk_slot_statuses'[e] = IF e = d THEN "free" ELSE disk_slot_statuses[e]
    BY <1>1 DEF TypeOK
  <1>8. Free' = Free \cup {d} /\ \A pcs : Claimed(pcs)' = Claimed(pcs)
    BY <1>1, <1>3, <1>7 DEF Free, Claimed
  <1>9. d \notin Claimed({"claimed", "counted"})
    BY <1>3 DEF Claimed, ScanPosition, Holding
  <1>10. Open' = Open /\ Available' = Available \cup {d} /\ d \notin Available
    BY <1>2, <1>3, <1>5, <1>8, <1>9 DEF Open, Available
  <1>11. TypeOK'
    <2>1. release' \in [Threads -> [pc : {"idle", "counted", "freed"},
                                    slot : Usable \cup {0}]]
      BY <1>1 DEF TypeOK
    <2>2. QED
      BY <1>1, <2>1 DEF TypeOK
  <1>12. CountersExact'
    <2>1. /\ Cardinality(Available') = Cardinality(Available) + 1
          /\ Cardinality(NotTotalled') = Cardinality(NotTotalled) + 1
      BY <1>6, <1>10, FiniteSets, FS_AddElement
    <2>2. Cardinality(Available) \in Nat /\ Cardinality(NotTotalled) \in Nat
      BY FiniteSets, FS_CardinalityType
    <2>3. QED
      BY <1>1, <1>10, <2>1, <2>2 DEF CountersExact, OpenIn, TypeOK
  <1>13. SlotsOwned'
    <2>1. \A e \in owned' \cup alloc'.got \cup BeingFreed' :
             e \in Usable /\ disk_slot_statuses'[e] = "used"
      BY <1>1, <1>3, <1>5, <1>7, UsableIndices DEF SlotsOwned
    <2>2. \A e \in AllIndices \ Usable : disk_slot_statuses'[e] = "used"
      BY <1>3, <1>7 DEF SlotsOwned
    <2>3. \A u, v \in Threads :
             /\ release'[u].pc = "counted" /\ release'[v].pc = "counted"
             /\ release'[u].slot = release'[v].slot
             => u = v
      BY <1>4 DEF SlotsOwned
    <2>4. QED
      BY <1>1, <1>5, <2>1, <2>2, <2>3 DEF SlotsOwned
  <1>14. ScanPosition'
    BY <1>1 DEF ScanPosition
  <1>15. EnoughAhead'
    <2>1. IsFiniteSet(Ahead')
      <3>1. Ahead' \subseteq AllIndices
        BY <1>8, <1>3, FiniteSets DEF Ahead
      <3>2. QED
        BY <3>1, UsableIndices, FS_Subset
    <2>2. Ahead \subseteq Ahead'
      BY <1>1, <1>8 DEF Ahead
    <2>3. /\ Cardinality(Ahead) <= Cardinality(Ahead')
          /\ Cardinality(Ahead) \in Nat /\ Cardinality(Ahead') \in Nat
      BY <2>1, <2>2, FiniteSets, FS_Subset, FS_CardinalityType
    <2>4. alloc.num - Cardinality(alloc.got) \in Int
      <3>1. Cardinality(alloc.got) \in Nat
        BY FiniteSets, FS_CardinalityType
      <3>2. alloc.num \in Nat
        BY SlotsAssumption DEF TypeOK
      <3>3. QED
        BY <3>1, <3>2
    <2>5. QED
      BY <1>1, <1>8, <2>3, <2>4 DEF EnoughAhead
  <1>16. QED
    BY <1>11, <1>12, <1>13, <1>14, <1>15

LEMMA RaiseTotalStep ==
    ASSUME IInv, NEW t \in Threads, RaiseTotal(t)
    PROVE  IInv'
  <1> USE DEF IInv
  <1>1. /\ release[t].pc = "freed"
        /\ total_available_slots' = total_available_slots + 1
        /\ release' = [release EXCEPT ![t] = [pc |-> "idle", slot |-> 0]]
        /\ UNCHANGED <<disk_slot_statuses, open_slot_counts, owned, alloc>>
    BY DEF RaiseTotal
  <1>2. /\ release'[t].pc = "idle"
        /\ \A u \in Threads \ {t} : release'[u] = release[u]
    BY <1>1 DEF TypeOK
  <1>3. BeingFreed' = BeingFreed
    BY <1>1, <1>2 DEF BeingFreed
  <1>4. NotTotalled' = NotTotalled \ {t} /\ t \in NotTotalled
    BY <1>1, <1>2 DEF NotTotalled
  <1>5. Free' = Free /\ \A pcs : Claimed(pcs)' = Claimed(pcs)
    BY <1>1 DEF Free, Claimed
  <1>6. Open' = Open /\ Available' = Available
    BY <1>3, <1>5 DEF Open, Available
  <1>7. TypeOK'
    <2>1. release' \in [Threads -> [pc : {"idle", "counted", "freed"},
                                    slot : Usable \cup {0}]]
      BY <1>1 DEF TypeOK
    <2>2. QED
      BY <1>1, <2>1 DEF TypeOK
  <1>8. CountersExact'
    <2>1. Cardinality(NotTotalled') = Cardinality(NotTotalled) - 1
          /\ Cardinality(NotTotalled) \in Nat
      BY <1>4, FiniteSets, FS_RemoveElement, FS_CardinalityType
    <2>2. QED
      BY <1>1, <1>6, <2>1 DEF CountersExact, OpenIn, TypeOK
  <1>9. SlotsOwned'
    BY <1>1, <1>2, <1>3 DEF SlotsOwned
  <1>10. ScanPosition'
    BY <1>1 DEF ScanPosition
  <1>11. EnoughAhead'
    <2>1. Ahead' = Ahead
      BY <1>1, <1>5 DEF Ahead
    <2>2. alloc.num - Cardinality(alloc.got)
             + Cardinality(Claimed({"claimed", "counted"})) \in Int
      <3>1. Cardinality(alloc.got) \in Nat
        BY FiniteSets, FS_CardinalityType
      <3>2. alloc.num \in Nat
        BY SlotsAssumption DEF TypeOK
      <3>3. Cardinality(Claimed({"claimed", "counted"})) \in Nat
        <4>1. Cardinality({}) = 0 /\ Cardinality({alloc.idx}) = 1
          BY FS_EmptySet, FS_Singleton
        <4>2. QED
          BY <4>1 DEF Claimed
      <3>4. QED
        BY <3>1, <3>2, <3>3
    <2>3. QED
      BY <1>1, <1>5, <2>1, <2>2 DEF EnoughAhead, TypeOK
  <1>12. QED
    BY <1>7, <1>8, <1>9, <1>10, <1>11

----------------------------------------------------------------------------
(* The specification *)

LEMMA StepIInv == IInv /\ [Next]_vars => IInv'
  <1> SUFFICES ASSUME IInv, [Next]_vars PROVE IInv'
    OBVIOUS
  <1>1. CASE \E n \in 1 .. MaxRequest : Request(n)
    BY <1>1, RequestStep
  <1>2. CASE Allocate
    BY <1>2, ScanSteps, ClaimStep, LowerOpenCountStep, LowerTotalStep, FinishStep
    DEF Allocate
  <1>3. CASE \E t \in Threads : Release(t)
    BY <1>3, RaiseOpenCountStep, FreeSlotStep, RaiseTotalStep DEF Release
  <1>4. CASE UNCHANGED vars
    BY <1>4 DEF vars, IInv, TypeOK, SlotsOwned, ScanPosition, CountersExact,
                EnoughAhead, Ahead, OpenIn, Open, Available, Free, BeingFreed,
                NotTotalled, Claimed
  <1>5. QED
    BY <1>1, <1>2, <1>3, <1>4 DEF Next

\* The invariant behind the others: who owns which slot, where the scan
\* stands, what the counters stand for, that enough slots lie ahead.
THEOREM Invariance == Spec => []IInv
  BY InitIInv, StepIInv, PTL DEF Spec, SafetySpec

\* No counter ever falls below zero, and the scan stays within the table.
THEOREM TypeCorrectness == Spec => []TypeOK
  <1>1. IInv => TypeOK
    BY DEF IInv
  <1>2. QED
    BY <1>1, Invariance, PTL

\* The scan never runs out of sections (disk_operations.c:394): the slots still
\* wanted lie ahead, and behind the last section there is none.
THEOREM NeverShort == Spec => []AllocationNotShort
  <1>1. IInv => AllocationNotShort
    <2> SUFFICES ASSUME IInv, alloc.pc = "section" PROVE alloc.section \in Sections
      BY DEF AllocationNotShort
    <2> USE DEF IInv
    <2>1. SUFFICES ASSUME alloc.section = NumSections PROVE FALSE
      BY SlotsAssumption DEF TypeOK, Sections
    <2>2. alloc.idx = Start(NumSections) /\ Start(NumSections) \in Nat
      BY <2>1, StartNext, SlotsAssumption DEF ScanPosition
    <2>3. Ahead = {}
      BY <2>2 DEF Ahead, Free, AllIndices
    <2>4. Cardinality(Ahead) = 0
      BY <2>3, FS_EmptySet
    <2>5. Cardinality(alloc.got) \in Nat /\ alloc.num \in Nat
      BY FiniteSets, FS_CardinalityType, SlotsAssumption DEF TypeOK
    <2>6. Cardinality(alloc.got) < alloc.num
      BY DEF ScanPosition
    <2>7. QED
      BY <2>4, <2>5, <2>6 DEF EnoughAhead
  <1>2. QED
    BY <1>1, Invariance, PTL

\* What the counters stand for, whatever steps are under way.
THEOREM CountersStand == Spec => []CountersExact
  <1>1. IInv => CountersExact
    BY DEF IInv
  <1>2. QED
    BY <1>1, Invariance, PTL

\* The instance has its own copy of FiniteSets.
LEMMA PoolCardinality == \A S : Pool!Cardinality(S) = Cardinality(S)
  BY DEF Pool!Cardinality, Cardinality

\* Every step of the table is a step of the abstract pool or none of its
\* business: a slot is handed out once, to one owner, and only when free.
THEOREM ImplementsPoolSafety == Spec => Pool!SafetySpec
  <1>1. Init => Pool!Init
    <2> SUFFICES ASSUME Init PROVE Pool!Init
      OBVIOUS
    <2>1. Free = Usable /\ BeingFreed = {}
      BY UsableIndices DEF Init, Free, BeingFreed
    <2>2. QED
      BY <2>1 DEF Init, Idle, Pool!Init
  <1>2. IInv /\ [Next]_vars => [Pool!Next]_Pool!vars
    <2> SUFFICES ASSUME IInv, [Next]_vars PROVE [Pool!Next]_Pool!vars
      OBVIOUS
    <2> USE DEF IInv
    <2>1. ASSUME NEW n \in 1 .. MaxRequest, Request(n)
          PROVE  Pool!Request
      <3>1. Free' = Free /\ BeingFreed' = BeingFreed /\ owned' = owned
        BY <2>1 DEF Request, Free, BeingFreed
      <3>2. /\ alloc.pc = "idle" /\ alloc'.num = n /\ alloc'.got = {}
            /\ alloc.num = 0 /\ alloc.got = {}
        BY <2>1 DEF Request, Idle, ScanPosition
      <3>3. n <= Cardinality(Free) /\ Cardinality(Free) \in Nat
        <4>1. Available = Free
          BY <3>2 DEF Available, Claimed
        <4>2. Cardinality(NotTotalled) \in Nat /\ Cardinality(Free) \in Nat
          BY FiniteSets, FS_CardinalityType
        <4>3. n <= total_available_slots
          BY <2>1 DEF Request
        <4>4. QED
          BY <4>1, <4>2, <4>3 DEF CountersExact, TypeOK
      <3>4. n \in 1 .. Cardinality(Free)
        BY <3>3
      <3>5. QED
        BY <3>1, <3>2, <3>4, PoolCardinality DEF Pool!Request
    <2>2. ASSUME EnterSection \/ SkipUsedSlot \/ ContinueScan
                 \/ LowerOpenCount \/ LowerTotal
          PROVE  UNCHANGED Pool!vars
      <3>1. /\ UNCHANGED <<disk_slot_statuses, owned, release>>
            /\ alloc'.num = alloc.num /\ alloc'.got = alloc.got
        BY <2>2 DEF EnterSection, SkipUsedSlot, ContinueScan, LowerOpenCount,
                    LowerTotal, At, TypeOK
      <3>2. QED
        BY <3>1 DEF Pool!vars, Free, BeingFreed
    <2>3. ASSUME ClaimSlot
          PROVE  \E d \in Usable : Pool!SetAside(d)
      <3> DEFINE i == alloc.idx
      <3>1. /\ alloc.pc = "slot" /\ disk_slot_statuses[i] = "free"
            /\ i \in AllIndices /\ Cardinality(alloc.got) < alloc.num
        BY <2>3 DEF ClaimSlot, ScanPosition, Scanning
      <3>2. /\ Free' = Free \ {i} /\ i \in Free /\ i \in Usable
            /\ BeingFreed' = BeingFreed /\ owned' = owned
        BY <2>3, <3>1 DEF ClaimSlot, Free, BeingFreed, TypeOK, SlotsOwned
      <3>3. alloc'.num = alloc.num /\ alloc'.got = alloc.got \cup {i}
        BY <2>3 DEF ClaimSlot, TypeOK
      <3>4. Pool!SetAside(i)
        BY <3>1, <3>2, <3>3, PoolCardinality DEF Pool!SetAside
      <3>5. QED
        BY <3>2, <3>4
    <2>4. ASSUME FinishRequest
          PROVE  Pool!Grant
      <3>1. Free' = Free /\ BeingFreed' = BeingFreed
        BY <2>4 DEF FinishRequest, Free, BeingFreed
      <3>2. /\ alloc.num > 0 /\ Cardinality(alloc.got) = alloc.num
            /\ alloc'.num = 0 /\ alloc'.got = {} /\ owned' = owned \cup alloc.got
        BY <2>4 DEF FinishRequest, Idle, ScanPosition
      <3>3. QED
        BY <3>1, <3>2, PoolCardinality DEF Pool!Grant
    <2>5. ASSUME NEW t \in Threads, NEW d \in Usable, RaiseOpenCount(t, d)
          PROVE  UNCHANGED Pool!vars
      <3>1. /\ release' = [release EXCEPT ![t] = [pc |-> "counted", slot |-> d]]
            /\ release[t].pc = "idle" /\ d \in owned /\ owned' = owned \ {d}
            /\ UNCHANGED <<disk_slot_statuses, alloc>>
        BY <2>5 DEF RaiseOpenCount
      <3>2. BeingFreed' = BeingFreed \cup {d}
        BY <3>1 DEF BeingFreed, TypeOK
      <3>3. QED
        BY <3>1, <3>2 DEF Pool!vars, Free
    <2>6. ASSUME NEW t \in Threads, FreeSlot(t)
          PROVE  \E d \in Usable : Pool!GiveBack(d)
      <3> DEFINE d == release[t].slot
      <3>1. /\ release[t].pc = "counted"
            /\ disk_slot_statuses' = [disk_slot_statuses EXCEPT ![d] = "free"]
            /\ release' = [release EXCEPT ![t].pc = "freed"]
            /\ UNCHANGED <<owned, alloc>>
        BY <2>6 DEF FreeSlot
      <3>2. d \in BeingFreed
        BY <3>1 DEF BeingFreed
      <3>3. d \in Usable /\ d \in AllIndices /\ d \notin owned
        BY <3>2, UsableIndices DEF SlotsOwned
      <3>4. BeingFreed' = BeingFreed \ {d}
        <4>1. /\ release'[t].pc = "freed"
              /\ \A u \in Threads \ {t} : release'[u] = release[u]
          BY <3>1 DEF TypeOK
        <4>2. \A u \in Threads \ {t} :
                 release[u].pc = "counted" => release[u].slot # d
          BY <3>1 DEF SlotsOwned
        <4>3. QED
          BY <4>1, <4>2 DEF BeingFreed
      <3>5. Free' = Free \cup {d}
        BY <3>1, <3>3 DEF Free, TypeOK
      <3>6. (owned \cup BeingFreed)' = (owned \cup BeingFreed) \ {d}
        BY <3>1, <3>3, <3>4
      <3>7. Pool!GiveBack(d)
        BY <3>1, <3>2, <3>5, <3>6 DEF Pool!GiveBack
      <3>8. QED
        BY <3>3, <3>7
    <2>7. ASSUME NEW t \in Threads, RaiseTotal(t)
          PROVE  UNCHANGED Pool!vars
      <3>1. /\ release[t].pc = "freed"
            /\ release' = [release EXCEPT ![t] = [pc |-> "idle", slot |-> 0]]
            /\ UNCHANGED <<disk_slot_statuses, owned, alloc>>
        BY <2>7 DEF RaiseTotal
      <3>2. BeingFreed' = BeingFreed
        BY <3>1 DEF BeingFreed, TypeOK
      <3>3. QED
        BY <3>1, <3>2 DEF Pool!vars, Free
    <2>8. CASE UNCHANGED vars
      BY <2>8 DEF vars, Pool!vars, Free, BeingFreed
    <2>9. CASE Allocate
      BY <2>2, <2>3, <2>4, <2>9 DEF Allocate, Pool!Next, Pool!Serve
    <2>10. CASE \E t \in Threads : Release(t)
      BY <2>5, <2>6, <2>7, <2>10 DEF Release, Pool!Next
    <2>11. CASE \E n \in 1 .. MaxRequest : Request(n)
      BY <2>1, <2>11 DEF Pool!Next
    <2>12. QED
      BY <2>8, <2>9, <2>10, <2>11 DEF Next
  <1>3. QED
    BY <1>1, <1>2, Invariance, PTL DEF Spec, SafetySpec, Pool!SafetySpec
=============================================================================
