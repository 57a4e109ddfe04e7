------------------------ MODULE VirtualMemoryProofs ------------------------
(***************************************************************************)
(* Proofs about the page state machine, for any number of VAs, frames,     *)
(* slots and user threads: every variable keeps its type, and page locks   *)
(* are held by exactly the thread whose step holds them.                   *)
(***************************************************************************)
EXTENDS VirtualMemory, TLAPS

\* Where a fault handler works on a frame it has found in the PTE or taken
\* from a list.
FramePC == {"remap", "drop_slot", "set_modified", "finish_valid", "claim",
            "rescue", "check", "await_trim", "commit", "commit_disk", "read_disk",
            "end_slot", "map", "connect"}

\* A handler that works on a frame has one.
FramesChosen ==
    \A u \in Users : user[u].pc \in FramePC => user[u].page \in Pages

USE DEF Released

----------------------------------------------------------------------------
(* PTE formats *)

\* What the constructors of PTEs build is a PTE.
LEMMA Formats ==
    /\ Unused \in PTE
    /\ \A p \in Pages : Transition(p) \in PTE
    /\ \A s \in Slots \cup {None}, r \in BOOLEAN : Disk(s, r) \in PTE
    /\ \A p \in Pages, prot \in Protections, acc, chg, trm \in BOOLEAN :
          Memory(p, prot, acc, chg, trm) \in PTE
  BY DEF PTE, Unused, Transition, Disk, Memory, MemoryPTE, TransitionPTE,
         DiskPTE

\* A PTE in memory format has the fields of one, and setting its bits keeps it
\* a PTE.
LEMMA MemoryFormat ==
    ASSUME NEW e \in PTE, e.format = "memory"
    PROVE  /\ e.frame \in Pages
           /\ e \in MemoryPTE
           /\ \A b \in BOOLEAN : /\ [e EXCEPT !.access_bit = b] \in PTE
                                 /\ [e EXCEPT !.being_changed = b] \in PTE
                                 /\ [e EXCEPT !.being_trimmed = b] \in PTE
  <1>1. e \in MemoryPTE
    BY DEF PTE, Unused, TransitionPTE, DiskPTE
  <1>2. QED
    BY <1>1 DEF PTE, MemoryPTE

\* So has one in transition format.
LEMMA TransitionFormat ==
    ASSUME NEW e \in PTE, e.format = "transition"
    PROVE  e.frame \in Pages
  BY DEF PTE, Unused, MemoryPTE, TransitionPTE, DiskPTE

\* And one in disk format, whose being_read bit may be set.
LEMMA DiskFormat ==
    ASSUME NEW e \in PTE
    PROVE  /\ SlotIn(e) \in Slots \cup {None}
           /\ e.format = "disk" => [e EXCEPT !.being_read = TRUE] \in PTE
  <1>1. CASE e.format = "disk"
    <2>1. e \in DiskPTE
      BY <1>1 DEF PTE, Unused, MemoryPTE, TransitionPTE
    <2>2. QED
      BY <1>1, <2>1 DEF PTE, SlotIn, DiskPTE
  <1>2. CASE e.format # "disk"
    BY <1>2 DEF SlotIn
  <1>3. QED
    BY <1>1, <1>2

\* Forcing the PTEs of a set of frames to disk format gives a page table.
LEMMA ForcedTable ==
    ASSUME TypeOK, NEW S \in SUBSET Pages
    PROVE  ForceToDisk(S) \in [VAs -> PTE]
  <1> SUFFICES ASSUME NEW v \in VAs,
                      NEW p \in S, page[p].pte = v
               PROVE  Disk(page[CHOOSE q \in S : page[q].pte = v].pagefile_idx,
                           FALSE) \in PTE
    BY DEF ForceToDisk, TypeOK
  <1>1. (CHOOSE q \in S : page[q].pte = v) \in Pages
    OBVIOUS
  <1>2. QED
    BY <1>1, Formats DEF TypeOK, Page

\* The idle record of a thread is well typed, and the thread is idle.
LEMMA IdleTyped == IdleUser \in UserType /\ IdleUser.pc = "idle"
  BY Formats, ConstantsAssumption DEF IdleUser, UserType, VAs, Accesses

\* Every step keeps the types, given that handlers have their frames.
LEMMA TypeStep ==
    ASSUME TypeOK, FramesChosen, Next
    PROVE  TypeOK'

  <1>1. ASSUME NEW u \in Users, NEW va \in VAs, UserWrite(u, va)
        PROVE  TypeOK'
    BY <1>1 DEF TypeOK, UserWrite, Written, Mapping
  <1>2. ASSUME NEW u \in Users, NEW va \in VAs, UserSetAccessBit(u, va)
        PROVE  TypeOK'
    BY <1>2, MemoryFormat DEF TypeOK, UserSetAccessBit
  <1>3. ASSUME NEW u \in Users, NEW va \in VAs, NEW access \in Accesses,
               UserFault(u, va, access)
        PROVE  TypeOK'
    <2>1. [user[u] EXCEPT !.pc = "faulted", !.va = va, !.access = access]
             \in UserType
      BY DEF TypeOK, UserType
    <2>2. user' \in [Users -> UserType]
      BY <1>3, <2>1 DEF TypeOK, UserFault
    <2>3. QED
      BY <1>3, <2>2 DEF TypeOK, UserFault
  <1>4. ASSUME NEW u \in Users, FaultRetry(u)
        PROVE  TypeOK'
    BY <1>4, IdleTyped DEF TypeOK, FaultRetry, BackToUser, IdleUser
  <1>5. ASSUME NEW u \in Users, BeginValidFault(u)
        PROVE  TypeOK'
    <2>1. user[u].va \in VAs
      BY DEF TypeOK, UserType
    <2>2. pte' \in [VAs -> PTE]
      BY <1>5, <2>1, MemoryFormat DEF TypeOK, BeginValidFault, IsStable
    <2>3. \A f \in Pages, w \in BOOLEAN, l \in {"remap", "finish_valid"} :
             [user[u] EXCEPT !.page = f, !.writable = w, !.pc = l] \in UserType
      BY <2>1 DEF TypeOK, UserType
    <2>4. pte[user[u].va].frame \in Pages
      BY <1>5, <2>1, <2>3, MemoryFormat DEF TypeOK, BeginValidFault, IsStable
    <2>5. user' \in [Users -> UserType]
      BY <1>5, <2>3, <2>4 DEF TypeOK, BeginValidFault
    <2>6. QED
      BY <1>5, <2>2, <2>5 DEF TypeOK, BeginValidFault, IsStable
  <1>6. ASSUME NEW u \in Users, RemapWritable(u)
        PROVE  TypeOK'
    BY <1>6 DEF TypeOK, FramesChosen, RemapWritable, Goto, At, UserType,
       FramePC, Mapping
  <1>7. ASSUME NEW u \in Users, DropSlot(u)
        PROVE  TypeOK'
    <2>1. user[u].page \in Pages
      BY <1>7 DEF DropSlot, At, FramesChosen, FramePC
    <2>2. page' \in [Pages -> Page]
      BY <1>7, <2>1 DEF TypeOK, DropSlot, Page
    <2>3. holds' \in [Places -> VAs \cup {Zero, None}]
      BY <1>7, <2>1 DEF TypeOK, DropSlot, Forgotten
    <2>4. user' \in [Users -> UserType]
      BY <1>7, <2>1 DEF TypeOK, DropSlot, Goto, UserType
    <2>5. QED
      BY <1>7, <2>1, <2>2, <2>3, <2>4 DEF TypeOK, DropSlot, Goto
  <1>8. ASSUME NEW u \in Users, SetModified(u)
        PROVE  TypeOK'
    <2>1. user[u].page \in Pages
      BY <1>8 DEF SetModified, At, FramesChosen, FramePC
    <2>2. [page[user[u].page] EXCEPT !.modified = TRUE] \in Page
      <3>1. page[user[u].page] \in Page
        BY <2>1 DEF TypeOK
      <3>2. QED
        BY <3>1 DEF Page
    <2>3. page' \in [Pages -> Page]
      BY <1>8, <2>1, <2>2 DEF TypeOK, SetModified
    <2>4. user' \in [Users -> UserType]
      BY <1>8, <2>1 DEF TypeOK, SetModified, Goto, UserType
    <2>5. raced' \subseteq VAs
      BY <1>8, <2>1, <2>2 DEF TypeOK, SetModified, UserType
    <2>6. QED
      BY <1>8, <2>1, <2>3, <2>4, <2>5 DEF TypeOK, SetModified, Goto
  <1>9. ASSUME NEW u \in Users, FinishValidFault(u)
        PROVE  TypeOK'
    BY <1>9, Formats, IdleTyped DEF TypeOK, FramesChosen, FinishValidFault,
       Connected, BackToUser, At, FramePC, Protections
  <1>10. ASSUME NEW u \in Users, NEW p \in Pages, TakePage(u, p)
        PROVE  TypeOK'
    <2>1. \A l \in {"claim"} : [user[u] EXCEPT !.page = p, !.pc = l] \in UserType
      BY DEF TypeOK, UserType
    <2>2. user' \in [Users -> UserType]
      BY <1>10, <2>1 DEF TypeOK, TakePage, Allocate
    <2>3. /\ pageLock' \in [Pages -> Threads \cup {None}]
          /\ list' \in [Pages -> {"available", "modified", "standby", None}]
      BY <1>10 DEF TypeOK, TakePage, Allocate, Threads
    <2>4. QED
      BY <1>10, <2>2, <2>3 DEF TypeOK, TakePage
  <1>11. ASSUME NEW u \in Users, ClaimUnaccessed(u)
        PROVE  TypeOK'
    <2>1. user[u].page \in Pages
      BY <1>11 DEF ClaimUnaccessed, At, FramesChosen, FramePC
    <2>2. \A acc, trm \in BOOLEAN :
             Memory(user[u].page, "NONE", acc, TRUE, trm) \in PTE
      BY <2>1, Formats DEF Protections
    <2>3. pte' \in [VAs -> PTE]
      BY <1>11, <2>2 DEF TypeOK, ClaimUnaccessed
    <2>4. user' \in [Users -> UserType]
      BY <1>11, <2>1 DEF TypeOK, ClaimUnaccessed, Goto, UserType
    <2>5. QED
      BY <1>11, <2>1, <2>3, <2>4 DEF TypeOK, ClaimUnaccessed, Goto
  <1>12. ASSUME NEW u \in Users, ReturnUnneededPage(u)
        PROVE  TypeOK'
    <2>1. user[u].page \in Pages
      BY <1>12 DEF ReturnUnneededPage, At, FramesChosen, FramePC
    <2>2. [page[user[u].page] EXCEPT !.status = "FREE", !.pte = None] \in Page
      <3>1. page[user[u].page] \in Page
        BY <2>1 DEF TypeOK
      <3>2. QED
        BY <3>1 DEF Page, Statuses
    <2>3. page' \in [Pages -> Page]
      BY <1>12, <2>1, <2>2 DEF TypeOK, ReturnUnneededPage
    <2>4. holds' \in [Places -> VAs \cup {Zero, None}]
      BY <1>12, <2>1, <2>2 DEF TypeOK, ReturnUnneededPage, Forgotten
    <2>5. user' \in [Users -> UserType]
      BY <1>12, <2>1, IdleTyped DEF TypeOK, ReturnUnneededPage, BackToUser
    <2>6. QED
      BY <1>12, <2>1, <2>3, <2>4, <2>5 DEF TypeOK, ReturnUnneededPage,
         BackToUser
  <1>13. ASSUME NEW u \in Users, BeginTransitionFault(u)
        PROVE  TypeOK'
    BY <1>13, TransitionFormat DEF TypeOK, BeginTransitionFault, At, UserType
  <1>14. ASSUME NEW u \in Users, RescueFail(u)
        PROVE  TypeOK'
    BY <1>14, IdleTyped DEF TypeOK, RescueFail, BackToUser
  <1>15. ASSUME NEW u \in Users, Rescue(u)
        PROVE  TypeOK'
    <2>1. user[u].page \in Pages
      BY <1>15 DEF Rescue, At, FramesChosen, FramePC
    <2>2. /\ [user[u] EXCEPT !.pc = "commit"] \in UserType
          /\ [user[u] EXCEPT !.pc = "await_trim", !.seen = pte[user[u].va]]
                \in UserType
      BY <2>1 DEF TypeOK, UserType
    <2>3. user' \in [Users -> UserType]
      BY <1>15, <2>1, <2>2 DEF TypeOK, Rescue
    <2>4. pageLock' \in [Pages -> Threads \cup {None}]
      BY <1>15, <2>1, <2>2 DEF TypeOK, Rescue, Threads
    <2>5. corrupted' \in BOOLEAN
      BY <1>15, <2>1, <2>2 DEF Rescue
    <2>6. QED
      BY <1>15, <2>1, <2>3, <2>4, <2>5 DEF TypeOK, Rescue, Threads
  <1>16. ASSUME NEW u \in Users, AwaitTrim(u)
        PROVE  TypeOK'
    BY <1>16, Formats DEF TypeOK, AwaitTrim, At, UserType
  <1>17. ASSUME NEW u \in Users, CommitPage(u)
        PROVE  TypeOK'
    <2>1. user[u].page \in Pages
      BY <1>17 DEF CommitPage, At, FramesChosen, FramePC
    <2>2. user[u].va \in VAs
      BY <2>1 DEF TypeOK, UserType
    <2>3. \A m \in BOOLEAN, s \in Slots \cup {None} :
             [page[user[u].page] EXCEPT !.status = "ACTIVE", !.pte = user[u].va,
                                        !.modified = m, !.pagefile_idx = s]
                \in Page
      <3>1. page[user[u].page] \in Page
        BY <2>1 DEF TypeOK
      <3>2. QED
        BY <3>1, <2>2 DEF Page, Statuses
    <2>4. /\ page[user[u].page].pagefile_idx \in Slots \cup {None}
          /\ page[user[u].page].modified \in BOOLEAN
      BY <2>1, <2>2 DEF TypeOK, Page
    <2>5. page' \in [Pages -> Page]
      BY <1>17, <2>1, <2>2, <2>3, <2>4 DEF TypeOK, CommitPage
    <2>6. used' \subseteq Slots
      BY <1>17, <2>1, <2>2, <2>3, <2>4 DEF TypeOK, CommitPage
    <2>7. /\ Zeroed(user[u].page, user[u].va) \in [Places -> VAs \cup {Zero, None}]
          /\ \A S : Forgotten(S) \in [Places -> VAs \cup {Zero, None}]
      BY <2>1, <2>2 DEF TypeOK, Zeroed, Forgotten
    <2>8. holds' \in [Places -> VAs \cup {Zero, None}]
      BY <1>17, <2>1, <2>2, <2>3, <2>4, <2>7 DEF CommitPage
    <2>9. ForceToDisk({user[u].page}) \in [VAs -> PTE]
      BY <2>1, ForcedTable
    <2>10. pte' \in [VAs -> PTE]
      <3>1. pte' \in {ForceToDisk({user[u].page}), pte}
        BY <1>17 DEF CommitPage
      <3>2. pte \in [VAs -> PTE]
        BY DEF TypeOK
      <3>3. QED
        BY <3>1, <3>2, <2>9, Zenon
    <2>11. user' \in [Users -> UserType]
      BY <1>17, <2>1, <2>2 DEF TypeOK, CommitPage, Goto, UserType
    <2>12. QED
      BY <1>17, <2>1, <2>5, <2>6, <2>8, <2>10, <2>11 DEF TypeOK, CommitPage,
         Goto
  <1>18. ASSUME NEW u \in Users, AcquireReadRights(u)
        PROVE  TypeOK'
    <2>1. user[u].va \in VAs /\ [user[u] EXCEPT !.pc = "get_page"] \in UserType
      BY DEF TypeOK, UserType
    <2>2. [pte[user[u].va] EXCEPT !.being_read = TRUE] \in PTE
      BY <1>18, <2>1, DiskFormat DEF TypeOK, AcquireReadRights
    <2>3. QED
      BY <1>18, <2>1, <2>2 DEF TypeOK, AcquireReadRights, Goto
  <1>19. ASSUME NEW u \in Users, NEW p \in Pages, GetPage(u, p)
        PROVE  TypeOK'
    BY <1>19 DEF TypeOK, GetPage, Allocate, At, UserType, Threads
  <1>20. ASSUME NEW u \in Users, ReleaseReadRights(u)
        PROVE  TypeOK'
    BY <1>20, Formats, DiskFormat, IdleTyped DEF TypeOK, ReleaseReadRights,
       BackToUser
  <1>21. ASSUME NEW u \in Users, CommitPageDisk(u)
        PROVE  TypeOK'
    <2>1. user[u].page \in Pages
      BY <1>21 DEF CommitPageDisk, At, FramesChosen, FramePC
    <2>2. user[u].va \in VAs
      BY <2>1 DEF TypeOK, UserType
    <2>3. \A m \in BOOLEAN :
             [page[user[u].page] EXCEPT !.status = "ACTIVE", !.pte = user[u].va,
                                        !.modified = m] \in Page
      <3>1. page[user[u].page] \in Page
        BY <2>1 DEF TypeOK
      <3>2. QED
        BY <3>1, <2>2 DEF Page, Statuses
    <2>4. page[user[u].page].modified \in BOOLEAN
      BY <2>1, <2>2 DEF TypeOK, Page
    <2>5. page' \in [Pages -> Page]
      BY <1>21, <2>1, <2>2, <2>3, <2>4 DEF TypeOK, CommitPageDisk
    <2>6. ForceToDisk({user[u].page}) \in [VAs -> PTE]
      BY <2>1, ForcedTable
    <2>7. pte' \in [VAs -> PTE]
      <3>1. pte' \in {ForceToDisk({user[u].page}), pte}
        BY <1>21 DEF CommitPageDisk
      <3>2. pte \in [VAs -> PTE]
        BY DEF TypeOK
      <3>3. QED
        BY <3>1, <3>2, <2>6, Zenon
    <2>8. user' \in [Users -> UserType]
      BY <1>21, <2>1, <2>2 DEF TypeOK, CommitPageDisk, Goto, UserType
    <2>9. QED
      BY <1>21, <2>1, <2>5, <2>7, <2>8 DEF TypeOK, CommitPageDisk, Goto
  <1>22. ASSUME NEW u \in Users, ReadPageFromDisk(u)
        PROVE  TypeOK'
    <2>1. user[u].page \in Pages
      BY <1>22 DEF ReadPageFromDisk, At, FramesChosen, FramePC
    <2>2. user[u].va \in VAs
      BY <2>1 DEF TypeOK, UserType
    <2>3. SlotIn(pte[user[u].va]) \in Places
      BY <1>22, <2>1, <2>2, DiskFormat DEF TypeOK, Places
    <2>4. holds' \in [Places -> VAs \cup {Zero, None}]
      BY <1>22, <2>1, <2>2, <2>3 DEF TypeOK, ReadPageFromDisk, Copied
    <2>5. user' \in [Users -> UserType]
      BY <1>22, <2>1, <2>2, <2>3, ConstantsAssumption DEF TypeOK,
         ReadPageFromDisk, Goto, UserType
    <2>6. QED
      BY <1>22, <2>1, <2>4, <2>5 DEF TypeOK, ReadPageFromDisk, Goto, At
  <1>23. ASSUME NEW u \in Users, EndOfFaultDiskSlot(u)
        PROVE  TypeOK'
    <2>1. user[u].page \in Pages
      BY <1>23 DEF EndOfFaultDiskSlot, At, FramesChosen, FramePC
    <2>2. user[u].va \in VAs
      BY <2>1 DEF TypeOK, UserType
    <2>3. SlotIn(pte[user[u].va]) \in Slots \cup {None}
      BY <1>23, <2>1, <2>2, DiskFormat DEF TypeOK
    <2>4. page' \in [Pages -> Page]
      <3>1. page[user[u].page] \in Page
        BY <2>1 DEF TypeOK
      <3>2. /\ page[user[u].page].pagefile_idx \in Slots \cup {None}
            /\ \A s \in Slots \cup {None} :
                  [page[user[u].page] EXCEPT !.pagefile_idx = s] \in Page
        BY <3>1 DEF Page
      <3>3. QED
        BY <1>23, <2>3, <3>2 DEF TypeOK, EndOfFaultDiskSlot
    <2>5. holds' \in [Places -> VAs \cup {Zero, None}]
      BY <1>23, <2>1, <2>2, <2>3 DEF TypeOK, EndOfFaultDiskSlot, Forgotten
    <2>6. user' \in [Users -> UserType]
      BY <1>23, <2>1, <2>2, <2>3 DEF TypeOK, EndOfFaultDiskSlot, Goto, UserType
    <2>7. QED
      BY <1>23, <2>1, <2>4, <2>5, <2>6 DEF TypeOK, EndOfFaultDiskSlot, Goto,
         FramePC
  <1>24. ASSUME NEW u \in Users, MapPage(u)
        PROVE  TypeOK'
    BY <1>24 DEF TypeOK, MapPage, At, Mapping, UserType
  <1>25. ASSUME NEW u \in Users, ConnectPTE(u)
        PROVE  TypeOK'
    <2>1. user[u].page \in Pages
      BY <1>25 DEF ConnectPTE, At, FramesChosen, FramePC
    <2>2. Connected(u) \in PTE
      BY <1>25, <2>1, Formats DEF Connected, Protections
    <2>3. pte' \in [VAs -> PTE]
      BY <1>25, <2>1, <2>2 DEF TypeOK, ConnectPTE
    <2>4. user' \in [Users -> UserType]
      BY <1>25, <2>1 DEF TypeOK, ConnectPTE, Goto, UserType
    <2>5. QED
      BY <1>25, <2>1, <2>3, <2>4 DEF TypeOK, ConnectPTE, Connected, Goto
  <1>26. ASSUME NEW u \in Users, SpeculateAccessBits(u)
        PROVE  TypeOK'
    <2>1. \A v \in VAs : pte[v].format = "memory"
             => [pte[v] EXCEPT !.access_bit = TRUE] \in PTE
      BY MemoryFormat DEF TypeOK
    <2>2. pte' \in [VAs -> PTE]
      BY <1>26, <2>1 DEF TypeOK, SpeculateAccessBits
    <2>3. user' \in [Users -> UserType]
      BY <1>26, IdleTyped DEF TypeOK, SpeculateAccessBits, BackToUser
    <2>4. QED
      BY <1>26, <2>2, <2>3 DEF TypeOK, SpeculateAccessBits, BackToUser
  <1>27. ASSUME NEW va \in VAs, TrimClearAccessBit(va)
        PROVE  TypeOK'
    BY <1>27, MemoryFormat DEF TypeOK, TrimClearAccessBit, IsStable, TrimType,
       WriterType
  <1>28. ASSUME NEW va \in VAs, TrimMark(va)
        PROVE  TypeOK'
    <2>1. pte[va].frame \in Pages
      BY <1>28, MemoryFormat DEF TypeOK, TrimMark, IsStable
    <2>2. pte' \in [VAs -> PTE]
      BY <1>28, <2>1, MemoryFormat DEF TypeOK, TrimMark, IsStable
    <2>4. trim' \in TrimType
      BY <1>28, <2>1 DEF TypeOK, TrimMark, TrimType
    <2>5. QED
      BY <1>28, <2>2, <2>4 DEF TypeOK, TrimMark, IsStable
  <1>29. CASE TrimDisconnect
    BY <1>29 DEF TypeOK, TrimDisconnect, Unmapped, AfterModified, TrimType,
       WriterType
  <1>30. CASE TrimChainModified
    <2>1. page' \in [Pages -> Page]
      BY <1>30, ConstantsAssumption DEF TypeOK, TrimChainModified, TrimChain,
         Page, Statuses
    <2>2. trim' \in TrimType
      BY <1>30 DEF TypeOK, TrimChainModified, TrimChain, TrimType
    <2>3. QED
      BY <1>30, <2>1, <2>2 DEF TypeOK, TrimChainModified, TrimChain
  <1>31. CASE TrimInsertModified
    BY <1>31 DEF TypeOK, TrimInsertModified, TrimInsert, Listed, AfterModified,
       TrimType, WriterType
  <1>32. CASE TrimChainStandby
    <2>1. page' \in [Pages -> Page]
      BY <1>32 DEF TypeOK, TrimChainStandby, TrimChain, Page, Statuses
    <2>2. trim' \in TrimType
      BY <1>32 DEF TypeOK, TrimChainStandby, TrimChain, TrimType
    <2>3. QED
      BY <1>32, <2>1, <2>2 DEF TypeOK, TrimChainStandby, TrimChain
  <1>33. CASE TrimInsertStandby
    BY <1>33 DEF TypeOK, TrimInsertStandby, TrimInsert, Listed, TrimType,
       WriterType
  <1>34. ASSUME NEW va \in VAs, TrimEdit(va)
        PROVE  TypeOK'
    BY <1>34, MemoryFormat, Formats DEF TypeOK, NoBatch, TrimEdit, IsStillTrimmed,
       TrimType, WriterType
  <1>35. CASE WriterPop
    <2>1. /\ potential_page \in Pages
          /\ [page[potential_page] EXCEPT !.modified = FALSE,
                                          !.writing_to_disk = TRUE] \in Page
      BY <1>35 DEF TypeOK, Page, WriterPop
    <2>2. page' \in [Pages -> Page]
      BY <1>35, <2>1 DEF TypeOK, WriterPop
    <2>3. writer' \in WriterType
      BY <1>35, <2>1 DEF TypeOK, WriterPop, WriterType
    <2>4. QED
      BY <1>35, <2>2, <2>3 DEF TypeOK, WriterPop
  <1>36. ASSUME NEW p \in Pages, WriterComplete(p)
        PROVE  TypeOK'
    <2>1. \A s \in Slots \cup {None} :
             [page[p] EXCEPT !.writing_to_disk = FALSE, !.pagefile_idx = s] \in Page
      BY DEF TypeOK, Page
    <2>2. /\ writer.slot[p] \in Slots \cup {None}
          /\ page[p].pagefile_idx \in Slots \cup {None}
      BY DEF TypeOK, WriterType, Page
    <2>3. page' \in [Pages -> Page]
      BY <1>36, <2>1, <2>2 DEF TypeOK, WriterComplete
    <2>4. holds' \in [Places -> VAs \cup {Zero, None}]
      BY <1>36, <2>1, <2>2 DEF TypeOK, WriterComplete, Forgotten
    <2>5. pageLock' \in [Pages -> Threads \cup {None}]
      BY <1>36, <2>1, <2>2 DEF TypeOK, WriterComplete, Locked, Threads
    <2>6. writer' \in WriterType
      BY <1>36, <2>1, <2>2 DEF TypeOK, WriterComplete, WriterType
    <2>7. used' \subseteq Slots
      BY <1>36, <2>1, <2>2 DEF TypeOK, WriterComplete
    <2>8. QED
      BY <1>36, <2>3, <2>4, <2>5, <2>6, <2>7 DEF TypeOK, WriterComplete,
         Locked, Threads
  <1>37. CASE WriterWriteBatch
    <2>1. holds' \in [Places -> VAs \cup {Zero, None}]
      BY <1>37 DEF TypeOK, WriterWriteBatch, Places, WriterType
    <2>2. used' \subseteq Slots
      BY <1>37 DEF TypeOK, WriterWriteBatch
    <2>3. \A f \in [Pages -> Slots \cup {None}] :
             [writer EXCEPT !.pc = "complete", !.slot = f] \in WriterType
      BY DEF TypeOK, WriterType
    <2>4. writer' \in WriterType
      <3>1. PICK slot \in [writer.batch -> Slots \ used] :
               writer' = [writer EXCEPT !.pc = "complete",
                  !.slot = [p \in Pages |-> IF p \in writer.batch THEN slot[p]
                                                                ELSE None]]
        BY <1>37 DEF WriterWriteBatch
      <3>2. [p \in Pages |-> IF p \in writer.batch THEN slot[p] ELSE None]
               \in [Pages -> Slots \cup {None}]
        OBVIOUS
      <3>3. QED
        BY <3>1, <3>2, <2>3
    <2>5. QED
      BY <1>37, <2>1, <2>2, <2>4 DEF TypeOK, WriterWriteBatch
  <1>38. CASE WriterInsertStandby
    <2>1. \A p \in Pages, s \in Slots \cup {None} :
             [page[p] EXCEPT !.status = "STANDBY", !.pagefile_idx = s] \in Page
      BY DEF TypeOK, Page, Statuses
    <2>2. writer.slot \in [Pages -> Slots \cup {None}]
      BY DEF TypeOK, WriterType
    <2>3. page' \in [Pages -> Page]
      BY <1>38, <2>1, <2>2 DEF TypeOK, WriterInsertStandby
    <2>4. pageLock' \in [Pages -> Threads \cup {None}]
      BY <1>38, <2>1, <2>2 DEF TypeOK, WriterInsertStandby, Locked
    <2>5. list' \in [Pages -> {"available", "modified", "standby", None}]
      BY <1>38, <2>1, <2>2 DEF TypeOK, WriterInsertStandby, Listed
    <2>6. writer' \in WriterType
      BY <1>38, <2>1, <2>2 DEF WriterInsertStandby, WriterType
    <2>7. QED
      BY <1>38, <2>3, <2>4, <2>5, <2>6 DEF TypeOK, WriterInsertStandby, Listed,
         Locked
  <1>39. ASSUME NEW S \in SUBSET Pages, RefreshPop(S)
        PROVE  TypeOK'
    BY <1>39 DEF TypeOK, RefreshPop, Listed, Locked, Threads, TrimType,
       WriterType
  <1>40. CASE RefreshFree
    <2>1. pte' \in [VAs -> PTE]
      BY <1>40, ForcedTable DEF TypeOK, RefreshFree
    <2>2. \A p \in Pages : [page[p] EXCEPT !.status = "FREE", !.pte = None] \in Page
      BY DEF TypeOK, Page, Statuses
    <2>3. page' \in [Pages -> Page]
      BY <1>40, <2>2 DEF TypeOK, RefreshFree
    <2>4. pageLock' \in [Pages -> Threads \cup {None}]
      BY <1>40, <2>2 DEF TypeOK, RefreshFree, Locked
    <2>5. list' \in [Pages -> {"available", "modified", "standby", None}]
      BY <1>40, <2>2 DEF TypeOK, RefreshFree, Listed
    <2>6. holds' \in [Places -> VAs \cup {Zero, None}]
      BY <1>40, <2>2 DEF TypeOK, RefreshFree, Forgotten
    <2>7. QED
      BY <1>40, <2>1, <2>3, <2>4, <2>5, <2>6 DEF TypeOK, RefreshFree, Listed,
         Locked
  <1>41. CASE Corrupted
    BY <1>41 DEF TypeOK, Corrupted, vars, TrimType, WriterType
  <1>42. ASSUME NEW u \in Users, LockToRescue(u)
        PROVE  TypeOK'
    <2>1. user[u].page \in Pages
      BY <1>42 DEF LockToRescue, At, FramesChosen, FramePC
    <2>2. QED
      BY <1>42, <2>1 DEF TypeOK, LockToRescue, Goto, UserType, Threads
  <1>43. ASSUME NEW u \in Users, BeginUnaccessedFault(u)
        PROVE  TypeOK'
    BY <1>43 DEF TypeOK, BeginUnaccessedFault, Goto, UserType
  <1>44. ASSUME NEW u \in Users, FindNoPage(u)
        PROVE  TypeOK'
    BY <1>44, IdleTyped DEF TypeOK, FindNoPage, BackToUser
  <1>45. CASE TrimPlace
    <2>1. trim.page \in Pages
      BY <1>45 DEF TypeOK, TrimPlace, TrimType
    <2>2. [page[trim.page] EXCEPT !.status = "MODIFIED"] \in Page
      BY <2>1 DEF TypeOK, Page, Statuses
    <2>3. page' \in [Pages -> Page]
      BY <1>45, <2>1, <2>2 DEF TypeOK, TrimPlace
    <2>4. trim' \in TrimType
      BY <1>45, <2>1 DEF TypeOK, TrimPlace, TrimType
    <2>5. QED
      BY <1>45, <2>3, <2>4 DEF TypeOK, TrimPlace
  <1>46. ASSUME NEW p \in Pages, WriterReadTail(p)
        PROVE  TypeOK'
    BY <1>46 DEF TypeOK, WriterReadTail
  <1>47. CASE WriterSkip
    BY <1>47 DEF TypeOK, WriterSkip
  <1>48. CASE WriterPopUnlisted
    BY <1>48 DEF TypeOK, WriterPopUnlisted
  <1>49. QED
    BY <1>1, <1>2, <1>3, <1>4, <1>5, <1>6, <1>7, <1>8, <1>9, <1>10, <1>11,
       <1>12, <1>13, <1>14, <1>15, <1>16, <1>17, <1>18, <1>19, <1>20, <1>21,
       <1>22, <1>23, <1>24, <1>25, <1>26, <1>27, <1>28, <1>29, <1>30, <1>31,
       <1>32, <1>33, <1>34, <1>35, <1>36, <1>37, <1>38, <1>39, <1>40, <1>41,
       <1>42, <1>43, <1>44, <1>45, <1>46, <1>47, <1>48 DEF
       Next, UserAccess, FaultStep, TrimmerStep, TrimFinish, WriterStep,
       RefresherStep

\* A fault handler finds its frame before it works on it.
LEMMA FramesChosenStep ==
    ASSUME TypeOK, FramesChosen, Next
    PROVE  FramesChosen'
  <1>1. ASSUME NEW u \in Users, NEW va \in VAs, UserWrite(u, va)
        PROVE  FramesChosen'
    BY <1>1 DEF FramesChosen, UserWrite
  <1>2. ASSUME NEW u \in Users, NEW va \in VAs, UserSetAccessBit(u, va)
        PROVE  FramesChosen'
    BY <1>2 DEF FramesChosen, UserSetAccessBit
  <1>3. ASSUME NEW u \in Users, NEW va \in VAs, NEW access \in Accesses,
               UserFault(u, va, access)
        PROVE  FramesChosen'
    BY <1>3 DEF TypeOK, FramesChosen, FramePC, UserFault
  <1>4. ASSUME NEW u \in Users, FaultRetry(u)
        PROVE  FramesChosen'
    BY <1>4, IdleTyped DEF FramesChosen, FramePC, FaultRetry, BackToUser,
       IdleUser
  <1>5. ASSUME NEW u \in Users, BeginValidFault(u)
        PROVE  FramesChosen'
    BY <1>5, MemoryFormat DEF TypeOK, FramesChosen, BeginValidFault, IsStable,
       UserType
  <1>6. ASSUME NEW u \in Users, RemapWritable(u)
        PROVE  FramesChosen'
    BY <1>6 DEF FramesChosen, FramePC, RemapWritable, At, Goto
  <1>7. ASSUME NEW u \in Users, DropSlot(u)
        PROVE  FramesChosen'
    BY <1>7 DEF FramesChosen, FramePC, DropSlot, At, Goto
  <1>8. ASSUME NEW u \in Users, SetModified(u)
        PROVE  FramesChosen'
    BY <1>8 DEF FramesChosen, FramePC, SetModified, At, Goto
  <1>9. ASSUME NEW u \in Users, FinishValidFault(u)
        PROVE  FramesChosen'
    BY <1>9, IdleTyped DEF FramesChosen, FramePC, FinishValidFault, BackToUser
  <1>10. ASSUME NEW u \in Users, NEW p \in Pages, TakePage(u, p)
        PROVE  FramesChosen'
    BY <1>10 DEF TypeOK, FramesChosen, TakePage, Allocate
  <1>11. ASSUME NEW u \in Users, ClaimUnaccessed(u)
        PROVE  FramesChosen'
    BY <1>11 DEF FramesChosen, FramePC, ClaimUnaccessed, At, Goto
  <1>12. ASSUME NEW u \in Users, ReturnUnneededPage(u)
        PROVE  FramesChosen'
    BY <1>12, IdleTyped DEF FramesChosen, FramePC, ReturnUnneededPage,
       BackToUser
  <1>13. ASSUME NEW u \in Users, BeginTransitionFault(u)
        PROVE  FramesChosen'
    BY <1>13, TransitionFormat DEF TypeOK, FramesChosen, BeginTransitionFault,
       UserType
  <1>14. ASSUME NEW u \in Users, RescueFail(u)
        PROVE  FramesChosen'
    BY <1>14, IdleTyped DEF FramesChosen, FramePC, RescueFail, BackToUser
  <1>15. ASSUME NEW u \in Users, Rescue(u)
        PROVE  FramesChosen'
    BY <1>15 DEF TypeOK, FramesChosen, FramePC, Rescue, At
  <1>16. ASSUME NEW u \in Users, AwaitTrim(u)
        PROVE  FramesChosen'
    BY <1>16 DEF TypeOK, FramesChosen, AwaitTrim, UserType
  <1>17. ASSUME NEW u \in Users, CommitPage(u)
        PROVE  FramesChosen'
    BY <1>17 DEF FramesChosen, FramePC, CommitPage, At, Goto
  <1>18. ASSUME NEW u \in Users, AcquireReadRights(u)
        PROVE  FramesChosen'
    BY <1>18 DEF FramesChosen, FramePC, AcquireReadRights, Goto
  <1>19. ASSUME NEW u \in Users, NEW p \in Pages, GetPage(u, p)
        PROVE  FramesChosen'
    BY <1>19 DEF TypeOK, FramesChosen, GetPage, Allocate
  <1>20. ASSUME NEW u \in Users, ReleaseReadRights(u)
        PROVE  FramesChosen'
    BY <1>20, IdleTyped DEF FramesChosen, FramePC, ReleaseReadRights,
       BackToUser
  <1>21. ASSUME NEW u \in Users, CommitPageDisk(u)
        PROVE  FramesChosen'
    BY <1>21 DEF FramesChosen, FramePC, CommitPageDisk, At, Goto
  <1>22. ASSUME NEW u \in Users, ReadPageFromDisk(u)
        PROVE  FramesChosen'
    BY <1>22 DEF FramesChosen, FramePC, ReadPageFromDisk, At, Goto
  <1>23. ASSUME NEW u \in Users, EndOfFaultDiskSlot(u)
        PROVE  FramesChosen'
    BY <1>23 DEF FramesChosen, FramePC, EndOfFaultDiskSlot, At, Goto
  <1>24. ASSUME NEW u \in Users, MapPage(u)
        PROVE  FramesChosen'
    BY <1>24 DEF TypeOK, FramesChosen, MapPage, UserType
  <1>25. ASSUME NEW u \in Users, ConnectPTE(u)
        PROVE  FramesChosen'
    BY <1>25 DEF FramesChosen, FramePC, ConnectPTE, Goto
  <1>26. ASSUME NEW u \in Users, SpeculateAccessBits(u)
        PROVE  FramesChosen'
    BY <1>26, IdleTyped DEF FramesChosen, FramePC, SpeculateAccessBits,
       BackToUser
  <1>27. ASSUME NEW va \in VAs, TrimClearAccessBit(va)
        PROVE  FramesChosen'
    BY <1>27 DEF FramesChosen, TrimClearAccessBit
  <1>28. ASSUME NEW va \in VAs, TrimMark(va)
        PROVE  FramesChosen'
    BY <1>28 DEF FramesChosen, TrimMark
  <1>29. CASE TrimDisconnect
    BY <1>29 DEF FramesChosen, TrimDisconnect
  <1>30. CASE TrimChainModified
    BY <1>30 DEF FramesChosen, TrimChainModified, TrimChain
  <1>31. CASE TrimInsertModified
    BY <1>31 DEF FramesChosen, TrimInsertModified, TrimInsert
  <1>32. CASE TrimChainStandby
    BY <1>32 DEF FramesChosen, TrimChainStandby, TrimChain
  <1>33. CASE TrimInsertStandby
    BY <1>33 DEF FramesChosen, TrimInsertStandby, TrimInsert
  <1>34. ASSUME NEW va \in VAs, TrimEdit(va)
        PROVE  FramesChosen'
    BY <1>34 DEF FramesChosen, TrimEdit
  <1>35. CASE WriterPop
    BY <1>35 DEF FramesChosen, WriterPop
  <1>36. ASSUME NEW p \in Pages, WriterComplete(p)
        PROVE  FramesChosen'
    BY <1>36 DEF FramesChosen, WriterComplete
  <1>37. CASE WriterWriteBatch
    BY <1>37 DEF FramesChosen, WriterWriteBatch
  <1>38. CASE WriterInsertStandby
    BY <1>38 DEF FramesChosen, WriterInsertStandby
  <1>39. ASSUME NEW S \in SUBSET Pages, RefreshPop(S)
        PROVE  FramesChosen'
    BY <1>39 DEF FramesChosen, RefreshPop
  <1>40. CASE RefreshFree
    BY <1>40 DEF FramesChosen, RefreshFree
  <1>41. CASE Corrupted
    BY <1>41 DEF FramesChosen, Corrupted, vars
  <1>42. ASSUME NEW u \in Users, LockToRescue(u)
        PROVE  FramesChosen'
    BY <1>42 DEF FramesChosen, FramePC, LockToRescue, At, Goto
  <1>43. ASSUME NEW u \in Users, BeginUnaccessedFault(u)
        PROVE  FramesChosen'
    BY <1>43 DEF FramesChosen, FramePC, BeginUnaccessedFault, At, Goto
  <1>44. ASSUME NEW u \in Users, FindNoPage(u)
        PROVE  FramesChosen'
    BY <1>44, IdleTyped DEF FramesChosen, FramePC, FindNoPage, BackToUser
  <1>45. CASE TrimPlace
    BY <1>45 DEF FramesChosen, TrimPlace
  <1>46. ASSUME NEW p \in Pages, WriterReadTail(p)
        PROVE  FramesChosen'
    BY <1>46 DEF FramesChosen, WriterReadTail
  <1>47. CASE WriterSkip
    BY <1>47 DEF FramesChosen, WriterSkip
  <1>48. CASE WriterPopUnlisted
    BY <1>48 DEF FramesChosen, WriterPopUnlisted
  <1>49. QED
    BY <1>1, <1>2, <1>3, <1>4, <1>5, <1>6, <1>7, <1>8, <1>9, <1>10, <1>11,
       <1>12, <1>13, <1>14, <1>15, <1>16, <1>17, <1>18, <1>19, <1>20, <1>21,
       <1>22, <1>23, <1>24, <1>25, <1>26, <1>27, <1>28, <1>29, <1>30, <1>31,
       <1>32, <1>33, <1>34, <1>35, <1>36, <1>37, <1>38, <1>39, <1>40, <1>41,
       <1>42, <1>43, <1>44, <1>45, <1>46, <1>47, <1>48 DEF
       Next, UserAccess, FaultStep, TrimmerStep, TrimFinish, WriterStep,
       RefresherStep

\* A page lock is taken and let go only by the thread on whose behalf it is
\* held, and moves with the step of that thread.
LEMMA PageLocksStep ==
    ASSUME TypeOK, FramesChosen, PageLocksOwned, Next
    PROVE  PageLocksOwned'
  <1>1. ASSUME NEW u \in Users, NEW va \in VAs, UserWrite(u, va)
        PROVE  PageLocksOwned'
    BY <1>1 DEF PageLocksOwned, UserWrite
  <1>2. ASSUME NEW u \in Users, NEW va \in VAs, UserSetAccessBit(u, va)
        PROVE  PageLocksOwned'
    BY <1>2 DEF PageLocksOwned, UserSetAccessBit
  <1>3. ASSUME NEW u \in Users, NEW va \in VAs, NEW access \in Accesses,
               UserFault(u, va, access)
        PROVE  PageLocksOwned'
    BY <1>3 DEF TypeOK, PageLocksOwned, LockedPC, UserFault, At
  <1>4. ASSUME NEW u \in Users, FaultRetry(u)
        PROVE  PageLocksOwned'
    BY <1>4, IdleTyped DEF PageLocksOwned, LockedPC, FaultRetry, At,
       BackToUser, IdleUser
  <1>5. ASSUME NEW u \in Users, BeginValidFault(u)
        PROVE  PageLocksOwned'
    BY <1>5 DEF TypeOK, PageLocksOwned, LockedPC, BeginValidFault, IsStable,
       UserType
  <1>6. ASSUME NEW u \in Users, RemapWritable(u)
        PROVE  PageLocksOwned'
    BY <1>6 DEF PageLocksOwned, LockedPC, RemapWritable, At, Goto
  <1>7. ASSUME NEW u \in Users, DropSlot(u)
        PROVE  PageLocksOwned'
    BY <1>7 DEF PageLocksOwned, LockedPC, DropSlot, At, Goto
  <1>8. ASSUME NEW u \in Users, SetModified(u)
        PROVE  PageLocksOwned'
    BY <1>8 DEF PageLocksOwned, LockedPC, SetModified, At, Goto
  <1>9. ASSUME NEW u \in Users, FinishValidFault(u)
        PROVE  PageLocksOwned'
    BY <1>9, IdleTyped DEF PageLocksOwned, LockedPC, FinishValidFault, At,
       BackToUser
  <1>10. ASSUME NEW u \in Users, NEW p \in Pages, TakePage(u, p)
        PROVE  PageLocksOwned'
    BY <1>10 DEF TypeOK, PageLocksOwned, LockedPC, TakePage, At,
       Allocate, UserType
  <1>11. ASSUME NEW u \in Users, ClaimUnaccessed(u)
        PROVE  PageLocksOwned'
    BY <1>11 DEF PageLocksOwned, LockedPC, ClaimUnaccessed, At, Goto
  <1>12. ASSUME NEW u \in Users, ReturnUnneededPage(u)
        PROVE  PageLocksOwned'
    BY <1>12, IdleTyped, ConstantsAssumption DEF TypeOK, PageLocksOwned,
       LockedPC, ReturnUnneededPage, At, BackToUser
  <1>13. ASSUME NEW u \in Users, BeginTransitionFault(u)
        PROVE  PageLocksOwned'
    BY <1>13 DEF TypeOK, PageLocksOwned, LockedPC, BeginTransitionFault,
       UserType
  <1>14. ASSUME NEW u \in Users, RescueFail(u)
        PROVE  PageLocksOwned'
    BY <1>14, IdleTyped, ConstantsAssumption DEF TypeOK, PageLocksOwned,
       LockedPC, RescueFail, At, BackToUser
  <1>15. ASSUME NEW u \in Users, Rescue(u)
        PROVE  PageLocksOwned'
    BY <1>15 DEF TypeOK, PageLocksOwned, LockedPC, Rescue, At
  <1>16. ASSUME NEW u \in Users, AwaitTrim(u)
        PROVE  PageLocksOwned'
    BY <1>16 DEF TypeOK, PageLocksOwned, LockedPC, AwaitTrim, UserType
  <1>17. ASSUME NEW u \in Users, CommitPage(u)
        PROVE  PageLocksOwned'
    BY <1>17, ConstantsAssumption DEF TypeOK, PageLocksOwned, LockedPC,
       CommitPage, At, Goto
  <1>18. ASSUME NEW u \in Users, AcquireReadRights(u)
        PROVE  PageLocksOwned'
    BY <1>18 DEF PageLocksOwned, LockedPC, AcquireReadRights, At, Goto
  <1>19. ASSUME NEW u \in Users, NEW p \in Pages, GetPage(u, p)
        PROVE  PageLocksOwned'
    BY <1>19 DEF TypeOK, PageLocksOwned, LockedPC, GetPage, At, Allocate,
       UserType
  <1>20. ASSUME NEW u \in Users, ReleaseReadRights(u)
        PROVE  PageLocksOwned'
    BY <1>20, IdleTyped DEF PageLocksOwned, LockedPC, ReleaseReadRights, At,
       BackToUser
  <1>21. ASSUME NEW u \in Users, CommitPageDisk(u)
        PROVE  PageLocksOwned'
    BY <1>21, ConstantsAssumption DEF TypeOK, PageLocksOwned, LockedPC,
       CommitPageDisk, At, Goto
  <1>22. ASSUME NEW u \in Users, ReadPageFromDisk(u)
        PROVE  PageLocksOwned'
    BY <1>22 DEF PageLocksOwned, LockedPC, ReadPageFromDisk, At, Goto
  <1>23. ASSUME NEW u \in Users, EndOfFaultDiskSlot(u)
        PROVE  PageLocksOwned'
    BY <1>23 DEF PageLocksOwned, LockedPC, EndOfFaultDiskSlot, At, Goto
  <1>24. ASSUME NEW u \in Users, MapPage(u)
        PROVE  PageLocksOwned'
    BY <1>24 DEF TypeOK, PageLocksOwned, LockedPC, MapPage, UserType
  <1>25. ASSUME NEW u \in Users, ConnectPTE(u)
        PROVE  PageLocksOwned'
    BY <1>25 DEF PageLocksOwned, LockedPC, ConnectPTE, At, Goto
  <1>26. ASSUME NEW u \in Users, SpeculateAccessBits(u)
        PROVE  PageLocksOwned'
    BY <1>26, IdleTyped DEF PageLocksOwned, LockedPC, SpeculateAccessBits, At,
       BackToUser
  <1>27. ASSUME NEW va \in VAs, TrimClearAccessBit(va)
        PROVE  PageLocksOwned'
    BY <1>27 DEF PageLocksOwned, TrimClearAccessBit
  <1>28. ASSUME NEW va \in VAs, TrimMark(va)
        PROVE  PageLocksOwned'
    BY <1>28 DEF PageLocksOwned, TrimMark
  <1>29. CASE TrimDisconnect
    BY <1>29 DEF PageLocksOwned, TrimDisconnect
  <1>30. CASE TrimChainModified
    BY <1>30 DEF PageLocksOwned, TrimChainModified, TrimChain
  <1>31. CASE TrimInsertModified
    BY <1>31 DEF PageLocksOwned, TrimInsertModified, TrimInsert
  <1>32. CASE TrimChainStandby
    BY <1>32 DEF PageLocksOwned, TrimChainStandby, TrimChain
  <1>33. CASE TrimInsertStandby
    BY <1>33 DEF PageLocksOwned, TrimInsertStandby, TrimInsert
  <1>34. ASSUME NEW va \in VAs, TrimEdit(va)
        PROVE  PageLocksOwned'
    BY <1>34 DEF PageLocksOwned, TrimEdit
  <1>35. CASE WriterPop
    BY <1>35 DEF WriterType, PageLocksOwned, WriterPop, WriterAt
  <1>36. ASSUME NEW p \in Pages, WriterComplete(p)
        PROVE  PageLocksOwned'
    BY <1>36, ConstantsAssumption DEF WriterType, PageLocksOwned,
       WriterComplete, Locked, WriterAt
  <1>37. CASE WriterWriteBatch
    BY <1>37 DEF WriterType, PageLocksOwned, WriterWriteBatch, WriterAt
  <1>38. CASE WriterInsertStandby
    <2>1. /\ pageLock' = Locked(writer.confirmed, None)
          /\ writer'.confirmed = {}
          /\ user' = user /\ refreshing' = refreshing
      BY <1>38 DEF WriterInsertStandby
    <2>2. QED
      BY <2>1, ConstantsAssumption DEF PageLocksOwned, Locked
  <1>39. ASSUME NEW S \in SUBSET Pages, RefreshPop(S)
        PROVE  PageLocksOwned'
    BY <1>39, ConstantsAssumption DEF WriterType, PageLocksOwned, RefreshPop,
       Locked
  <1>40. CASE RefreshFree
    <2>1. /\ pageLock' = Locked(refreshing, None)
          /\ refreshing' = {}
          /\ user' = user /\ writer' = writer
      BY <1>40 DEF RefreshFree
    <2>2. QED
      BY <2>1, ConstantsAssumption DEF PageLocksOwned, Locked
  <1>41. CASE Corrupted
    BY <1>41 DEF PageLocksOwned, Corrupted, vars
  <1>42. ASSUME NEW u \in Users, LockToRescue(u)
        PROVE  PageLocksOwned'
    BY <1>42, ConstantsAssumption DEF TypeOK, PageLocksOwned, LockedPC,
       LockToRescue, At, Goto
  <1>43. ASSUME NEW u \in Users, BeginUnaccessedFault(u)
        PROVE  PageLocksOwned'
    BY <1>43 DEF PageLocksOwned, LockedPC, BeginUnaccessedFault, At, Goto
  <1>44. ASSUME NEW u \in Users, FindNoPage(u)
        PROVE  PageLocksOwned'
    BY <1>44, IdleTyped DEF PageLocksOwned, LockedPC, FindNoPage, At,
       BackToUser
  <1>45. CASE TrimPlace
    BY <1>45 DEF PageLocksOwned, TrimPlace
  <1>46. ASSUME NEW p \in Pages, WriterReadTail(p)
        PROVE  PageLocksOwned'
    BY <1>46 DEF PageLocksOwned, WriterReadTail
  <1>47. CASE WriterSkip
    BY <1>47 DEF PageLocksOwned, WriterSkip
  <1>48. CASE WriterPopUnlisted
    BY <1>48 DEF PageLocksOwned, WriterPopUnlisted
  <1>49. QED
    BY <1>1, <1>2, <1>3, <1>4, <1>5, <1>6, <1>7, <1>8, <1>9, <1>10, <1>11,
       <1>12, <1>13, <1>14, <1>15, <1>16, <1>17, <1>18, <1>19, <1>20, <1>21,
       <1>22, <1>23, <1>24, <1>25, <1>26, <1>27, <1>28, <1>29, <1>30, <1>31,
       <1>32, <1>33, <1>34, <1>35, <1>36, <1>37, <1>38, <1>39, <1>40, <1>41,
       <1>42, <1>43, <1>44, <1>45, <1>46, <1>47, <1>48 DEF
       Next, UserAccess, FaultStep, TrimmerStep, TrimFinish, WriterStep,
       RefresherStep

----------------------------------------------------------------------------
(* Types and the frames of handlers are needed to follow the locks: a      *)
(* handler lets go the lock of the frame it has, which is one.             *)
IInv == TypeOK /\ FramesChosen /\ PageLocksOwned

\* Nothing is locked and every thread is idle at first.
LEMMA InitIInv == Init => IInv
  <1> SUFFICES ASSUME Init PROVE IInv
    OBVIOUS
  <1>1. TypeOK
    BY IdleTyped, Formats DEF Init, NoBatch, TypeOK, Page, Statuses, TrimType,
       WriterType
  <1>2. FramesChosen
    BY IdleTyped DEF Init, FramesChosen, FramePC
  <1>3. PageLocksOwned
    BY ConstantsAssumption DEF Init, PageLocksOwned, LockedPC, IdleUser
  <1>4. QED
    BY <1>1, <1>2, <1>3 DEF IInv

\* Every step of every thread keeps the invariant.
LEMMA StepIInv == IInv /\ [Next]_vars => IInv'
  <1> SUFFICES ASSUME IInv, [Next]_vars PROVE IInv'
    OBVIOUS
  <1>1. CASE Next
    BY <1>1, TypeStep, FramesChosenStep, PageLocksStep DEF IInv
  <1>2. CASE UNCHANGED vars
    BY <1>2 DEF IInv, TypeOK, FramesChosen, PageLocksOwned, vars
  <1>3. QED
    BY <1>1, <1>2

\* The inductive invariant holds in every reachable state.
THEOREM Invariance == Spec => []IInv
  BY InitIInv, StepIInv, PTL DEF Spec

\* Type correctness: with any number of VAs, frames, slots and threads every
\* variable keeps its type; in particular a mapping, a PTE in memory or
\* transition format and a handler at work always name a real frame, also after
\* the races of the code have lost data.
THEOREM TypeCorrectness == Spec => []TypeOK
  BY Invariance, PTL DEF IInv

\* Mutual exclusion of page locks, as a statement about the code's positions:
\* between taking a frame and committing it a faulter holds its lock, at no
\* other time, and then neither another faulter nor the modified writer nor
\* the refresher has the frame.
THEOREM PageLocking == Spec => []PageLocksOwned
  BY Invariance, PTL DEF IInv

============================================================================
