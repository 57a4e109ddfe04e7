----------------------- MODULE VirtualMemorySlotProofs -----------------------
(***************************************************************************)
(* Who has a slot: proofs that no page file slot is leaked, freed twice or *)
(* shared, and that the modified writer always finds enough of them, as    *)
(* long as rescued frames are committed in transition format.              *)
(***************************************************************************)
EXTENDS VirtualMemoryFrameProofs, FiniteSetTheorems

\* The slot that counts as a frame's, as a PTE's, as that of a write in flight.
FrameSlot(p) ==
    IF page[p].status \notin {"ZERO", "FREE"} /\ ~BeingRead(p)
    THEN page[p].pagefile_idx ELSE None
PTESlot(v) ==
    IF pte[v].format = "disk" /\ ~Resolving(v) THEN pte[v].pagefile_idx ELSE None
WriteSlot(p) == writer.slot[p]

\* No two of them are the same slot.
SlotsApart ==
    /\ \A p, q \in Pages : FrameSlot(p) = FrameSlot(q) /\ FrameSlot(p) # None => p = q
    /\ \A v, w \in VAs : PTESlot(v) = PTESlot(w) /\ PTESlot(v) # None => v = w
    /\ \A p, q \in Pages : WriteSlot(p) = WriteSlot(q) /\ WriteSlot(p) # None => p = q
    /\ \A p \in Pages, v \in VAs : FrameSlot(p) # None => FrameSlot(p) # PTESlot(v)
    /\ \A p, q \in Pages : FrameSlot(p) # None => FrameSlot(p) # WriteSlot(q)
    /\ \A v \in VAs, p \in Pages : PTESlot(v) # None => PTESlot(v) # WriteSlot(p)

\* They are the slots in use.
SlotsInUse ==
    \A s \in Slots :
        s \in used <=> \/ \E p \in Pages : FrameSlot(p) = s
                       \/ \E v \in VAs : PTESlot(v) = s
                       \/ \E p \in Pages : WriteSlot(p) = s

\* A PTE in disk format has a slot.
DiskPTEsHaveSlots ==
    \A v \in VAs : pte[v].format = "disk" => pte[v].pagefile_idx \in Slots

SlotInv == SlotsApart /\ SlotsInUse /\ DiskPTEsHaveSlots
SInv == OInv /\ SlotInv

----------------------------------------------------------------------------
(* What steps do to slots *)

USE DEF InTransition, BeingChanged, BeingTrimmed, BeingReadIn, IsStillTrimmed,
        InFlight, Unlisted, Untaken, Spare, Listable, Released

LEMMA SlotTypes ==
    ASSUME SInv
    PROVE  /\ \A p \in Pages : FrameSlot(p) \in Slots \cup {None}
           /\ \A v \in VAs : PTESlot(v) \in Slots \cup {None}
           /\ \A p \in Pages : WriteSlot(p) \in Slots \cup {None}
           /\ None \notin Slots
           /\ used \subseteq Slots
  <1>1. \A p \in Pages : FrameSlot(p) \in Slots \cup {None}
    BY Fields DEF SInv, FrameSlot
  <1>2. \A v \in VAs : PTESlot(v) \in Slots \cup {None}
    BY DEF SInv, SlotInv, DiskPTEsHaveSlots, PTESlot
  <1>3. (\A p \in Pages : WriteSlot(p) \in Slots \cup {None}) /\ used \subseteq Slots
    BY DEF SInv, OInv, IInv, TypeOK, WriterType, WriteSlot
  <1>4. QED
    BY <1>1, <1>2, <1>3, ConstantsAssumption

\* All slots stay where they are, or all but those of the frames in S, the writes
\* in T and the PTEs in W.
SlotsStill(S, T, W) ==
    /\ \A p \in Pages \ S : FrameSlot(p)' = FrameSlot(p)
    /\ \A p \in Pages \ T : WriteSlot(p)' = WriteSlot(p)
    /\ \A v \in VAs \ W : PTESlot(v)' = PTESlot(v)
NoSlotMoves == used' = used /\ SlotsStill({}, {}, {})

\* A frame, a PTE or a write gives its slot back.
FrameSlotGoes(p) ==
    /\ used' = used \ {FrameSlot(p)} /\ FrameSlot(p)' = None
    /\ SlotsStill({p}, {}, {})
PTESlotGoes(w) ==
    /\ used' = used \ {PTESlot(w)} /\ PTESlot(w)' = None
    /\ SlotsStill({}, {}, {w})
WriteSlotGoes(p) ==
    /\ used' = used \ {WriteSlot(p)} /\ WriteSlot(p)' = None
    /\ SlotsStill({}, {p}, {})

\* Frames pass their slots on to the PTEs they are taken from, writes to their
\* frames, a PTE to the frame it has been read into.
FrameSlotsPass(S) ==
    /\ used' = used
    /\ \A p \in S : page[p].pte \in VAs /\ PTESlot(page[p].pte) = None
                     /\ FrameSlot(p)' = None
    /\ \A p, q \in S : page[p].pte = page[q].pte => p = q
    /\ \A p \in S, v \in VAs : page[p].pte = v => PTESlot(v)' = FrameSlot(p)
    /\ SlotsStill(S, {}, {page[p].pte : p \in S})
WriteSlotsPass(S) ==
    /\ used' = used
    /\ \A p \in S : /\ FrameSlot(p) = None
                     /\ FrameSlot(p)' = WriteSlot(p) /\ WriteSlot(p)' = None
    /\ SlotsStill(S, S, {})
PTESlotPasses(w, p) ==
    /\ used' = used
    /\ FrameSlot(p) = None /\ FrameSlot(p)' = PTESlot(w) /\ PTESlot(w)' = None
    /\ SlotsStill({p}, {}, {w})

LEMMA SlotsStay ==
    ASSUME SInv, NoSlotMoves
    PROVE  SlotsApart' /\ SlotsInUse'
  <1> USE DEF NoSlotMoves, SlotsStill
  <1>1. SlotsApart'
    BY DEF SInv, SlotInv, SlotsApart
  <1>2. SlotsInUse'
    BY DEF SInv, SlotInv, SlotsInUse
  <1>3. QED
    BY <1>1, <1>2

LEMMA FrameSlotFreed ==
    ASSUME SInv, NEW p \in Pages, FrameSlotGoes(p)
    PROVE  SlotsApart' /\ SlotsInUse'
  <1> USE DEF FrameSlotGoes, SlotsStill
  <1>1. SlotsApart'
    BY DEF SInv, SlotInv, SlotsApart
  <1>2. SlotsInUse'
    BY SlotTypes DEF SInv, SlotInv, SlotsApart, SlotsInUse
  <1>3. QED
    BY <1>1, <1>2

LEMMA PTESlotFreed ==
    ASSUME SInv, NEW w \in VAs, PTESlotGoes(w)
    PROVE  SlotsApart' /\ SlotsInUse'
  <1> USE DEF PTESlotGoes, SlotsStill
  <1>1. SlotsApart'
    BY DEF SInv, SlotInv, SlotsApart
  <1>2. SlotsInUse'
    BY SlotTypes DEF SInv, SlotInv, SlotsApart, SlotsInUse
  <1>3. QED
    BY <1>1, <1>2

LEMMA WriteSlotFreed ==
    ASSUME SInv, NEW p \in Pages, WriteSlotGoes(p)
    PROVE  SlotsApart' /\ SlotsInUse'
  <1> USE DEF WriteSlotGoes, SlotsStill
  <1>1. SlotsApart'
    BY DEF SInv, SlotInv, SlotsApart
  <1>2. SlotsInUse'
    BY SlotTypes DEF SInv, SlotInv, SlotsApart, SlotsInUse
  <1>3. QED
    BY <1>1, <1>2

LEMMA FrameSlotsToPTEs ==
    ASSUME SInv, NEW S \in SUBSET Pages, FrameSlotsPass(S)
    PROVE  SlotsApart' /\ SlotsInUse'
  <1>0. /\ used' = used
        /\ \A p \in S : page[p].pte \in VAs /\ PTESlot(page[p].pte) = None
        /\ \A p, q \in S : page[p].pte = page[q].pte => p = q
        /\ \A p \in S : FrameSlot(p)' = None
        /\ \A p \in S, v \in VAs : page[p].pte = v => PTESlot(v)' = FrameSlot(p)
        /\ \A q \in Pages \ S : FrameSlot(q)' = FrameSlot(q)
        /\ \A q \in Pages : WriteSlot(q)' = WriteSlot(q)
        /\ \A v \in VAs : PTESlot(v)' = PTESlot(v) \/ \E p \in S : page[p].pte = v
    BY DEF FrameSlotsPass, SlotsStill
  <1>1. \A v \in VAs : PTESlot(v)' # None =>
           \/ PTESlot(v)' = PTESlot(v)
           \/ \E p \in S : page[p].pte = v /\ PTESlot(v)' = FrameSlot(p)
    BY <1>0
  <1>2. SlotsApart'
    <2>1. \A p, q \in Pages : FrameSlot(p)' = FrameSlot(q)' /\ FrameSlot(p)' # None => p = q
      BY <1>0 DEF SInv, SlotInv, SlotsApart
    <2>2. \A v, w \in VAs : PTESlot(v)' = PTESlot(w)' /\ PTESlot(v)' # None => v = w
      BY <1>0, <1>1 DEF SInv, SlotInv, SlotsApart
    <2>3. \A p, q \in Pages : WriteSlot(p)' = WriteSlot(q)' /\ WriteSlot(p)' # None => p = q
      BY <1>0 DEF SInv, SlotInv, SlotsApart
    <2>4. \A p \in Pages, v \in VAs : FrameSlot(p)' # None => FrameSlot(p)' # PTESlot(v)'
      BY <1>0, <1>1 DEF SInv, SlotInv, SlotsApart
    <2>5. \A p, q \in Pages : FrameSlot(p)' # None => FrameSlot(p)' # WriteSlot(q)'
      BY <1>0 DEF SInv, SlotInv, SlotsApart
    <2>6. \A v \in VAs, p \in Pages : PTESlot(v)' # None => PTESlot(v)' # WriteSlot(p)'
      BY <1>0, <1>1 DEF SInv, SlotInv, SlotsApart
    <2>7. QED
      BY <2>1, <2>2, <2>3, <2>4, <2>5, <2>6 DEF SlotsApart
  <1>3. SlotsInUse'
    <2> SUFFICES ASSUME NEW s \in Slots
                 PROVE  s \in used <=> \/ \E p \in Pages : FrameSlot(p)' = s
                                       \/ \E v \in VAs : PTESlot(v)' = s
                                       \/ \E p \in Pages : WriteSlot(p)' = s
      BY <1>0 DEF SlotsInUse
    <2>1. s # None
      BY SlotTypes
    <2>2. ASSUME NEW p \in Pages, FrameSlot(p) = s
          PROVE  (\E q \in Pages : FrameSlot(q)' = s) \/ (\E v \in VAs : PTESlot(v)' = s)
      BY <1>0, <2>2
    <2>3. ASSUME NEW v \in VAs, PTESlot(v) = s
          PROVE  PTESlot(v)' = s
      BY <1>0, <2>1, <2>3
    <2>4. ASSUME NEW v \in VAs, PTESlot(v)' = s
          PROVE  (\E p \in Pages : FrameSlot(p) = s) \/ PTESlot(v) = s
      BY <1>0, <1>1, <2>1, <2>4
    <2>5. \A p \in Pages : FrameSlot(p)' = s => FrameSlot(p) = s
      BY <1>0, <2>1
    <2>6. QED
      BY <2>2, <2>3, <2>4, <2>5, <1>0 DEF SInv, SlotInv, SlotsInUse
  <1>4. QED
    BY <1>2, <1>3

LEMMA WriteSlotsToFrames ==
    ASSUME SInv, NEW S \in SUBSET Pages, WriteSlotsPass(S)
    PROVE  SlotsApart' /\ SlotsInUse'
  <1> USE DEF WriteSlotsPass, SlotsStill
  <1>1. SlotsApart'
    BY DEF SInv, SlotInv, SlotsApart
  <1>2. SlotsInUse'
    <2> SUFFICES ASSUME NEW s \in Slots
                 PROVE  s \in used <=> \/ \E p \in Pages : FrameSlot(p)' = s
                                       \/ \E v \in VAs : PTESlot(v)' = s
                                       \/ \E p \in Pages : WriteSlot(p)' = s
      BY DEF SlotsInUse
    <2>1. s # None
      BY SlotTypes
    <2>2. \A p \in Pages : /\ FrameSlot(p) = s => FrameSlot(p)' = s
                           /\ WriteSlot(p) = s => FrameSlot(p)' = s \/ WriteSlot(p)' = s
                           /\ FrameSlot(p)' = s => FrameSlot(p) = s \/ WriteSlot(p) = s
                           /\ WriteSlot(p)' = s => WriteSlot(p) = s
      BY <2>1
    <2>3. QED
      BY <2>2 DEF SInv, SlotInv, SlotsInUse
  <1>3. QED
    BY <1>1, <1>2

LEMMA PTESlotToFrame ==
    ASSUME SInv, NEW w \in VAs, NEW p \in Pages, PTESlotPasses(w, p)
    PROVE  SlotsApart' /\ SlotsInUse'
  <1> USE DEF PTESlotPasses, SlotsStill
  <1>1. SlotsApart'
    BY DEF SInv, SlotInv, SlotsApart
  <1>2. SlotsInUse'
    <2> SUFFICES ASSUME NEW s \in Slots
                 PROVE  s \in used <=> \/ \E q \in Pages : FrameSlot(q)' = s
                                       \/ \E v \in VAs : PTESlot(v)' = s
                                       \/ \E q \in Pages : WriteSlot(q)' = s
      BY DEF SlotsInUse
    <2>1. s # None
      BY SlotTypes
    <2>2. /\ \A q \in Pages : /\ FrameSlot(q) = s => FrameSlot(q)' = s
                              /\ FrameSlot(q)' = s => FrameSlot(q) = s \/ PTESlot(w) = s
          /\ \A v \in VAs : /\ PTESlot(v) = s => PTESlot(v)' = s \/ FrameSlot(p)' = s
                            /\ PTESlot(v)' = s => PTESlot(v) = s
      BY <2>1
    <2>3. QED
      BY <2>2 DEF SInv, SlotInv, SlotsInUse
  <1>3. QED
    BY <1>1, <1>2
----------------------------------------------------------------------------
(* Steps that leave the slots alone *)

\* Nobody begins or ends reading a page in, or connecting a PTE.
ReadsStay ==
    \A w \in Users :
        /\ user'[w].pc \in ReadPC <=> user[w].pc \in ReadPC
        /\ user[w].pc \in ReadPC => user'[w].page = user[w].page
ConnectsStay ==
    \A w \in Users :
        /\ user'[w].pc \in ConnectPC <=> user[w].pc \in ConnectPC
        /\ user[w].pc \in ConnectPC => user'[w].va = user[w].va

\* The frames keep their slots, and so do the PTEs in disk format.
FrameSlotsStay(S) ==
    \A p \in S :
        /\ page'[p].pagefile_idx = page[p].pagefile_idx
        /\ page'[p].status \in {"ZERO", "FREE"} <=> page[p].status \in {"ZERO", "FREE"}
PTESlotsStay(S) ==
    \A v \in S :
        /\ pte'[v].format = "disk" <=> pte[v].format = "disk"
        /\ pte[v].format = "disk" => pte'[v].pagefile_idx = pte[v].pagefile_idx
WriteSlotsStay == \A p \in Pages : WriteSlot(p)' = WriteSlot(p)

LEMMA FrameSlotSame ==
    ASSUME NEW S \in SUBSET Pages, FrameSlotsStay(S), ReadsStay
    PROVE  \A p \in S : FrameSlot(p)' = FrameSlot(p)
  <1> SUFFICES ASSUME NEW p \in S
               PROVE  FrameSlot(p)' = FrameSlot(p)
    OBVIOUS
  <1>1. BeingRead(p)' <=> BeingRead(p)
    BY DEF ReadsStay, BeingRead, ReadPC
  <1>2. QED
    BY <1>1 DEF FrameSlotsStay, FrameSlot

LEMMA PTESlotSame ==
    ASSUME NEW S \in SUBSET VAs, PTESlotsStay(S), ConnectsStay
    PROVE  \A v \in S : PTESlot(v)' = PTESlot(v)
  <1> SUFFICES ASSUME NEW v \in S
               PROVE  PTESlot(v)' = PTESlot(v)
    OBVIOUS
  <1>1. Resolving(v)' <=> Resolving(v)
    BY DEF ConnectsStay, Resolving, ConnectPC
  <1>2. QED
    BY <1>1 DEF PTESlotsStay, PTESlot

LEMMA SlotsKept ==
    ASSUME SInv, used' = used, WriteSlotsStay, FrameSlotsStay(Pages), ReadsStay,
           PTESlotsStay(VAs), ConnectsStay
    PROVE  NoSlotMoves /\ SlotInv'
  <1>0. NoSlotMoves
    BY FrameSlotSame, PTESlotSame DEF WriteSlotsStay, NoSlotMoves, SlotsStill
  <1>1. SlotsApart' /\ SlotsInUse'
    BY <1>0, SlotsStay
  <1>2. DiskPTEsHaveSlots'
    BY DEF SInv, SlotInv, DiskPTEsHaveSlots, PTESlotsStay
  <1>3. QED
    BY <1>0, <1>1, <1>2 DEF SlotInv

\* Steps of handlers with neither a frame nor a slot, and access bits.
LEMMA QuietSlots ==
    ASSUME SInv, AccessBits, UNCHANGED <<page, used, writer>>,
           \A w \in Users : \/ user'[w] = user[w]
                            \/ /\ user[w].pc \notin ReadPC \cup ConnectPC
                               /\ user'[w].pc \notin ReadPC \cup ConnectPC
    PROVE  NoSlotMoves /\ SlotInv'
  <1>1. ReadsStay /\ ConnectsStay
    BY DEF ReadsStay, ConnectsStay
  <1>2. FrameSlotsStay(Pages) /\ WriteSlotsStay
    BY DEF FrameSlotsStay, WriteSlotsStay, WriteSlot
  <1>3. PTESlotsStay(VAs)
    BY DEF PTESlotsStay, AccessBits
  <1>4. QED
    BY <1>1, <1>2, <1>3, SlotsKept

\* Moves of a handler outside the two sections.
LEMMA MovesStay ==
    ASSUME NEW u \in Users, NEW l, NEW p, Moves(u, l) \/ MovesWith(u, l, p),
           user[u].pc \notin ReadPC \cup ConnectPC, l \notin ReadPC \cup ConnectPC
    PROVE  ReadsStay /\ ConnectsStay
  BY DEF Moves, MovesWith, ReadsStay, ConnectsStay

LEMMA EndsStay ==
    ASSUME NEW u \in Users, Ends(u), user[u].pc \notin ReadPC \cup ConnectPC
    PROVE  ReadsStay /\ ConnectsStay
  BY DEF Ends, ReadsStay, ConnectsStay, ReadPC, ConnectPC

LEMMA QuietUserSlots ==
    ASSUME SInv, NEW u \in Users,
           \/ \E va \in VAs : UserWrite(u, va) \/ UserSetAccessBit(u, va)
           \/ \E va \in VAs, access \in Accesses : UserFault(u, va, access)
           \/ FaultRetry(u) \/ BeginUnaccessedFault(u) \/ FindNoPage(u)
           \/ BeginTransitionFault(u) \/ LockToRescue(u) \/ RescueFail(u) \/ Rescue(u)
           \/ AwaitTrim(u) \/ RemapWritable(u) \/ SpeculateAccessBits(u)
           \/ \E p \in Pages : TakePage(u, p) \/ GetPage(u, p)
    PROVE  NoSlotMoves /\ SlotInv'
  <1> USE DEF SInv, OInv, IInv
  <1>1. CASE \E va \in VAs : UserWrite(u, va)
    BY <1>1, QuietSlots DEF UserWrite, AccessBits
  <1>2. CASE \E va \in VAs : UserSetAccessBit(u, va)
    BY <1>2, AccessBitSteps, QuietSlots DEF UserSetAccessBit
  <1>3. CASE \E va \in VAs, access \in Accesses : UserFault(u, va, access)
    <2>1. PICK va \in VAs, access \in Accesses : UserFault(u, va, access)
      BY <1>3
    <2>2. /\ user[u].pc \notin ReadPC \cup ConnectPC
          /\ user'[u].pc = "faulted" /\ \A w \in Users \ {u} : user'[w] = user[w]
      BY <2>1 DEF UserFault, At, TypeOK, UserType, ReadPC, ConnectPC
    <2>3. UNCHANGED <<pte, page, used, writer>>
      BY <2>1 DEF UserFault
    <2>4. QED
      BY <2>2, <2>3, QuietSlots DEF AccessBits, ReadPC, ConnectPC
  <1>4. CASE FaultRetry(u) \/ FindNoPage(u) \/ RescueFail(u)
    <2>1. Ends(u) /\ user[u].pc \notin ReadPC \cup ConnectPC
          /\ UNCHANGED <<pte, page, used, writer>>
      BY <1>4, BackToUserEnds DEF FaultRetry, FindNoPage, RescueFail, At, ReadPC, ConnectPC
    <2>2. QED
      BY <2>1, QuietSlots DEF AccessBits, Ends, ReadPC, ConnectPC
  <1>5. CASE BeginTransitionFault(u) \/ Rescue(u) \/ AwaitTrim(u) \/ RemapWritable(u)
             \/ BeginUnaccessedFault(u) \/ LockToRescue(u)
             \/ \E p \in Pages : TakePage(u, p) \/ GetPage(u, p)
    <2>1. /\ user[u].pc \notin ReadPC \cup ConnectPC
          /\ user'[u].pc \notin ReadPC \cup ConnectPC
          /\ \A w \in Users \ {u} : user'[w] = user[w]
      <3> USE DEF At, TypeOK, UserType, ReadPC, ConnectPC
      <3>1. CASE BeginTransitionFault(u)
        BY <3>1 DEF BeginTransitionFault
      <3>2. CASE Rescue(u)
        BY <3>2 DEF Rescue
      <3>3. CASE AwaitTrim(u)
        BY <3>3 DEF AwaitTrim
      <3>4. CASE RemapWritable(u) \/ BeginUnaccessedFault(u) \/ LockToRescue(u)
        BY <3>4 DEF RemapWritable, BeginUnaccessedFault, LockToRescue, Goto
      <3>5. CASE \E p \in Pages : TakePage(u, p)
        <4>1. PICK p \in Pages : TakePage(u, p)
          BY <3>5
        <4>2. user' = [user EXCEPT ![u].page = p, ![u].pc = "claim"]
          BY <4>1 DEF TakePage, Allocate
        <4>3. user[u].pc = "take_page"
          BY <4>1 DEF TakePage
        <4>4. QED
          BY <4>2, <4>3
      <3>6. CASE \E p \in Pages : GetPage(u, p)
        <4>1. PICK p \in Pages : GetPage(u, p)
          BY <3>6
        <4>2. user' = [user EXCEPT ![u].page = p, ![u].pc = "commit_disk"]
          BY <4>1 DEF GetPage, Allocate
        <4>3. user[u].pc = "get_page"
          BY <4>1 DEF GetPage
        <4>4. QED
          BY <4>2, <4>3
      <3>7. QED
        BY <1>5, <3>1, <3>2, <3>3, <3>4, <3>5, <3>6
    <2>2. UNCHANGED <<pte, page, used, writer>>
      BY <1>5 DEF BeginTransitionFault, Rescue, AwaitTrim, RemapWritable, BeginUnaccessedFault,
         LockToRescue, TakePage, GetPage
    <2>3. QED
      BY <2>1, <2>2, QuietSlots DEF AccessBits
  <1>6. CASE SpeculateAccessBits(u)
    <2>1. Ends(u) /\ user[u].pc \notin ReadPC \cup ConnectPC
          /\ UNCHANGED <<page, used, writer>>
      BY <1>6, BackToUserEnds DEF SpeculateAccessBits, At, ReadPC, ConnectPC
    <2>2. QED
      BY <1>6, <2>1, AccessBitSteps, QuietSlots DEF Ends, ReadPC, ConnectPC
  <1>7. QED
    BY <1>1, <1>2, <1>3, <1>4, <1>5, <1>6

\* Steps that change a PTE, but not to or from disk format.
LEMMA PTEUserSlots ==
    ASSUME SInv, NEW u \in Users,
           BeginValidFault(u) \/ FinishValidFault(u) \/ ClaimUnaccessed(u)
           \/ AcquireReadRights(u) \/ ReleaseReadRights(u)
    PROVE  NoSlotMoves /\ SlotInv'
  <1> USE DEF SInv, OInv, IInv
  <1>0. user[u].va \in VAs
    BY Fields
  <1>1. FrameSlotsStay(Pages) /\ WriteSlotsStay /\ used' = used
    BY DEF FrameSlotsStay, WriteSlotsStay, WriteSlot, BeginValidFault, FinishValidFault,
       ClaimUnaccessed, AcquireReadRights, ReleaseReadRights
  <1>2. /\ user[u].pc \notin ReadPC \cup ConnectPC
        /\ user'[u].pc \notin ReadPC \cup ConnectPC
        /\ \A w \in Users \ {u} : user'[w] = user[w]
    <2> USE DEF At, TypeOK, UserType, ReadPC, ConnectPC
    <2>1. CASE BeginValidFault(u)
      BY <2>1 DEF BeginValidFault
    <2>2. CASE FinishValidFault(u) \/ ReleaseReadRights(u)
      BY <2>2, BackToUserEnds DEF FinishValidFault, ReleaseReadRights, Ends
    <2>3. CASE ClaimUnaccessed(u) \/ AcquireReadRights(u)
      <3>1. /\ user[u].pc \in {"claim", "faulted"}
            /\ Goto(u, "commit") \/ Goto(u, "get_page")
        BY <2>3 DEF ClaimUnaccessed, AcquireReadRights
      <3>2. QED
        BY <3>1 DEF Goto
    <2>4. QED
      BY <2>1, <2>2, <2>3
  <1>3. ReadsStay /\ ConnectsStay
    BY <1>2 DEF ReadsStay, ConnectsStay
  <1>4. PTESlotsStay(VAs \ {user[u].va})
    BY <1>0 DEF PTESlotsStay, BeginValidFault, FinishValidFault, ClaimUnaccessed,
       AcquireReadRights, ReleaseReadRights, TypeOK
  <1>5. PTESlotsStay({user[u].va})
    <2>1. CASE BeginValidFault(u)
      <3>1. /\ pte[user[u].va].format = "memory"
            /\ pte'[user[u].va] = [pte[user[u].va] EXCEPT !.being_changed = TRUE]
        BY <1>0, <2>1 DEF BeginValidFault, TypeOK, IsStable
      <3>2. pte'[user[u].va].format = "memory"
        BY <1>0, <3>1, MemoryFormat DEF MemoryPTE, TypeOK
      <3>3. QED
        BY <3>1, <3>2 DEF PTESlotsStay
    <2>2. CASE FinishValidFault(u)
      <3>1. pte[user[u].va].format = "memory"
        <4>1. user[u].pc = "finish_valid"
          BY <2>2 DEF FinishValidFault, At
        <4>2. QED
          BY <4>1 DEF Owned, Handlers, ValidFaults, ValidPC
      <3>2. pte'[user[u].va].format = "memory"
        BY <1>0, <2>2 DEF FinishValidFault, Connected, Memory, TypeOK
      <3>3. QED
        BY <3>1, <3>2 DEF PTESlotsStay
    <2>3. CASE ClaimUnaccessed(u)
      BY <1>0, <2>3 DEF PTESlotsStay, ClaimUnaccessed, StillUnaccessed, Unused, Memory, TypeOK
    <2>4. CASE AcquireReadRights(u)
      <3>1. /\ pte[user[u].va].format = "disk"
            /\ pte'[user[u].va] = [pte[user[u].va] EXCEPT !.being_read = TRUE]
        BY <1>0, <2>4 DEF AcquireReadRights, TypeOK
      <3>2. pte'[user[u].va].format = "disk"
            /\ pte'[user[u].va].pagefile_idx = pte[user[u].va].pagefile_idx
        BY <1>0, <3>1, DiskFormat DEF DiskPTE, TypeOK
      <3>3. QED
        BY <3>1, <3>2 DEF PTESlotsStay
    <2>5. CASE ReleaseReadRights(u)
      <3>1. pte[user[u].va].format = "disk"
        <4>1. user[u].pc = "get_page"
          BY <2>5 DEF ReleaseReadRights, At
        <4>2. QED
          BY <4>1 DEF Owned, Handlers, Claims
      <3>2. pte'[user[u].va] = Disk(pte[user[u].va].pagefile_idx, FALSE)
        BY <1>0, <2>5, <3>1 DEF ReleaseReadRights, SlotIn, TypeOK
      <3>3. QED
        BY <3>1, <3>2 DEF PTESlotsStay, Disk
    <2>6. QED
      BY <2>1, <2>2, <2>3, <2>4, <2>5
  <1>6. QED
    BY <1>0, <1>1, <1>3, <1>4, <1>5, SlotsKept DEF PTESlotsStay
\* Steps that move a handler on and leave the PTEs alone.
LEMMA MoveUserSlots ==
    ASSUME SInv, NEW u \in Users,
           SetModified(u) \/ ReadPageFromDisk(u) \/ MapPage(u) \/ ReturnUnneededPage(u)
    PROVE  NoSlotMoves /\ SlotInv'
  <1> USE DEF SInv, OInv, IInv
  <1>1. UNCHANGED <<pte, used, writer>>
    BY DEF SetModified, ReadPageFromDisk, MapPage, ReturnUnneededPage
  <1>2. PTESlotsStay(VAs) /\ WriteSlotsStay
    BY <1>1 DEF PTESlotsStay, WriteSlotsStay, WriteSlot
  <1>3. ReadsStay /\ ConnectsStay
    <2>1. CASE SetModified(u)
      <3>1. user[u].pc = "set_modified" /\ Moves(u, "finish_valid")
        BY <2>1, GotoMoves DEF SetModified, At
      <3>2. QED
        BY <3>1, MovesStay DEF ReadPC, ConnectPC
    <2>2. CASE ReadPageFromDisk(u)
      <3>1. user[u].pc = "read_disk" /\ Moves(u, "end_slot")
        BY <2>2, GotoMoves DEF ReadPageFromDisk, At
      <3>2. QED
        BY <3>1 DEF Moves, ReadsStay, ConnectsStay, ReadPC, ConnectPC
    <2>3. CASE MapPage(u)
      <3>1. /\ user[u].pc = "map" /\ user'[u].pc = "connect" /\ user'[u].va = user[u].va
            /\ \A w \in Users \ {u} : user'[w] = user[w]
        BY <2>3 DEF MapPage, At, TypeOK, UserType
      <3>2. QED
        BY <3>1 DEF ReadsStay, ConnectsStay, ReadPC, ConnectPC
    <2>4. CASE ReturnUnneededPage(u)
      <3>1. user[u].pc = "claim" /\ Ends(u)
        BY <2>4, BackToUserEnds DEF ReturnUnneededPage, At
      <3>2. QED
        BY <3>1, EndsStay DEF ReadPC, ConnectPC
    <2>5. QED
      BY <2>1, <2>2, <2>3, <2>4
  <1>4. FrameSlotsStay(Pages)
    <2>1. CASE SetModified(u)
      BY <2>1 DEF FrameSlotsStay, SetModified, TypeOK, Page
    <2>2. CASE ReadPageFromDisk(u) \/ MapPage(u)
      BY <2>2 DEF FrameSlotsStay, ReadPageFromDisk, MapPage
    <2>3. CASE ReturnUnneededPage(u)
      <3>1. /\ user[u].page \in Pages /\ page[user[u].page].status \in Spare
        <4>1. user[u].pc = "claim"
          BY <2>3 DEF ReturnUnneededPage, At
        <4>2. QED
          BY <4>1, Fields DEF Owned, Handlers, Claims, FramePC
      <3>2. page' = IF page[user[u].page].status = "STANDBY" THEN page
                    ELSE [page EXCEPT ![user[u].page].status = "FREE", ![user[u].page].pte = None]
        BY <2>3 DEF ReturnUnneededPage
      <3>3. QED
        BY <3>1, <3>2 DEF FrameSlotsStay, TypeOK, Page
    <2>4. QED
      BY <2>1, <2>2, <2>3
  <1>5. QED
    BY <1>1, <1>2, <1>3, <1>4, SlotsKept

\* A PTE that is connected is not counted before (its handler is resolving it),
\* and has no slot after.
LEMMA ConnectPTESlots ==
    ASSUME SInv, NEW u \in Users, ConnectPTE(u)
    PROVE  NoSlotMoves /\ SlotInv'
  <1> USE DEF SInv, OInv, IInv
  <1>0. user[u].va \in VAs
    BY Fields
  <1>1. user[u].pc = "connect" /\ Moves(u, "speculate") /\ UNCHANGED <<page, used, writer>>
    BY GotoMoves DEF ConnectPTE, At
  <1>2. /\ pte'[user[u].va].format = "memory"
        /\ \A v \in VAs \ {user[u].va} : pte'[v] = pte[v]
    BY <1>0 DEF ConnectPTE, Connected, Memory, TypeOK
  <1>3. ReadsStay /\ FrameSlotsStay(Pages) /\ WriteSlotsStay
    BY <1>1 DEF ReadsStay, Moves, ReadPC, FrameSlotsStay, WriteSlotsStay, WriteSlot
  <1>4. \A v \in VAs \ {user[u].va} : PTESlot(v)' = PTESlot(v)
    <2> SUFFICES ASSUME NEW v \in VAs \ {user[u].va}
                 PROVE  PTESlot(v)' = PTESlot(v)
      OBVIOUS
    <2>1. Resolving(v)' <=> Resolving(v)
      BY <1>1 DEF Moves, Resolving
    <2>2. QED
      BY <1>2, <2>1 DEF PTESlot
  <1>5. PTESlot(user[u].va) = None /\ PTESlot(user[u].va)' = None
    <2>1. Resolving(user[u].va)
      BY <1>1 DEF Resolving
    <2>2. user'[u].va = user[u].va
      BY <1>1 DEF Moves
    <2>3. ASSUME NEW v \in VAs, v = user[u].va
          PROVE  PTESlot(v)' = None
      BY <1>2, <2>3 DEF PTESlot
    <2>4. QED
      BY <1>0, <2>1, <2>2, <2>3 DEF PTESlot
  <1>6. NoSlotMoves /\ SlotsApart' /\ SlotsInUse'
    <2>1. \A v \in VAs : PTESlot(v)' = PTESlot(v)
      <3>1. ASSUME NEW v \in VAs, v = user[u].va
            PROVE  PTESlot(v)' = None
        BY <1>2, <3>1 DEF PTESlot
      <3>2. QED
        BY <1>4, <1>5, <3>1
    <2>2. NoSlotMoves
      BY <1>1, <1>3, <2>1, FrameSlotSame DEF WriteSlotsStay, NoSlotMoves, SlotsStill
    <2>3. QED
      BY <2>2, SlotsStay
  <1>7. DiskPTEsHaveSlots'
    BY <1>2 DEF SlotInv, DiskPTEsHaveSlots
  <1>8. QED
    BY <1>6, <1>7 DEF SlotInv

LEMMA OtherSlots ==
    ASSUME SInv,
           \/ \E va \in VAs : TrimClearAccessBit(va) \/ TrimMark(va) \/ TrimEdit(va)
           \/ TrimPlace \/ TrimDisconnect \/ TrimInsertModified \/ TrimInsertStandby
           \/ \E p \in Pages : WriterReadTail(p)
           \/ WriterSkip \/ WriterPop \/ WriterPopUnlisted
           \/ \E S \in SUBSET Pages : RefreshPop(S)
           \/ TrimChainModified \/ TrimChainStandby
           \/ UNCHANGED vars
    PROVE  NoSlotMoves /\ SlotInv'
  <1> USE DEF SInv, OInv, IInv
  <1>1. used' = used /\ user' = user /\ writer'.slot = writer.slot
    <2>1. CASE (\E p \in Pages : WriterReadTail(p)) \/ WriterSkip \/ WriterPop
               \/ WriterPopUnlisted
      BY <2>1 DEF WriterReadTail, WriterSkip, WriterPop, WriterPopUnlisted, TypeOK, WriterType
    <2>2. CASE \/ \E va \in VAs : TrimClearAccessBit(va) \/ TrimMark(va) \/ TrimEdit(va)
               \/ TrimPlace \/ TrimDisconnect \/ \E S \in SUBSET Pages : RefreshPop(S)
               \/ TrimInsertModified \/ TrimInsertStandby
               \/ TrimChainModified \/ TrimChainStandby
               \/ UNCHANGED vars
      BY <2>2 DEF TrimClearAccessBit, TrimMark, TrimEdit, TrimPlace, TrimDisconnect,
         TrimInsertModified, TrimInsertStandby, TrimInsert, RefreshPop, TrimChainModified, TrimChainStandby, TrimChain, vars
    <2>3. QED
      BY <2>1, <2>2
  <1>2. ReadsStay /\ ConnectsStay /\ WriteSlotsStay
    BY <1>1 DEF ReadsStay, ConnectsStay, WriteSlotsStay, WriteSlot
  <1>3. PTESlotsStay(VAs)
    <2>1. CASE \E va \in VAs : TrimClearAccessBit(va)
      BY <2>1, AccessBitSteps DEF AccessBits, PTESlotsStay
    <2>2. CASE \E va \in VAs : TrimMark(va)
      <3>1. PICK va \in VAs : TrimMark(va)
        BY <2>2
      <3>2. pte[va].format = "memory" /\ pte' = [pte EXCEPT ![va].being_trimmed = TRUE]
        BY <3>1 DEF TrimMark, IsStable
      <3>3. pte'[va] = [pte[va] EXCEPT !.being_trimmed = TRUE]
            /\ \A v \in VAs \ {va} : pte'[v] = pte[v]
        BY <3>2 DEF TypeOK
      <3>4. pte'[va].format = "memory"
        BY <3>2, <3>3, MemoryFormat DEF MemoryPTE, TypeOK
      <3>5. QED
        BY <3>2, <3>3, <3>4 DEF PTESlotsStay
    <2>3. CASE \E va \in VAs : TrimEdit(va)
      BY <2>3 DEF TrimEdit, PTESlotsStay, Transition, TypeOK
    <2>4. CASE \/ TrimPlace \/ TrimDisconnect \/ \E S \in SUBSET Pages : RefreshPop(S)
               \/ TrimInsertModified \/ TrimInsertStandby
               \/ TrimChainModified \/ TrimChainStandby
               \/ (\E p \in Pages : WriterReadTail(p)) \/ WriterSkip \/ WriterPop
               \/ WriterPopUnlisted
               \/ UNCHANGED vars
      BY <2>4 DEF TrimPlace, TrimDisconnect, TrimInsertModified, WriterReadTail, WriterSkip,
         WriterPop, WriterPopUnlisted, PTESlotsStay,
         TrimInsertStandby, TrimInsert, RefreshPop, TrimChainModified, TrimChainStandby, TrimChain, vars
    <2>5. QED
      BY <2>1, <2>2, <2>3, <2>4
  <1>4. FrameSlotsStay(Pages)
    <2>1. CASE TrimPlace
      <3>1. PICK p \in Pages : p = trim.page
        BY <2>1 DEF TrimPlace, TypeOK, TrimType
      <3>2. page' = page \/ page' = [page EXCEPT ![p].status = "MODIFIED"]
        BY <2>1, <3>1 DEF TrimPlace
      <3>3. page[p].status = "ACTIVE"
        BY <3>1 DEF Owned, Frames, TrimBatch
      <3>4. \A q \in Pages :
               /\ page'[q].pagefile_idx = page[q].pagefile_idx
               /\ page'[q].status # page[q].status =>
                     page[q].status = "ACTIVE" /\ page'[q].status = "MODIFIED"
        BY <3>2, <3>3 DEF TypeOK, Page
      <3>5. QED
        BY <3>4 DEF FrameSlotsStay
    <2>2. CASE WriterPop
      <3>1. PICK p \in Pages : p = potential_page
        BY <2>2 DEF WriterPop, TypeOK
      <3>2. page' = [page EXCEPT ![p].modified = FALSE, ![p].writing_to_disk = TRUE]
        BY <2>2, <3>1 DEF WriterPop
      <3>3. QED
        BY <3>2 DEF FrameSlotsStay, TypeOK, Page
    <2>3. CASE TrimChainModified
      <3>1. /\ \A p \in trim.to_modified : page[p].status = "ACTIVE"
            /\ trim.to_modified \subseteq Pages
        BY <2>3 DEF TrimChainModified, TrimChain, TrimmerAt, Owned, Frames, TrimBatch, TypeOK, TrimType
      <3>2. page' = [p \in Pages |-> IF p \in trim.to_modified
                                     THEN [page[p] EXCEPT !.status = "MODIFIED"] ELSE page[p]]
        BY <2>3 DEF TrimChainModified, TrimChain
      <3>3. QED
        BY <3>1, <3>2 DEF FrameSlotsStay, TypeOK, Page
    <2>4. CASE TrimChainStandby
      <3>1. /\ \A p \in trim.to_standby : page[p].status = "ACTIVE"
            /\ trim.to_standby \subseteq Pages
        BY <2>4 DEF TrimChainStandby, TrimChain, TrimmerAt, Owned, Frames, TrimBatch, TypeOK, TrimType
      <3>2. page' = [p \in Pages |-> IF p \in trim.to_standby
                                     THEN [page[p] EXCEPT !.status = "STANDBY"] ELSE page[p]]
        BY <2>4 DEF TrimChainStandby, TrimChain
      <3>3. QED
        BY <3>1, <3>2 DEF FrameSlotsStay, TypeOK, Page
    <2>5. CASE \/ \E va \in VAs : TrimClearAccessBit(va) \/ TrimMark(va) \/ TrimEdit(va)
               \/ TrimDisconnect \/ \E S \in SUBSET Pages : RefreshPop(S)
               \/ TrimInsertModified \/ TrimInsertStandby
               \/ (\E p \in Pages : WriterReadTail(p)) \/ WriterSkip \/ WriterPopUnlisted
               \/ UNCHANGED vars
      BY <2>5 DEF TrimClearAccessBit, TrimMark, TrimEdit, TrimDisconnect, TrimInsertModified,
         WriterReadTail, WriterSkip, WriterPopUnlisted, FrameSlotsStay,
         TrimInsertStandby, TrimInsert, RefreshPop, vars
    <2>6. QED
      BY <2>1, <2>2, <2>3, <2>4, <2>5
  <1>5. QED
    BY <1>1, <1>2, <1>3, <1>4, SlotsKept
----------------------------------------------------------------------------
(* Steps that give slots back or hand them on *)

\* A frame that is being read in is active, not the writer's, and names the VA
\* of the one handler that reads it in.
LEMMA Readers ==
    ASSUME OInv, NEW p \in Pages, BeingRead(p)
    PROVE  /\ page[p].status = "ACTIVE" /\ p \notin writer.batch
           /\ \E u \in Users : user[u].pc \in ReadPC /\ user[u].page = p
                               /\ user[u].va = page[p].pte
  BY DEF BeingRead, OInv, Owned, Handlers, Connections, ReadPC

\* A handler that goes on to connect a PTE stops it being counted, and no other.
LEMMA ConnectsOne ==
    ASSUME NEW u \in Users, Moves(u, "map"), user[u].pc \notin ConnectPC
    PROVE  /\ \A v \in VAs : v # user[u].va => (Resolving(v)' <=> Resolving(v))
           /\ \A v \in VAs : v = user[u].va => Resolving(v)'
  BY DEF Moves, Resolving, ConnectPC

LEMMA DropSlotSlots ==
    ASSUME SInv, NEW u \in Users, DropSlot(u)
    PROVE  /\ \E p \in Pages : p = user[u].page /\ FrameSlotGoes(p)
           /\ SlotInv'
  <1> USE DEF SInv, OInv, IInv
  <1>1. /\ user[u].pc = "drop_slot" /\ Moves(u, "set_modified")
        /\ UNCHANGED <<pte, writer>>
    BY GotoMoves DEF DropSlot, At
  <1>2. PICK p \in Pages : p = user[u].page
    BY <1>1, Fields DEF FramePC
  <1>3. page[p].status = "ACTIVE" /\ page[p].pte = user[u].va
    BY <1>1, <1>2 DEF Owned, Handlers, ValidFaults, ValidPC
  <1>4. ReadsStay /\ ConnectsStay
    BY <1>1, MovesStay DEF ReadPC, ConnectPC
  <1>5. PTESlotsStay(VAs) /\ WriteSlotsStay
    BY <1>1 DEF PTESlotsStay, WriteSlotsStay, WriteSlot
  <1>6. /\ \A q \in Pages \ {p} : page'[q] = page[q]
        /\ page'[p].pagefile_idx = None
        /\ used' = used \ {page[p].pagefile_idx}
    BY <1>2 DEF DropSlot, TypeOK, Page
  <1>7. ~BeingRead(p)
    <2> SUFFICES ASSUME BeingRead(p)
                 PROVE  FALSE
      OBVIOUS
    <2>1. PICK w \in Users : user[w].pc \in ReadPC /\ user[w].va = page[p].pte
      BY Readers
    <2>2. w = u
      BY <1>1, <1>3, <2>1 DEF Owned, Handlers, ResolversApart, ResolverPC, ValidPC
    <2>3. QED
      BY <1>1, <2>1, <2>2 DEF ReadPC
  <1>8. FrameSlot(p) = page[p].pagefile_idx /\ FrameSlot(p)' = None
    BY <1>3, <1>6, <1>7 DEF FrameSlot
  <1>9. \A q \in Pages \ {p} : FrameSlot(q)' = FrameSlot(q)
    BY <1>4, <1>6, FrameSlotSame DEF FrameSlotsStay
  <1>10. FrameSlotGoes(p)
    <2>1. (\A v \in VAs : PTESlot(v)' = PTESlot(v)) /\ (\A q \in Pages : WriteSlot(q)' = WriteSlot(q))
      BY <1>4, <1>5, PTESlotSame DEF WriteSlotsStay
    <2>2. used' = used \ {FrameSlot(p)}
      BY <1>6, <1>8
    <2>3. QED
      BY <1>8, <1>9, <2>1, <2>2 DEF FrameSlotGoes, SlotsStill
  <1>11. DiskPTEsHaveSlots'
    BY <1>1 DEF SlotInv, DiskPTEsHaveSlots
  <1>12. QED
    BY <1>2, <1>10, <1>11, FrameSlotFreed DEF SlotInv

\* A frame that is repurposed leaves its slot to the PTE it is taken from.
LEMMA RepurposedSlots ==
    ASSUME SInv, NEW p \in Pages, NEW w \in VAs, Forced(w, p),
           used' = used, WriteSlotsStay,
           FrameSlot(p)' = None,
           \A q \in Pages \ {p} : FrameSlot(q)' = FrameSlot(q),
           \A v \in VAs : v # w => PTESlot(v)' = PTESlot(v),
           Resolving(w)' <=> Resolving(w),
           \A v \in VAs : v # w => pte'[v] = pte[v]
    PROVE  FrameSlotsPass({p}) /\ SlotInv'
  <1> USE DEF SInv, OInv, IInv
  <1>1. /\ page[p].pte = w /\ page[p].status = "STANDBY"
        /\ pte'[w] = Disk(page[p].pagefile_idx, FALSE) /\ pte[w].format # "disk"
        /\ ~Resolving(w)
    BY DEF Forced, Resolving, ResolverPC, ConnectPC
  <1>2. FrameSlot(p) = page[p].pagefile_idx
    BY <1>1, Readers DEF FrameSlot
  <1>3. PTESlot(w) = None /\ PTESlot(w)' = FrameSlot(p)
    BY <1>1, <1>2 DEF PTESlot, Disk
  <1>4. FrameSlotsPass({p})
    <2>2. \A v \in VAs : page[p].pte = v => PTESlot(v)' = FrameSlot(p)
      BY <1>1, <1>3
    <2>3. page[p].pte \in VAs /\ PTESlot(page[p].pte) = None
      BY <1>1, <1>3
    <2>4. SlotsStill({p}, {}, {page[q].pte : q \in {p}})
      BY <1>1 DEF WriteSlotsStay, SlotsStill
    <2>5. QED
      BY <2>2, <2>3, <2>4 DEF FrameSlotsPass
  <1>5. DiskPTEsHaveSlots'
    <2>1. page[p].pagefile_idx \in Slots
      BY <1>1, Fields DEF Owned, Frames, SlotsOfFrames
    <2>2. \A v \in VAs : v = w => pte'[v].pagefile_idx \in Slots
      BY <1>1, <2>1 DEF Disk
    <2>3. QED
      BY <2>2 DEF SlotInv, DiskPTEsHaveSlots
  <1>6. QED
    <2>1. {p} \in SUBSET Pages
      OBVIOUS
    <2>2. QED
      BY <1>4, <1>5, <2>1, FrameSlotsToPTEs DEF SlotInv

\* A fresh frame's slot goes to the PTE it is taken from, a rescued one keeps
\* it unless it is to be written to.
LEMMA CommitPageSlots ==
    ASSUME SInv, NEW u \in Users, CommitPage(u)
    PROVE  /\ \E p \in Pages :
                 /\ p = user[u].page
                 /\ IF page[p].status = "STANDBY" /\ pte[user[u].va].format = "memory"
                    THEN FrameSlotsPass({p})
                    ELSE IF FreesSlot(u) THEN FrameSlotGoes(p) ELSE NoSlotMoves
           /\ SlotInv'
  <1> USE DEF SInv, OInv, IInv
  <1>1. /\ user[u].pc = "commit" /\ Moves(u, "map") /\ writer' = writer
    BY GotoMoves DEF CommitPage, At
  <1>2. PICK p \in Pages : p = user[u].page
    BY <1>1, LockedAlone DEF LockedPC
  <1>3. PICK va \in VAs : va = user[u].va
    BY Fields
  <1>4. \/ BeingChanged(pte[va], p) /\ page[p].status \in Spare
        \/ InTransition(pte[va], p) /\ page[p].status \in Listable /\ page[p].pte = va
    BY <1>1, <1>2, <1>3 DEF Owned, Handlers, Rescues
  <1>5. /\ \A q \in Pages \ {p} : page'[q] = page[q]
        /\ page'[p].status = "ACTIVE"
        /\ page'[p].pagefile_idx = IF user[u].access = "WRITE" \/ pte[va].format = "memory"
                                   THEN None ELSE page[p].pagefile_idx
    BY <1>2, <1>3 DEF CommitPage, TypeOK, Page
  <1>6. used' = IF FreesSlot(u) THEN used \ {page[p].pagefile_idx} ELSE used
    BY <1>2 DEF CommitPage
  <1>7. /\ pte'[va] = pte[va]
        /\ \A v \in VAs : pte'[v] = pte[v] \/ (v = page[p].pte /\ v # va /\ Forced(v, p))
        /\ page[p].pte # va /\ page[p].pte # None => Forced(page[p].pte, p)
    BY <1>2, <1>3, CommitPagePTEs
  <1>8. ReadsStay /\ WriteSlotsStay
    BY <1>1 DEF ReadsStay, Moves, ReadPC, WriteSlotsStay, WriteSlot
  <1>9. \A q \in Pages \ {p} : FrameSlot(q)' = FrameSlot(q)
    BY <1>5, <1>8, FrameSlotSame DEF FrameSlotsStay
  <1>10. \A v \in VAs : v # va => (Resolving(v)' <=> Resolving(v))
    BY <1>1, <1>3, ConnectsOne DEF ConnectPC
  <1>11. \A v \in VAs : pte'[v] = pte[v] => PTESlot(v)' = PTESlot(v)
    BY <1>4, <1>10 DEF PTESlot
  <1>12. ~BeingRead(p) /\ ~BeingRead(p)'
    <2>1. ~BeingRead(p)
      BY <1>4, Readers
    <2>2. BeingRead(p)' <=> BeingRead(p)
      BY <1>8 DEF ReadsStay, BeingRead, ReadPC
    <2>3. QED
      BY <2>1, <2>2
  <1>13. /\ FrameSlot(p) = IF page[p].status \in {"ZERO", "FREE"} THEN None ELSE page[p].pagefile_idx
         /\ FrameSlot(p)' = page'[p].pagefile_idx
    BY <1>5, <1>12 DEF FrameSlot
  <1>14. CASE BeingChanged(pte[va], p) /\ page[p].status = "STANDBY"
    <2>1. PICK w \in VAs : w = page[p].pte
      BY <1>14, Fields
    <2>2. w # va
      BY <1>14, <2>1 DEF Owned, Frames, FramesNamePTEs
    <2>3. Forced(w, p)
      BY <1>7, <2>1, <2>2, Fields
    <2>4. \A v \in VAs : v # w => pte'[v] = pte[v]
      BY <1>7, <2>1
    <2>5. \A v \in VAs : v # w => PTESlot(v)' = PTESlot(v)
      BY <1>11, <2>4
    <2>6. used' = used
      BY <1>3, <1>6, <1>14 DEF FreesSlot
    <2>7. FrameSlot(p)' = None
      BY <1>5, <1>13, <1>14
    <2>8. FrameSlotsPass({p}) /\ SlotInv'
      BY <1>8, <1>9, <1>10, <2>2, <2>3, <2>4, <2>5, <2>6, <2>7, RepurposedSlots
    <2>9. QED
      BY <1>2, <1>3, <1>14, <2>8
  <1>15. CASE ~(BeingChanged(pte[va], p) /\ page[p].status = "STANDBY")
    <2>1. \A v \in VAs : pte'[v] = pte[v]
      <3>1. ~Forced(page[p].pte, p) \/ page[p].pte = va
        BY <1>4, <1>15 DEF Forced
      <3>2. QED
        BY <1>7, <3>1
    <2>2. \A v \in VAs : PTESlot(v)' = PTESlot(v)
      BY <1>11, <2>1
    <2>3. DiskPTEsHaveSlots'
      BY <2>1 DEF SlotInv, DiskPTEsHaveSlots
    <2>4. CASE FreesSlot(u)
      <3>1. FrameSlot(p) = page[p].pagefile_idx /\ FrameSlot(p)' = None
        BY <1>2, <1>5, <1>13, <2>4 DEF FreesSlot
      <3>2. used' = used \ {FrameSlot(p)}
        BY <1>6, <2>4, <3>1
      <3>3. FrameSlotGoes(p)
        BY <1>8, <1>9, <2>2, <3>1, <3>2 DEF WriteSlotsStay, FrameSlotGoes, SlotsStill
      <3>4. SlotInv'
        BY <2>3, <3>3, FrameSlotFreed DEF SlotInv
      <3>5. QED
        BY <1>2, <1>3, <2>4, <3>3, <3>4 DEF FreesSlot
    <2>5. CASE ~FreesSlot(u)
      <3>1. page[p].status = "MODIFIED" => page[p].pagefile_idx = None
        BY DEF Owned, Frames, SlotsOfFrames
      <3>2. FrameSlot(p)' = FrameSlot(p)
        BY <1>2, <1>3, <1>4, <1>5, <1>13, <1>15, <2>5, <3>1 DEF FreesSlot
      <3>3. used' = used
        BY <1>6, <2>5
      <3>4. NoSlotMoves
        BY <1>8, <1>9, <2>2, <3>2, <3>3 DEF WriteSlotsStay, NoSlotMoves, SlotsStill
      <3>5. SlotInv'
        BY <2>3, <3>4, SlotsStay DEF SlotInv
      <3>6. QED
        BY <1>2, <1>3, <1>4, <1>15, <2>5, <3>4, <3>5
    <2>6. QED
      BY <2>4, <2>5
  <1>16. QED
    BY <1>14, <1>15
LEMMA CommitPageDiskSlots ==
    ASSUME SInv, NEW u \in Users, CommitPageDisk(u)
    PROVE  /\ \E p \in Pages :
                 /\ p = user[u].page
                 /\ IF page[p].status = "STANDBY" THEN FrameSlotsPass({p}) ELSE NoSlotMoves
           /\ SlotInv'
  <1> USE DEF SInv, OInv, IInv
  <1>1. /\ user[u].pc = "commit_disk" /\ Moves(u, "read_disk") /\ writer' = writer /\ used' = used
    BY GotoMoves DEF CommitPageDisk, At
  <1>2. PICK p \in Pages : p = user[u].page
    BY <1>1, LockedAlone DEF LockedPC
  <1>3. PICK va \in VAs : va = user[u].va
    BY Fields
  <1>4. BeingReadIn(pte[va]) /\ page[p].status \in Spare
    BY <1>1, <1>2, <1>3 DEF Owned, Handlers, Claims
  <1>5. \A q \in Pages \ {p} : page'[q] = page[q]
    BY <1>2 DEF CommitPageDisk
  <1>6. /\ \A v \in VAs : pte'[v] = pte[v] \/ (v = page[p].pte /\ Forced(v, p))
        /\ page[p].pte # None => Forced(page[p].pte, p)
    BY <1>2, CommitPageDiskPTEs
  <1>7. ConnectsStay /\ WriteSlotsStay
    BY <1>1 DEF ConnectsStay, Moves, ConnectPC, WriteSlotsStay, WriteSlot
  <1>8. /\ \A q \in Pages : q # p => (BeingRead(q)' <=> BeingRead(q))
        /\ BeingRead(p)'
    BY <1>1, <1>2 DEF Moves, BeingRead
  <1>9. /\ \A q \in Pages \ {p} : FrameSlot(q)' = FrameSlot(q)
        /\ FrameSlot(p)' = None
    BY <1>5, <1>8 DEF FrameSlot
  <1>10. \A v \in VAs : Resolving(v)' <=> Resolving(v)
    BY <1>7 DEF ConnectsStay, Resolving, ConnectPC
  <1>11. \A v \in VAs : pte'[v] = pte[v] => PTESlot(v)' = PTESlot(v)
    BY <1>10 DEF PTESlot
  <1>12. CASE page[p].status = "STANDBY"
    <2>1. PICK w \in VAs : w = page[p].pte
      BY <1>12, Fields
    <2>2. Forced(w, p)
      BY <1>6, <2>1, Fields
    <2>3. \A v \in VAs : v # w => pte'[v] = pte[v]
      BY <1>6, <2>1
    <2>4. \A v \in VAs : v # w => PTESlot(v)' = PTESlot(v)
      BY <1>11, <2>3
    <2>5. FrameSlotsPass({p}) /\ SlotInv'
      BY <1>1, <1>7, <1>9, <1>10, <2>2, <2>3, <2>4, RepurposedSlots
    <2>6. QED
      BY <1>2, <1>12, <2>5
  <1>13. CASE page[p].status # "STANDBY"
    <2>1. \A v \in VAs : pte'[v] = pte[v]
      BY <1>6, <1>13 DEF Forced
    <2>2. DiskPTEsHaveSlots'
      BY <2>1 DEF SlotInv, DiskPTEsHaveSlots
    <2>3. FrameSlot(p) = None
      BY <1>4, <1>13 DEF FrameSlot
    <2>4. \A v \in VAs : PTESlot(v)' = PTESlot(v)
      BY <1>11, <2>1
    <2>5. NoSlotMoves
      BY <1>1, <1>7, <1>9, <2>3, <2>4 DEF WriteSlotsStay, NoSlotMoves, SlotsStill
    <2>6. QED
      BY <1>2, <1>13, <2>2, <2>5, SlotsStay DEF SlotInv
  <1>14. QED
    BY <1>12, <1>13

\* The frame that has been read in takes its PTE's slot, or gives it back.
LEMMA EndOfFaultDiskSlotSlots ==
    ASSUME SInv, NEW u \in Users, EndOfFaultDiskSlot(u)
    PROVE  /\ \E p \in Pages, va \in VAs :
                 /\ p = user[u].page /\ va = user[u].va
                 /\ IF user[u].access = "WRITE" THEN PTESlotGoes(va) ELSE PTESlotPasses(va, p)
           /\ SlotInv'
  <1> USE DEF SInv, OInv, IInv
  <1>1. /\ user[u].pc = "end_slot" /\ Moves(u, "map") /\ writer' = writer /\ pte' = pte
    BY GotoMoves DEF EndOfFaultDiskSlot, At
  <1>2. PICK p \in Pages : p = user[u].page
    BY <1>1, Fields DEF FramePC
  <1>3. PICK va \in VAs : va = user[u].va
    BY Fields
  <1>4. /\ page[p].status = "ACTIVE" /\ page[p].pte = va
        /\ BeingReadIn(pte[va])
    BY <1>1, <1>2, <1>3 DEF Owned, Handlers, Connections, ReadPC, ConnectPC
  <1>5. \A w \in Users \ {u} : user[w].pc \in ResolverPC => user[w].va # va
    BY <1>1, <1>3 DEF Owned, Handlers, ResolversApart, ResolverPC, ReadPC
  <1>6. /\ \A q \in Pages \ {p} : page'[q] = page[q]
        /\ page'[p].status = page[p].status
        /\ page'[p].pagefile_idx = IF user[u].access = "WRITE" THEN None ELSE pte[va].pagefile_idx
        /\ used' = IF user[u].access = "WRITE" THEN used \ {pte[va].pagefile_idx} ELSE used
    BY <1>2, <1>3, <1>4 DEF EndOfFaultDiskSlot, SlotIn, TypeOK, Page
  <1>7. WriteSlotsStay
    BY <1>1 DEF WriteSlotsStay, WriteSlot
  <1>8. BeingRead(p) /\ ~BeingRead(p)'
    <2>1. BeingRead(p)
      BY <1>1, <1>2 DEF BeingRead
    <2>2. \A w \in Users \ {u} : user[w].pc \in ReadPC => user[w].page # p
      BY <1>4, <1>5 DEF Owned, Handlers, Connections, ResolverPC
    <2>3. QED
      BY <1>1, <2>1, <2>2 DEF Moves, BeingRead, ReadPC
  <1>9. \A q \in Pages \ {p} : FrameSlot(q)' = FrameSlot(q)
    <2>1. \A q \in Pages \ {p} : BeingRead(q)' <=> BeingRead(q)
      BY <1>1, <1>2 DEF Moves, BeingRead
    <2>2. QED
      BY <1>6, <2>1 DEF FrameSlot
  <1>10. FrameSlot(p) = None /\ FrameSlot(p)' = page'[p].pagefile_idx
    BY <1>4, <1>6, <1>8 DEF FrameSlot
  <1>11. /\ \A v \in VAs \ {va} : PTESlot(v)' = PTESlot(v)
         /\ PTESlot(va) = pte[va].pagefile_idx
    <2>1. /\ \A v \in VAs \ {va} : Resolving(v)' <=> Resolving(v)
      BY <1>1, <1>3, ConnectsOne DEF ConnectPC
    <2>2. ~Resolving(va)
      BY <1>1, <1>3, <1>5 DEF Resolving, ResolverPC, ConnectPC
    <2>3. QED
      BY <1>1, <1>4, <2>1, <2>2 DEF PTESlot
  <1>12. PTESlot(va)' = None
    <2>1. \A v \in VAs : v = va => Resolving(v)'
      BY <1>1, <1>3, ConnectsOne DEF ConnectPC
    <2>2. \A v \in VAs : v = va => PTESlot(v)' = None
      BY <2>1 DEF PTESlot
    <2>3. QED
      BY <2>2
  <1>13. DiskPTEsHaveSlots'
    BY <1>1 DEF SlotInv, DiskPTEsHaveSlots
  <1>14. CASE user[u].access = "WRITE"
    <2>1. FrameSlot(p)' = FrameSlot(p)
      BY <1>6, <1>10, <1>14
    <2>2. used' = used \ {PTESlot(va)}
      BY <1>6, <1>11, <1>14
    <2>3. PTESlotGoes(va)
      BY <1>7, <1>9, <1>11, <1>12, <2>1, <2>2 DEF WriteSlotsStay, PTESlotGoes, SlotsStill
    <2>4. SlotInv'
      BY <1>13, <2>3, PTESlotFreed DEF SlotInv
    <2>5. QED
      BY <1>2, <1>3, <1>14, <2>3, <2>4
  <1>15. CASE user[u].access # "WRITE"
    <2>1. FrameSlot(p)' = PTESlot(va) /\ used' = used
      BY <1>6, <1>10, <1>11, <1>15
    <2>2. PTESlotPasses(va, p)
      BY <1>7, <1>9, <1>10, <1>11, <1>12, <2>1 DEF WriteSlotsStay, PTESlotPasses, SlotsStill
    <2>3. SlotInv'
      BY <1>13, <2>2, PTESlotToFrame DEF SlotInv
    <2>4. QED
      BY <1>2, <1>3, <1>15, <2>2, <2>3
  <1>16. QED
    BY <1>14, <1>15

----------------------------------------------------------------------------
(* The modified writer and the list refresher *)

\* No user thread moves.
UsersStay == user' = user
LEMMA UsersStaySlots ==
    ASSUME UsersStay
    PROVE  /\ ReadsStay /\ ConnectsStay
           /\ \A p \in Pages : BeingRead(p)' <=> BeingRead(p)
           /\ \A v \in VAs : Resolving(v)' <=> Resolving(v)
  BY DEF UsersStay, ReadsStay, ConnectsStay, BeingRead, Resolving

\* The frames of the batch get a slot each, all different and none in use.
LEMMA WriterWriteBatchSlots ==
    ASSUME SInv, WriterWriteBatch
    PROVE  SlotInv'
  <1> USE DEF SInv, OInv, IInv
  <1>1. writer.pc = "pop" /\ UsersStay /\ UNCHANGED <<pte, page>>
    BY DEF WriterWriteBatch, WriterAt, UsersStay
  <1>2. PICK slot \in [writer.batch -> Slots \ used] :
           /\ \A p, q \in writer.batch : slot[p] = slot[q] => p = q
           /\ used' = used \cup {slot[p] : p \in writer.batch}
           /\ writer' = [writer EXCEPT !.pc = "complete",
                !.slot = [p \in Pages |-> IF p \in writer.batch THEN slot[p] ELSE None]]
    BY DEF WriterWriteBatch
  <1>3. /\ \A p \in Pages : WriteSlot(p) = None
        /\ \A p \in Pages : WriteSlot(p)' = IF p \in writer.batch THEN slot[p] ELSE None
        /\ writer.batch \subseteq Pages
    BY <1>1, <1>2 DEF WriteSlot, Owned, Frames, WriterBatch, TypeOK, WriterType
  <1>4. /\ \A p \in Pages : FrameSlot(p)' = FrameSlot(p)
        /\ \A v \in VAs : PTESlot(v)' = PTESlot(v)
    BY <1>1, UsersStaySlots DEF FrameSlot, PTESlot
  <1>5. \A p \in writer.batch : slot[p] \in Slots /\ slot[p] \notin used
    BY <1>2
  <1>6. SlotsApart'
    <2>1. /\ \A p, q \in Pages : FrameSlot(p)' = FrameSlot(q)' /\ FrameSlot(p)' # None => p = q
          /\ \A v, w \in VAs : PTESlot(v)' = PTESlot(w)' /\ PTESlot(v)' # None => v = w
          /\ \A p \in Pages, v \in VAs : FrameSlot(p)' # None => FrameSlot(p)' # PTESlot(v)'
      BY <1>4 DEF SlotInv, SlotsApart
    <2>2. \A p, q \in Pages : WriteSlot(p)' = WriteSlot(q)' /\ WriteSlot(p)' # None => p = q
      BY <1>2, <1>3, <1>5, SlotTypes
    <2>3. /\ \A p \in Pages : FrameSlot(p) # None => FrameSlot(p) \in used
          /\ \A v \in VAs : PTESlot(v) # None => PTESlot(v) \in used
      BY SlotTypes DEF SlotInv, SlotsInUse
    <2>4. \A p, q \in Pages : FrameSlot(p)' # None => FrameSlot(p)' # WriteSlot(q)'
      BY <1>3, <1>4, <1>5, <2>3
    <2>5. \A v \in VAs, p \in Pages : PTESlot(v)' # None => PTESlot(v)' # WriteSlot(p)'
      BY <1>3, <1>4, <1>5, <2>3
    <2>6. QED
      BY <2>1, <2>2, <2>4, <2>5 DEF SlotsApart
  <1>7. SlotsInUse'
    <2> SUFFICES ASSUME NEW s \in Slots
                 PROVE  s \in used' <=> \/ \E p \in Pages : FrameSlot(p)' = s
                                        \/ \E v \in VAs : PTESlot(v)' = s
                                        \/ \E p \in Pages : WriteSlot(p)' = s
      BY DEF SlotsInUse
    <2>1. s # None
      BY SlotTypes
    <2>2. s \in used' <=> s \in used \/ \E p \in writer.batch : slot[p] = s
      BY <1>2
    <2>3. (\E p \in writer.batch : slot[p] = s) <=> (\E p \in Pages : WriteSlot(p)' = s)
      BY <1>3, <2>1
    <2>4. s \in used <=> \/ \E p \in Pages : FrameSlot(p)' = s
                         \/ \E v \in VAs : PTESlot(v)' = s
      BY <1>3, <1>4, <2>1 DEF SlotInv, SlotsInUse
    <2>5. QED
      BY <2>2, <2>3, <2>4
  <1>8. DiskPTEsHaveSlots'
    BY <1>1 DEF SlotInv, DiskPTEsHaveSlots
  <1>9. QED
    BY <1>6, <1>7, <1>8 DEF SlotInv

\* A frame that was rescued keeps the slot, or gives it back if it was written to.
LEMMA WriterCompleteSlots ==
    ASSUME SInv, NEW p \in Pages, WriterComplete(p)
    PROVE  /\ IF Confirmable(p) THEN NoSlotMoves
              ELSE IF KeepsSlot(p) THEN WriteSlotsPass({p}) ELSE WriteSlotGoes(p)
           /\ SlotInv'
  <1> USE DEF SInv, OInv, IInv
  <1>1. /\ p \in writer.batch /\ UsersStay /\ pte' = pte
        /\ page[p].pagefile_idx = None /\ page[p].status \in {"ACTIVE", "MODIFIED"}
    BY DEF WriterComplete, UsersStay, Owned, Frames, WriterBatch
  <1>2. /\ \A q \in Pages \ {p} : page'[q] = page[q]
        /\ page'[p].status = page[p].status
        /\ page'[p].pagefile_idx = IF ~Confirmable(p) /\ KeepsSlot(p) THEN WriteSlot(p) ELSE None
    BY <1>1 DEF WriterComplete, WriteSlot, TypeOK, Page
  <1>3. used' = IF Confirmable(p) \/ KeepsSlot(p) THEN used ELSE used \ {WriteSlot(p)}
    BY DEF WriterComplete, WriteSlot
  <1>4. /\ \A q \in Pages \ {p} : WriteSlot(q)' = WriteSlot(q)
        /\ WriteSlot(p)' = IF Confirmable(p) THEN WriteSlot(p) ELSE None
    <2>1. CASE Confirmable(p)
      BY <2>1 DEF WriterComplete, TypeOK, WriterType, WriteSlot
    <2>2. CASE ~Confirmable(p)
      BY <2>2 DEF WriterComplete, TypeOK, WriterType, WriteSlot
    <2>3. QED
      BY <2>1, <2>2
  <1>5. ~BeingRead(p)
    BY <1>1, Readers
  <1>6. /\ FrameSlot(p) = None /\ FrameSlot(p)' = page'[p].pagefile_idx
        /\ \A q \in Pages \ {p} : FrameSlot(q)' = FrameSlot(q)
        /\ \A v \in VAs : PTESlot(v)' = PTESlot(v)
    BY <1>1, <1>2, <1>5, UsersStaySlots DEF FrameSlot, PTESlot
  <1>7. DiskPTEsHaveSlots'
    BY <1>1 DEF SlotInv, DiskPTEsHaveSlots
  <1>8. CASE Confirmable(p)
    <2>1. used' = used /\ \A q \in Pages : FrameSlot(q)' = FrameSlot(q) /\ WriteSlot(q)' = WriteSlot(q)
      BY <1>2, <1>3, <1>4, <1>6, <1>8
    <2>2. NoSlotMoves
      BY <1>6, <2>1 DEF NoSlotMoves, SlotsStill
    <2>3. QED
      BY <1>7, <1>8, <2>2, SlotsStay DEF SlotInv
  <1>9. CASE ~Confirmable(p) /\ KeepsSlot(p)
    <2>1. used' = used /\ FrameSlot(p)' = WriteSlot(p) /\ WriteSlot(p)' = None
      BY <1>2, <1>3, <1>4, <1>6, <1>9
    <2>2. WriteSlotsPass({p})
      BY <1>4, <1>6, <2>1 DEF WriteSlotsPass, SlotsStill
    <2>3. {p} \in SUBSET Pages
      OBVIOUS
    <2>4. QED
      BY <1>7, <1>9, <2>2, <2>3, WriteSlotsToFrames DEF SlotInv
  <1>10. CASE ~Confirmable(p) /\ ~KeepsSlot(p)
    <2>1. used' = used \ {WriteSlot(p)} /\ FrameSlot(p)' = FrameSlot(p) /\ WriteSlot(p)' = None
      BY <1>2, <1>3, <1>4, <1>6, <1>10
    <2>2. WriteSlotGoes(p)
      BY <1>4, <1>6, <2>1 DEF WriteSlotGoes, SlotsStill
    <2>3. QED
      BY <1>7, <1>10, <2>2, WriteSlotFreed DEF SlotInv
  <1>11. QED
    BY <1>8, <1>9, <1>10

LEMMA WriterInsertStandbySlots ==
    ASSUME SInv, WriterInsertStandby
    PROVE  WriteSlotsPass(writer.confirmed) /\ SlotInv'
  <1> USE DEF SInv, OInv, IInv
  <1>1. /\ writer.pc = "complete" /\ writer.batch = {} /\ UsersStay /\ pte' = pte /\ used' = used
        /\ \A p \in Pages : WriteSlot(p)' = None
    BY DEF WriterInsertStandby, WriterAt, UsersStay, WriteSlot
  <1>2. PICK S \in SUBSET Pages : S = writer.confirmed
    BY DEF TypeOK, WriterType
  <1>3. \A p \in Pages :
           /\ p \notin S => page'[p] = page[p]
           /\ p \in S => page'[p].status = "STANDBY" /\ page'[p].pagefile_idx = WriteSlot(p)
    BY <1>2 DEF WriterInsertStandby, WriteSlot, TypeOK, Page
  <1>4. \A p \in Pages :
           /\ p \in S => page[p].status = "MODIFIED" /\ page[p].pagefile_idx = None
           /\ p \notin S => WriteSlot(p) = None
    BY <1>1, <1>2 DEF Owned, Frames, WriterBatch, SlotsOfFrames, WriteSlot
  <1>5. \A p \in S : ~BeingRead(p) /\ ~BeingRead(p)'
    BY <1>1, <1>4, Readers, UsersStaySlots
  <1>6. /\ \A p \in S : FrameSlot(p) = None /\ FrameSlot(p)' = WriteSlot(p)
        /\ \A q \in Pages \ S : FrameSlot(q)' = FrameSlot(q)
        /\ \A v \in VAs : PTESlot(v)' = PTESlot(v)
    BY <1>1, <1>3, <1>4, <1>5, UsersStaySlots DEF FrameSlot, PTESlot
  <1>7. DiskPTEsHaveSlots'
    BY <1>1 DEF SlotInv, DiskPTEsHaveSlots
  <1>8. WriteSlotsPass(S)
    BY <1>1, <1>4, <1>6 DEF WriteSlotsPass, SlotsStill
  <1>9. QED
    BY <1>2, <1>7, <1>8, WriteSlotsToFrames DEF SlotInv

LEMMA RefreshFreeSlots ==
    ASSUME SInv, RefreshFree
    PROVE  FrameSlotsPass(refreshing) /\ SlotInv'
  <1> USE DEF SInv, OInv, IInv
  <1>1. /\ UsersStay /\ used' = used /\ writer' = writer
    BY DEF RefreshFree, UsersStay
  <1>2. PICK S \in SUBSET Pages : S = refreshing
    BY DEF TypeOK
  <1>3. \A p \in Pages :
           /\ p \notin S => page'[p] = page[p]
           /\ p \in S => page'[p].status = "FREE"
    BY <1>2 DEF RefreshFree, TypeOK, Page
  <1>4. /\ \A v \in VAs : (\A p \in S : page[p].pte # v) => pte'[v] = pte[v]
        /\ \A p \in S : Forced(page[p].pte, p)
    BY <1>2, RefreshFreePTEs
  <1>5. \A p \in S : /\ page[p].status = "STANDBY" /\ ~BeingRead(p)
                     /\ FrameSlot(p) = page[p].pagefile_idx /\ FrameSlot(p)' = None
    <2>1. \A p \in S : page[p].status = "STANDBY"
      BY <1>4 DEF Forced
    <2>2. \A p \in S : ~BeingRead(p)
      BY <2>1, Readers
    <2>3. QED
      BY <1>3, <2>1, <2>2 DEF FrameSlot
  <1>6. \A q \in Pages \ S : FrameSlot(q)' = FrameSlot(q)
    BY <1>1, <1>3, UsersStaySlots DEF FrameSlot
  <1>7. \A p \in S : page[p].pte \in VAs /\ PTESlot(page[p].pte) = None
    BY <1>4 DEF Forced, PTESlot
  <1>8. \A p, q \in S : page[p].pte = page[q].pte => p = q
    <2>1. \A p \in S : pte[page[p].pte].frame = p
      BY <1>4 DEF Forced
    <2>2. QED
      BY <2>1
  <1>9. \A p \in S, v \in VAs : page[p].pte = v =>
           /\ pte'[v].format = "disk" /\ pte'[v].pagefile_idx = page[p].pagefile_idx
           /\ ~Resolving(v)
    <2> SUFFICES ASSUME NEW p \in S, NEW v \in VAs, page[p].pte = v
                 PROVE  /\ pte'[v].format = "disk" /\ pte'[v].pagefile_idx = page[p].pagefile_idx
                        /\ ~Resolving(v)
      OBVIOUS
    <2>1. Forced(v, p)
      BY <1>4
    <2>2. pte'[v].format = "disk" /\ pte'[v].pagefile_idx = page[p].pagefile_idx
      BY <2>1 DEF Forced, Disk
    <2>3. ~Resolving(v)
      BY <2>1 DEF Forced, Resolving, ResolverPC, ConnectPC
    <2>4. QED
      BY <2>2, <2>3
  <1>10. \A p \in S, v \in VAs : page[p].pte = v => PTESlot(v)' = FrameSlot(p)
    BY <1>1, <1>5, <1>9, UsersStaySlots DEF PTESlot
  <1>11. \A v \in VAs : PTESlot(v)' = PTESlot(v) \/ \E p \in S : page[p].pte = v
    BY <1>1, <1>4, UsersStaySlots DEF PTESlot
  <1>12. FrameSlotsPass(S)
    <2>1. \A q \in Pages : WriteSlot(q)' = WriteSlot(q)
      BY <1>1 DEF WriteSlot
    <2>2. SlotsStill(S, {}, {page[p].pte : p \in S})
      BY <1>6, <1>11, <2>1 DEF SlotsStill
    <2>3. QED
      BY <1>1, <1>5, <1>7, <1>8, <1>10, <2>2 DEF FrameSlotsPass
  <1>13. DiskPTEsHaveSlots'
    <2>1. \A p \in S : page[p].pagefile_idx \in Slots
      BY <1>5, Fields DEF Owned, Frames, SlotsOfFrames
    <2>2. \A p \in S, v \in VAs : page[p].pte = v => pte'[v].pagefile_idx \in Slots
      BY <1>9, <2>1
    <2>3. QED
      BY <1>4, <2>2 DEF SlotInv, DiskPTEsHaveSlots
  <1>14. QED
    BY <1>2, <1>12, <1>13, FrameSlotsToPTEs DEF SlotInv
----------------------------------------------------------------------------
(* The invariant *)

LEMMA InitSlots == Init => SInv
  <1> SUFFICES ASSUME Init PROVE SlotInv
    BY InitOwned DEF SInv
  <1>1. \A p \in Pages : FrameSlot(p) = None /\ WriteSlot(p) = None
    BY DEF Init, FrameSlot, WriteSlot
  <1>2. \A v \in VAs : pte[v].format = "unused"
    BY DEF Init, Unused
  <1>3. \A v \in VAs : PTESlot(v) = None
    BY <1>2 DEF PTESlot
  <1>4. used = {} /\ None \notin Slots
    BY ConstantsAssumption DEF Init
  <1>5. SlotsApart
    BY <1>1, <1>3 DEF SlotsApart
  <1>6. SlotsInUse
    BY <1>1, <1>3, <1>4 DEF SlotsInUse
  <1>7. DiskPTEsHaveSlots
    BY <1>2 DEF DiskPTEsHaveSlots
  <1>8. QED
    BY <1>5, <1>6, <1>7 DEF SlotInv

LEMMA StepSlots ==
    ASSUME SInv, [Next]_vars
    PROVE  SlotInv'
  <1>1. ASSUME NEW u \in Users, UserAccess(u)
        PROVE  SlotInv'
    BY <1>1, QuietUserSlots DEF UserAccess
  <1>2. ASSUME NEW u \in Users, FaultStep(u)
        PROVE  SlotInv'
    <2>1. CASE \/ FaultRetry(u) \/ BeginUnaccessedFault(u) \/ FindNoPage(u)
               \/ BeginTransitionFault(u) \/ LockToRescue(u) \/ RescueFail(u) \/ Rescue(u)
               \/ AwaitTrim(u) \/ RemapWritable(u) \/ SpeculateAccessBits(u)
               \/ \E p \in Pages : TakePage(u, p)
               \/ \E p \in Pages : GetPage(u, p)
      BY <2>1, QuietUserSlots
    <2>2. CASE BeginValidFault(u) \/ FinishValidFault(u) \/ ClaimUnaccessed(u)
               \/ AcquireReadRights(u) \/ ReleaseReadRights(u)
      BY <2>2, PTEUserSlots
    <2>3. CASE SetModified(u) \/ ReadPageFromDisk(u) \/ MapPage(u) \/ ReturnUnneededPage(u)
      BY <2>3, MoveUserSlots
    <2>4. CASE DropSlot(u) \/ CommitPage(u) \/ CommitPageDisk(u)
               \/ EndOfFaultDiskSlot(u) \/ ConnectPTE(u)
      BY <2>4, DropSlotSlots, CommitPageSlots, CommitPageDiskSlots,
         EndOfFaultDiskSlotSlots, ConnectPTESlots
    <2>5. QED
      BY <1>2, <2>1, <2>2, <2>3, <2>4 DEF FaultStep
  <1>3. ASSUME TrimmerStep
        PROVE  SlotInv'
    BY <1>3, OtherSlots DEF TrimmerStep, TrimFinish
  <1>4. ASSUME WriterStep \/ RefresherStep
        PROVE  SlotInv'
    BY <1>4, OtherSlots, WriterCompleteSlots, WriterWriteBatchSlots,
       WriterInsertStandbySlots, RefreshFreeSlots DEF WriterStep, RefresherStep
  <1>5. ASSUME Corrupted \/ UNCHANGED vars
        PROVE  SlotInv'
    BY <1>5, OtherSlots DEF Corrupted
  <1>6. QED
    BY <1>1, <1>2, <1>3, <1>4, <1>5 DEF Next

----------------------------------------------------------------------------
(* What follows *)

\* The owners of a slot, and that there is one of a slot in use and none of a
\* free one.
LEMMA SlotsOneOwner ==
    ASSUME SInv
    PROVE  SlotsAccounted
  <1> USE DEF SInv, SlotInv
  <1> SUFFICES ASSUME NEW s \in Slots
               PROVE  Cardinality(SlotOwners(s)) = IF s \in used THEN 1 ELSE 0
    BY DEF SlotsAccounted
  <1>1. s # None
    BY SlotTypes
  <1>2. \A o : o \in SlotOwners(s) <=>
           \/ \E p \in Pages : FrameSlot(p) = s /\ o = <<"frame", p>>
           \/ \E v \in VAs : PTESlot(v) = s /\ o = <<"pte", v>>
           \/ \E p \in Pages : WriteSlot(p) = s /\ o = <<"writing", p>>
    <2>1. /\ \A p \in Pages : FrameSlot(p) = s <=>
                /\ page[p].pagefile_idx = s /\ page[p].status \notin {"ZERO", "FREE"}
                /\ ~BeingRead(p)
          /\ \A v \in VAs : PTESlot(v) = s <=>
                /\ pte[v].format = "disk" /\ pte[v].pagefile_idx = s /\ ~Resolving(v)
          /\ \A p \in Pages : WriteSlot(p) = s <=> writer.slot[p] = s
      BY <1>1 DEF FrameSlot, PTESlot, WriteSlot
    <2>2. QED
      BY <2>1 DEF SlotOwners
  <1>3. ASSUME s \in used
        PROVE  \E o : SlotOwners(s) = {o}
    <2>1. CASE \E p \in Pages : FrameSlot(p) = s
      <3>1. PICK p \in Pages : FrameSlot(p) = s
        BY <2>1
      <3>2. SlotOwners(s) = {<<"frame", p>>}
        BY <1>1, <1>2, <3>1 DEF SlotsApart
      <3>3. QED
        BY <3>2
    <2>2. CASE \E v \in VAs : PTESlot(v) = s
      <3>1. PICK v \in VAs : PTESlot(v) = s
        BY <2>2
      <3>2. SlotOwners(s) = {<<"pte", v>>}
        BY <1>1, <1>2, <3>1 DEF SlotsApart
      <3>3. QED
        BY <3>2
    <2>3. CASE \E p \in Pages : WriteSlot(p) = s
      <3>1. PICK p \in Pages : WriteSlot(p) = s
        BY <2>3
      <3>2. SlotOwners(s) = {<<"writing", p>>}
        BY <1>1, <1>2, <3>1 DEF SlotsApart
      <3>3. QED
        BY <3>2
    <2>4. QED
      BY <1>3, <2>1, <2>2, <2>3 DEF SlotsInUse
  <1>4. s \notin used => SlotOwners(s) = {}
    BY <1>2 DEF SlotsInUse
  <1>5. QED
    BY <1>3, <1>4, FS_Singleton, FS_EmptySet

\* Frames in use name different VAs.
LEMMA FramesApart ==
    ASSUME OInv, NEW p \in Pages, NEW q \in Pages,
           page[p].pte = page[q].pte, page[p].status \notin {"ZERO", "FREE"},
           page[q].status \notin {"ZERO", "FREE"}
    PROVE  p = q
  <1> USE DEF OInv, Owned
  <1>1. PICK v \in VAs : v = page[p].pte
    BY Fields
  <1>2. \A r \in Pages :
           page[r].pte = v /\ page[r].status \notin {"ZERO", "FREE"} =>
              \/ pte[v].format \in {"memory", "transition"} /\ pte[v].frame = r
              \/ \E u \in Users : Reader(u, v, r)
    BY Fields DEF Frames, FramesNamePTEs, Statuses
  <1>3. ASSUME NEW r \in Pages, NEW u \in Users, Reader(u, v, r),
               pte[v].format \in {"memory", "transition"}
        PROVE  pte[v].frame = r
    BY <1>3 DEF Reader, Handlers, Connections
  <1>4. ASSUME NEW r \in Pages, NEW s \in Pages, NEW u \in Users, NEW w \in Users,
               Reader(u, v, r), Reader(w, v, s)
        PROVE  r = s
    BY <1>4 DEF Reader, Handlers, ResolversApart, ResolverPC
  <1>5. QED
    BY <1>1, <1>2, <1>3, <1>4

\* The frames that wait for a slot, on the modified list or in the writer's batch.
Waiting == {p \in Pages : /\ list[p] = "modified" \/ p \in writer.batch
                          /\ writer.slot[p] = None}

\* The slot of a frame, or of its copy that is being written.
HeldSlot(x, p) == x = FrameSlot(p) \/ x = WriteSlot(p)

\* The VA that a frame or a slot in use is counted for.
CountedFor(x, v) ==
    \/ \E p \in Pages : /\ page[p].pte = v
                        /\ (x = p /\ p \in Waiting) \/ (x \in used /\ HeldSlot(x, p))
    \/ x \in used /\ x = PTESlot(v)

LEMMA CountedApart ==
    ASSUME SInv
    PROVE  /\ \A x \in used \cup Waiting : \E v \in VAs : CountedFor(x, v)
           /\ \A x, y \in used \cup Waiting, v \in VAs :
                 CountedFor(x, v) /\ CountedFor(y, v) => x = y
  <1> USE DEF SInv, OInv, Owned
  <1>1. \A p \in Pages :
           p \in Waiting => /\ page[p].status \in {"ACTIVE", "MODIFIED"}
                            /\ page[p].pagefile_idx = None
                            /\ ~BeingRead(p)
    BY Readers DEF Waiting, Frames, Lists, WriterBatch, SlotsOfFrames
  <1>2. \A p \in Pages : FrameSlot(p) # None \/ WriteSlot(p) # None =>
           page[p].status \notin {"ZERO", "FREE"} /\ ~BeingRead(p)
    BY Readers DEF FrameSlot, WriteSlot, Frames, WriterBatch
  <1>3. \A p \in Pages : WriteSlot(p) # None => FrameSlot(p) = None
    BY DEF FrameSlot, WriteSlot, Frames, WriterBatch, SlotsOfFrames
  <1>4. used \subseteq Slots /\ None \notin Slots /\ Pages \cap Slots = {}
    BY SlotTypes, ConstantsAssumption
  <1>5. \A x \in used \cup Waiting : \E v \in VAs : CountedFor(x, v)
    <2>1. ASSUME NEW x \in Waiting
          PROVE  \E v \in VAs : CountedFor(x, v)
      <3>1. x \in Pages
        BY DEF Waiting
      <3>2. page[x].pte \in VAs
        BY <1>1, <3>1, Fields
      <3>3. QED
        BY <3>1, <3>2 DEF CountedFor
    <2>2. ASSUME NEW x \in used
          PROVE  \E v \in VAs : CountedFor(x, v)
      <3>1. (\E p \in Pages : HeldSlot(x, p)) \/ (\E v \in VAs : PTESlot(v) = x)
        BY <1>4 DEF SlotInv, SlotsInUse, HeldSlot
      <3>2. CASE \E p \in Pages : HeldSlot(x, p)
        <4>1. PICK p \in Pages : HeldSlot(x, p)
          BY <3>2
        <4>2. page[p].pte \in VAs
          BY <1>2, <1>4, <4>1, Fields DEF HeldSlot
        <4>3. QED
          BY <4>1, <4>2 DEF CountedFor
      <3>3. CASE \E v \in VAs : PTESlot(v) = x
        BY <3>3 DEF CountedFor
      <3>4. QED
        BY <3>1, <3>2, <3>3
    <2>3. QED
      BY <2>1, <2>2
  <1>6. ASSUME NEW p \in Pages, NEW v \in VAs, page[p].pte = v, PTESlot(v) # None,
               page[p].status \notin {"ZERO", "FREE"}, ~BeingRead(p)
        PROVE  FALSE
    <2>1. pte[v].format = "disk" /\ ~Resolving(v)
      BY <1>6 DEF PTESlot
    <2>2. \E u \in Users : Reader(u, v, p)
      BY <1>6, <2>1, Fields DEF Frames, FramesNamePTEs, Statuses
    <2>3. QED
      BY <1>6, <2>1, <2>2 DEF Reader, Resolving, BeingRead, ReadPC, ConnectPC
  <1>7. ASSUME NEW x \in used \cup Waiting, NEW y \in used \cup Waiting, NEW v \in VAs,
               CountedFor(x, v), CountedFor(y, v)
        PROVE  x = y
    <2>1. ASSUME NEW p \in Pages, NEW z \in used \cup Waiting, page[p].pte = v,
                 (z = p /\ p \in Waiting) \/ (z \in used /\ HeldSlot(z, p))
          PROVE  page[p].status \notin {"ZERO", "FREE"} /\ ~BeingRead(p)
      BY <1>1, <1>2, <1>4, <2>1 DEF HeldSlot
    <2>2. CASE PTESlot(v) \in used
      <3>1. x = PTESlot(v) /\ y = PTESlot(v)
        BY <1>4, <1>6, <1>7, <2>1, <2>2 DEF CountedFor
      <3>2. QED
        BY <3>1
    <2>3. CASE PTESlot(v) \notin used
      <3>1. PICK p \in Pages : page[p].pte = v
                 /\ ((x = p /\ p \in Waiting) \/ (x \in used /\ HeldSlot(x, p)))
        BY <1>7, <2>3 DEF CountedFor
      <3>2. PICK q \in Pages : page[q].pte = v
                 /\ ((y = q /\ q \in Waiting) \/ (y \in used /\ HeldSlot(y, q)))
        BY <1>7, <2>3 DEF CountedFor
      <3>3. p = q
        BY <2>1, <3>1, <3>2, FramesApart
      <3>4. p \in Waiting => FrameSlot(p) = None /\ WriteSlot(p) = None
        BY <1>1 DEF FrameSlot, WriteSlot, Waiting
      <3>5. QED
        BY <1>4, <1>3, <3>1, <3>2, <3>3, <3>4 DEF HeldSlot
    <2>4. QED
      BY <2>2, <2>3
  <1>8. QED
    BY <1>5, <1>7

\* hardware.h:41-58: the page file has room for every virtual page (and one slot
\* more, which this does not need).
EnoughSlots == IsFiniteSet(Slots) /\ Cardinality(Slots) >= NumVAs

LEMMA SlotsForAll ==
    ASSUME SInv, EnoughSlots
    PROVE  SlotsSuffice
  <1> SUFFICES Cardinality(Waiting) <= Cardinality(Slots \ used)
    BY DEF SlotsSuffice, Waiting
  <1>1. /\ \A x \in used \cup Waiting : \E v \in VAs : CountedFor(x, v)
        /\ \A x, y \in used \cup Waiting, v \in VAs :
              CountedFor(x, v) /\ CountedFor(y, v) => x = y
    BY CountedApart
  <1>2. PICK f \in [used \cup Waiting -> VAs] : \A x \in used \cup Waiting : CountedFor(x, f[x])
    <2>1. [x \in used \cup Waiting |-> CHOOSE v \in VAs : CountedFor(x, v)]
             \in [used \cup Waiting -> VAs]
      BY <1>1
    <2>2. QED
      BY <1>1, <2>1
  <1>3. f \in Injection(used \cup Waiting, VAs)
    BY <1>1, <1>2 DEF Injection, IsInjective
  <1>4. /\ NumVAs \in Nat /\ IsFiniteSet(VAs) /\ Cardinality(VAs) = NumVAs
    <2>1. NumVAs \in Nat /\ NumVAs # 0
      BY ConstantsAssumption
    <2>2. QED
      BY <2>1, FS_Interval DEF VAs
  <1>5. /\ IsFiniteSet(used \cup Waiting) /\ Cardinality(used \cup Waiting) <= NumVAs
    BY <1>3, <1>4, FS_Injection
  <1>6. IsFiniteSet(used) /\ IsFiniteSet(Waiting)
    BY <1>5, FS_Subset
  <1>7. used \cap Waiting = {} /\ used \subseteq Slots
    BY SlotTypes, ConstantsAssumption DEF Waiting
  <1>8. Cardinality(used) + Cardinality(Waiting) <= NumVAs
    <2>1. Cardinality(used \cup Waiting)
             = Cardinality(used) + Cardinality(Waiting) - Cardinality(used \cap Waiting)
      BY <1>6, FS_Union
    <2>2. Cardinality(used \cap Waiting) = 0
      BY <1>7, FS_EmptySet
    <2>3. Cardinality(used) \in Nat /\ Cardinality(Waiting) \in Nat
      BY <1>6, FS_CardinalityType
    <2>4. QED
      BY <1>5, <2>1, <2>2, <2>3
  <1>9. Cardinality(Slots \ used) = Cardinality(Slots) - Cardinality(used)
    <2>1. Cardinality(Slots \ used) = Cardinality(Slots) - Cardinality(Slots \cap used)
      BY FS_Difference DEF EnoughSlots
    <2>2. Slots \cap used = used
      BY <1>7
    <2>3. QED
      BY <2>1, <2>2
  <1>10. /\ Cardinality(Slots) \in Nat /\ Cardinality(used) \in Nat
         /\ Cardinality(Waiting) \in Nat /\ Cardinality(Slots) >= NumVAs
    BY <1>6, FS_CardinalityType DEF EnoughSlots
  <1>11. QED
    BY <1>4, <1>8, <1>9, <1>10

----------------------------------------------------------------------------
(* The theorems *)

\* Slots have one owner each as long as no rescue is a half rescue.
THEOREM SlotOwnership == Spec /\ []RescuesInTransition => []SInv
  <1>1. Init => SInv
    BY InitSlots
  <1>2. SInv /\ OInv' /\ [Next]_vars => SInv'
    BY StepSlots DEF SInv
  <1>3. Spec /\ []RescuesInTransition => []OInv
    BY Ownership
  <1>4. QED
    BY <1>1, <1>2, <1>3, PTL DEF Spec

\* No slot is leaked, freed while it is needed, or shared.
THEOREM SlotAccounting == Spec /\ []RescuesInTransition => []SlotsAccounted
  BY SlotOwnership, SlotsOneOwner, PTL

\* If the page file is as large as the address space, there always is a slot for
\* every frame that waits to be written, so the modified writer never copies out
\* a frame it got no slot for (trim.c:863-906).
THEOREM SlotSufficiency ==
    ASSUME EnoughSlots
    PROVE  Spec /\ []RescuesInTransition => []SlotsSuffice
  <1>1. SInv => SlotsSuffice
    BY SlotsForAll
  <1>2. QED
    BY <1>1, SlotOwnership, PTL

=============================================================================
