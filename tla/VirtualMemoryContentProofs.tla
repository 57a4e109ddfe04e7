---------------------- MODULE VirtualMemoryContentProofs ----------------------
(***************************************************************************)
(* Who holds what: proofs that no data is lost, that the CPU's mappings    *)
(* are current and that the assertions on frames hold, as long as rescued  *)
(* frames are committed in transition format.                              *)
(***************************************************************************)
EXTENDS VirtualMemorySlotProofs

\* A store to v has been let through, but its frame's slot not yet given up.
Changing(v) ==
    \E u \in Users : user[u].va = v /\ user[u].pc \in {"drop_slot", "set_modified"}

\* Nobody counts on a copy of what v's frame p holds: it has no slot, and if it
\* is being written out the writer will not keep what it has written.
Dirty(v, p) ==
    /\ page[p].pagefile_idx = None \/ v \in raced
    /\ page[p].modified \/ p \notin writer.batch

ReadingIn(p) == \E u \in Users : user[u].page = p /\ user[u].pc = "read_disk"

\* v has no content yet.
Untouched(v) ==
    \/ pte[v].format = "unused"
    \/ \E u \in Users : /\ user[u].va = v /\ user[u].pc = "commit"
                        /\ pte[v].format = "memory"

\* A slot is counted on to hold v.
FrameCopy(s, v, p) ==
    FrameSlot(p) = s /\ page[p].pte = v /\ v \notin raced /\ ~Changing(v)
PTECopy(s, v) == PTESlot(v) = s /\ v \notin raced
WriteCopy(s, v, p) ==
    WriteSlot(p) = s /\ page[p].pte = v /\ ~page[p].modified /\ ~Changing(v)
Copy(s, v) ==
    \/ \E p \in Pages : FrameCopy(s, v, p) \/ WriteCopy(s, v, p)
    \/ PTECopy(s, v)

FramesHold ==
    \A p \in Pages :
        /\ page[p].pte # None /\ ~ReadingIn(p) => holds[p] = page[p].pte
        /\ page[p].status = "ZERO" => holds[p] = Zero
UntouchedHold == \A v \in VAs : Untouched(v) => \A q \in Places : holds[q] # v
SlotsHold == \A s \in Slots, v \in VAs : Copy(s, v) => holds[s] = v
Contents == FramesHold /\ UntouchedHold /\ SlotsHold

\* What a mapping shows is v's frame; or the trimmer is about to unmap it.
MapsFrame(v) ==
    LET p == hw[v].frame IN
    /\ page[p].pte = v
    /\ \/ pte[v].format = "memory" /\ pte[v].frame = p
       \/ \E u \in Users : /\ user[u].va = v /\ user[u].page = p
                           /\ user[u].pc = "connect"
    /\ hw[v].writable => page[p].status = "ACTIVE" /\ (Changing(v) \/ Dirty(v, p))
MapsStale(v) == v \in trim.ptes /\ trim.pc = "mark" /\ ~hw[v].writable
Mapped == \A v \in VAs : hw[v] # None => MapsFrame(v) \/ MapsStale(v)

\* The trimmer has unmapped what it edits, and nothing without content is mapped.
TrimsUnmapped ==
    \A v \in VAs :
        v \in trim.ptes /\ IsStillTrimmed(pte[v]) /\ trim.pc # "mark" => hw[v] = None
UntouchedUnmapped ==
    \A v \in VAs : Untouched(v) => hw[v] = None /\ v \notin trim.ptes

\* A frame that may be stored to is dirty, and so is one that a fault is about
\* to let stores to.
Writables ==
    \A v \in VAs :
        IsStable(pte[v]) /\ pte[v].protections = "READWRITE" => Dirty(v, pte[v].frame)
StoreAhead(u) ==
    \/ user[u].pc = "finish_valid" /\ user[u].access = "WRITE"
    \/ /\ user[u].pc = "map"
       /\ user[u].access = "WRITE" \/ pte[user[u].va].format = "memory"
    \/ user[u].pc = "connect" /\ user[u].writable
Stores == \A u \in Users : StoreAhead(u) => Dirty(user[u].va, user[u].page)

Mappings == Mapped /\ TrimsUnmapped /\ UntouchedUnmapped /\ Writables /\ Stores

CInv == SInv /\ Contents /\ Mappings
----------------------------------------------------------------------------
(* Whose step it is *)

USE DEF InTransition, BeingChanged, BeingTrimmed, BeingReadIn, IsStillTrimmed,
        InFlight, Unlisted, Spare, Listable, Untaken, Released

\* A user thread is moved on by its own steps only.
LEMMA OthersStay ==
    ASSUME OInv, NEW w \in Users, FaultStep(w), NEW u \in Users \ {w}
    PROVE  user'[u] = user[u]
  <1>0. user \in [Users -> UserType]
    BY DEF OInv, IInv, TypeOK
  <1>1. CASE FaultRetry(w) \/ FinishValidFault(w) \/ ReturnUnneededPage(w) \/ RescueFail(w)
             \/ ReleaseReadRights(w) \/ SpeculateAccessBits(w) \/ FindNoPage(w)
    BY <1>0, <1>1 DEF FindNoPage, FaultRetry, FinishValidFault, ReturnUnneededPage, RescueFail,
       ReleaseReadRights, SpeculateAccessBits, BackToUser
  <1>2. CASE RemapWritable(w) \/ DropSlot(w) \/ SetModified(w) \/ ClaimUnaccessed(w)
             \/ CommitPage(w) \/ AcquireReadRights(w) \/ CommitPageDisk(w)
             \/ ReadPageFromDisk(w) \/ EndOfFaultDiskSlot(w) \/ ConnectPTE(w)
             \/ BeginUnaccessedFault(w) \/ LockToRescue(w)
    BY <1>0, <1>2 DEF BeginUnaccessedFault, LockToRescue, RemapWritable, DropSlot,
       SetModified, ClaimUnaccessed, CommitPage, AcquireReadRights, CommitPageDisk, ReadPageFromDisk, EndOfFaultDiskSlot, ConnectPTE, Goto
  <1>3. CASE BeginValidFault(w) \/ BeginTransitionFault(w) \/ AwaitTrim(w) \/ MapPage(w)
    BY <1>0, <1>3 DEF BeginValidFault, BeginTransitionFault, AwaitTrim, MapPage
  <1>4. CASE \E p \in Pages : TakePage(w, p) \/ GetPage(w, p)
    BY <1>0, <1>4 DEF TakePage, GetPage, Allocate
  <1>5. CASE Rescue(w)
    BY <1>0, <1>5 DEF Rescue
  <1>6. QED
    BY <1>1, <1>2, <1>3, <1>4, <1>5 DEF FaultStep

LEMMA UserSteps ==
    ASSUME OInv, [Next]_vars, NEW u \in Users
    PROVE  \/ user'[u] = user[u]
           \/ \E va \in VAs, access \in Accesses : UserFault(u, va, access)
           \/ FaultStep(u)
  <1>1. user \in [Users -> UserType]
    BY DEF OInv, IInv, TypeOK
  <1>2. ASSUME NEW w \in Users, UserAccess(w)
        PROVE  \/ user'[u] = user[u]
               \/ \E va \in VAs, access \in Accesses : UserFault(u, va, access)
    BY <1>1, <1>2 DEF UserAccess, UserWrite, UserSetAccessBit, UserFault
  <1>3. ASSUME NEW w \in Users, FaultStep(w), w # u
        PROVE  user'[u] = user[u]
    BY <1>3, OthersStay
  <1>4. TrimmerStep \/ WriterStep \/ RefresherStep \/ Corrupted \/ UNCHANGED vars
           => user' = user
    BY DEF TrimmerStep, TrimClearAccessBit, TrimMark, TrimFinish, TrimDisconnect,
       TrimChainModified, TrimInsertModified, TrimChainStandby, TrimInsertStandby,
       TrimChain, TrimInsert, TrimEdit, TrimPlace, WriterStep, WriterReadTail, WriterSkip,
       WriterPop, WriterPopUnlisted, WriterComplete,
       WriterWriteBatch, WriterInsertStandby, RefresherStep, RefreshPop, RefreshFree,
       Corrupted, vars
  <1>5. QED
    BY <1>2, <1>3, <1>4 DEF Next

\* Where a handler is says what its next step is ...
LEMMA StepFrom ==
    ASSUME NEW u \in Users, FaultStep(u)
    PROVE  /\ user[u].pc = "remap" => RemapWritable(u)
           /\ user[u].pc = "drop_slot" => DropSlot(u)
           /\ user[u].pc = "set_modified" => SetModified(u)
           /\ user[u].pc = "finish_valid" => FinishValidFault(u)
           /\ user[u].pc = "await_trim" => AwaitTrim(u)
           /\ user[u].pc = "commit" => CommitPage(u)
           /\ user[u].pc = "read_disk" => ReadPageFromDisk(u)
           /\ user[u].pc = "end_slot" => EndOfFaultDiskSlot(u)
           /\ user[u].pc = "map" => MapPage(u)
           /\ user[u].pc = "connect" => ConnectPTE(u)
  BY DEF FaultStep, At, FaultRetry, BeginValidFault, RemapWritable, DropSlot, SetModified,
     FinishValidFault, BeginUnaccessedFault, TakePage, FindNoPage, ClaimUnaccessed,
     ReturnUnneededPage, BeginTransitionFault, LockToRescue, RescueFail, Rescue, AwaitTrim,
     CommitPage, AcquireReadRights,
     GetPage, ReleaseReadRights, CommitPageDisk, ReadPageFromDisk, EndOfFaultDiskSlot,
     MapPage, ConnectPTE, SpeculateAccessBits

\* ... and where it gets to, what its last step was.
LEMMA StepTo ==
    ASSUME OInv, NEW u \in Users, FaultStep(u)
    PROVE  /\ user'[u].pc = "commit" => ClaimUnaccessed(u) \/ Rescue(u) \/ AwaitTrim(u)
           /\ user'[u].pc = "finish_valid" => BeginValidFault(u) \/ SetModified(u)
           /\ user'[u].pc = "map" => CommitPage(u) \/ EndOfFaultDiskSlot(u)
           /\ user'[u].pc = "connect" => MapPage(u)
  <1>1. user \in [Users -> UserType]
    BY DEF OInv, IInv, TypeOK
  <1>2. CASE FaultRetry(u) \/ FinishValidFault(u) \/ ReturnUnneededPage(u) \/ RescueFail(u)
             \/ ReleaseReadRights(u) \/ SpeculateAccessBits(u) \/ FindNoPage(u)
    <2>1. BackToUser(u)
      BY <1>2 DEF FindNoPage, FaultRetry, FinishValidFault, ReturnUnneededPage, RescueFail,
         ReleaseReadRights, SpeculateAccessBits
    <2>2. user'[u].pc = "idle"
      BY <1>1, <2>1, IdleTyped DEF BackToUser
    <2>3. QED
      BY <2>2
  <1>3. CASE RemapWritable(u) \/ DropSlot(u) \/ AcquireReadRights(u)
             \/ CommitPageDisk(u) \/ ReadPageFromDisk(u) \/ ConnectPTE(u)
             \/ BeginUnaccessedFault(u) \/ LockToRescue(u)
    <2>1. PICK l \in {"drop_slot", "set_modified", "get_page", "read_disk", "end_slot",
                      "speculate", "take_page", "check"} : Goto(u, l)
      BY <1>3 DEF BeginUnaccessedFault, LockToRescue, RemapWritable, DropSlot,
         AcquireReadRights, CommitPageDisk,
         ReadPageFromDisk, ConnectPTE
    <2>2. user'[u].pc = l
      BY <1>1, <2>1 DEF Goto, UserType
    <2>3. QED
      BY <2>1, <2>2
  <1>4. CASE SetModified(u)
    BY <1>1, <1>4 DEF SetModified, Goto, UserType
  <1>5. CASE ClaimUnaccessed(u)
    BY <1>1, <1>5 DEF ClaimUnaccessed, Goto, UserType
  <1>6. CASE CommitPage(u)
    <2>1. user'[u].pc = "map"
      BY <1>1, <1>6 DEF CommitPage, Goto, UserType
    <2>2. QED
      BY <1>6, <2>1
  <1>7. CASE EndOfFaultDiskSlot(u)
    <2>1. user'[u].pc = "map"
      BY <1>1, <1>7 DEF EndOfFaultDiskSlot, Goto, UserType
    <2>2. QED
      BY <1>7, <2>1
  <1>8. CASE BeginValidFault(u) \/ BeginTransitionFault(u) \/ MapPage(u) \/ Rescue(u) \/ AwaitTrim(u)
    <2>1. CASE BeginValidFault(u)
      BY <1>1, <2>1 DEF BeginValidFault, UserType
    <2>2. CASE BeginTransitionFault(u)
      BY <1>1, <2>2 DEF BeginTransitionFault, UserType
    <2>3. CASE MapPage(u)
      BY <1>1, <2>3 DEF MapPage, UserType
    <2>4. CASE Rescue(u)
      BY <1>1, <2>4 DEF Rescue, UserType
    <2>5. CASE AwaitTrim(u)
      BY <1>1, <2>5 DEF AwaitTrim, UserType
    <2>6. QED
      BY <1>8, <2>1, <2>2, <2>3, <2>4, <2>5
  <1>9. CASE \E p \in Pages : TakePage(u, p) \/ GetPage(u, p)
    <2>1. PICK p \in Pages, l \in {"claim", "commit_disk"} : Allocate(u, p, l)
      BY <1>9 DEF TakePage, GetPage
    <2>2. user'[u].pc = l
      BY <1>1, <2>1 DEF Allocate, UserType
    <2>3. QED
      BY <2>1, <2>2
  <1>10. QED
    BY <1>2, <1>3, <1>4, <1>5, <1>6, <1>7, <1>8, <1>9 DEF FaultStep

\* No VA becomes untouched.
LEMMA UntouchedBack ==
    ASSUME OInv, OInv', [Next]_vars, NEW v \in VAs, Untouched(v)'
    PROVE  Untouched(v)
  <1> USE DEF OInv
  <1>1. PTEChange(v)
    BY PTEChanges
  <1>2. CASE pte'[v].format = "unused"
    <2>1. /\ \A u \in Users : ~EndsFault(u, v)
          /\ \A p \in Pages : ~Forced(v, p)
      BY <1>2, ForcedFormat DEF EndsFault, Connected, Memory
    <2>2. pte[v].format = "unused"
      <3>1. CASE SetsAccessBit(v)
        <4>1. pte'[v].format = "memory"
          BY <3>1, MemoryFormat DEF SetsAccessBit, MemoryPTE, IInv, TypeOK
        <4>2. QED
          BY <1>2, <4>1
      <3>2. CASE ~SetsAccessBit(v)
        BY <1>1, <1>2, <2>1, <3>2 DEF PTEChange, MarksStable, Transition
      <3>3. QED
        BY <3>1, <3>2
    <2>3. QED
      BY <2>2 DEF Untouched
  <1>3. CASE pte'[v].format # "unused"
    <2>1. PICK u \in Users : /\ user'[u].va = v /\ user'[u].pc = "commit"
                             /\ pte'[v].format = "memory"
      BY <1>3 DEF Untouched
    <2>2. CASE user'[u] = user[u]
      <3>1. \A w \in Users : EndsFault(w, v) => FALSE
        BY <2>1, <2>2 DEF EndsFault, Owned, Handlers, ResolversApart, ResolverPC, ValidPC, ConnectPC
      <3>2. \A p \in Pages : ~Forced(v, p)
        BY <2>1, ForcedFormat
      <3>3. pte[v].format \in {"memory", "unused"}
        BY <1>1, <2>1, <3>1, <3>2 DEF PTEChange, SetsAccessBit, MarksStable, Transition, IsStable
      <3>4. QED
        BY <2>1, <2>2, <3>3 DEF Untouched
    <2>3. CASE ClaimUnaccessed(u)
      <3>1. user'[u].va = user[u].va
        BY <2>3, GotoMoves DEF ClaimUnaccessed, Moves, IInv
      <3>2. QED
        BY <2>1, <2>3, <3>1 DEF ClaimUnaccessed, StillUnaccessed, Unused, Untouched
    <2>4. CASE Rescue(u)
      <3>1. user'[u].va = user[u].va
        BY <2>4 DEF Rescue, IInv, TypeOK, UserType
      <3>2. pte[v].format = "memory" /\ user[u].va = v
        BY <2>1, <2>4, <3>1 DEF Rescue
      <3>3. user'[u].pc = "await_trim"
        BY <2>4, <3>2 DEF Rescue, IInv, TypeOK, UserType
      <3>4. QED
        BY <2>1, <3>3
    <2>5. CASE AwaitTrim(u)
      <3>1. user'[u].va = user[u].va /\ user'[u].page = user[u].page
        BY <2>5 DEF AwaitTrim, IInv, TypeOK, UserType
      <3>2. pte' = pte /\ user[u].pc = "await_trim"
        BY <2>5 DEF AwaitTrim, At
      <3>3. \/ pte[v].format = "transition"
            \/ pte[v].format = "memory" /\ ~pte[v].being_changed
        BY <2>1, <3>1, <3>2 DEF Owned, Handlers, Rescues
      <3>4. BeingChanged(pte'[v], user'[u].page)
        BY <2>1 DEF Owned, Handlers, Rescues
      <3>5. QED
        BY <3>2, <3>3, <3>4
    <2>6. ASSUME NEW va \in VAs, NEW access \in Accesses, UserFault(u, va, access)
          PROVE  FALSE
      BY <2>1, <2>6 DEF UserFault, IInv, TypeOK, UserType
    <2>7. QED
      BY <2>1, <2>2, <2>3, <2>4, <2>5, <2>6, UserSteps, StepTo
  <1>4. QED
    BY <1>2, <1>3

----------------------------------------------------------------------------
(* Contents: what a step must show *)

\* Nobody leaves where a slot is being given up, or a page is being read in.
HandsStay ==
    \A w \in Users :
        /\ user[w].pc \in {"drop_slot", "set_modified"} =>
              user'[w].pc \in {"drop_slot", "set_modified"} /\ user'[w].va = user[w].va
        /\ user[w].pc = "read_disk" =>
              user'[w].pc = "read_disk" /\ user'[w].page = user[w].page

LEMMA HandsHold ==
    ASSUME HandsStay
    PROVE  /\ \A v \in VAs : Changing(v) => Changing(v)'
           /\ \A p \in Pages : ReadingIn(p) => ReadingIn(p)'
  BY DEF HandsStay, Changing, ReadingIn

LEMMA HandsMove ==
    ASSUME NEW u \in Users, user[u].pc \notin {"drop_slot", "set_modified", "read_disk"},
           NEW l, NEW p, Moves(u, l) \/ MovesWith(u, l, p) \/ Ends(u)
    PROVE  HandsStay
  <1>1. CASE Moves(u, l)
    BY <1>1 DEF Moves, HandsStay
  <1>2. CASE MovesWith(u, l, p)
    BY <1>2 DEF MovesWith, HandsStay
  <1>3. CASE Ends(u)
    BY <1>3 DEF Ends, HandsStay
  <1>4. QED
    BY <1>1, <1>2, <1>3

\* Where there is content, it was there before or is the right one.
LEMMA ContentsKept ==
    ASSUME CInv, OInv', [Next]_vars,
           \A p \in Pages : page'[p].pte # None /\ ~ReadingIn(p)' =>
              \/ page[p].pte = page'[p].pte /\ ~ReadingIn(p) /\ holds'[p] = holds[p]
              \/ holds'[p] = page'[p].pte,
           \A p \in Pages : page'[p].status = "ZERO" =>
              page[p].status = "ZERO" /\ holds'[p] = holds[p],
           \A q \in Places, v \in VAs : holds'[q] = v /\ Untouched(v) =>
              ~Untouched(v)' \/ \E r \in Places : holds[r] = v,
           \A s \in Slots, v \in VAs : Copy(s, v)' =>
              (Copy(s, v) /\ holds'[s] = holds[s]) \/ holds'[s] = v
    PROVE  Contents'
  <1> USE DEF CInv, Contents
  <1>1. FramesHold'
    BY DEF FramesHold
  <1>2. UntouchedHold'
    <2> SUFFICES ASSUME NEW v \in VAs, Untouched(v)', NEW q \in Places, holds'[q] = v
                 PROVE  FALSE
      BY DEF UntouchedHold
    <2>1. Untouched(v)
      BY UntouchedBack DEF SInv
    <2>2. QED
      BY <2>1 DEF UntouchedHold
  <1>3. SlotsHold'
    BY DEF SlotsHold
  <1>4. QED
    BY <1>1, <1>2, <1>3

\* The slots that are counted on were counted on before, where they and what
\* they depend on have stayed the same.
LEMMA CopiesBack ==
    ASSUME NEW S \in SUBSET Pages, NEW T \in SUBSET Pages, NEW X \in SUBSET VAs,
           SlotsStill(S, T, X),
           \A p \in Pages \ S : page'[p].pte = page[p].pte,
           \A p \in Pages \ T : WriteSlot(p) # None =>
              page'[p].pte = page[p].pte /\ (page[p].modified => page'[p].modified),
           NEW s \in Slots, NEW v \in VAs, Copy(s, v)',
           Changing(v) => Changing(v)', v \in raced => v \in raced'
    PROVE  \/ Copy(s, v)
           \/ \E p \in S : FrameCopy(s, v, p)'
           \/ \E p \in T : WriteCopy(s, v, p)'
           \/ v \in X /\ PTECopy(s, v)'
  <1>0. s # None
    BY ConstantsAssumption
  <1>1. ASSUME NEW p \in Pages \ S, FrameCopy(s, v, p)'
        PROVE  FrameCopy(s, v, p)
    <2>1. FrameSlot(p)' = FrameSlot(p) /\ page'[p].pte = page[p].pte
      BY DEF SlotsStill
    <2>2. QED
      BY <1>1, <2>1 DEF FrameCopy
  <1>2. ASSUME NEW p \in Pages \ T, WriteCopy(s, v, p)'
        PROVE  WriteCopy(s, v, p)
    <2>1. WriteSlot(p)' = WriteSlot(p)
      BY DEF SlotsStill
    <2>2. WriteSlot(p) = s
      BY <1>2, <2>1 DEF WriteCopy
    <2>3. QED
      BY <1>0, <1>2, <2>2 DEF WriteCopy
  <1>3. ASSUME v \notin X, PTECopy(s, v)'
        PROVE  PTECopy(s, v)
    <2>1. PTESlot(v)' = PTESlot(v)
      BY <1>3 DEF SlotsStill
    <2>2. QED
      BY <1>3, <2>1 DEF PTECopy
  <1>4. CASE \E p \in Pages : FrameCopy(s, v, p)'
    BY <1>1, <1>4 DEF Copy
  <1>5. CASE \E p \in Pages : WriteCopy(s, v, p)'
    BY <1>2, <1>5 DEF Copy
  <1>6. CASE PTECopy(s, v)'
    BY <1>3, <1>6 DEF Copy
  <1>7. QED
    BY <1>4, <1>5, <1>6 DEF Copy

\* Steps that move neither content nor slots.
LEMMA QuietContents ==
    ASSUME CInv, OInv', [Next]_vars, NoSlotMoves, HandsStay, UNCHANGED <<holds, raced>>,
           \A p \in Pages :
              /\ page'[p].pte = page[p].pte
              /\ page'[p].status = "ZERO" => page[p].status = "ZERO"
              /\ WriteSlot(p) # None /\ page[p].modified => page'[p].modified
    PROVE  Contents'
  <1>1. SlotsStill({}, {}, {})
    BY DEF NoSlotMoves
  <1>2. \A s \in Slots, v \in VAs : Copy(s, v)' => Copy(s, v)
    BY <1>1, CopiesBack, HandsHold
  <1>3. \A p \in Pages : ~ReadingIn(p)' => ~ReadingIn(p)
    BY HandsHold
  <1>4. QED
    BY <1>2, <1>3, ContentsKept

\* Steps of a user thread that only see to PTEs, locks, lists or mappings.
LEMMA QuietUserContents ==
    ASSUME CInv, OInv', [Next]_vars, NEW u \in Users, FaultStep(u),
           \/ FaultRetry(u) \/ BeginValidFault(u) \/ RemapWritable(u) \/ FinishValidFault(u)
           \/ BeginUnaccessedFault(u) \/ FindNoPage(u) \/ LockToRescue(u)
           \/ \E p \in Pages : TakePage(u, p)
           \/ ClaimUnaccessed(u) \/ BeginTransitionFault(u) \/ RescueFail(u) \/ Rescue(u)
           \/ AwaitTrim(u) \/ AcquireReadRights(u)
           \/ \E p \in Pages : GetPage(u, p)
           \/ ReleaseReadRights(u) \/ MapPage(u) \/ ConnectPTE(u) \/ SpeculateAccessBits(u)
    PROVE  Contents'
  <1> USE DEF CInv
  <1>1. UNCHANGED <<page, holds, raced>>
    BY DEF FaultRetry, BeginValidFault, RemapWritable, FinishValidFault,
       BeginUnaccessedFault, TakePage, FindNoPage, ClaimUnaccessed,
       BeginTransitionFault, LockToRescue, RescueFail, Rescue,
       AwaitTrim, AcquireReadRights, GetPage, ReleaseReadRights, MapPage, ConnectPTE,
       SpeculateAccessBits
  <1>2. HandsStay
    <2>1. user[u].pc \notin {"drop_slot", "set_modified", "read_disk"}
      BY DEF At, FaultRetry, BeginValidFault, RemapWritable, FinishValidFault,
         BeginUnaccessedFault, TakePage, FindNoPage, ClaimUnaccessed,
         BeginTransitionFault, LockToRescue, RescueFail, Rescue,
         AwaitTrim, AcquireReadRights, GetPage, ReleaseReadRights, MapPage, ConnectPTE,
         SpeculateAccessBits
    <2>2. QED
      BY <2>1, OthersStay DEF SInv, HandsStay
  <1>3. NoSlotMoves
    BY QuietUserSlots, PTEUserSlots, MoveUserSlots, ConnectPTESlots
  <1>4. QED
    BY <1>1, <1>2, <1>3, QuietContents

LEMMA QuietAccessContents ==
    ASSUME CInv, OInv', [Next]_vars, NEW u \in Users, NEW va \in VAs,
           UserSetAccessBit(u, va) \/ \E access \in Accesses : UserFault(u, va, access)
    PROVE  Contents'
  <1> USE DEF CInv
  <1>1. UNCHANGED <<page, holds, raced>>
    BY DEF UserSetAccessBit, UserFault
  <1>2. HandsStay
    BY DEF UserSetAccessBit, UserFault, At, HandsStay, SInv, OInv, IInv, TypeOK
  <1>3. NoSlotMoves
    BY QuietUserSlots
  <1>4. QED
    BY <1>1, <1>2, <1>3, QuietContents

LEMMA QuietOtherContents ==
    ASSUME CInv, OInv', [Next]_vars,
           \/ \E va \in VAs : TrimClearAccessBit(va) \/ TrimMark(va) \/ TrimEdit(va)
           \/ TrimPlace \/ TrimDisconnect \/ TrimInsertModified \/ TrimInsertStandby
           \/ \E p \in Pages : WriterReadTail(p)
           \/ WriterSkip \/ WriterPop \/ WriterPopUnlisted
           \/ \E S \in SUBSET Pages : RefreshPop(S)
           \/ TrimChainModified \/ TrimChainStandby
           \/ UNCHANGED vars
    PROVE  Contents'
  <1> USE DEF CInv
  <1>1. UNCHANGED <<holds, raced, user>>
    BY DEF TrimClearAccessBit, TrimMark, TrimPlace, TrimEdit, TrimDisconnect,
       TrimInsertModified, TrimInsertStandby, TrimInsert, WriterReadTail, WriterSkip,
       WriterPop, WriterPopUnlisted, RefreshPop, TrimChainModified,
       TrimChainStandby, TrimChain, vars
  <1>2. HandsStay
    BY <1>1 DEF HandsStay
  <1>3. NoSlotMoves
    BY OtherSlots
  <1>4. page \in [Pages -> Page]
    BY DEF SInv, OInv, IInv, TypeOK
  <1>5. \A p \in Pages :
           /\ page'[p].pte = page[p].pte
           /\ page'[p].status = "ZERO" => page[p].status = "ZERO"
           /\ WriteSlot(p) # None /\ page[p].modified => page'[p].modified
    <2>1. CASE TrimPlace
      <3>2. page' = page \/ page' = [page EXCEPT ![trim.page].status = "MODIFIED"]
        BY <2>1 DEF TrimPlace
      <3>3. \A p \in Pages : \/ page'[p] = page[p]
                             \/ page'[p] = [page[p] EXCEPT !.status = "MODIFIED"]
        BY <1>4, <3>2
      <3>4. QED
        BY <1>4, <3>3 DEF Page
    <2>2. CASE TrimChainModified \/ TrimChainStandby
      <3>1. \A p \in Pages : \/ page'[p] = page[p]
                             \/ page'[p] = [page[p] EXCEPT !.status = "MODIFIED"]
                             \/ page'[p] = [page[p] EXCEPT !.status = "STANDBY"]
        BY <2>2 DEF TrimChainModified, TrimChainStandby, TrimChain
      <3>2. QED
        BY <1>4, <3>1 DEF Page
    <2>3. CASE WriterPop
      <3>2. /\ page' = [page EXCEPT ![potential_page].modified = FALSE,
                                    ![potential_page].writing_to_disk = TRUE]
            /\ writer.pc = "pop"
        BY <2>3 DEF WriterPop, WriterAt
      <3>3. \A q \in Pages : WriteSlot(q) = None
        BY <3>2 DEF SInv, OInv, Owned, Frames, WriterBatch, WriteSlot
      <3>4. QED
        BY <1>4, <3>2, <3>3 DEF Page
    <2>4. CASE page' = page
      BY <2>4
    <2>5. QED
      BY <2>1, <2>2, <2>3, <2>4 DEF TrimClearAccessBit, TrimMark, TrimEdit, TrimDisconnect,
         TrimInsertModified, TrimInsertStandby, TrimInsert, WriterReadTail, WriterSkip,
         WriterPopUnlisted, RefreshPop, vars
  <1>6. QED
    BY <1>1, <1>2, <1>3, <1>5, QuietContents

\* No two frames name one VA.
LEMMA NamedOnce ==
    ASSUME OInv
    PROVE  \A p, q \in Pages : page[p].pte = page[q].pte /\ page[p].pte # None => p = q
  <1>1. \A p \in Pages : page[p].pte # None => page[p].status \notin {"ZERO", "FREE"}
    BY DEF OInv, Owned, Frames, FramesNamePTEs
  <1>2. QED
    BY <1>1, FramesApart

LEMMA PlacesApart ==
    /\ \A p \in Pages : p \in Places /\ p \notin Slots /\ p # None
    /\ \A s \in Slots : s \in Places /\ s # None
    /\ None \in Places
  BY ConstantsAssumption DEF Places

\* What is written out is in use, or waits to be listed as standby.
LEMMA WriteSlotFrames ==
    ASSUME OInv, NEW p \in Pages, WriteSlot(p) # None
    PROVE  /\ p \in writer.batch \cup writer.confirmed
           /\ page[p].status \in {"ACTIVE", "MODIFIED"}
           /\ page[p].status = "ACTIVE" => p \in writer.batch
           /\ page[p].pte # None
  <1>1. p \in writer.batch \cup writer.confirmed
    BY DEF OInv, Owned, Frames, WriterBatch, WriteSlot
  <1>2. p \in writer.confirmed => page[p].status = "MODIFIED"
    BY DEF OInv, Owned, Frames, WriterBatch
  <1>3. p \in writer.batch => page[p].status \in {"ACTIVE", "MODIFIED"}
    BY DEF OInv, Owned, Frames, WriterBatch
  <1>4. QED
    BY <1>1, <1>2, <1>3 DEF OInv, Owned, Frames, FramesNamePTEs

\* A frame whose slot is being given up is in use and nobody reads it in.
LEMMA ChangingFrames ==
    ASSUME OInv, NEW u \in Users, user[u].pc \in ValidPC
    PROVE  /\ user[u].page \in Pages /\ user[u].va \in VAs
           /\ page[user[u].page].status = "ACTIVE"
           /\ page[user[u].page].pte = user[u].va
           /\ pte[user[u].va].format = "memory" /\ pte[user[u].va].being_changed
           /\ pte[user[u].va].frame = user[u].page
           /\ PTESlot(user[u].va) = None
           /\ FrameSlot(user[u].page) = page[user[u].page].pagefile_idx
  <1>1. user[u].page \in Pages /\ user[u].va \in VAs
    BY Fields DEF ValidPC, FramePC
  <1>2. /\ page[user[u].page].status = "ACTIVE"
        /\ page[user[u].page].pte = user[u].va
        /\ pte[user[u].va].format = "memory" /\ pte[user[u].va].being_changed
        /\ pte[user[u].va].frame = user[u].page
    BY DEF OInv, Owned, Handlers, ValidFaults
  <1>3. ~BeingRead(user[u].page)
    BY <1>1, <1>2, Readers DEF OInv, Owned, Handlers, ResolversApart, ResolverPC, ReadPC, ValidPC
  <1>4. QED
    BY <1>1, <1>2, <1>3 DEF PTESlot, FrameSlot

LEMMA DropSlotContents ==
    ASSUME CInv, OInv', [Next]_vars, NEW u \in Users, DropSlot(u)
    PROVE  Contents'
  <1> USE DEF CInv, SInv
  <1>1. user[u].pc = "drop_slot"
    BY DEF DropSlot, At
  <1>2. PICK p \in Pages, va \in VAs, s0 \in Slots \cup {None} :
           /\ p = user[u].page /\ va = user[u].va /\ s0 = page[p].pagefile_idx
           /\ page[p].pte = va /\ PTESlot(va) = None /\ FrameSlot(p) = s0
    BY <1>1, ChangingFrames, Fields DEF ValidPC
  <1>3. FrameSlotGoes(p)
    BY <1>2, DropSlotSlots
  <1>4. /\ page' = [page EXCEPT ![p].pagefile_idx = None]
        /\ holds' = Forgotten({s0}) /\ raced' = raced \ {va} /\ writer' = writer
    BY <1>2 DEF DropSlot
  <1>5. Moves(u, "set_modified")
    BY GotoMoves DEF DropSlot, OInv, IInv
  <1>6. HandsStay /\ Changing(va)'
    BY <1>1, <1>2, <1>5 DEF Moves, HandsStay, Changing
  <1>7. \A q \in Pages : /\ page'[q].pte = page[q].pte
                         /\ page'[q].status = page[q].status
                         /\ page'[q].modified = page[q].modified
    <2>1. page \in [Pages -> Page]
      BY DEF OInv, IInv, TypeOK
    <2>2. QED
      BY <1>4, <2>1 DEF Page
  <1>8. \A q \in Places : holds'[q] = (IF q = s0 THEN None ELSE holds[q])
    BY <1>4 DEF Forgotten
  <1>9. \A q \in Pages : holds'[q] = holds[q]
    BY <1>2, <1>8, PlacesApart, Fields
  <1>10. \A s \in Slots, v \in VAs : Copy(s, v)' => Copy(s, v) /\ v # va
    <2>1. SlotsStill({p}, {}, {})
      BY <1>3 DEF FrameSlotGoes
    <2>2. \A s \in Slots, v \in VAs \ {va} :
             Copy(s, v)' => Copy(s, v) \/ FrameCopy(s, v, p)'
      <3>1. \A v \in VAs \ {va} : (Changing(v) => Changing(v)') /\ (v \in raced => v \in raced')
        BY <1>4, <1>6, HandsHold
      <3>2. QED
        BY <1>7, <2>1, <3>1, CopiesBack
    <2>3. \A s \in Slots, v \in VAs : ~FrameCopy(s, v, p)'
      <3>1. FrameSlot(p)' = None
        BY <1>3 DEF FrameSlotGoes
      <3>2. QED
        BY <3>1, PlacesApart DEF FrameCopy
    <2>4. \A s \in Slots : ~Copy(s, va)'
      <3>1. PTESlot(va)' = None
        BY <1>2, <1>3 DEF FrameSlotGoes, SlotsStill
      <3>2. \A s \in Slots : ~PTECopy(s, va)'
        BY <3>1, PlacesApart DEF PTECopy
      <3>3. \A s \in Slots, q \in Pages : ~FrameCopy(s, va, q)' /\ ~WriteCopy(s, va, q)'
        BY <1>6 DEF FrameCopy, WriteCopy
      <3>4. QED
        BY <3>2, <3>3 DEF Copy
    <2>5. QED
      BY <2>2, <2>3, <2>4
  <1>11. \A s \in Slots, v \in VAs : Copy(s, v) /\ v # va => s # s0
    BY <1>2, PlacesApart DEF SlotInv, SlotsApart, Copy, FrameCopy, PTECopy, WriteCopy
  <1>12. \A s \in Slots, v \in VAs : Copy(s, v)' => Copy(s, v) /\ holds'[s] = holds[s]
    BY <1>8, <1>10, <1>11, PlacesApart
  <1>13. \A q \in Pages : ~ReadingIn(q)' => ~ReadingIn(q)
    BY <1>6, HandsHold
  <1>14. \A q \in Places, v \in VAs : holds'[q] = v => \E r \in Places : holds[r] = v
    BY <1>8, Fields
  <1>15. QED
    BY <1>7, <1>9, <1>12, <1>13, <1>14, ContentsKept

LEMMA SetModifiedContents ==
    ASSUME CInv, OInv', [Next]_vars, NEW u \in Users, SetModified(u)
    PROVE  Contents'
  <1> USE DEF CInv, SInv
  <1>1. user[u].pc = "set_modified"
    BY DEF SetModified, At
  <1>2. PICK p \in Pages, va \in VAs :
           /\ p = user[u].page /\ va = user[u].va
           /\ page[p].pte = va /\ PTESlot(va) = None /\ FrameSlot(p) = page[p].pagefile_idx
    BY <1>1, ChangingFrames DEF ValidPC
  <1>3. SlotsStill({}, {}, {})
    BY MoveUserSlots DEF NoSlotMoves
  <1>4. /\ page' = [page EXCEPT ![p].modified = TRUE] /\ holds' = holds
        /\ raced' = IF page[p].pagefile_idx # None THEN raced \cup {va} ELSE raced
    BY <1>2 DEF SetModified
  <1>5. Moves(u, "finish_valid")
    BY GotoMoves DEF SetModified, OInv, IInv
  <1>6. /\ \A v \in VAs \ {va} : Changing(v) => Changing(v)'
        /\ \A q \in Pages : ReadingIn(q) => ReadingIn(q)'
    BY <1>1, <1>2, <1>5 DEF Moves, Changing, ReadingIn
  <1>7. \A q \in Pages : /\ page'[q].pte = page[q].pte
                         /\ page'[q].status = page[q].status
                         /\ page[q].modified => page'[q].modified
                         /\ q = p => page'[q].modified
    <2>1. page \in [Pages -> Page]
      BY DEF OInv, IInv, TypeOK
    <2>2. QED
      BY <1>4, <2>1 DEF Page
  <1>8. \A s \in Slots, v \in VAs \ {va} : Copy(s, v)' => Copy(s, v)
    BY <1>3, <1>4, <1>6, <1>7, CopiesBack
  <1>9. \A s \in Slots : ~Copy(s, va)'
    <2> SUFFICES ASSUME NEW s \in Slots, Copy(s, va)' PROVE FALSE
      OBVIOUS
    <2>1. \A q \in Pages : page'[q].pte = va => q = p
      BY <1>2, <1>7, NamedOnce, Fields
    <2>2. ~PTECopy(s, va)'
      BY <1>2, <1>3, PlacesApart DEF SlotsStill, PTECopy
    <2>3. ~FrameCopy(s, va, p)'
      BY <1>2, <1>3, <1>4, PlacesApart DEF SlotsStill, FrameCopy
    <2>4. ~WriteCopy(s, va, p)'
      BY <1>7 DEF WriteCopy
    <2>5. QED
      BY <2>1, <2>2, <2>3, <2>4 DEF Copy, FrameCopy, WriteCopy
  <1>10. QED
    BY <1>4, <1>6, <1>7, <1>8, <1>9, ContentsKept

LEMMA ReturnUnneededPageContents ==
    ASSUME CInv, OInv', [Next]_vars, NEW u \in Users, ReturnUnneededPage(u)
    PROVE  Contents'
  <1> USE DEF CInv, SInv
  <1>1. user[u].pc = "claim"
    BY DEF ReturnUnneededPage, At
  <1>2. PICK p \in Pages : p = user[u].page
    BY <1>1, Fields DEF FramePC
  <1>3. page[p].status \in Spare
    BY <1>1, <1>2 DEF OInv, Owned, Handlers, Claims
  <1>4. NoSlotMoves
    BY MoveUserSlots
  <1>5. HandsStay
    BY <1>1, BackToUserEnds, HandsMove DEF ReturnUnneededPage, OInv, IInv
  <1>6. page \in [Pages -> Page]
    BY DEF OInv, IInv, TypeOK
  <1>7. CASE page[p].status = "STANDBY"
    <2>1. UNCHANGED <<page, holds, raced>>
      BY <1>2, <1>7 DEF ReturnUnneededPage
    <2>2. QED
      BY <1>4, <1>5, <2>1, QuietContents
  <1>8. CASE page[p].status # "STANDBY"
    <2>1. /\ page' = [page EXCEPT ![p].status = "FREE", ![p].pte = None]
          /\ holds' = Forgotten({p}) /\ raced' = raced
      BY <1>2, <1>8 DEF ReturnUnneededPage
    <2>2. /\ \A q \in Pages \ {p} : page'[q] = page[q]
          /\ page'[p].status = "FREE" /\ page'[p].pte = None
      BY <1>6, <2>1 DEF Page
    <2>3. \A q \in Places : holds'[q] = (IF q = p THEN None ELSE holds[q])
      BY <2>1 DEF Forgotten
    <2>4. page[p].pte = None
      BY <1>3, <1>8 DEF OInv, Owned, Frames, FramesNamePTEs
    <2>5. \A s \in Slots, v \in VAs : Copy(s, v)' => Copy(s, v) /\ holds'[s] = holds[s]
      <3>1. \A q \in Pages : /\ page'[q].pte = page[q].pte
                             /\ WriteSlot(q) # None => page'[q].modified = page[q].modified
        BY <2>2, <2>4, WriteSlotFrames
      <3>2. SlotsStill({}, {}, {})
        BY <1>4 DEF NoSlotMoves
      <3>3. \A v \in VAs : (Changing(v) => Changing(v)') /\ (v \in raced => v \in raced')
        BY <1>5, <2>1, HandsHold
      <3>4. \A s \in Slots, v \in VAs : Copy(s, v)' => Copy(s, v)
        BY <3>1, <3>2, <3>3, CopiesBack
      <3>5. QED
        BY <2>3, <3>4, PlacesApart
    <2>6. \A q \in Pages : page'[q].pte # None /\ ~ReadingIn(q)' =>
             page[q].pte = page'[q].pte /\ ~ReadingIn(q) /\ holds'[q] = holds[q]
      BY <1>5, <2>2, <2>3, HandsHold, PlacesApart
    <2>7. \A q \in Pages : page'[q].status = "ZERO" =>
             page[q].status = "ZERO" /\ holds'[q] = holds[q]
      BY <2>2, <2>3, PlacesApart
    <2>8. \A q \in Places, v \in VAs : holds'[q] = v => \E r \in Places : holds[r] = v
      BY <2>3, Fields
    <2>9. QED
      BY <2>5, <2>6, <2>7, <2>8, ContentsKept
  <1>9. QED
    BY <1>7, <1>8

\* A store makes all copies but the frame's stale, and none was counted on.
LEMMA UserWriteContents ==
    ASSUME CInv, OInv', [Next]_vars, NEW u \in Users, NEW va \in VAs, UserWrite(u, va)
    PROVE  Contents'
  <1> USE DEF CInv, SInv
  <1>1. hw[va] # None /\ hw[va].writable /\ holds' = Written(va, hw[va].frame)
        /\ UNCHANGED <<pte, page, user, raced, writer>>
    BY DEF UserWrite
  <1>2. PICK p \in Pages :
           /\ p = hw[va].frame /\ page[p].pte = va /\ page[p].status = "ACTIVE"
           /\ Changing(va) \/ Dirty(va, p)
           /\ \/ pte[va].format = "memory"
              \/ \E w \in Users : user[w].va = va /\ user[w].pc = "connect"
    <2>1. MapsFrame(va)
      BY <1>1 DEF Mappings, Mapped, MapsStale
    <2>2. hw[va].frame \in Pages
      BY <1>1 DEF OInv, IInv, TypeOK, Mapping
    <2>3. QED
      BY <1>1, <2>1, <2>2 DEF MapsFrame
  <1>3. \A q \in Places : holds'[q] = IF q = p THEN va
                                      ELSE IF holds[q] = va THEN None ELSE holds[q]
    BY <1>1, <1>2 DEF Written
  <1>4. \A s \in Slots : ~Copy(s, va)
    <2> SUFFICES ASSUME NEW s \in Slots, Copy(s, va) PROVE FALSE
      OBVIOUS
    <2>1. \A q \in Pages : page[q].pte = va => q = p
      BY <1>2, NamedOnce, Fields
    <2>2. ~PTECopy(s, va)
      BY <1>2, PlacesApart DEF PTECopy, PTESlot, Resolving
    <2>3. ~FrameCopy(s, va, p)
      BY <1>2, PlacesApart DEF FrameCopy, FrameSlot, Dirty
    <2>4. ~WriteCopy(s, va, p)
      BY <1>2, PlacesApart, WriteSlotFrames DEF WriteCopy, Dirty
    <2>5. QED
      BY <2>1, <2>2, <2>3, <2>4 DEF Copy, FrameCopy, WriteCopy
  <1>5. NoSlotMoves
    BY QuietUserSlots
  <1>6. HandsStay
    BY <1>1 DEF HandsStay
  <1>7. \A s \in Slots, v \in VAs : Copy(s, v)' => Copy(s, v)
    BY <1>1, <1>5, <1>6, CopiesBack, HandsHold DEF NoSlotMoves
  <1>8. \A s \in Slots, v \in VAs : Copy(s, v)' => holds'[s] = v
    <2> SUFFICES ASSUME NEW s \in Slots, NEW v \in VAs, Copy(s, v)'
                 PROVE  holds'[s] = v
      OBVIOUS
    <2>1. Copy(s, v) /\ v # va
      BY <1>4, <1>7
    <2>2. holds[s] = v
      BY <2>1 DEF Contents, SlotsHold
    <2>3. QED
      BY <1>3, <2>1, <2>2, PlacesApart
  <1>9. \A q \in Pages : page'[q].pte # None /\ ~ReadingIn(q)' =>
           \/ page[q].pte = page'[q].pte /\ ~ReadingIn(q) /\ holds'[q] = holds[q]
           \/ holds'[q] = page'[q].pte
    <2> SUFFICES ASSUME NEW q \in Pages, page[q].pte # None, ~ReadingIn(q), q # p
                 PROVE  holds'[q] = holds[q]
      BY <1>1, <1>2, <1>3, <1>6, HandsHold, PlacesApart
    <2>1. page[q].pte # va
      BY <1>2, NamedOnce, Fields
    <2>2. holds[q] = page[q].pte
      BY DEF Contents, FramesHold
    <2>3. QED
      BY <1>3, <2>1, <2>2, PlacesApart
  <1>10. \A q \in Pages : page'[q].status = "ZERO" =>
            page[q].status = "ZERO" /\ holds'[q] = holds[q]
    <2>1. \A q \in Pages : page[q].status = "ZERO" => q # p /\ holds[q] # va
      BY <1>2, ConstantsAssumption DEF Contents, FramesHold, VAs
    <2>2. QED
      BY <1>1, <1>3, <2>1, PlacesApart
  <1>11. \A q \in Places, v \in VAs : holds'[q] = v /\ Untouched(v) =>
            \E r \in Places : holds[r] = v
    <2>1. ~Untouched(va)
      BY <1>1 DEF Mappings, UntouchedUnmapped
    <2>2. QED
      BY <1>3, <2>1, Fields
  <1>12. QED
    BY <1>8, <1>9, <1>10, <1>11, ContentsKept

\* A slot that is given up, or passed on, is counted on for its frame's VA only.
LEMMA FrameSlotAlone ==
    ASSUME SInv, NEW p \in Pages, NEW s \in Slots, FrameSlot(p) = s,
           NEW v \in VAs, Copy(s, v)
    PROVE  page[p].pte = v
  BY PlacesApart DEF SInv, SlotInv, SlotsApart, Copy, FrameCopy, PTECopy, WriteCopy

LEMMA CommitRescuedContents ==
    ASSUME CInv, OInv', [Next]_vars, NEW u \in Users, CommitPage(u),
           pte[user[u].va].format = "transition"
    PROVE  Contents'
  <1> USE DEF CInv, SInv
  <1>1. user[u].pc = "commit"
    BY DEF CommitPage, At
  <1>2. PICK p \in Pages, va \in VAs :
           /\ p = user[u].page /\ va = user[u].va /\ pte[va].format = "transition"
           /\ page[p].status \in Listable /\ page[p].pte = va
    BY <1>1, Fields DEF OInv, Owned, Handlers, Rescues, FramePC
  <1>3. Moves(u, "map")
    BY GotoMoves DEF CommitPage, OInv, IInv
  <1>4. HandsStay
    BY <1>1, <1>3, HandsMove
  <1>5. \A q \in Pages : /\ page'[q].pte = page[q].pte
                         /\ page'[q].status = "ZERO" => page[q].status = "ZERO"
                         /\ page[q].modified => page'[q].modified
    <2>1. page \in [Pages -> Page]
      BY DEF OInv, IInv, TypeOK
    <2>2. /\ \A q \in Pages \ {p} : page'[q] = page[q]
          /\ page'[p].pte = va /\ page'[p].status = "ACTIVE"
          /\ page'[p].modified = (page[p].modified \/ user[u].access = "WRITE")
      BY <1>2, <2>1 DEF CommitPage, Page
    <2>3. QED
      BY <1>2, <2>2
  <1>6. holds' = Forgotten(used \ used')
    BY <1>2 DEF CommitPage
  <1>7. CASE FreesSlot(u)
    <2>1. PICK s0 \in Slots :
             /\ page[p].status = "STANDBY" /\ s0 = FrameSlot(p) /\ s0 = page[p].pagefile_idx
             /\ used' = used \ {s0} /\ s0 \in used
      <3>1. page[p].status = "STANDBY" /\ used' = used \ {page[p].pagefile_idx}
        BY <1>2, <1>7 DEF CommitPage, FreesSlot
      <3>2. page[p].pagefile_idx \in Slots
        BY <3>1, Fields DEF OInv, Owned, Frames, SlotsOfFrames
      <3>3. FrameSlot(p) = page[p].pagefile_idx
        BY <3>1, Readers DEF FrameSlot
      <3>4. QED
        BY <3>1, <3>2, <3>3 DEF SlotInv, SlotsInUse
    <2>2. FrameSlotGoes(p) /\ raced' = raced \ {va}
      <3>1. FrameSlotGoes(p)
        BY <1>2, <1>7, CommitPageSlots
      <3>2. raced' = raced \ {va}
        BY <1>2, <1>7 DEF CommitPage
      <3>3. QED
        BY <3>1, <3>2
    <2>3. SlotsStill({p}, {}, {}) /\ FrameSlot(p)' = None
      BY <2>2 DEF FrameSlotGoes
    <2>4. \A q \in Places : holds'[q] = (IF q = s0 THEN None ELSE holds[q])
      <3>1. used \ used' = {s0}
        BY <2>1
      <3>2. QED
        BY <1>6, <3>1 DEF Forgotten
    <2>5. \A s \in Slots, v \in VAs : ~FrameCopy(s, v, p)'
      BY <2>3, PlacesApart DEF FrameCopy
    <2>6. \A s \in Slots, v \in VAs \ {va} : Copy(s, v)' => Copy(s, v)
      <3>1. \A v \in VAs \ {va} : (Changing(v) => Changing(v)') /\ (v \in raced => v \in raced')
        BY <1>4, <2>2, HandsHold
      <3>2. QED
        BY <1>5, <2>3, <2>5, <3>1, CopiesBack
    <2>7. \A s \in Slots : ~Copy(s, va)'
      <3> SUFFICES ASSUME NEW s \in Slots, Copy(s, va)' PROVE FALSE
        OBVIOUS
      <3>1. \A q \in Pages : page'[q].pte = va => q = p
        BY <1>2, <1>5, NamedOnce, Fields
      <3>2. ~PTECopy(s, va)'
        BY <1>2, <2>3, PlacesApart DEF SlotsStill, PTECopy, PTESlot
      <3>3. ~WriteCopy(s, va, p)'
        BY <2>1, <2>3, PlacesApart, WriteSlotFrames DEF SlotsStill, WriteCopy
      <3>4. QED
        BY <2>5, <3>1, <3>2, <3>3 DEF Copy, FrameCopy, WriteCopy
    <2>8. \A s \in Slots, v \in VAs : Copy(s, v)' => Copy(s, v) /\ s # s0
      BY <1>2, <2>1, <2>6, <2>7, FrameSlotAlone
    <2>9. \A s \in Slots, v \in VAs : Copy(s, v)' => Copy(s, v) /\ holds'[s] = holds[s]
      BY <2>4, <2>8, PlacesApart
    <2>10. \A q \in Pages : /\ holds'[q] = holds[q]
                            /\ ~ReadingIn(q)' => ~ReadingIn(q)
      BY <1>4, <2>4, PlacesApart, HandsHold
    <2>11. \A q \in Places, v \in VAs : holds'[q] = v => \E r \in Places : holds[r] = v
      BY <2>4, Fields
    <2>12. QED
      BY <1>5, <2>9, <2>10, <2>11, ContentsKept
  <1>8. CASE ~FreesSlot(u)
    <2>1. used' = used /\ raced' = raced
      BY <1>8 DEF CommitPage
    <2>2. SlotsStill({}, {}, {})
      BY <1>2, <1>8, CommitPageSlots DEF NoSlotMoves
    <2>3. \A q \in Places : holds'[q] = holds[q]
      BY <1>6, <2>1 DEF Forgotten
    <2>4. \A s \in Slots, v \in VAs : Copy(s, v)' => Copy(s, v)
      BY <1>4, <1>5, <2>1, <2>2, HandsHold, CopiesBack
    <2>5. \A q \in Pages : ~ReadingIn(q)' => ~ReadingIn(q)
      BY <1>4, HandsHold
    <2>6. QED
      BY <1>5, <2>3, <2>4, <2>5, PlacesApart, ContentsKept
  <1>9. QED
    BY <1>7, <1>8

\* A frame that is taken for another VA leaves its slot, and what it holds, to
\* the PTE it is taken from.
LEMMA PassedCopies ==
    ASSUME CInv, NEW p \in Pages, NEW w \in VAs, Forced(w, p), FrameSlotsPass({p}),
           HandsStay, raced' = raced, NEW s \in Slots, PTECopy(s, w)'
    PROVE  Copy(s, w)
  <1>1. page[p].pte = w /\ PTESlot(w)' = FrameSlot(p)
    BY DEF Forced, FrameSlotsPass
  <1>2. FrameSlot(p) = s /\ w \notin raced
    BY <1>1 DEF PTECopy
  <1>3. ~Changing(w)
    BY ForcedFormat DEF Changing, ResolverPC, ValidPC
  <1>4. QED
    BY <1>1, <1>2, <1>3 DEF Copy, FrameCopy

LEMMA CommitFreshContents ==
    ASSUME CInv, OInv', [Next]_vars, NEW u \in Users, CommitPage(u),
           pte[user[u].va].format = "memory"
    PROVE  Contents'
  <1> USE DEF CInv, SInv
  <1>1. user[u].pc = "commit"
    BY DEF CommitPage, At
  <1>2. PICK p \in Pages, va \in VAs :
           /\ p = user[u].page /\ va = user[u].va /\ pte[va].format = "memory"
           /\ page[p].status \in Spare
    BY <1>1, Fields DEF OInv, Owned, Handlers, Rescues, FramePC
  <1>3. Moves(u, "map")
    BY GotoMoves DEF CommitPage, OInv, IInv
  <1>4. HandsStay
    BY <1>1, <1>3, HandsMove
  <1>5. /\ \A q \in Pages \ {p} : page'[q] = page[q]
        /\ page'[p].pte = va /\ page'[p].status = "ACTIVE" /\ page'[p].pagefile_idx = None
        /\ raced' = raced
    <2>1. page \in [Pages -> Page]
      BY DEF OInv, IInv, TypeOK
    <2>2. ~FreesSlot(u)
      BY <1>2 DEF FreesSlot
    <2>3. QED
      BY <1>2, <2>1, <2>2 DEF CommitPage, Page
  <1>6. Untouched(va)
    BY <1>1, <1>2 DEF Untouched
  <1>7. \A q \in Places : holds'[q] = IF q = p THEN va ELSE holds[q]
    <2>1. page[p].status = "ZERO" => holds[p] = Zero
      BY DEF Contents, FramesHold
    <2>2. holds' = Zeroed(p, va)
      BY <1>2, <2>1 DEF CommitPage
    <2>3. \A q \in Places : holds[q] # va
      BY <1>6 DEF Contents, UntouchedHold
    <2>4. holds \in [Places -> VAs \cup {Zero, None}]
      BY DEF OInv, IInv, TypeOK
    <2>5. QED
      BY <2>2, <2>3, <2>4, PlacesApart DEF Zeroed
  <1>8. ~Untouched(va)'
    <2>1. pte'[va] = pte[va]
      BY <1>2, CommitPagePTEs
    <2>2. \A w \in Users : ~(user'[w].va = va /\ user'[w].pc = "commit")
      BY <1>1, <1>2, <1>3 DEF Moves, OInv, Owned, Handlers, ResolversApart, ResolverPC
    <2>3. QED
      BY <1>2, <2>1, <2>2 DEF Untouched
  <1>9. \A s \in Slots, v \in VAs : Copy(s, v)' => Copy(s, v)
    <2> SUFFICES ASSUME NEW s \in Slots, NEW v \in VAs, Copy(s, v)' PROVE Copy(s, v)
      OBVIOUS
    <2>1. WriteSlot(p) = None
      BY <1>2, WriteSlotFrames
    <2>2. \A q \in Pages \ {} : WriteSlot(q) # None =>
             page'[q].pte = page[q].pte /\ (page[q].modified => page'[q].modified)
      BY <1>5, <2>1
    <2>3. FrameSlot(p)' = None
      BY <1>5 DEF FrameSlot
    <2>4. (Changing(v) => Changing(v)') /\ (v \in raced => v \in raced')
      BY <1>4, <1>5, HandsHold
    <2>5. CASE page[p].status = "STANDBY"
      <3>1. FrameSlotsPass({p})
        BY <1>2, <2>5, CommitPageSlots
      <3>2. PICK w \in VAs : w = page[p].pte /\ Forced(w, p)
        <4>1. page[p].pte \in VAs /\ page[p].pte # va
          BY <1>1, <1>2, <2>5, Repurposed DEF ResolverPC
        <4>2. page[p].pte # None
          BY <4>1, Fields
        <4>3. QED
          BY <1>2, <4>1, <4>2, CommitPagePTEs
      <3>3. SlotsStill({p}, {}, {w})
        <4>1. {page[q].pte : q \in {p}} = {w}
          BY <3>2
        <4>2. QED
          BY <3>1, <4>1 DEF FrameSlotsPass
      <3>4. Copy(s, v) \/ FrameCopy(s, v, p)' \/ (v = w /\ PTECopy(s, v)')
        BY <1>5, <2>2, <2>4, <3>3, CopiesBack
      <3>5. QED
        BY <1>4, <1>5, <2>3, <3>1, <3>2, <3>4, PassedCopies, PlacesApart DEF FrameCopy
    <2>6. CASE page[p].status # "STANDBY"
      <3>1. SlotsStill({p}, {}, {})
        <4>1. ~FreesSlot(u)
          BY <1>2 DEF FreesSlot
        <4>2. QED
          BY <1>2, <2>6, <4>1, CommitPageSlots DEF NoSlotMoves, SlotsStill
      <3>2. Copy(s, v) \/ FrameCopy(s, v, p)'
        BY <1>5, <2>2, <2>4, <3>1, CopiesBack
      <3>3. QED
        BY <2>3, <3>2, PlacesApart DEF FrameCopy
    <2>7. QED
      BY <2>5, <2>6
  <1>10. \A s \in Slots : holds'[s] = holds[s]
    BY <1>7, PlacesApart
  <1>11. \A q \in Pages : page'[q].pte # None /\ ~ReadingIn(q)' =>
            \/ page[q].pte = page'[q].pte /\ ~ReadingIn(q) /\ holds'[q] = holds[q]
            \/ holds'[q] = page'[q].pte
    BY <1>4, <1>5, <1>7, HandsHold, PlacesApart
  <1>12. \A q \in Pages : page'[q].status = "ZERO" =>
            page[q].status = "ZERO" /\ holds'[q] = holds[q]
    BY <1>5, <1>7, PlacesApart
  <1>13. \A q \in Places, v \in VAs : holds'[q] = v =>
            ~Untouched(v)' \/ \E r \in Places : holds[r] = v
    BY <1>7, <1>8
  <1>14. QED
    BY <1>9, <1>10, <1>11, <1>12, <1>13, ContentsKept

LEMMA CommitPageDiskContents ==
    ASSUME CInv, OInv', [Next]_vars, NEW u \in Users, CommitPageDisk(u)
    PROVE  Contents'
  <1> USE DEF CInv, SInv
  <1>1. user[u].pc = "commit_disk"
    BY DEF CommitPageDisk, At
  <1>2. PICK p \in Pages, va \in VAs :
           p = user[u].page /\ va = user[u].va /\ page[p].status \in Spare
    BY <1>1, Fields DEF OInv, Owned, Handlers, Claims, FramePC
  <1>3. Moves(u, "read_disk")
    BY GotoMoves DEF CommitPageDisk, OInv, IInv
  <1>4. HandsStay
    BY <1>1, <1>3, HandsMove
  <1>5. ReadingIn(p)' /\ BeingRead(p)'
    BY <1>2, <1>3 DEF Moves, ReadingIn, BeingRead
  <1>6. /\ \A q \in Pages \ {p} : page'[q] = page[q]
        /\ page'[p].status = "ACTIVE"
        /\ raced' = raced /\ holds' = holds
    <2>1. page \in [Pages -> Page]
      BY DEF OInv, IInv, TypeOK
    <2>2. QED
      BY <1>2, <2>1 DEF CommitPageDisk, Page
  <1>7. \A s \in Slots, v \in VAs : Copy(s, v)' => Copy(s, v)
    <2> SUFFICES ASSUME NEW s \in Slots, NEW v \in VAs, Copy(s, v)' PROVE Copy(s, v)
      OBVIOUS
    <2>1. WriteSlot(p) = None
      BY <1>2, WriteSlotFrames
    <2>2. \A q \in Pages \ {} : WriteSlot(q) # None =>
             page'[q].pte = page[q].pte /\ (page[q].modified => page'[q].modified)
      BY <1>6, <2>1
    <2>3. FrameSlot(p)' = None
      BY <1>5 DEF FrameSlot
    <2>4. (Changing(v) => Changing(v)') /\ (v \in raced => v \in raced')
      BY <1>4, <1>6, HandsHold
    <2>5. CASE page[p].status = "STANDBY"
      <3>1. FrameSlotsPass({p})
        BY <1>2, <2>5, CommitPageDiskSlots
      <3>2. PICK w \in VAs : w = page[p].pte /\ Forced(w, p)
        <4>1. page[p].pte \in VAs
          BY <1>1, <1>2, <2>5, Repurposed
        <4>2. page[p].pte # None
          BY <4>1, Fields
        <4>3. QED
          BY <1>2, <4>1, <4>2, CommitPageDiskPTEs
      <3>3. SlotsStill({p}, {}, {w})
        <4>1. {page[q].pte : q \in {p}} = {w}
          BY <3>2
        <4>2. QED
          BY <3>1, <4>1 DEF FrameSlotsPass
      <3>4. Copy(s, v) \/ FrameCopy(s, v, p)' \/ (v = w /\ PTECopy(s, v)')
        BY <1>6, <2>2, <2>4, <3>3, CopiesBack
      <3>5. QED
        BY <1>4, <1>6, <2>3, <3>1, <3>2, <3>4, PassedCopies, PlacesApart DEF FrameCopy
    <2>6. CASE page[p].status # "STANDBY"
      <3>1. SlotsStill({p}, {}, {})
        BY <1>2, <2>6, CommitPageDiskSlots DEF NoSlotMoves, SlotsStill
      <3>2. Copy(s, v) \/ FrameCopy(s, v, p)'
        BY <1>6, <2>2, <2>4, <3>1, CopiesBack
      <3>3. QED
        BY <2>3, <3>2, PlacesApart DEF FrameCopy
    <2>7. QED
      BY <2>5, <2>6
  <1>8. \A q \in Pages : page'[q].pte # None /\ ~ReadingIn(q)' =>
           page[q].pte = page'[q].pte /\ ~ReadingIn(q)
    BY <1>4, <1>5, <1>6, HandsHold
  <1>9. \A q \in Pages : page'[q].status = "ZERO" => page[q].status = "ZERO"
    BY <1>6
  <1>10. QED
    BY <1>6, <1>7, <1>8, <1>9, ContentsKept

\* Where a page is read in, its PTE has the slot and its frame nothing else.
LEMMA ReadingSlots ==
    ASSUME SInv, NEW u \in Users, user[u].pc \in ReadPC
    PROVE  \E p \in Pages, va \in VAs, s0 \in Slots :
              /\ p = user[u].page /\ va = user[u].va /\ s0 = SlotIn(pte[va])
              /\ page[p].status = "ACTIVE" /\ page[p].pte = va
              /\ pte[va].format = "disk" /\ s0 = pte[va].pagefile_idx
              /\ PTESlot(va) = s0 /\ FrameSlot(p) = None /\ WriteSlot(p) = None
  <1> USE DEF SInv
  <1>1. PICK p \in Pages, va \in VAs : p = user[u].page /\ va = user[u].va
    BY Fields DEF ReadPC, FramePC
  <1>2. /\ page[p].status = "ACTIVE" /\ page[p].pte = va /\ p \notin writer.batch
        /\ pte[va].format = "disk"
    BY <1>1 DEF OInv, Owned, Handlers, Connections, ReadPC, ConnectPC
  <1>3. pte[va].pagefile_idx \in Slots
    BY <1>2 DEF SlotInv, DiskPTEsHaveSlots
  <1>4. ~Resolving(va)
    BY <1>1 DEF Resolving, OInv, Owned, Handlers, ResolversApart, ResolverPC, ReadPC, ConnectPC
  <1>5. BeingRead(p)
    BY <1>1 DEF BeingRead, ReadPC
  <1>6. WriteSlot(p) = None
    BY <1>2, WriteSlotFrames
  <1>7. QED
    BY <1>1, <1>2, <1>3, <1>4, <1>5, <1>6 DEF PTESlot, FrameSlot, SlotIn

LEMMA ReadPageFromDiskContents ==
    ASSUME CInv, OInv', [Next]_vars, NEW u \in Users, ReadPageFromDisk(u)
    PROVE  Contents'
  <1> USE DEF CInv, SInv
  <1>1. user[u].pc = "read_disk"
    BY DEF ReadPageFromDisk, At
  <1>2. PICK p \in Pages, va \in VAs, s0 \in Slots :
           /\ p = user[u].page /\ va = user[u].va /\ s0 = SlotIn(pte[va])
           /\ page[p].status = "ACTIVE" /\ page[p].pte = va
           /\ pte[va].format = "disk" /\ s0 = pte[va].pagefile_idx
           /\ PTESlot(va) = s0 /\ FrameSlot(p) = None /\ WriteSlot(p) = None
    BY <1>1, ReadingSlots DEF ReadPC
  <1>3. SlotsStill({}, {}, {})
    BY MoveUserSlots DEF NoSlotMoves
  <1>4. Moves(u, "end_slot")
    BY GotoMoves DEF ReadPageFromDisk, OInv, IInv
  <1>5. /\ \A v \in VAs : Changing(v) => Changing(v)'
        /\ \A q \in Pages \ {p} : ReadingIn(q) => ReadingIn(q)'
    BY <1>1, <1>2, <1>4 DEF Moves, Changing, ReadingIn
  <1>6. page' = page /\ raced' = raced \ {va} /\ pte' = pte
    BY <1>2 DEF ReadPageFromDisk
  <1>7. holds[s0] = va \/ va \in raced
    BY <1>2 DEF Contents, SlotsHold, Copy, PTECopy
  <1>8. \A q \in Places : holds'[q] = IF q \in {p, s0} THEN va ELSE holds[q]
    <2>1. holds \in [Places -> VAs \cup {Zero, None}]
      BY DEF OInv, IInv, TypeOK
    <2>2. CASE va \in raced
      <3>1. holds' = [holds EXCEPT ![s0] = va, ![p] = va]
        BY <1>2, <2>2 DEF ReadPageFromDisk
      <3>2. QED
        BY <2>1, <3>1, PlacesApart
    <2>3. CASE va \notin raced
      <3>1. holds' = [holds EXCEPT ![p] = va]
        BY <1>2, <1>7, <2>3 DEF ReadPageFromDisk, Copied
      <3>2. QED
        BY <1>7, <2>1, <2>3, <3>1, PlacesApart
    <2>4. QED
      BY <2>2, <2>3
  <1>9. \A s \in Slots, v \in VAs : Copy(s, v)' =>
           (Copy(s, v) /\ holds'[s] = holds[s]) \/ holds'[s] = v
    <2> SUFFICES ASSUME NEW s \in Slots, NEW v \in VAs, Copy(s, v)'
                 PROVE  (Copy(s, v) /\ holds'[s] = holds[s]) \/ holds'[s] = v
      OBVIOUS
    <2>1. CASE v = va
      <3>1. \A q \in Pages : page[q].pte = va => q = p
        BY <1>2, NamedOnce, Fields
      <3>2. FrameSlot(p)' = None /\ WriteSlot(p)' = None /\ PTESlot(va)' = s0
        BY <1>2, <1>3 DEF SlotsStill
      <3>3. s = s0
        BY <1>6, <2>1, <3>1, <3>2, PlacesApart DEF Copy, FrameCopy, WriteCopy, PTECopy
      <3>4. QED
        BY <1>8, <2>1, <3>3, PlacesApart
    <2>2. CASE v # va
      <3>1. Copy(s, v)
        BY <1>3, <1>5, <1>6, <2>2, CopiesBack
      <3>2. s # s0
        BY <1>2, <2>2, <3>1, PlacesApart DEF SlotInv, SlotsApart, Copy, FrameCopy, WriteCopy, PTECopy
      <3>3. s # p
        BY PlacesApart
      <3>4. QED
        BY <1>8, <3>1, <3>2, <3>3, PlacesApart
    <2>3. QED
      BY <2>1, <2>2
  <1>10. \A q \in Pages : page'[q].pte # None /\ ~ReadingIn(q)' =>
            \/ page[q].pte = page'[q].pte /\ ~ReadingIn(q) /\ holds'[q] = holds[q]
            \/ holds'[q] = page'[q].pte
    BY <1>2, <1>5, <1>6, <1>8, PlacesApart
  <1>11. \A q \in Pages : page'[q].status = "ZERO" =>
            page[q].status = "ZERO" /\ holds'[q] = holds[q]
    BY <1>2, <1>6, <1>8, PlacesApart
  <1>12. \A q \in Places, v \in VAs : holds'[q] = v /\ Untouched(v) =>
            ~Untouched(v)' \/ \E r \in Places : holds[r] = v
    <2>1. ~Untouched(va)
      BY <1>2 DEF Untouched
    <2>2. QED
      BY <1>8, <2>1
  <1>13. QED
    BY <1>9, <1>10, <1>11, <1>12, ContentsKept

LEMMA EndOfFaultDiskSlotContents ==
    ASSUME CInv, OInv', [Next]_vars, NEW u \in Users, EndOfFaultDiskSlot(u)
    PROVE  Contents'
  <1> USE DEF CInv, SInv
  <1>1. user[u].pc = "end_slot"
    BY DEF EndOfFaultDiskSlot, At
  <1>2. PICK p \in Pages, va \in VAs, s0 \in Slots :
           /\ p = user[u].page /\ va = user[u].va /\ s0 = SlotIn(pte[va])
           /\ page[p].status = "ACTIVE" /\ page[p].pte = va
           /\ pte[va].format = "disk" /\ s0 = pte[va].pagefile_idx
           /\ PTESlot(va) = s0 /\ FrameSlot(p) = None /\ WriteSlot(p) = None
    BY <1>1, ReadingSlots DEF ReadPC
  <1>3. Moves(u, "map")
    BY GotoMoves DEF EndOfFaultDiskSlot, OInv, IInv
  <1>4. HandsStay
    BY <1>1, <1>3, HandsMove
  <1>5. \A q \in Pages : /\ page'[q].pte = page[q].pte
                         /\ page'[q].status = page[q].status
                         /\ page'[q].modified = page[q].modified
    <2>1. page \in [Pages -> Page]
      BY DEF OInv, IInv, TypeOK
    <2>2. QED
      BY <1>2, <2>1 DEF EndOfFaultDiskSlot, Page
  <1>6. raced' = raced
    BY DEF EndOfFaultDiskSlot
  <1>7. \A v \in VAs : (Changing(v) => Changing(v)') /\ (v \in raced => v \in raced')
    BY <1>4, <1>6, HandsHold
  <1>8. \A q \in Pages : ~ReadingIn(q)' => ~ReadingIn(q)
    BY <1>4, HandsHold
  <1>9. CASE user[u].access = "WRITE"
    <2>1. PTESlotGoes(va)
      BY <1>2, <1>9, EndOfFaultDiskSlotSlots
    <2>2. SlotsStill({}, {}, {va}) /\ PTESlot(va)' = None
      BY <2>1 DEF PTESlotGoes
    <2>3. \A q \in Places : holds'[q] = IF q = s0 THEN None ELSE holds[q]
      BY <1>2, <1>9 DEF EndOfFaultDiskSlot, Forgotten
    <2>4. \A s \in Slots, v \in VAs : Copy(s, v)' => Copy(s, v) /\ s # s0
      <3> SUFFICES ASSUME NEW s \in Slots, NEW v \in VAs, Copy(s, v)'
                   PROVE  Copy(s, v) /\ s # s0
        OBVIOUS
      <3>1. Copy(s, v) \/ (v = va /\ PTECopy(s, v)')
        BY <1>5, <1>7, <2>2, CopiesBack
      <3>2. Copy(s, v)
        BY <2>2, <3>1, PlacesApart DEF PTECopy
      <3>3. FrameSlot(p)' = None /\ WriteSlot(p)' = None
        BY <1>2, <2>2 DEF SlotsStill
      <3>4. \A q \in Pages : page'[q].pte = va => q = p
        BY <1>2, <1>5, NamedOnce, Fields
      <3>5. v # va
        BY <2>2, <3>3, <3>4, PlacesApart DEF Copy, FrameCopy, WriteCopy, PTECopy
      <3>6. s # s0
        BY <1>2, <3>2, <3>5, PlacesApart DEF SlotInv, SlotsApart, Copy, FrameCopy, WriteCopy, PTECopy
      <3>7. QED
        BY <3>2, <3>6
    <2>5. \A s \in Slots, v \in VAs : Copy(s, v)' => Copy(s, v) /\ holds'[s] = holds[s]
      BY <2>3, <2>4, PlacesApart
    <2>6. \A q \in Pages : holds'[q] = holds[q]
      BY <2>3, PlacesApart
    <2>7. \A q \in Places, v \in VAs : holds'[q] = v => \E r \in Places : holds[r] = v
      BY <2>3, Fields
    <2>8. QED
      BY <1>5, <1>8, <2>5, <2>6, <2>7, ContentsKept
  <1>10. CASE user[u].access # "WRITE"
    <2>1. PTESlotPasses(va, p) /\ holds' = holds
      <3>1. PTESlotPasses(va, p)
        BY <1>2, <1>10, EndOfFaultDiskSlotSlots
      <3>2. QED
        BY <1>10, <3>1 DEF EndOfFaultDiskSlot
    <2>2. SlotsStill({p}, {}, {va}) /\ PTESlot(va)' = None /\ FrameSlot(p)' = s0
      BY <1>2, <2>1 DEF PTESlotPasses
    <2>3. \A s \in Slots, v \in VAs : Copy(s, v)' => Copy(s, v)
      <3> SUFFICES ASSUME NEW s \in Slots, NEW v \in VAs, Copy(s, v)'
                   PROVE  Copy(s, v)
        OBVIOUS
      <3>1. Copy(s, v) \/ FrameCopy(s, v, p)' \/ (v = va /\ PTECopy(s, v)')
        BY <1>5, <1>7, <2>2, CopiesBack
      <3>2. FrameCopy(s, v, p)' => PTECopy(s, v)
        BY <1>2, <1>5, <1>6, <2>2 DEF FrameCopy, PTECopy
      <3>3. QED
        BY <2>2, <3>1, <3>2, PlacesApart DEF PTECopy, Copy
    <2>4. QED
      BY <1>5, <1>8, <2>1, <2>3, ContentsKept
  <1>11. QED
    BY <1>9, <1>10

\* The slots of a batch get copies of its frames.
LEMMA WriterWriteBatchContents ==
    ASSUME CInv, OInv', [Next]_vars, WriterWriteBatch
    PROVE  Contents'
  <1> USE DEF CInv, SInv
  <1>1. PICK slot \in [writer.batch -> Slots \ used] :
           /\ \A p, q \in writer.batch : slot[p] = slot[q] => p = q
           /\ holds' = [q \in Places |->
                 IF \E p \in writer.batch : slot[p] = q
                 THEN holds[CHOOSE p \in writer.batch : slot[p] = q]
                 ELSE holds[q]]
           /\ writer' = [writer EXCEPT !.pc = "complete",
                 !.slot = [p \in Pages |-> IF p \in writer.batch THEN slot[p] ELSE None]]
    BY DEF WriterWriteBatch
  <1>2. UNCHANGED <<pte, page, user, raced>>
    BY DEF WriterWriteBatch
  <1>3. HandsStay
    BY <1>2 DEF HandsStay
  <1>4. writer.batch \subseteq Pages /\ writer \in WriterType
    BY DEF OInv, IInv, TypeOK, WriterType
  <1>5. \A p \in Pages : WriteSlot(p)' = IF p \in writer.batch THEN slot[p] ELSE None
    BY <1>1, <1>4 DEF WriteSlot, WriterType
  <1>6. \A p \in writer.batch : holds'[slot[p]] = holds[p]
    BY <1>1, PlacesApart
  <1>7. \A q \in Places : (\A p \in writer.batch : slot[p] # q) => holds'[q] = holds[q]
    BY <1>1
  <1>8. \A p \in writer.batch : page[p].pte # None /\ holds[p] = page[p].pte
    <2> SUFFICES ASSUME NEW p \in writer.batch
                 PROVE  page[p].pte # None /\ holds[p] = page[p].pte
      OBVIOUS
    <2>1. page[p].status \in {"ACTIVE", "MODIFIED"}
      BY <1>4 DEF OInv, Owned, Frames, WriterBatch
    <2>2. page[p].pte # None
      BY <1>4, <2>1 DEF OInv, Owned, Frames, FramesNamePTEs
    <2>3. ~ReadingIn(p)
      BY <1>4, Readers DEF ReadingIn, BeingRead
    <2>4. QED
      BY <1>4, <2>2, <2>3 DEF Contents, FramesHold
  <1>9. \A s \in Slots, v \in VAs : Copy(s, v)' =>
           (Copy(s, v) /\ holds'[s] = holds[s]) \/ holds'[s] = v
    <2> SUFFICES ASSUME NEW s \in Slots, NEW v \in VAs, Copy(s, v)'
                 PROVE  (Copy(s, v) /\ holds'[s] = holds[s]) \/ holds'[s] = v
      OBVIOUS
    <2>1. CASE \E p \in Pages : WriteCopy(s, v, p)'
      <3>1. PICK p \in Pages : WriteCopy(s, v, p)'
        BY <2>1
      <3>2. p \in writer.batch /\ slot[p] = s /\ page[p].pte = v
        BY <1>2, <1>5, <3>1, PlacesApart DEF WriteCopy
      <3>3. QED
        BY <1>6, <1>8, <3>2
    <2>2. CASE ~\E p \in Pages : WriteCopy(s, v, p)'
      <3>1. \/ \E p \in Pages : FrameCopy(s, v, p)
            \/ PTECopy(s, v)
        <4>1. /\ \A p \in Pages : FrameSlot(p)' = FrameSlot(p)
              /\ PTESlot(v)' = PTESlot(v)
          BY <1>2, UsersStaySlots DEF UsersStay, FrameSlot, PTESlot
        <4>2. Changing(v)' <=> Changing(v)
          BY <1>2 DEF Changing
        <4>3. QED
          BY <1>2, <2>2, <4>1, <4>2 DEF Copy, FrameCopy, PTECopy
      <3>2. s \in used
        BY <3>1 DEF SlotInv, SlotsInUse, FrameCopy, PTECopy
      <3>3. QED
        BY <1>1, <1>7, <3>1, <3>2, PlacesApart DEF Copy
    <2>3. QED
      BY <2>1, <2>2
  <1>10. \A q \in Pages : holds'[q] = holds[q]
    BY <1>1, <1>7, PlacesApart
  <1>11. \A q \in Pages : ~ReadingIn(q)' => ~ReadingIn(q)
    BY <1>3, HandsHold
  <1>12. \A q \in Places, v \in VAs : holds'[q] = v => \E r \in Places : holds[r] = v
    BY <1>4, <1>6, <1>7, PlacesApart
  <1>13. QED
    BY <1>2, <1>9, <1>10, <1>11, <1>12, ContentsKept

LEMMA WriterCompleteContents ==
    ASSUME CInv, OInv', [Next]_vars, NEW p \in Pages, WriterComplete(p)
    PROVE  Contents'
  <1> USE DEF CInv, SInv
  <1>1. p \in writer.batch /\ writer.pc = "complete" /\ UNCHANGED <<pte, user, raced>>
    BY DEF WriterComplete, WriterAt
  <1>2. HandsStay
    BY <1>1 DEF HandsStay
  <1>3. \A v \in VAs : (Changing(v) => Changing(v)') /\ (v \in raced => v \in raced')
    BY <1>1, <1>2, HandsHold
  <1>4. \A q \in Pages : ~ReadingIn(q)' => ~ReadingIn(q)
    BY <1>2, HandsHold
  <1>5. \A q \in Pages : /\ page'[q].pte = page[q].pte
                         /\ page'[q].status = page[q].status
                         /\ page'[q].modified = page[q].modified
    <2>1. page \in [Pages -> Page]
      BY DEF OInv, IInv, TypeOK
    <2>2. \E i \in Slots \cup {None} :
             page' = [page EXCEPT ![p].writing_to_disk = FALSE, ![p].pagefile_idx = i]
      <3>1. writer.slot[p] \in Slots \cup {None} /\ page[p].pagefile_idx \in Slots \cup {None}
        BY Fields DEF OInv, IInv, TypeOK, WriterType
      <3>2. page' = [page EXCEPT ![p].writing_to_disk = FALSE,
                       ![p].pagefile_idx = IF ~Confirmable(p) /\ KeepsSlot(p)
                                           THEN writer.slot[p] ELSE page[p].pagefile_idx]
        BY DEF WriterComplete
      <3>3. QED
        BY <3>1, <3>2
    <2>3. QED
      BY <2>1, <2>2 DEF Page
  <1>6. holds' = Forgotten(used \ used')
    BY DEF WriterComplete
  <1>7. CASE Confirmable(p)
    <2>1. used' = used /\ SlotsStill({}, {}, {})
      BY <1>7, WriterCompleteSlots DEF NoSlotMoves
    <2>2. \A q \in Places : holds'[q] = holds[q]
      BY <1>6, <2>1 DEF Forgotten
    <2>3. \A s \in Slots, v \in VAs : Copy(s, v)' => Copy(s, v)
      BY <1>3, <1>5, <2>1, CopiesBack
    <2>4. QED
      BY <1>4, <1>5, <2>2, <2>3, PlacesApart, ContentsKept
  <1>8. CASE ~Confirmable(p) /\ KeepsSlot(p)
    <2>1. /\ used' = used /\ SlotsStill({p}, {p}, {})
          /\ FrameSlot(p)' = WriteSlot(p) /\ WriteSlot(p)' = None
      BY <1>8, WriterCompleteSlots DEF WriteSlotsPass
    <2>2. \A q \in Places : holds'[q] = holds[q]
      BY <1>6, <2>1 DEF Forgotten
    <2>3. \A s \in Slots, v \in VAs : Copy(s, v)' => Copy(s, v)
      <3> SUFFICES ASSUME NEW s \in Slots, NEW v \in VAs, Copy(s, v)' PROVE Copy(s, v)
        OBVIOUS
      <3>1. Copy(s, v) \/ FrameCopy(s, v, p)' \/ WriteCopy(s, v, p)'
        BY <1>3, <1>5, <2>1, CopiesBack
      <3>2. ~WriteCopy(s, v, p)'
        BY <2>1, PlacesApart DEF WriteCopy
      <3>3. FrameCopy(s, v, p)' => WriteCopy(s, v, p)
        BY <1>3, <1>5, <1>8, <2>1 DEF FrameCopy, WriteCopy, KeepsSlot
      <3>4. QED
        BY <3>1, <3>2, <3>3 DEF Copy
    <2>4. QED
      BY <1>4, <1>5, <2>2, <2>3, PlacesApart, ContentsKept
  <1>9. CASE ~Confirmable(p) /\ ~KeepsSlot(p)
    <2>1. PICK s0 \in Slots :
             /\ s0 = WriteSlot(p) /\ used' = used \ {s0} /\ s0 \in used
             /\ SlotsStill({}, {p}, {}) /\ WriteSlot(p)' = None
      <3>1. WriteSlot(p) # None
        BY <1>1 DEF OInv, Owned, Frames, WriterBatch, WriteSlot
      <3>2. WriteSlot(p) \in Slots
        BY <3>1, SlotTypes
      <3>3. WriteSlotGoes(p)
        BY <1>9, WriterCompleteSlots
      <3>4. QED
        BY <3>2, <3>3 DEF WriteSlotGoes, SlotInv, SlotsInUse
    <2>2. \A q \in Places : holds'[q] = IF q = s0 THEN None ELSE holds[q]
      <3>1. used \ used' = {s0}
        BY <2>1
      <3>2. QED
        BY <1>6, <3>1 DEF Forgotten
    <2>3. page[p].modified
      BY <1>9 DEF KeepsSlot
    <2>4. \A s \in Slots, v \in VAs : Copy(s, v)' => Copy(s, v) /\ s # s0
      <3> SUFFICES ASSUME NEW s \in Slots, NEW v \in VAs, Copy(s, v)'
                   PROVE  Copy(s, v) /\ s # s0
        OBVIOUS
      <3>1. Copy(s, v) \/ WriteCopy(s, v, p)'
        BY <1>3, <1>5, <2>1, CopiesBack
      <3>2. Copy(s, v)
        BY <2>1, <3>1, PlacesApart DEF WriteCopy
      <3>3. s # s0
        BY <2>1, <2>3, <3>2, PlacesApart DEF SlotInv, SlotsApart, Copy, FrameCopy, WriteCopy, PTECopy
      <3>4. QED
        BY <3>2, <3>3
    <2>5. \A s \in Slots, v \in VAs : Copy(s, v)' => Copy(s, v) /\ holds'[s] = holds[s]
      BY <2>2, <2>4, PlacesApart
    <2>6. \A q \in Pages : holds'[q] = holds[q]
      BY <2>2, PlacesApart
    <2>7. \A q \in Places, v \in VAs : holds'[q] = v => \E r \in Places : holds[r] = v
      BY <2>2, Fields
    <2>8. QED
      BY <1>4, <1>5, <2>5, <2>6, <2>7, ContentsKept
  <1>10. QED
    BY <1>7, <1>8, <1>9

LEMMA WriterInsertStandbyContents ==
    ASSUME CInv, OInv', [Next]_vars, WriterInsertStandby
    PROVE  Contents'
  <1> USE DEF CInv, SInv
  <1> DEFINE S == writer.confirmed
  <1>1. S \in SUBSET Pages /\ UNCHANGED <<pte, user, raced, holds>>
    BY DEF WriterInsertStandby, OInv, IInv, TypeOK, WriterType
  <1>2. HandsStay
    BY <1>1 DEF HandsStay
  <1>3. \A v \in VAs : (Changing(v) => Changing(v)') /\ (v \in raced => v \in raced')
    BY <1>1, <1>2, HandsHold
  <1>4. \A q \in Pages : ~ReadingIn(q)' => ~ReadingIn(q)
    BY <1>2, HandsHold
  <1>5. \A q \in Pages : /\ page'[q].pte = page[q].pte
                         /\ page'[q].status = "ZERO" => page[q].status = "ZERO"
                         /\ page'[q].modified = page[q].modified
    <2>1. page \in [Pages -> Page] /\ writer.slot \in [Pages -> Slots \cup {None}]
      BY DEF OInv, IInv, TypeOK, WriterType
    <2>2. \A q \in Pages : page'[q] = IF q \in S
                THEN [page[q] EXCEPT !.status = "STANDBY", !.pagefile_idx = writer.slot[q]]
                ELSE page[q]
      BY DEF WriterInsertStandby
    <2>3. QED
      BY <2>1, <2>2 DEF Page
  <1>6. /\ SlotsStill(S, S, {})
        /\ \A p \in S : FrameSlot(p)' = WriteSlot(p) /\ WriteSlot(p)' = None
    BY WriterInsertStandbySlots DEF WriteSlotsPass
  <1>7. \A p \in S : ~page[p].modified
    BY <1>1 DEF OInv, Owned, Frames, WriterBatch
  <1>8. \A s \in Slots, v \in VAs : Copy(s, v)' => Copy(s, v)
    <2> SUFFICES ASSUME NEW s \in Slots, NEW v \in VAs, Copy(s, v)' PROVE Copy(s, v)
      OBVIOUS
    <2>1. Copy(s, v) \/ \E p \in S : FrameCopy(s, v, p)' \/ WriteCopy(s, v, p)'
      <3> HIDE DEF S
      <3>1. QED
        BY <1>1, <1>3, <1>5, <1>6, CopiesBack
    <2>2. ASSUME NEW p \in S, WriteCopy(s, v, p)' PROVE FALSE
      BY <1>6, <2>2, PlacesApart DEF WriteCopy
    <2>3. ASSUME NEW p \in S, FrameCopy(s, v, p)' PROVE WriteCopy(s, v, p)
      <3>1. p \in Pages /\ FrameSlot(p)' = WriteSlot(p) /\ ~page[p].modified
        BY <1>1, <1>6, <1>7
      <3>2. QED
        BY <1>3, <1>5, <2>3, <3>1 DEF FrameCopy, WriteCopy
    <2>4. QED
      BY <1>1, <2>1, <2>2, <2>3 DEF Copy
  <1>9. QED
    BY <1>1, <1>4, <1>5, <1>8, ContentsKept

LEMMA RefreshFreeContents ==
    ASSUME CInv, OInv', [Next]_vars, RefreshFree
    PROVE  Contents'
  <1> USE DEF CInv, SInv
  <1>1. refreshing \in SUBSET Pages /\ UNCHANGED <<user, raced, writer>>
    BY DEF RefreshFree, OInv, IInv, TypeOK
  <1>2. HandsStay
    BY <1>1 DEF HandsStay
  <1>3. \A v \in VAs : (Changing(v) => Changing(v)') /\ (v \in raced => v \in raced')
    BY <1>1, <1>2, HandsHold
  <1>4. \A q \in Pages : ~ReadingIn(q)' => ~ReadingIn(q)
    BY <1>2, HandsHold
  <1>5. \A q \in Pages :
           /\ q \notin refreshing => page'[q] = page[q]
           /\ q \in refreshing => page'[q].status = "FREE" /\ page'[q].pte = None
    <2>1. page \in [Pages -> Page]
      BY DEF OInv, IInv, TypeOK
    <2>2. \A q \in Pages : page'[q] = IF q \in refreshing
                THEN [page[q] EXCEPT !.status = "FREE", !.pte = None] ELSE page[q]
      BY DEF RefreshFree
    <2>3. QED
      BY <2>1, <2>2 DEF Page
  <1>6. \A q \in Places : holds'[q] = IF q \in refreshing THEN None ELSE holds[q]
    BY DEF RefreshFree, Forgotten
  <1>7. /\ \A p \in refreshing : page[p].pte \in VAs /\ FrameSlot(p)' = None
        /\ \A p \in refreshing, v \in VAs : page[p].pte = v => PTESlot(v)' = FrameSlot(p)
        /\ SlotsStill(refreshing, {}, {page[p].pte : p \in refreshing})
    BY RefreshFreeSlots DEF FrameSlotsPass
  <1>8. \A s \in Slots, v \in VAs : Copy(s, v)' => Copy(s, v)
    <2> SUFFICES ASSUME NEW s \in Slots, NEW v \in VAs, Copy(s, v)' PROVE Copy(s, v)
      OBVIOUS
    <2>1. PICK X \in SUBSET VAs : X = {page[p].pte : p \in refreshing}
      BY <1>7
    <2>2. Copy(s, v) \/ (\E p \in refreshing : FrameCopy(s, v, p)') \/ (v \in X /\ PTECopy(s, v)')
      <3>1. \A q \in refreshing : page[q].status = "STANDBY"
        BY <1>1 DEF OInv, Owned, Frames, Lists
      <3>2. \A q \in Pages \ {} : WriteSlot(q) # None =>
               page'[q].pte = page[q].pte /\ (page[q].modified => page'[q].modified)
        BY <1>5, <3>1, WriteSlotFrames
      <3>3. \A q \in Pages \ refreshing : page'[q].pte = page[q].pte
        BY <1>5
      <3>4. SlotsStill(refreshing, {}, X)
        BY <1>7, <2>1
      <3>5. QED
        BY <1>1, <1>3, <3>2, <3>3, <3>4, CopiesBack
    <2>3. ASSUME NEW p \in refreshing, FrameCopy(s, v, p)' PROVE FALSE
      BY <1>7, <2>3, PlacesApart DEF FrameCopy
    <2>4. ASSUME v \in X, PTECopy(s, v)' PROVE Copy(s, v)
      <3>1. PICK p \in refreshing : page[p].pte = v
        BY <2>1, <2>4
      <3>2. p \in Pages /\ FrameSlot(p) = s /\ v \notin raced
        BY <1>1, <1>7, <2>4, <3>1 DEF PTECopy
      <3>3. Forced(v, p)
        BY <3>1, RefreshFreePTEs
      <3>4. ~Changing(v)
        BY <3>3, ForcedFormat DEF Changing, ResolverPC, ValidPC
      <3>5. QED
        BY <3>1, <3>2, <3>4 DEF Copy, FrameCopy
    <2>5. QED
      BY <2>2, <2>3, <2>4
  <1>9. \A s \in Slots : holds'[s] = holds[s]
    BY <1>1, <1>6, PlacesApart
  <1>10. \A q \in Pages : page'[q].pte # None /\ ~ReadingIn(q)' =>
            page[q].pte = page'[q].pte /\ ~ReadingIn(q) /\ holds'[q] = holds[q]
    BY <1>4, <1>5, <1>6, PlacesApart
  <1>11. \A q \in Pages : page'[q].status = "ZERO" =>
            page[q].status = "ZERO" /\ holds'[q] = holds[q]
    BY <1>5, <1>6, PlacesApart
  <1>12. \A q \in Places, v \in VAs : holds'[q] = v => \E r \in Places : holds[r] = v
    BY <1>6, Fields
  <1>13. QED
    BY <1>8, <1>9, <1>10, <1>11, <1>12, ContentsKept

\* Nobody loses, and nobody invents, what a VA holds.
LEMMA StepContents ==
    ASSUME CInv, OInv', [Next]_vars
    PROVE  Contents'
  <1>1. ASSUME NEW u \in Users, UserAccess(u)
        PROVE  Contents'
    BY <1>1, UserWriteContents, QuietAccessContents DEF UserAccess
  <1>2. ASSUME NEW u \in Users, FaultStep(u)
        PROVE  Contents'
    <2>1. CASE \/ FaultRetry(u) \/ BeginValidFault(u) \/ RemapWritable(u) \/ FinishValidFault(u)
               \/ BeginUnaccessedFault(u) \/ FindNoPage(u) \/ LockToRescue(u)
               \/ \E p \in Pages : TakePage(u, p)
               \/ ClaimUnaccessed(u) \/ BeginTransitionFault(u) \/ RescueFail(u) \/ Rescue(u)
               \/ AwaitTrim(u) \/ AcquireReadRights(u)
               \/ \E p \in Pages : GetPage(u, p)
               \/ ReleaseReadRights(u) \/ MapPage(u) \/ ConnectPTE(u) \/ SpeculateAccessBits(u)
      BY <1>2, <2>1, QuietUserContents
    <2>2. CASE CommitPage(u)
      <3>1. pte[user[u].va].format \in {"memory", "transition"}
        BY <2>2 DEF CommitPage, At, CInv, SInv, OInv, Owned, Handlers, Rescues
      <3>2. QED
        BY <2>2, <3>1, CommitRescuedContents, CommitFreshContents
    <2>3. CASE DropSlot(u) \/ SetModified(u) \/ ReturnUnneededPage(u) \/ CommitPageDisk(u)
               \/ ReadPageFromDisk(u) \/ EndOfFaultDiskSlot(u)
      BY <2>3, DropSlotContents, SetModifiedContents, ReturnUnneededPageContents,
         CommitPageDiskContents, ReadPageFromDiskContents, EndOfFaultDiskSlotContents
    <2>4. QED
      BY <1>2, <2>1, <2>2, <2>3 DEF FaultStep
  <1>3. ASSUME TrimmerStep
        PROVE  Contents'
    BY <1>3, QuietOtherContents DEF TrimmerStep, TrimFinish
  <1>4. ASSUME WriterStep \/ RefresherStep
        PROVE  Contents'
    BY <1>4, QuietOtherContents, WriterCompleteContents, WriterWriteBatchContents,
       WriterInsertStandbyContents, RefreshFreeContents DEF WriterStep, RefresherStep
  <1>5. ASSUME Corrupted \/ UNCHANGED vars
        PROVE  Contents'
    BY <1>5, QuietOtherContents DEF Corrupted
  <1>6. QED
    BY <1>1, <1>2, <1>3, <1>4, <1>5 DEF Next

----------------------------------------------------------------------------
(* Mappings: what changes what *)

LEMMA MappingSteps ==
    ASSUME OInv, [Next]_vars, NEW v \in VAs
    PROVE  \/ hw'[v] = hw[v]
           \/ \E u \in Users : user[u].va = v /\ (MapPage(u) \/ RemapWritable(u))
           \/ TrimDisconnect /\ v \in trim.ptes
  <1>1. hw \in [VAs -> Mapping \cup {None}]
    BY DEF OInv, IInv, TypeOK
  <1>2. ASSUME NEW u \in Users, UserAccess(u)
        PROVE  hw' = hw
    BY <1>2 DEF UserAccess, UserWrite, UserSetAccessBit, UserFault
  <1>3. ASSUME NEW u \in Users, FaultStep(u), ~MapPage(u), ~RemapWritable(u)
        PROVE  hw' = hw
    BY <1>3 DEF FaultStep, FaultRetry, BeginValidFault, DropSlot, SetModified,
       FinishValidFault, BeginUnaccessedFault, TakePage, FindNoPage, ClaimUnaccessed,
       ReturnUnneededPage, BeginTransitionFault, LockToRescue, RescueFail, Rescue, AwaitTrim,
     CommitPage, AcquireReadRights,
       GetPage, ReleaseReadRights, CommitPageDisk, ReadPageFromDisk, EndOfFaultDiskSlot,
       ConnectPTE, SpeculateAccessBits
  <1>4. ASSUME NEW u \in Users, MapPage(u) \/ RemapWritable(u), user[u].va # v
        PROVE  hw'[v] = hw[v]
    BY <1>1, <1>4 DEF MapPage, RemapWritable
  <1>5. ASSUME TrimmerStep \/ WriterStep \/ RefresherStep \/ Corrupted \/ UNCHANGED vars,
               ~TrimDisconnect
        PROVE  hw' = hw
    BY <1>5 DEF TrimmerStep, TrimClearAccessBit, TrimMark, TrimFinish,
       TrimChainModified, TrimInsertModified, TrimChainStandby, TrimInsertStandby,
       TrimChain, TrimInsert, TrimEdit, TrimPlace, WriterStep, WriterReadTail, WriterSkip,
       WriterPop, WriterPopUnlisted, WriterComplete,
       WriterWriteBatch, WriterInsertStandby, RefresherStep, RefreshPop, RefreshFree,
       Corrupted, vars
  <1>6. TrimDisconnect /\ v \notin trim.ptes => hw'[v] = hw[v]
    BY <1>1 DEF TrimDisconnect, Unmapped
  <1>7. QED
    BY <1>2, <1>3, <1>4, <1>5, <1>6 DEF Next

LEMMA DisconnectUnmaps ==
    ASSUME TrimDisconnect
    PROVE  \A v \in VAs : v \in trim.ptes => hw'[v] = None
  BY DEF TrimDisconnect, Unmapped

\* The trimmer's batch grows by the PTEs it marks, until it unmaps them.
LEMMA BatchSteps ==
    ASSUME OInv, [Next]_vars, NEW v \in VAs
    PROVE  /\ v \in trim'.ptes => v \in trim.ptes \/ (TrimMark(v) /\ trim'.pc = "mark")
           /\ trim.pc = "mark" => trim'.pc = "mark" \/ TrimDisconnect
           /\ v \in trim.ptes /\ trim.pc = "mark" => v \in trim'.ptes \/ TrimDisconnect
  <1>1. trim \in TrimType
    BY DEF OInv, IInv, TypeOK
  <1>2. ASSUME NEW u \in Users, UserAccess(u)
        PROVE  trim' = trim
    BY <1>2 DEF UserAccess, UserWrite, UserSetAccessBit, UserFault
  <1>3. ASSUME NEW u \in Users, FaultStep(u)
        PROVE  trim' = trim
    BY <1>3 DEF FaultStep, FaultRetry, BeginValidFault, RemapWritable, DropSlot, SetModified,
       FinishValidFault, BeginUnaccessedFault, TakePage, FindNoPage, ClaimUnaccessed,
       ReturnUnneededPage, BeginTransitionFault, LockToRescue, RescueFail, Rescue, AwaitTrim,
     CommitPage, AcquireReadRights,
       GetPage, ReleaseReadRights, CommitPageDisk, ReadPageFromDisk, EndOfFaultDiskSlot,
       MapPage, ConnectPTE, SpeculateAccessBits
  <1>4. ASSUME WriterStep \/ RefresherStep \/ Corrupted \/ UNCHANGED vars
        PROVE  trim' = trim
    BY <1>4 DEF WriterStep, WriterReadTail, WriterSkip, WriterPop, WriterPopUnlisted, WriterComplete, WriterWriteBatch,
       WriterInsertStandby, RefresherStep, RefreshPop, RefreshFree, Corrupted, vars
  <1>5. ASSUME NEW w \in VAs, TrimMark(w)
        PROVE  trim.pc = "mark" /\ trim'.pc = "mark" /\ trim'.ptes = trim.ptes \cup {w}
    BY <1>1, <1>5 DEF TrimMark, TrimmerAt, TrimType
  <1>6. ASSUME NEW w \in VAs, TrimClearAccessBit(w)
        PROVE  trim' = trim
    BY <1>6 DEF TrimClearAccessBit
  <1>12. ASSUME TrimPlace
         PROVE  trim'.ptes = trim.ptes /\ trim'.pc = "mark"
    BY <1>1, <1>12 DEF TrimPlace, TrimmerAt, TrimType
  <1>7. ASSUME TrimDisconnect
        PROVE  trim'.ptes = trim.ptes
    BY <1>1, <1>7 DEF TrimDisconnect, TrimType
  <1>8. ASSUME TrimChainModified \/ TrimInsertModified \/ TrimChainStandby \/ TrimInsertStandby
        PROVE  trim'.ptes = trim.ptes /\ trim.pc # "mark"
    BY <1>1, <1>8 DEF TrimChainModified, TrimInsertModified, TrimChainStandby,
       TrimInsertStandby, TrimChain, TrimInsert, TrimmerAt, TrimType
  <1>9. ASSUME NEW w \in VAs, TrimEdit(w)
        PROVE  trim'.ptes \subseteq trim.ptes /\ trim.pc # "mark"
    BY <1>1, <1>9 DEF TrimEdit, NoBatch, TrimmerAt, TrimType
  <1>10. ASSUME TrimmerStep
         PROVE  /\ v \in trim'.ptes => v \in trim.ptes \/ (TrimMark(v) /\ trim'.pc = "mark")
                /\ trim.pc = "mark" => trim'.pc = "mark" \/ TrimDisconnect
                /\ v \in trim.ptes /\ trim.pc = "mark" => v \in trim'.ptes \/ TrimDisconnect
    <2>1. CASE \E w \in VAs : TrimMark(w)
      BY <1>5, <2>1
    <2>2. CASE \E w \in VAs : TrimClearAccessBit(w)
      BY <1>6, <2>2
    <2>3. CASE TrimFinish
      BY <1>7, <1>8, <1>9, <1>12, <2>3 DEF TrimFinish
    <2>4. QED
      BY <1>10, <2>1, <2>2, <2>3 DEF TrimmerStep
  <1>11. QED
    BY <1>2, <1>3, <1>4, <1>10 DEF Next

\* The slot of a store that has been let through is given up in two steps.
LEMMA ChangingSteps ==
    ASSUME OInv, [Next]_vars, NEW v \in VAs, Changing(v)
    PROVE  Changing(v)' \/ \E u \in Users : SetModified(u) /\ user[u].va = v
  <1>1. PICK u \in Users : user[u].va = v /\ user[u].pc \in {"drop_slot", "set_modified"}
    BY DEF Changing
  <1>2. CASE user'[u] = user[u]
    BY <1>1, <1>2 DEF Changing
  <1>3. ASSUME FaultStep(u)
        PROVE  Changing(v)' \/ SetModified(u)
    <2>1. CASE user[u].pc = "drop_slot"
      <3>1. Moves(u, "set_modified")
        BY <1>3, <2>1, StepFrom, GotoMoves DEF DropSlot, OInv, IInv
      <3>2. QED
        BY <1>1, <3>1 DEF Moves, Changing
    <2>2. CASE user[u].pc = "set_modified"
      BY <1>3, <2>2, StepFrom
    <2>3. QED
      BY <1>1, <2>1, <2>2
  <1>4. \A va \in VAs, access \in Accesses : ~UserFault(u, va, access)
    BY <1>1 DEF UserFault, At
  <1>5. QED
    BY <1>1, <1>2, <1>3, <1>4, UserSteps

\* A frame in use stays its VA's and stays in use, unless the trimmer takes it,
\* and if it is dirty it stays dirty, unless it is being read in.
ActiveStays(p, v) ==
    /\ page'[p].pte = v
    /\ \/ page'[p].status = "ACTIVE"
       \/ TrimPlace /\ trim.page = p /\ InFlight(p)
       \/ trim.pc # "mark" /\ BeingTrimmed(pte[v], p)
    /\ Dirty(v, p) => Dirty(v, p)'

LEMMA ActiveKept ==
    ASSUME NEW p \in Pages, NEW v \in VAs, page[p].status = "ACTIVE", page[p].pte = v,
           page'[p] = page[p], v \in raced => v \in raced',
           p \in writer'.batch => p \in writer.batch
    PROVE  ActiveStays(p, v)
  BY DEF ActiveStays, Dirty

LEMMA ActiveUserSteps ==
    ASSUME OInv, NEW u \in Users, FaultStep(u), NEW p \in Pages, NEW v \in VAs,
           page[p].status = "ACTIVE", page[p].pte = v,
           user[u].va = v => user[u].pc \notin ReadPC
    PROVE  ActiveStays(p, v)
  <1> USE DEF OInv, Owned
  <1> DEFINE up == user[u].page
  <1>0. page \in [Pages -> Page] /\ v # None
    BY Fields DEF IInv, TypeOK
  <1>1. CASE \/ FaultRetry(u) \/ BeginValidFault(u) \/ RemapWritable(u) \/ FinishValidFault(u)
             \/ BeginUnaccessedFault(u) \/ FindNoPage(u) \/ LockToRescue(u)
             \/ \E q \in Pages : TakePage(u, q)
             \/ ClaimUnaccessed(u) \/ BeginTransitionFault(u) \/ RescueFail(u) \/ Rescue(u)
             \/ AwaitTrim(u) \/ AcquireReadRights(u)
             \/ \E q \in Pages : GetPage(u, q)
             \/ ReleaseReadRights(u) \/ MapPage(u) \/ ConnectPTE(u) \/ SpeculateAccessBits(u)
    <2>1. UNCHANGED <<page, raced, writer>>
      BY <1>1 DEF FaultRetry, BeginValidFault, RemapWritable, FinishValidFault,
         BeginUnaccessedFault, TakePage, FindNoPage, ClaimUnaccessed,
         BeginTransitionFault, LockToRescue, RescueFail, Rescue,
         AwaitTrim, AcquireReadRights, GetPage, ReleaseReadRights, MapPage, ConnectPTE,
         SpeculateAccessBits
    <2>2. QED
      BY <2>1, ActiveKept
  <1>2. CASE DropSlot(u)
    <2>1. user[u].pc = "drop_slot" /\ up \in Pages /\ page[up].pte = user[u].va
      BY <1>2, ChangingFrames DEF DropSlot, At, ValidPC
    <2>2. CASE up = p
      <3>1. /\ page'[p].pagefile_idx = None /\ page'[p].pte = v
            /\ page'[p].status = "ACTIVE" /\ page'[p].modified = page[p].modified
        BY <1>0, <1>2, <2>2 DEF DropSlot, Page
      <3>2. writer' = writer
        BY <1>2 DEF DropSlot
      <3>3. QED
        BY <3>1, <3>2 DEF ActiveStays, Dirty
    <2>3. CASE up # p
      <3>1. user[u].va # v
        BY <1>0, <2>1, <2>3, NamedOnce
      <3>2. page'[p] = page[p] /\ (v \in raced => v \in raced') /\ writer' = writer
        BY <1>0, <1>2, <2>3, <3>1 DEF DropSlot
      <3>3. QED
        BY <3>2, ActiveKept
    <2>4. QED
      BY <2>2, <2>3
  <1>3. CASE SetModified(u)
    <2>1. /\ page'[p].pte = v /\ page'[p].status = "ACTIVE"
          /\ page'[p].pagefile_idx = page[p].pagefile_idx
          /\ page[p].modified => page'[p].modified
          /\ v \in raced => v \in raced'
          /\ writer' = writer
      BY <1>0, <1>3 DEF SetModified, Page
    <2>2. QED
      BY <2>1 DEF ActiveStays, Dirty
  <1>4. CASE ReturnUnneededPage(u)
    <2>1. up # p
      BY <1>4 DEF ReturnUnneededPage, At, Handlers, Claims
    <2>2. page'[p] = page[p] /\ UNCHANGED <<raced, writer>>
      BY <1>0, <1>4, <2>1 DEF ReturnUnneededPage
    <2>3. QED
      BY <2>2, ActiveKept
  <1>5. CASE CommitPage(u)
    <2>1. user[u].pc = "commit" /\ up # p /\ up \in Pages
      BY <1>5, Fields DEF CommitPage, At, Handlers, Rescues, FramePC
    <2>2. FreesSlot(u) => user[u].va # v
      <3> SUFFICES ASSUME FreesSlot(u), user[u].va = v
                   PROVE  FALSE
        OBVIOUS
      <3>1. page[up].pte = v
        BY <2>1 DEF FreesSlot, Handlers, Rescues
      <3>2. QED
        BY <1>0, <2>1, <3>1, NamedOnce
    <2>3. page'[p] = page[p] /\ writer' = writer
      BY <1>0, <1>5, <2>1 DEF CommitPage
    <2>4. v \in raced => v \in raced'
      BY <1>5, <2>2 DEF CommitPage
    <2>5. QED
      BY <2>3, <2>4, ActiveKept
  <1>6. CASE CommitPageDisk(u)
    <2>1. up # p
      BY <1>6 DEF CommitPageDisk, At, Handlers, Claims
    <2>2. page'[p] = page[p] /\ UNCHANGED <<raced, writer>>
      BY <1>0, <1>6, <2>1 DEF CommitPageDisk
    <2>3. QED
      BY <2>2, ActiveKept
  <1>7. CASE ReadPageFromDisk(u)
    <2>1. user[u].va # v
      BY <1>7 DEF ReadPageFromDisk, At, ReadPC
    <2>2. UNCHANGED <<page, writer>> /\ (v \in raced => v \in raced')
      BY <1>7, <2>1 DEF ReadPageFromDisk
    <2>3. QED
      BY <2>2, ActiveKept
  <1>8. CASE EndOfFaultDiskSlot(u)
    <2>1. user[u].va # v /\ user[u].pc = "end_slot"
      BY <1>8 DEF EndOfFaultDiskSlot, At, ReadPC
    <2>2. up # p
      BY <2>1 DEF Handlers, Connections, ReadPC
    <2>3. page'[p] = page[p] /\ UNCHANGED <<raced, writer>>
      BY <1>0, <1>8, <2>2 DEF EndOfFaultDiskSlot
    <2>4. QED
      BY <2>3, ActiveKept
  <1>9. QED
    BY <1>1, <1>2, <1>3, <1>4, <1>5, <1>6, <1>7, <1>8 DEF FaultStep

LEMMA ActiveSteps ==
    ASSUME OInv, [Next]_vars, NEW p \in Pages, NEW v \in VAs,
           page[p].status = "ACTIVE", page[p].pte = v,
           \A u \in Users : user[u].va = v => user[u].pc \notin ReadPC
    PROVE  ActiveStays(p, v)
  <1> USE DEF OInv, Owned
  <1>0. /\ page \in [Pages -> Page] /\ trim \in TrimType /\ writer \in WriterType
        /\ v # None
    BY Fields DEF IInv, TypeOK
  <1>1. ASSUME NEW u \in Users, UserAccess(u)
        PROVE  ActiveStays(p, v)
    <2>1. UNCHANGED <<page, raced, writer>>
      BY <1>1 DEF UserAccess, UserWrite, UserSetAccessBit, UserFault
    <2>2. QED
      BY <2>1, ActiveKept
  <1>2. ASSUME NEW u \in Users, FaultStep(u)
        PROVE  ActiveStays(p, v)
    BY <1>2, ActiveUserSteps
  <1>3. ASSUME TrimPlace
        PROVE  ActiveStays(p, v)
    <2>1. UNCHANGED <<raced, writer>>
      BY <1>3 DEF TrimPlace
    <2>2. CASE trim.page = p /\ InFlight(p)
      <3>1. /\ page'[p].pte = v /\ page'[p].pagefile_idx = page[p].pagefile_idx
            /\ page'[p].modified = page[p].modified
        BY <1>0, <1>3, <2>2 DEF TrimPlace, Page
      <3>2. QED
        BY <1>3, <2>1, <2>2, <3>1 DEF ActiveStays, Dirty
    <2>3. CASE ~(trim.page = p /\ InFlight(p))
      <3>1. page'[p] = page[p]
        BY <1>0, <1>3, <2>3 DEF TrimPlace
      <3>2. QED
        BY <2>1, <3>1, ActiveKept
    <2>4. QED
      BY <2>2, <2>3
  <1>4. CASE TrimChainModified \/ TrimChainStandby
    <2>1. PICK S \in SUBSET Pages, l \in {"MODIFIED", "STANDBY"} :
             /\ page' = [q \in Pages |-> IF q \in S THEN [page[q] EXCEPT !.status = l] ELSE page[q]]
             /\ UNCHANGED <<raced, writer>> /\ trim.pc # "mark"
             /\ p \in S => BeingTrimmed(pte[v], p)
      <3>1. CASE TrimChainModified
        <4>1. trim.to_modified \in SUBSET Pages /\ trim.pc = "chain_modified"
          BY <1>0, <3>1 DEF TrimChainModified, TrimChain, TrimmerAt, TrimType
        <4>2. p \in trim.to_modified => BeingTrimmed(pte[v], p)
          BY <4>1 DEF Frames, TrimBatch
        <4>3. QED
          BY <3>1, <4>1, <4>2 DEF TrimChainModified, TrimChain
      <3>2. CASE TrimChainStandby
        <4>1. trim.to_standby \in SUBSET Pages /\ trim.pc = "chain_standby"
          BY <1>0, <3>2 DEF TrimChainStandby, TrimChain, TrimmerAt, TrimType
        <4>2. p \in trim.to_standby => BeingTrimmed(pte[v], p)
          BY <4>1 DEF Frames, TrimBatch
        <4>3. QED
          BY <3>2, <4>1, <4>2 DEF TrimChainStandby, TrimChain
      <3>3. QED
        BY <1>4, <3>1, <3>2
    <2>2. CASE p \in S
      <3>1. /\ page'[p].pte = v /\ page'[p].pagefile_idx = page[p].pagefile_idx
            /\ page'[p].modified = page[p].modified
        BY <1>0, <2>1, <2>2 DEF Page
      <3>2. QED
        BY <2>1, <2>2, <3>1 DEF ActiveStays, Dirty
    <2>3. CASE p \notin S
      BY <2>1, <2>3, ActiveKept
    <2>4. QED
      BY <2>2, <2>3
  <1>5. CASE \/ \E va \in VAs : TrimClearAccessBit(va) \/ TrimMark(va) \/ TrimEdit(va)
             \/ TrimDisconnect \/ TrimInsertModified \/ TrimInsertStandby
             \/ \E q \in Pages : WriterReadTail(q)
             \/ WriterSkip \/ WriterPopUnlisted
             \/ \E S \in SUBSET Pages : RefreshPop(S)
             \/ Corrupted \/ UNCHANGED vars
    <2>1. UNCHANGED <<page, raced, writer>>
      BY <1>5 DEF TrimClearAccessBit, TrimMark, TrimEdit, TrimDisconnect, TrimInsertModified,
         TrimInsertStandby, TrimInsert, WriterReadTail, WriterSkip, WriterPopUnlisted,
         RefreshPop, Corrupted, vars
    <2>2. QED
      BY <2>1, ActiveKept
  <1>6. ASSUME WriterPop
        PROVE  ActiveStays(p, v)
    <2> DEFINE q == potential_page
    <2>1. q # p
      BY <1>6 DEF WriterPop, Poppable
    <2>2. page'[p] = page[p] /\ raced' = raced /\ writer'.batch \subseteq writer.batch \cup {q}
      BY <1>0, <1>6, <2>1 DEF WriterPop, WriterType
    <2>3. QED
      BY <2>1, <2>2, ActiveKept
  <1>7. CASE WriterWriteBatch
    <2>1. UNCHANGED <<page, raced>> /\ writer'.batch = writer.batch
      BY <1>0, <1>7 DEF WriterWriteBatch, WriterType
    <2>2. QED
      BY <2>1, ActiveKept
  <1>8. ASSUME NEW q \in Pages, WriterComplete(q)
        PROVE  ActiveStays(p, v)
    <2>1. raced' = raced /\ writer'.batch = writer.batch \ {q} /\ q \in writer.batch
      BY <1>0, <1>8 DEF WriterComplete, WriterType
    <2>2. CASE q = p
      <3>1. /\ page'[p].pte = v /\ page'[p].status = "ACTIVE"
            /\ page'[p].modified = page[p].modified
            /\ page[p].modified => page'[p].pagefile_idx = page[p].pagefile_idx
        BY <1>0, <1>8, <2>2 DEF WriterComplete, KeepsSlot, Page
      <3>2. QED
        BY <2>1, <2>2, <3>1 DEF ActiveStays, Dirty
    <2>3. CASE q # p
      <3>1. page'[p] = page[p]
        BY <1>0, <1>8, <2>3 DEF WriterComplete
      <3>2. QED
        BY <2>1, <3>1, ActiveKept
    <2>4. QED
      BY <2>2, <2>3
  <1>9. CASE WriterInsertStandby
    <2>1. p \notin writer.confirmed
      BY DEF Frames, WriterBatch
    <2>2. page'[p] = page[p] /\ raced' = raced /\ writer'.batch = {}
      BY <1>9, <2>1 DEF WriterInsertStandby
    <2>3. QED
      BY <2>2, ActiveKept
  <1>10. CASE RefreshFree
    <2>1. p \notin refreshing
      BY DEF Frames, Lists
    <2>2. page'[p] = page[p] /\ UNCHANGED <<raced, writer>>
      BY <1>10, <2>1 DEF RefreshFree
    <2>3. QED
      BY <2>2, ActiveKept
  <1>11. CASE TrimmerStep \/ WriterStep \/ RefresherStep
    BY <1>3, <1>4, <1>5, <1>6, <1>7, <1>8, <1>9, <1>10, <1>11
       DEF TrimmerStep, TrimFinish, WriterStep, RefresherStep
  <1>12. QED
    BY <1>1, <1>2, <1>5, <1>11 DEF Next

\* A frame stays its VA's until it is repurposed.
LEMMA FrameKept ==
    ASSUME OInv, [Next]_vars, NEW p \in Pages, NEW v \in VAs, page[p].pte = v
    PROVE  page'[p].pte = v \/ Forced(v, p)
  <1> USE DEF OInv, Owned
  <1>0. /\ page \in [Pages -> Page] /\ v # None
        /\ page[p].status \notin {"ZERO", "FREE"}
    BY Fields DEF IInv, TypeOK, Frames, FramesNamePTEs
  <1>1. ASSUME page' = page
        PROVE  page'[p].pte = v
    BY <1>1
  <1>2. ASSUME NEW u \in Users, UserAccess(u)
        PROVE  page' = page
    BY <1>2 DEF UserAccess, UserWrite, UserSetAccessBit, UserFault
  <1>3. ASSUME NEW u \in Users, FaultStep(u)
        PROVE  page'[p].pte = v \/ Forced(v, p)
    <2> DEFINE up == user[u].page
    <2>1. CASE CommitPage(u)
      <3>1. user[u].pc = "commit" /\ up \in Pages
        BY <2>1, Fields DEF CommitPage, At, FramePC
      <3>2. up # p => page'[p] = page[p]
        BY <1>0, <2>1 DEF CommitPage
      <3>3. page'[up].pte = user[u].va
        BY <1>0, <2>1, <3>1 DEF CommitPage, Page
      <3>4. page[up].pte # user[u].va /\ page[up].pte # None => Forced(page[up].pte, up)
        BY <2>1, CommitPagePTEs
      <3>5. QED
        BY <1>0, <3>2, <3>3, <3>4
    <2>2. CASE CommitPageDisk(u)
      <3>1. up # p => page'[p] = page[p]
        BY <1>0, <2>2 DEF CommitPageDisk
      <3>2. page[up].pte # None => Forced(page[up].pte, up)
        BY <2>2, CommitPageDiskPTEs
      <3>3. QED
        BY <1>0, <3>1, <3>2
    <2>3. CASE ReturnUnneededPage(u)
      <3>1. page[up].status \in Spare
        BY <2>3 DEF ReturnUnneededPage, At, Handlers, Claims
      <3>2. up = p => page' = page
        BY <1>0, <2>3, <3>1 DEF ReturnUnneededPage
      <3>3. up # p => page'[p] = page[p]
        BY <1>0, <2>3 DEF ReturnUnneededPage
      <3>4. QED
        BY <3>2, <3>3
    <2>4. CASE DropSlot(u) \/ SetModified(u) \/ EndOfFaultDiskSlot(u)
      BY <1>0, <2>4 DEF DropSlot, SetModified, EndOfFaultDiskSlot, Page
    <2>5. CASE \/ FaultRetry(u) \/ BeginValidFault(u) \/ RemapWritable(u) \/ FinishValidFault(u)
               \/ BeginUnaccessedFault(u) \/ FindNoPage(u) \/ LockToRescue(u)
               \/ \E q \in Pages : TakePage(u, q)
               \/ ClaimUnaccessed(u) \/ BeginTransitionFault(u) \/ RescueFail(u) \/ Rescue(u)
               \/ AwaitTrim(u) \/ AcquireReadRights(u)
               \/ \E q \in Pages : GetPage(u, q)
               \/ ReleaseReadRights(u) \/ ReadPageFromDisk(u) \/ MapPage(u) \/ ConnectPTE(u)
               \/ SpeculateAccessBits(u)
      BY <2>5 DEF FaultRetry, BeginValidFault, RemapWritable, FinishValidFault,
         BeginUnaccessedFault, TakePage, FindNoPage, ClaimUnaccessed,
         BeginTransitionFault, LockToRescue, RescueFail, Rescue,
         AwaitTrim, AcquireReadRights, GetPage, ReleaseReadRights, ReadPageFromDisk, MapPage,
         ConnectPTE, SpeculateAccessBits
    <2>6. QED
      BY <1>3, <2>1, <2>2, <2>3, <2>4, <2>5 DEF FaultStep
  <1>4. ASSUME TrimmerStep
        PROVE  page'[p].pte = v
    <2>1. CASE TrimPlace
      BY <1>0, <2>1 DEF TrimPlace, Page
    <2>2. CASE TrimChainModified \/ TrimChainStandby
      BY <1>0, <2>2 DEF TrimChainModified, TrimChainStandby, TrimChain, Page
    <2>3. CASE \/ \E va \in VAs : TrimClearAccessBit(va) \/ TrimMark(va) \/ TrimEdit(va)
               \/ TrimDisconnect \/ TrimInsertModified \/ TrimInsertStandby
      BY <2>3 DEF TrimClearAccessBit, TrimMark, TrimEdit, TrimDisconnect, TrimInsertModified,
         TrimInsertStandby, TrimInsert
    <2>4. QED
      BY <1>4, <2>1, <2>2, <2>3 DEF TrimmerStep, TrimFinish
  <1>5. ASSUME WriterStep
        PROVE  page'[p].pte = v
    <2>1. CASE WriterPop
      <3>1. page' = [page EXCEPT ![potential_page].modified = FALSE,
                                 ![potential_page].writing_to_disk = TRUE]
        BY <2>1 DEF WriterPop
      <3>2. QED
        BY <1>0, <3>1 DEF Page
    <2>5. CASE \E q \in Pages : WriterComplete(q)
      BY <1>0, <2>5 DEF WriterComplete, Page
    <2>2. CASE \/ \E q \in Pages : WriterReadTail(q)
               \/ WriterSkip \/ WriterPopUnlisted \/ WriterWriteBatch
      BY <2>2 DEF WriterReadTail, WriterSkip, WriterPopUnlisted, WriterWriteBatch
    <2>3. CASE WriterInsertStandby
      BY <1>0, <2>3 DEF WriterInsertStandby, Page
    <2>4. QED
      BY <1>5, <2>1, <2>2, <2>3, <2>5 DEF WriterStep
  <1>6. ASSUME RefresherStep
        PROVE  page'[p].pte = v \/ Forced(v, p)
    <2>1. CASE \E S \in SUBSET Pages : RefreshPop(S)
      BY <2>1 DEF RefreshPop
    <2>2. CASE RefreshFree /\ p \in refreshing
      BY <2>2, RefreshFreePTEs
    <2>3. CASE RefreshFree /\ p \notin refreshing
      BY <2>3 DEF RefreshFree
    <2>4. QED
      BY <1>6, <2>1, <2>2, <2>3 DEF RefresherStep
  <1>7. Corrupted \/ UNCHANGED vars => page' = page
    BY DEF Corrupted, vars
  <1>8. QED
    BY <1>2, <1>3, <1>4, <1>5, <1>6, <1>7 DEF Next

\* Nobody reads a frame in for a VA whose PTE names a frame, or is being connected.
LEMMA NobodyReads ==
    ASSUME OInv, NEW v \in VAs, NEW u \in Users, user[u].va = v,
           \/ pte[v].format = "memory"
           \/ \E w \in Users : user[w].va = v /\ user[w].pc \in ConnectPC
    PROVE  user[u].pc \notin ReadPC
  <1> SUFFICES ASSUME user[u].pc \in ReadPC
               PROVE  FALSE
    OBVIOUS
  <1>1. pte[v].format = "disk"
    BY DEF OInv, Owned, Handlers, Connections, ReadPC, ConnectPC
  <1>2. QED
    BY <1>1 DEF OInv, Owned, Handlers, ResolversApart, ResolverPC, ReadPC, ConnectPC

\* What the trimmer has yet to unmap it unmaps ...
LEMMA StaleKept ==
    ASSUME OInv, [Next]_vars, NEW v \in VAs, v \in trim.ptes, trim.pc = "mark",
           hw[v] # None, ~hw[v].writable, hw'[v] = hw[v]
    PROVE  MapsStale(v)'
  <1>1. ~TrimDisconnect
    BY DisconnectUnmaps
  <1>2. v \in trim'.ptes /\ trim'.pc = "mark"
    BY <1>1, BatchSteps
  <1>3. QED
    BY <1>2 DEF MapsStale

\* ... and so it does with mappings whose frame is repurposed.
LEMMA ForcedStale ==
    ASSUME OInv, Mapped, TrimsUnmapped, [Next]_vars, NEW v \in VAs, NEW p, Forced(v, p),
           hw[v] # None, hw'[v] = hw[v]
    PROVE  MapsStale(v)'
  <1>1. CASE MapsStale(v)
    BY <1>1, StaleKept DEF MapsStale
  <1>2. CASE MapsFrame(v)
    <2>1. \A u \in Users : user[u].va = v => user[u].pc # "connect"
      BY DEF Forced, ResolverPC, ConnectPC
    <2>2. pte[v].format = "memory" /\ pte[v].frame = hw[v].frame
      BY <1>2, <2>1 DEF MapsFrame
    <2>3. IsStillTrimmed(pte[v]) /\ hw[v].frame = p
      BY <2>2 DEF Forced
    <2>4. v \in trim.ptes
      BY <2>3 DEF OInv, Owned, Frames, PTEsNameFrames
    <2>5. trim.pc = "mark"
      BY <2>3, <2>4 DEF TrimsUnmapped
    <2>6. ~hw[v].writable
      BY <1>2, <2>3 DEF MapsFrame, Forced
    <2>7. QED
      BY <2>4, <2>5, <2>6, StaleKept
  <1>3. QED
    BY <1>1, <1>2 DEF Mapped

\* The PTE of a VA that is mapped goes on naming its frame.
LEMMA MappedPTE ==
    ASSUME OInv, TrimsUnmapped, [Next]_vars, NEW v \in VAs, NEW p,
           pte[v].format = "memory", pte[v].frame = p, hw[v] # None,
           \A q \in Pages : ~Forced(v, q)
    PROVE  pte'[v].format = "memory" /\ pte'[v].frame = p
  <1>1. CASE SetsAccessBit(v)
    BY <1>1, AccessBitSet DEF SetsAccessBit, OInv, IInv, TypeOK
  <1>2. CASE MarksStable(v)
    BY <1>2 DEF MarksStable
  <1>3. ~(IsStillTrimmed(pte[v]) /\ TrimEdit(v))
    BY DEF TrimsUnmapped, TrimEdit, TrimmerAt
  <1>4. ASSUME NEW u \in Users, EndsFault(u, v)
        PROVE  pte'[v].format = "memory" /\ pte'[v].frame = p
    <2>1. user[u].pc # "get_page"
      BY <1>4 DEF EndsFault, OInv, Owned, Handlers, Claims
    <2>2. user[u].page = p /\ pte'[v] = Connected(u)
      BY <1>4, <2>1 DEF EndsFault, OInv, Owned, Handlers, ValidFaults, Connections, ValidPC,
         ConnectPC
    <2>3. QED
      BY <2>2 DEF Connected, Memory
  <1>5. PTEChange(v)
    BY PTEChanges
  <1>6. QED
    BY <1>1, <1>2, <1>3, <1>4, <1>5 DEF PTEChange

\* A store that is let through is one to a frame that is dirty, or about to be.
LEMMA ChangedDirty ==
    ASSUME OInv, [Next]_vars, NEW p \in Pages, NEW v \in VAs, page[p].pte = v, Changing(v)
    PROVE  Changing(v)' \/ Dirty(v, p)'
  <1> SUFFICES ASSUME NEW u \in Users, SetModified(u), user[u].va = v
               PROVE  Dirty(v, p)'
    BY ChangingSteps
  <1>1. user[u].page = p
    <2>1. user[u].page \in Pages /\ page[user[u].page].pte = v
      BY ChangingFrames DEF SetModified, At, ValidPC
    <2>2. QED
      BY <2>1, NamedOnce, Fields
  <1>2. /\ page'[p].modified /\ page'[p].pagefile_idx = page[p].pagefile_idx
        /\ page[p].pagefile_idx # None => v \in raced'
    BY <1>1 DEF SetModified, OInv, IInv, TypeOK, Page
  <1>3. QED
    BY <1>2 DEF Dirty

\* What a writable mapping shows stays in use and dirty.
LEMMA WritableKept ==
    ASSUME OInv, TrimsUnmapped, [Next]_vars, NEW v \in VAs, MapsFrame(v),
           hw[v] # None, hw[v].writable, NEW p \in Pages, p = hw[v].frame
    PROVE  page'[p].status = "ACTIVE" /\ (Changing(v)' \/ Dirty(v, p)')
  <1> USE DEF OInv, Owned
  <1>1. page[p].pte = v /\ page[p].status = "ACTIVE" /\ (Changing(v) \/ Dirty(v, p))
    BY DEF MapsFrame
  <1>2. \A u \in Users : user[u].va = v => user[u].pc \notin ReadPC
    BY NobodyReads DEF MapsFrame, ConnectPC
  <1>3. ActiveStays(p, v)
    BY <1>1, <1>2, ActiveSteps
  <1>4. ~(TrimPlace /\ trim.page = p /\ InFlight(p))
    <2> SUFFICES ASSUME TrimPlace, trim.page = p, InFlight(p)
                 PROVE  FALSE
      OBVIOUS
    <2>1. BeingTrimmed(pte[v], p)
      BY <1>1 DEF Frames, TrimBatch
    <2>2. ~Changing(v)
      BY <2>1, ChangingFrames DEF Changing, ValidPC
    <2>3. p \in writer.batch /\ ~page[p].modified
      BY DEF Frames, WriterBatch
    <2>4. QED
      BY <1>1, <2>2, <2>3 DEF Dirty
  <1>5. trim.pc # "mark" => ~BeingTrimmed(pte[v], p)
    BY DEF Frames, PTEsNameFrames, TrimsUnmapped
  <1>6. page'[p].status = "ACTIVE" /\ (Dirty(v, p) => Dirty(v, p)')
    BY <1>3, <1>4, <1>5 DEF ActiveStays
  <1>7. Changing(v) => Changing(v)' \/ Dirty(v, p)'
    BY <1>1, ChangedDirty
  <1>8. QED
    BY <1>1, <1>6, <1>7

LEMMA FrameMappingKept ==
    ASSUME OInv, Mapped, TrimsUnmapped, [Next]_vars, NEW v \in VAs, MapsFrame(v),
           hw[v] # None, hw'[v] = hw[v]
    PROVE  MapsFrame(v)' \/ MapsStale(v)'
  <1> USE DEF OInv, Owned
  <1>0. PICK p \in Pages : p = hw[v].frame
    BY DEF IInv, TypeOK, Mapping
  <1>1. CASE \E q \in Pages : Forced(v, q)
    BY <1>1, ForcedStale
  <1>2. CASE \A q \in Pages : ~Forced(v, q)
    <2>1. page'[p].pte = v
      BY <1>0, <1>2, FrameKept DEF MapsFrame
    <2>2. \/ pte'[v].format = "memory" /\ pte'[v].frame = p
          \/ \E u \in Users : user'[u].va = v /\ user'[u].page = p /\ user'[u].pc = "connect"
      <3>1. CASE pte[v].format = "memory" /\ pte[v].frame = p
        BY <1>2, <3>1, MappedPTE
      <3>2. ASSUME NEW u \in Users, user[u].va = v, user[u].page = p, user[u].pc = "connect",
                   user'[u] # user[u]
            PROVE  pte'[v].format = "memory" /\ pte'[v].frame = p
        <4>1. ConnectPTE(u)
          BY <3>2, UserSteps, StepFrom DEF UserFault, At
        <4>2. pte'[v] = Connected(u)
          BY <3>2, <4>1 DEF ConnectPTE, IInv, TypeOK
        <4>3. QED
          BY <3>2, <4>2 DEF Connected, Memory
      <3>3. QED
        BY <1>0, <3>1, <3>2 DEF MapsFrame
    <2>3. hw[v].writable => page'[p].status = "ACTIVE" /\ (Changing(v)' \/ Dirty(v, p)')
      BY <1>0, WritableKept
    <2>4. QED
      BY <1>0, <2>1, <2>2, <2>3 DEF MapsFrame
  <1>3. QED
    BY <1>1, <1>2

\* A mapping that a fault makes shows the frame it has resolved its VA to.
LEMMA MapPageMaps ==
    ASSUME OInv, Stores, NEW u \in Users, MapPage(u), NEW v \in VAs, v = user[u].va
    PROVE  MapsFrame(v)'
  <1> USE DEF OInv, Owned
  <1> DEFINE wr == user[u].access = "WRITE" \/ pte[v].format = "memory"
  <1>0. PICK p \in Pages : p = user[u].page
    BY Fields DEF MapPage, At, FramePC
  <1>1. user[u].pc = "map" /\ UNCHANGED <<page, raced, writer>>
    BY DEF MapPage, At
  <1>2. hw'[v].frame = p /\ hw'[v].writable = wr
    BY <1>0 DEF MapPage, IInv, TypeOK
  <1>3. user'[u].va = v /\ user'[u].page = p /\ user'[u].pc = "connect"
    BY <1>0 DEF MapPage, IInv, TypeOK, UserType
  <1>4. page[p].status = "ACTIVE" /\ page[p].pte = v
    BY <1>0, <1>1 DEF Handlers, Connections, ConnectPC
  <1>5. wr => Dirty(v, p)
    BY <1>0, <1>1 DEF Stores, StoreAhead
  <1>6. Dirty(v, p) => Dirty(v, p)'
    BY <1>1 DEF Dirty
  <1>7. QED
    BY <1>1, <1>2, <1>3, <1>4, <1>5, <1>6 DEF MapsFrame

LEMMA RemapMaps ==
    ASSUME OInv, NEW u \in Users, RemapWritable(u), NEW v \in VAs, v = user[u].va
    PROVE  MapsFrame(v)'
  <1> USE DEF OInv, Owned
  <1>0. PICK p \in Pages : p = user[u].page
    BY Fields DEF RemapWritable, At, FramePC
  <1>1. user[u].pc = "remap" /\ UNCHANGED <<pte, page>> /\ Moves(u, "drop_slot")
    BY GotoMoves DEF RemapWritable, At, IInv
  <1>2. hw'[v].frame = p
    BY <1>0 DEF RemapWritable, IInv, TypeOK
  <1>3. /\ page[p].status = "ACTIVE" /\ page[p].pte = v
        /\ pte[v].format = "memory" /\ pte[v].frame = p
    BY <1>0, <1>1, ChangingFrames DEF ValidPC
  <1>4. Changing(v)'
    BY <1>1 DEF Moves, Changing
  <1>5. QED
    BY <1>1, <1>2, <1>3, <1>4 DEF MapsFrame

LEMMA StepMapped ==
    ASSUME OInv, Mapped, TrimsUnmapped, Stores, [Next]_vars
    PROVE  Mapped'
  <1> SUFFICES ASSUME NEW v \in VAs, hw'[v] # None
               PROVE  MapsFrame(v)' \/ MapsStale(v)'
    BY DEF Mapped
  <1>1. CASE hw'[v] = hw[v]
    <2>1. CASE MapsFrame(v)
      BY <1>1, <2>1, FrameMappingKept
    <2>2. CASE MapsStale(v)
      BY <1>1, <2>2, StaleKept DEF MapsStale
    <2>3. QED
      BY <1>1, <2>1, <2>2 DEF Mapped
  <1>2. ASSUME NEW u \in Users, user[u].va = v, MapPage(u) \/ RemapWritable(u)
        PROVE  MapsFrame(v)'
    BY <1>2, MapPageMaps, RemapMaps
  <1>3. ~(TrimDisconnect /\ v \in trim.ptes)
    BY DisconnectUnmaps
  <1>4. QED
    BY <1>1, <1>2, <1>3, MappingSteps

\* Nobody but the trimmer makes a PTE one that is being trimmed.
LEMMA TrimmedBack ==
    ASSUME OInv, [Next]_vars, NEW v \in VAs, IsStillTrimmed(pte[v])', ~TrimMark(v)
    PROVE  IsStillTrimmed(pte[v])
  <1>1. PTEChange(v)
    BY PTEChanges
  <1>2. CASE SetsAccessBit(v)
    BY <1>2, AccessBitSet DEF SetsAccessBit, OInv, IInv, TypeOK
  <1>3. ~MarksStable(v)
    BY DEF MarksStable, IsStable
  <1>4. \A p \in Pages : ~Forced(v, p)
    BY ForcedFormat
  <1>5. \A u \in Users : ~EndsFault(u, v)
    BY DEF EndsFault, Connected, Memory
  <1>6. QED
    BY <1>1, <1>2, <1>3, <1>4, <1>5 DEF PTEChange, Transition

\* A fault maps only what it has the right to change.
LEMMA FaultMaps ==
    ASSUME OInv, NEW u \in Users, MapPage(u) \/ RemapWritable(u)
    PROVE  user[u].pc \in ResolverPC /\ user[u].pc # "commit"
           /\ ~IsStillTrimmed(pte[user[u].va]) /\ UNCHANGED pte
  BY DEF MapPage, RemapWritable, At, OInv, Owned, Handlers, ValidFaults, Connections,
     ResolverPC, ValidPC, ConnectPC

LEMMA StepTrimsUnmapped ==
    ASSUME OInv, TrimsUnmapped, [Next]_vars
    PROVE  TrimsUnmapped'
  <1> SUFFICES ASSUME NEW v \in VAs, v \in trim'.ptes, IsStillTrimmed(pte'[v]), trim'.pc # "mark",
                      hw'[v] # None
               PROVE  FALSE
    BY DEF TrimsUnmapped
  <1>1. v \in trim.ptes /\ ~TrimMark(v)
    <2>1. TrimMark(v) => trim'.pc = "mark"
      BY DEF TrimMark, TrimmerAt, OInv, IInv, TypeOK, TrimType
    <2>2. QED
      BY <2>1, BatchSteps
  <1>2. ~TrimDisconnect
    BY <1>1, DisconnectUnmaps
  <1>3. trim.pc # "mark"
    BY <1>2, BatchSteps
  <1>4. IsStillTrimmed(pte[v])
    BY <1>1, TrimmedBack
  <1>5. hw[v] = None
    BY <1>1, <1>3, <1>4 DEF TrimsUnmapped
  <1>6. \A u \in Users : user[u].va = v => ~(MapPage(u) \/ RemapWritable(u))
    BY <1>4, FaultMaps
  <1>7. QED
    BY <1>2, <1>5, <1>6, MappingSteps

LEMMA StepUntouchedUnmapped ==
    ASSUME OInv, OInv', UntouchedUnmapped, [Next]_vars
    PROVE  UntouchedUnmapped'
  <1> USE DEF OInv, Owned
  <1> SUFFICES ASSUME NEW v \in VAs, Untouched(v)'
               PROVE  hw'[v] = None /\ v \notin trim'.ptes
    BY DEF UntouchedUnmapped
  <1>1. Untouched(v) /\ hw[v] = None /\ v \notin trim.ptes
    BY UntouchedBack DEF UntouchedUnmapped
  <1>2. \/ pte[v].format = "unused"
        \/ \E u \in Users : user[u].va = v /\ user[u].pc = "commit"
    BY <1>1 DEF Untouched
  <1>3. ASSUME NEW u \in Users, user[u].va = v, MapPage(u) \/ RemapWritable(u)
        PROVE  FALSE
    <2>1. user[u].pc \in ResolverPC /\ user[u].pc # "commit"
      BY <1>3, FaultMaps
    <2>2. pte[v].format # "unused"
      BY <1>3, <2>1, ResolversBusy
    <2>3. \A w \in Users : user[w].va = v => user[w].pc # "commit"
      BY <1>3, <2>1 DEF Handlers, ResolversApart, ResolverPC
    <2>4. QED
      BY <1>2, <2>2, <2>3
  <1>4. ~TrimMark(v)
    <2>1. ~IsStable(pte[v])
      BY <1>2, ResolversBusy DEF IsStable, ResolverPC
    <2>2. QED
      BY <2>1 DEF TrimMark
  <1>5. QED
    BY <1>1, <1>3, <1>4, MappingSteps, BatchSteps

----------------------------------------------------------------------------
(* Mappings: what is about to be stored to *)

LEMMA DirtyKept ==
    ASSUME OInv, [Next]_vars, NEW p \in Pages, NEW v \in VAs,
           page[p].status = "ACTIVE", page[p].pte = v,
           \A u \in Users : user[u].va = v => user[u].pc \notin ReadPC,
           Dirty(v, p)
    PROVE  Dirty(v, p)'
  BY ActiveSteps DEF ActiveStays

LEMMA WritableStays ==
    ASSUME OInv, Writables, [Next]_vars, NEW v \in VAs, NEW p,
           IsStable(pte[v]), pte[v].protections = "READWRITE", pte[v].frame = p
    PROVE  Dirty(v, p)'
  <1>1. p \in Pages /\ page[p].status = "ACTIVE" /\ page[p].pte = v
    BY Fields DEF OInv, Owned, Frames, PTEsNameFrames, IsStable
  <1>2. \A u \in Users : user[u].va = v => user[u].pc \notin ReadPC
    BY NobodyReads DEF IsStable
  <1>3. Dirty(v, p)
    BY DEF Writables
  <1>4. QED
    BY <1>1, <1>2, <1>3, DirtyKept

LEMMA StepWritables ==
    ASSUME OInv, Writables, Stores, [Next]_vars
    PROVE  Writables'
  <1> USE DEF OInv, Owned
  <1> SUFFICES ASSUME NEW v \in VAs, NEW p, p = pte'[v].frame,
                      IsStable(pte[v])', pte'[v].protections = "READWRITE"
               PROVE  Dirty(v, p)'
    BY DEF Writables
  <1>1. CASE pte'[v] = pte[v]
    BY <1>1, WritableStays DEF IsStable
  <1>2. CASE SetsAccessBit(v)
    <2>1. IsStable(pte[v]) /\ pte[v].protections = "READWRITE" /\ pte[v].frame = p
      BY <1>2, AccessBitSet DEF SetsAccessBit, IInv, TypeOK, IsStable
    <2>2. QED
      BY <2>1, WritableStays
  <1>3. CASE MarksStable(v)
    <2>1. IsStable(pte[v]) /\ pte[v].protections = "READWRITE" /\ pte[v].frame = p
      BY <1>3 DEF MarksStable, IsStable
    <2>2. QED
      BY <2>1, WritableStays
  <1>4. ASSUME NEW u \in Users, EndsFault(u, v)
        PROVE  Dirty(v, p)'
    <2>1. user[u].pc # "get_page"
      BY <1>4 DEF EndsFault, IsStable
    <2>2. /\ user[u].pc \in {"connect", "finish_valid"} /\ user[u].va = v
          /\ pte'[v] = Connected(u) /\ UNCHANGED <<page, raced, writer>>
      BY <1>4, <2>1 DEF EndsFault, ConnectPTE, FinishValidFault
    <2>3. user[u].page = p /\ user[u].writable
      BY <2>2 DEF Connected, Memory
    <2>4. Dirty(v, p)
      BY <2>2, <2>3 DEF Stores, StoreAhead, Handlers, ValidFaults
    <2>5. QED
      BY <2>2, <2>4 DEF Dirty
  <1>5. \A q \in Pages : ~Forced(v, q)
    BY ForcedFormat DEF IsStable
  <1>6. PTEChange(v)
    BY PTEChanges
  <1>7. QED
    BY <1>1, <1>2, <1>3, <1>4, <1>5, <1>6 DEF PTEChange, IsStable, Transition

\* While a fault is about to make its mapping only it changes the PTE.
LEMMA ConnectsAlone ==
    ASSUME OInv, [Next]_vars, NEW u \in Users, user[u].pc = "map", user'[u] = user[u],
           NEW v \in VAs, v = user[u].va, pte'[v].format = "memory"
    PROVE  pte[v].format = "memory"
  <1> USE DEF OInv, Owned
  <1>1. BeingReadIn(pte[v]) \/ pte[v].format \in {"transition", "memory"}
    BY DEF Handlers, Connections, ConnectPC
  <1>2. \A w \in Users : ~EndsFault(w, v)
    BY DEF EndsFault, Handlers, ResolversApart, ResolverPC, ValidPC, ConnectPC
  <1>3. \A q \in Pages : ~Forced(v, q)
    BY ForcedFormat
  <1>4. PTEChange(v)
    BY PTEChanges
  <1>5. QED
    BY <1>1, <1>2, <1>3, <1>4 DEF PTEChange, SetsAccessBit, MarksStable, IsStable

LEMMA StoresMoved ==
    ASSUME OInv, Writables, Stores, [Next]_vars, NEW u \in Users, FaultStep(u),
           NEW v \in VAs, v = user'[u].va, NEW p \in Pages, p = user'[u].page,
           StoreAhead(u)'
    PROVE  Dirty(v, p)'
  <1> USE DEF OInv, Owned
  <1>0. page \in [Pages -> Page] /\ user \in [Users -> UserType]
    BY DEF IInv, TypeOK
  <1>1. CASE BeginValidFault(u)
    <2>1. /\ user[u].va = v /\ pte[v].frame = p /\ IsStable(pte[v])
          /\ user'[u].pc = IF user[u].access = "WRITE" /\ pte[v].protections = "READ"
                           THEN "remap" ELSE "finish_valid"
          /\ user'[u].access = user[u].access
          /\ UNCHANGED <<page, raced, writer>>
      BY <1>0, <1>1 DEF BeginValidFault, UserType
    <2>2. pte[v].protections \notin {"READ", "NONE"}
      BY <2>1 DEF StoreAhead, Frames, PTEsNameFrames, IsStable
    <2>3. pte[v] \in MemoryPTE
      BY <2>1, MemoryFormat DEF IsStable, IInv, TypeOK
    <2>4. Dirty(v, p)
      BY <2>1, <2>2, <2>3 DEF Writables, MemoryPTE, Protections
    <2>5. QED
      BY <2>1, <2>4 DEF Dirty
  <1>2. CASE SetModified(u)
    <2>1. Moves(u, "finish_valid")
      BY <1>2, GotoMoves DEF SetModified, IInv
    <2>2. user[u].va = v /\ user[u].page = p
      BY <2>1 DEF Moves
    <2>3. /\ page'[p].modified /\ page'[p].pagefile_idx = page[p].pagefile_idx
          /\ page[p].pagefile_idx # None => v \in raced'
      BY <1>0, <1>2, <2>2 DEF SetModified, Page
    <2>4. QED
      BY <2>3 DEF Dirty
  <1>3. CASE CommitPage(u)
    <2>1. Moves(u, "map") /\ user[u].pc = "commit" /\ writer' = writer
      BY <1>3, GotoMoves DEF CommitPage, At, IInv
    <2>2. user[u].va = v /\ user[u].page = p /\ user'[u].access = user[u].access
          /\ user'[u].pc = "map"
      BY <2>1 DEF Moves
    <2>3. pte'[v] = pte[v]
      BY <1>3, <2>2, CommitPagePTEs
    <2>4. user[u].access = "WRITE" \/ pte[v].format = "memory"
      BY <2>2, <2>3 DEF StoreAhead
    <2>5. page'[p].pagefile_idx = None /\ (user[u].access = "WRITE" => page'[p].modified)
      BY <1>0, <1>3, <2>2, <2>4 DEF CommitPage, Page
    <2>6. pte[v].format = "memory" => p \notin writer.batch
      BY <2>1, <2>2 DEF Handlers, Rescues, Frames, WriterBatch
    <2>7. QED
      BY <2>1, <2>4, <2>5, <2>6 DEF Dirty
  <1>4. CASE EndOfFaultDiskSlot(u)
    <2>1. Moves(u, "map") /\ user[u].pc = "end_slot" /\ UNCHANGED <<pte, writer>>
      BY <1>4, GotoMoves DEF EndOfFaultDiskSlot, At, IInv
    <2>2. user[u].va = v /\ user[u].page = p /\ user'[u].access = user[u].access
          /\ user'[u].pc = "map"
      BY <2>1 DEF Moves
    <2>3. pte[v].format = "disk" /\ p \notin writer.batch
      BY <2>1, <2>2 DEF Handlers, Connections, ReadPC, ConnectPC
    <2>4. user[u].access = "WRITE"
      BY <2>1, <2>2, <2>3 DEF StoreAhead
    <2>5. page'[p].pagefile_idx = None
      BY <1>0, <1>4, <2>2, <2>4 DEF EndOfFaultDiskSlot, Page
    <2>6. QED
      BY <2>1, <2>3, <2>5 DEF Dirty
  <1>5. CASE MapPage(u)
    <2>1. /\ user[u].pc = "map" /\ user[u].va = v /\ user[u].page = p /\ user'[u].pc = "connect"
          /\ user'[u].writable = (user[u].access = "WRITE" \/ pte[v].format = "memory")
          /\ UNCHANGED <<page, raced, writer>>
      BY <1>0, <1>5 DEF MapPage, At, UserType
    <2>2. Dirty(v, p)
      BY <2>1 DEF StoreAhead, Stores
    <2>3. QED
      BY <2>1, <2>2 DEF Dirty
  <1>6. user'[u].pc \in {"finish_valid", "map", "connect"}
    BY DEF StoreAhead
  <1>7. QED
    BY <1>1, <1>2, <1>3, <1>4, <1>5, <1>6, StepTo

LEMMA StepStores ==
    ASSUME OInv, OInv', Writables, Stores, [Next]_vars
    PROVE  Stores'
  <1> USE DEF OInv, Owned
  <1> SUFFICES ASSUME NEW u \in Users, StoreAhead(u)',
                      NEW v, v = user'[u].va, NEW p, p = user'[u].page
               PROVE  Dirty(v, p)'
    BY DEF Stores
  <1>1. v \in VAs /\ p \in Pages
    <2>1. user'[u].pc \in FramePC
      BY DEF StoreAhead, FramePC
    <2>2. QED
      BY <2>1 DEF IInv, TypeOK, UserType, FramesChosen
  <1>2. CASE user'[u] = user[u]
    <2>1. user[u].pc \in {"finish_valid", "map", "connect"} /\ user[u].va = v /\ user[u].page = p
      BY <1>2 DEF StoreAhead
    <2>2. StoreAhead(u)
      BY <1>1, <1>2, <2>1, ConnectsAlone DEF StoreAhead
    <2>3. page[p].status = "ACTIVE" /\ page[p].pte = v
      BY <2>1 DEF Handlers, ValidFaults, Connections, ValidPC, ConnectPC
    <2>4. \A w \in Users : user[w].va = v => user[w].pc \notin ReadPC
      BY <2>1 DEF Handlers, ResolversApart, ResolverPC, ValidPC, ReadPC, ConnectPC
    <2>5. Dirty(v, p)
      BY <2>1, <2>2 DEF Stores
    <2>6. QED
      BY <1>1, <2>3, <2>4, <2>5, DirtyKept
  <1>3. CASE FaultStep(u)
    BY <1>1, <1>3, StoresMoved
  <1>4. \A va \in VAs, access \in Accesses : ~UserFault(u, va, access)
    <2> SUFFICES ASSUME NEW va \in VAs, NEW access \in Accesses, UserFault(u, va, access)
                 PROVE  FALSE
      OBVIOUS
    <2>1. user'[u].pc = "faulted"
      BY DEF UserFault, IInv, TypeOK, UserType
    <2>2. QED
      BY <2>1 DEF StoreAhead
  <1>5. QED
    BY <1>2, <1>3, <1>4, UserSteps

----------------------------------------------------------------------------
(* The invariant *)

LEMMA InitContents == Init => CInv
  <1> SUFFICES ASSUME Init PROVE Contents /\ Mappings
    BY InitSlots DEF CInv
  <1>1. /\ \A v \in VAs : pte[v].format = "unused" /\ hw[v] = None
        /\ \A u \in Users : user[u].pc = "idle"
        /\ trim.ptes = {}
    BY DEF Init, NoBatch, Unused, IdleUser
  <1>2. /\ \A p \in Pages : page[p].pte = None /\ holds[p] = Zero
        /\ \A q \in Places : holds[q] \in {Zero, None}
    BY DEF Init, Places
  <1>3. Zero \notin VAs /\ None \notin VAs
    BY ConstantsAssumption DEF VAs
  <1>4. FramesHold /\ UntouchedHold
    BY <1>2, <1>3 DEF FramesHold, UntouchedHold
  <1>5. SlotsHold
    <2>1. /\ \A p \in Pages : FrameSlot(p) = None /\ WriteSlot(p) = None
          /\ \A v \in VAs : PTESlot(v) = None
      BY <1>1 DEF Init, FrameSlot, WriteSlot, PTESlot
    <2>2. \A s \in Slots, v \in VAs : ~Copy(s, v)
      BY <2>1, PlacesApart DEF Copy, FrameCopy, WriteCopy, PTECopy
    <2>3. QED
      BY <2>2 DEF SlotsHold
  <1>6. Mapped /\ TrimsUnmapped /\ UntouchedUnmapped
    BY <1>1 DEF Mapped, TrimsUnmapped, UntouchedUnmapped
  <1>7. Writables /\ Stores
    BY <1>1 DEF Writables, Stores, StoreAhead, IsStable
  <1>8. QED
    BY <1>4, <1>5, <1>6, <1>7 DEF Contents, Mappings

LEMMA StepCInv ==
    ASSUME CInv, OInv', [Next]_vars
    PROVE  CInv'
  <1>1. SInv'
    BY StepSlots DEF CInv, SInv
  <1>2. Contents'
    BY StepContents
  <1>3. Mapped' /\ TrimsUnmapped' /\ UntouchedUnmapped'
    BY StepMapped, StepTrimsUnmapped, StepUntouchedUnmapped DEF CInv, SInv, Mappings
  <1>4. Writables' /\ Stores'
    BY StepWritables, StepStores DEF CInv, SInv, Mappings
  <1>5. QED
    BY <1>1, <1>2, <1>3, <1>4 DEF CInv, Mappings

----------------------------------------------------------------------------
(* What the contents say of the properties the runs check *)

\* A frame that is named by its VA's PTE, or shown by its VA's mapping, holds
\* its bytes.
LEMMA FrameContent ==
    ASSUME CInv, NEW v \in VAs, NEW p \in Pages, page[p].pte = v,
           \/ pte[v].format \in {"memory", "transition"}
           \/ \E u \in Users : user[u].va = v /\ user[u].pc = "connect"
    PROVE  holds[p] = v
  <1> USE DEF CInv, SInv, OInv, Owned
  <1>1. v # None
    BY Fields
  <1>2. ~ReadingIn(p)
    <2> SUFFICES ASSUME NEW u \in Users, user[u].page = p, user[u].pc = "read_disk"
                 PROVE  FALSE
      BY DEF ReadingIn
    <2>1. user[u].va = v /\ pte[v].format = "disk"
      BY DEF Handlers, Connections, ReadPC, ConnectPC
    <2>2. QED
      BY <2>1, NobodyReads DEF ReadPC, ConnectPC
  <1>3. QED
    BY <1>1, <1>2 DEF Contents, FramesHold

LEMMA ContentsNoLoss == CInv => NoDataLoss
  <1> USE DEF CInv, SInv, OInv, Owned
  <1> SUFFICES ASSUME CInv, NEW v \in VAs \ raced
               PROVE  LET e == pte[v] IN
                      /\ e.format = "memory" /\ ~e.being_changed => holds[e.frame] = v
                      /\ e.format = "transition" => holds[e.frame] = v
                      /\ e.format = "disk" /\ ~e.being_read => holds[e.pagefile_idx] = v
    BY DEF NoDataLoss
  <1>1. CASE pte[v].format = "transition" \/ (pte[v].format = "memory" /\ ~pte[v].being_changed)
    <2>1. pte[v].frame \in Pages /\ page[pte[v].frame].pte = v
      BY <1>1, Fields DEF Frames, PTEsNameFrames
    <2>2. holds[pte[v].frame] = v
      BY <1>1, <2>1, FrameContent
    <2>3. QED
      BY <1>1, <2>2
  <1>2. CASE pte[v].format = "disk" /\ ~pte[v].being_read
    <2>1. ~Resolving(v)
      BY <1>2 DEF Resolving, Handlers, Connections, ConnectPC
    <2>2. PTESlot(v) = pte[v].pagefile_idx /\ pte[v].pagefile_idx \in Slots
      BY <1>2, <2>1 DEF PTESlot, SlotInv, DiskPTEsHaveSlots
    <2>3. Copy(pte[v].pagefile_idx, v)
      BY <2>2 DEF Copy, PTECopy
    <2>4. QED
      BY <1>2, <2>2, <2>3 DEF Contents, SlotsHold
  <1>3. QED
    BY <1>1, <1>2

LEMMA MappingsShow == CInv => MappingsCurrent
  <1> SUFFICES ASSUME CInv, NEW v \in VAs \ (raced \cup trim.ptes), hw[v] # None
               PROVE  holds[hw[v].frame] = v
    BY DEF MappingsCurrent
  <1>1. MapsFrame(v)
    BY DEF CInv, Mappings, Mapped, MapsStale
  <1>2. hw[v].frame \in Pages
    BY DEF CInv, SInv, OInv, IInv, TypeOK, Mapping
  <1>3. QED
    BY <1>1, <1>2, FrameContent DEF MapsFrame

LEMMA StableOwn == CInv => StablePTEsOwnActiveFrames
  <1> SUFFICES ASSUME CInv, NEW v \in VAs, IsStable(pte[v])
               PROVE  LET p == pte[v].frame IN
                      /\ page[p].status = "ACTIVE"
                      /\ page[p].pte = v
                      /\ pte[v].protections # "NONE"
                      /\ pte[v].protections = "READWRITE" /\ v \notin raced
                            => page[p].pagefile_idx = None
    BY DEF StablePTEsOwnActiveFrames
  <1>1. /\ page[pte[v].frame].status = "ACTIVE"
        /\ page[pte[v].frame].pte = v
        /\ pte[v].protections # "NONE"
    BY DEF CInv, SInv, OInv, Owned, Frames, PTEsNameFrames, IsStable
  <1>2. pte[v].protections = "READWRITE" => Dirty(v, pte[v].frame)
    BY DEF CInv, Mappings, Writables
  <1>3. QED
    BY <1>1, <1>2 DEF Dirty

LEMMA ListsAgree == CInv => ListsConsistent
  <1> USE DEF CInv, SInv, OInv, Owned
  <1> SUFFICES ASSUME CInv, NEW p \in Pages
               PROVE  /\ list[p] = "available" =>
                            /\ page[p].status \in {"ZERO", "FREE"} /\ page[p].pte = None
                            /\ page[p].status = "ZERO" => holds[p] = Zero
                      /\ list[p] = "modified" =>
                            page[p].status = "MODIFIED" /\ page[p].pagefile_idx = None
                      /\ list[p] = "standby" =>
                            /\ page[p].status = "STANDBY"
                            /\ page[p].pagefile_idx \in used
                            /\ page[p].pte \notin raced =>
                                  holds[page[p].pagefile_idx] = page[p].pte
    BY DEF ListsConsistent
  <1>1. CASE list[p] = "available"
    BY <1>1, ConstantsAssumption DEF Frames, Lists, FramesNamePTEs, Contents, FramesHold
  <1>2. CASE list[p] = "modified"
    BY <1>2, ConstantsAssumption DEF Frames, Lists, SlotsOfFrames
  <1>3. CASE list[p] = "standby"
    <2>1. /\ page[p].status = "STANDBY" /\ page[p].pagefile_idx \in Slots
          /\ page[p].pte \in VAs
      BY <1>3, Fields DEF Frames, Lists, SlotsOfFrames
    <2>2. FrameSlot(p) = page[p].pagefile_idx
      BY <2>1, Readers DEF FrameSlot
    <2>3. page[p].pagefile_idx \in used
      BY <2>1, <2>2 DEF SlotInv, SlotsInUse
    <2>4. ~Changing(page[p].pte)
      <3> SUFFICES ASSUME NEW u \in Users, user[u].va = page[p].pte,
                          user[u].pc \in {"drop_slot", "set_modified"}
                   PROVE  FALSE
        BY DEF Changing
      <3>1. /\ user[u].page \in Pages /\ page[user[u].page].status = "ACTIVE"
            /\ page[user[u].page].pte = page[p].pte
        BY ChangingFrames DEF ValidPC
      <3>2. QED
        BY <2>1, <3>1, NamedOnce, Fields
    <2>5. page[p].pte \notin raced => holds[page[p].pagefile_idx] = page[p].pte
      BY <2>1, <2>2, <2>4 DEF Contents, SlotsHold, Copy, FrameCopy
    <2>6. QED
      BY <1>3, <2>1, <2>3, <2>5
  <1>4. QED
    BY <1>1, <1>2, <1>3

LEMMA FramesAsserted == CInv => FrameAssertions
  <1> USE DEF CInv, SInv, OInv, Owned
  <1> SUFFICES ASSUME CInv PROVE FrameAssertions
    OBVIOUS
  <1>1. ASSUME NEW u \in Users, user[u].pc \in {"commit", "commit_disk"}
        PROVE  page[user[u].page].status # "ACTIVE"
    BY <1>1 DEF Handlers, Claims, Rescues
  <1>2. ASSUME NEW u \in Users, user[u].pc = "finish_valid"
        PROVE  /\ page[user[u].page].status = "ACTIVE"
               /\ pte[user[u].va].format = "memory"
               /\ user[u].access = "WRITE" /\ user[u].va \notin raced
                     => page[user[u].page].pagefile_idx = None
    <2>1. user[u].access = "WRITE" => Dirty(user[u].va, user[u].page)
      BY <1>2 DEF Mappings, Stores, StoreAhead
    <2>2. QED
      BY <1>2, <2>1, ChangingFrames DEF ValidPC, Dirty
  <1>3. \A p \in Pages : p \in writer.batch => page[p].pagefile_idx = None
    BY DEF Frames, WriterBatch
  <1>4. writer.batch \subseteq Pages
    BY DEF IInv, TypeOK, WriterType
  <1>5. QED
    BY <1>1, <1>2, <1>3, <1>4 DEF FrameAssertions

----------------------------------------------------------------------------
(* The theorems *)

\* Contents, mappings and what is dirty agree as long as no rescue is a half
\* rescue.
THEOREM ContentInvariance == Spec /\ []RescuesInTransition => []CInv
  <1>1. Init => CInv
    BY InitContents
  <1>2. CInv /\ OInv' /\ [Next]_vars => CInv'
    BY StepCInv
  <1>3. Spec /\ []RescuesInTransition => []OInv
    BY Ownership
  <1>4. QED
    BY <1>1, <1>2, <1>3, PTL DEF Spec

\* README.md:7, "without any loss of data": a PTE leads to its VA's bytes, but
\* for VAs whose store raced with the modified writer.
THEOREM DataKept == Spec /\ []RescuesInTransition => []NoDataLoss
  BY ContentInvariance, ContentsNoLoss, PTL

\* vm1.c:318: what is read through a mapping is the VA's own current bytes.
THEOREM ReadsCurrent == Spec /\ []RescuesInTransition => []MappingsCurrent
  BY ContentInvariance, MappingsShow, PTL

\* A PTE that may be worked on names an active frame that names it back and has
\* no slot if it may be stored to (pagefault.c:316, 319).
THEOREM StableFrames == Spec /\ []RescuesInTransition => []StablePTEsOwnActiveFrames
  BY ContentInvariance, StableOwn, PTL

\* Frames are on the lists their statuses name; a standby frame has a slot in
\* use that holds its VA's bytes (trim.c:824, pagelist_operations.c:1472).
THEOREM ListConsistency == Spec /\ []RescuesInTransition => []ListsConsistent
  BY ContentInvariance, ListsAgree, PTL

\* The assertions of commit_pages, of the valid fault's end and of the writer's
\* completion (trim.c:933) hold.
THEOREM Assertions == Spec /\ []RescuesInTransition => []FrameAssertions
  BY ContentInvariance, FramesAsserted, PTL

=============================================================================
