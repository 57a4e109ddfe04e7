---------------------- MODULE VirtualMemoryFrameProofs ----------------------
(***************************************************************************)
(* Who has a frame: proofs about the page state machine as long as rescued *)
(* frames are committed in transition format (RescuesInTransition, what    *)
(* pagefault.c:127 asks for).                                              *)
(***************************************************************************)
EXTENDS VirtualMemoryProofs

\* Where a handler has the right to change the PTE of its VA.
ValidPC == {"remap", "drop_slot", "set_modified", "finish_valid"}
ReadPC == {"read_disk", "end_slot"}
ConnectPC == {"map", "connect"}
ResolverPC == ValidPC \cup ReadPC \cup ConnectPC
                 \cup {"await_trim", "commit", "get_page", "commit_disk"}

\* Frames that may be taken for another VA, and frames that may be rescued.
Spare == {"ZERO", "FREE", "STANDBY"}
Listable == {"MODIFIED", "STANDBY"}

\* What a handler finds in its VA's PTE.
InTransition(e, p) == e.format = "transition" /\ e.frame = p
BeingChanged(e, p) == e.format = "memory" /\ e.being_changed /\ e.frame = p
BeingTrimmed(e, p) == IsStillTrimmed(e) /\ e.frame = p
BeingReadIn(e) == e.format = "disk" /\ e.being_read

\* One handler at a time resolves a VA.
ResolversApart ==
    \A u, w \in Users :
        /\ user[u].pc \in ResolverPC
        /\ user[w].pc \in ResolverPC
        /\ user[u].va = user[w].va
        => u = w

\* A fault on a valid PTE has the PTE, and the frame stays its VA's.
ValidFaults ==
    \A u \in Users :
        /\ user[u].pc \in ValidPC =>
              /\ BeingChanged(pte[user[u].va], user[u].page)
              /\ ~pte[user[u].va].being_trimmed
              /\ page[user[u].page].status = "ACTIVE"
              /\ page[user[u].page].pte = user[u].va
        /\ user[u].pc \in {"remap", "drop_slot", "set_modified"} =>
              user[u].access = "WRITE" /\ user[u].writable
        /\ user[u].pc = "finish_valid" =>
              (user[u].writable <=> user[u].access = "WRITE")

\* A frame taken for a VA is nobody's or repurposed.
Claims ==
    \A u \in Users :
        /\ user[u].pc \in {"claim", "commit_disk"} =>
              page[user[u].page].status \in Spare
        /\ user[u].pc \in {"get_page", "commit_disk"} =>
              BeingReadIn(pte[user[u].va])

\* A frame that is rescued is its VA's.
Rescues ==
    \A u \in Users :
        /\ user[u].pc = "await_trim" =>
              /\ \/ InTransition(pte[user[u].va], user[u].page)
                 \/ BeingTrimmed(pte[user[u].va], user[u].page)
              /\ page[user[u].page].status \in Listable
              /\ page[user[u].page].pte = user[u].va
        /\ user[u].pc = "commit" =>
              \/ /\ BeingChanged(pte[user[u].va], user[u].page)
                 /\ page[user[u].page].status \in Spare
              \/ /\ InTransition(pte[user[u].va], user[u].page)
                 /\ page[user[u].page].status \in Listable
                 /\ page[user[u].page].pte = user[u].va

\* From its commitment to its connection a frame is active without its PTE.
Connections ==
    \A u \in Users :
        user[u].pc \in ReadPC \cup ConnectPC =>
            /\ page[user[u].page].status = "ACTIVE"
            /\ page[user[u].page].pte = user[u].va
            /\ user[u].pc \in ReadPC => user[u].page \notin writer.batch
            /\ \/ BeingReadIn(pte[user[u].va])
               \/ /\ user[u].pc \in ConnectPC
                  /\ \/ InTransition(pte[user[u].va], user[u].page)
                     \/ BeingChanged(pte[user[u].va], user[u].page)

\* The handlers that have the right to change v's PTE and make it name p.
Changer(u, v, p) ==
    /\ user[u].va = v /\ user[u].page = p
    /\ user[u].pc \in ValidPC \cup ConnectPC \cup {"commit"}
Connector(u, v, p) ==
    user[u].va = v /\ user[u].page = p /\ user[u].pc \in ConnectPC
Reader(u, v, p) ==
    user[u].va = v /\ user[u].page = p /\ user[u].pc \in ReadPC \cup ConnectPC

\* A frame names the VA whose PTE leads to it.
FramesNamePTEs ==
    \A p \in Pages :
        LET v == page[p].pte IN
        /\ page[p].status \in {"ZERO", "FREE"} <=> v = None
        /\ page[p].status \in Listable =>
              InTransition(pte[v], p) \/ BeingTrimmed(pte[v], p)
        /\ page[p].status = "ACTIVE" =>
              \/ pte[v].format = "memory" /\ pte[v].frame = p
              \/ \E u \in Users : Reader(u, v, p)

\* The frames the trimmer has yet to take out of use.
Unchained(t) ==
    (IF t.pc \in {"mark", "chain_modified"} THEN t.to_modified ELSE {})
    \cup (IF t.pc \in {"mark", "chain_modified", "insert_modified", "chain_standby"}
          THEN t.to_standby ELSE {})
    \cup {t.page}

\* And a PTE leads to the frame that names its VA.
PTEsNameFrames ==
    \A v \in VAs :
        LET e == pte[v] IN
        /\ e.format = "memory" /\ ~e.being_changed =>
              /\ page[e.frame].pte = v
              /\ e.protections # "NONE"
              /\ e.being_trimmed =>
                    /\ v \in trim.ptes
                    /\ page[e.frame].status = "ACTIVE" => e.frame \in Unchained(trim)
              /\ ~e.being_trimmed => page[e.frame].status = "ACTIVE"
        /\ e.format = "memory" /\ e.being_changed =>
              \E u \in Users : Changer(u, v, e.frame)
        /\ e.format = "transition" =>
              /\ page[e.frame].pte = v
              /\ \/ page[e.frame].status \in Listable
                 \/ /\ page[e.frame].status = "ACTIVE"
                    /\ \E u \in Users : Connector(u, v, e.frame)

\* Nobody has the frame under its lock: a late rescuer that has yet to check
\* it may hold the lock, and has no claim to the frame.
Untaken(p) ==
    pageLock[p] = None \/ (pageLock[p] \in Users /\ user[pageLock[p]].pc = "check")

\* Lists, statuses and locks agree.
Lists ==
    \A p \in Pages :
        /\ list[p] = "available" => page[p].status \in {"ZERO", "FREE"}
        /\ list[p] = "modified" => page[p].status = "MODIFIED" /\ ~InFlight(p)
        /\ list[p] = "standby" => page[p].status = "STANDBY"
        /\ list[p] # None => Untaken(p)
        /\ p \in refreshing => page[p].status = "STANDBY"

\* A frame off the lists is in use, or in somebody's hands.
OffLists ==
    \A p \in Pages :
        list[p] = None /\ Untaken(p) =>
            \/ page[p].status = "ACTIVE"
            \/ page[p].status = "MODIFIED" /\ InFlight(p)
            \/ /\ page[p].status = "MODIFIED"
               /\ p \in trim.to_modified /\ trim.pc = "insert_modified"
            \/ /\ page[p].status = "STANDBY"
               /\ p \in trim.to_standby /\ trim.pc = "insert_standby"

\* The writer's batch is what is being written, and has no slots yet.
WriterBatch ==
    /\ \A p \in Pages :
          /\ p \in writer.batch <=> page[p].writing_to_disk
          /\ p \in writer.batch => /\ page[p].status \in {"ACTIVE", "MODIFIED"}
                                   /\ page[p].pagefile_idx = None
          /\ p \in writer.confirmed => /\ page[p].status = "MODIFIED"
                                       /\ ~page[p].modified
                                       /\ p \notin writer.batch
          /\ writer.slot[p] # None => p \in writer.batch \cup writer.confirmed
          /\ writer.pc = "complete" /\ p \in writer.batch \cup writer.confirmed
                => writer.slot[p] # None
          /\ writer.pc = "pop" => writer.slot[p] = None
    /\ writer.pc = "pop" => writer.confirmed = {}

\* Modified frames have no slot, standby frames have one.
SlotsOfFrames ==
    \A p \in Pages :
        /\ page[p].status = "MODIFIED" => page[p].pagefile_idx = None
        /\ page[p].status = "STANDBY" => page[p].pagefile_idx # None

\* Until the trimmer has listed its frames nobody else has them.
Unlisted(p, status, pc) ==
    /\ BeingTrimmed(pte[page[p].pte], p)
    /\ trim.pc # pc => page[p].status = "ACTIVE"
    /\ trim.pc = pc => /\ page[p].status = status
                       /\ ~corrupted => list[p] = None /\ Untaken(p)
TrimBatch ==
    \A p \in Pages :
        /\ p = trim.page => /\ trim.pc = "mark"
                           /\ BeingTrimmed(pte[page[p].pte], p)
                           /\ page[p].status = "ACTIVE"
        /\ /\ p \in trim.to_modified
           /\ trim.pc \in {"mark", "chain_modified", "insert_modified"}
           => /\ Unlisted(p, "MODIFIED", "insert_modified")
              /\ page[p].pagefile_idx = None
              /\ ~InFlight(p)
        /\ p \in trim.to_standby /\ trim.pc # "edit" =>
              /\ Unlisted(p, "STANDBY", "insert_standby")
              /\ page[p].pagefile_idx # None

Handlers == ResolversApart /\ ValidFaults /\ Claims /\ Rescues /\ Connections
Frames == FramesNamePTEs /\ PTEsNameFrames /\ Lists /\ OffLists
             /\ WriterBatch /\ SlotsOfFrames /\ TrimBatch
Owned == Handlers /\ Frames
OInv == IInv /\ Owned

----------------------------------------------------------------------------
(* What steps do, field by field *)

\* The handler u goes on to l.
Moves(u, l) ==
    \A w \in Users :
        /\ user'[w].pc = IF w = u THEN l ELSE user[w].pc
        /\ user'[w].va = user[w].va
        /\ user'[w].page = user[w].page
        /\ user'[w].access = user[w].access
        /\ user'[w].writable = user[w].writable

\* The handler u goes on to l with frame p.
MovesWith(u, l, p) ==
    \A w \in Users :
        /\ user'[w].pc = IF w = u THEN l ELSE user[w].pc
        /\ user'[w].va = user[w].va
        /\ user'[w].page = IF w = u THEN p ELSE user[w].page
        /\ user'[w].access = user[w].access
        /\ user'[w].writable = user[w].writable

\* The access is over, or to be tried again.
Ends(u) ==
    /\ user'[u].pc = "idle"
    /\ \A w \in Users \ {u} : user'[w] = user[w]

LEMMA GotoMoves ==
    ASSUME TypeOK, NEW u \in Users, NEW l, Goto(u, l)
    PROVE  Moves(u, l)
  BY DEF TypeOK, UserType, Goto, Moves

LEMMA AllocateMoves ==
    ASSUME TypeOK, NEW u \in Users, NEW p \in Pages, NEW l, Allocate(u, p, l)
    PROVE  MovesWith(u, l, p)
  BY DEF TypeOK, UserType, Allocate, MovesWith

LEMMA BackToUserEnds ==
    ASSUME TypeOK, NEW u \in Users, BackToUser(u)
    PROVE  Ends(u)
  BY IdleTyped DEF TypeOK, BackToUser, Ends

\* Access bits apart, no PTE changes.
AccessBits ==
    \A v \in VAs :
        \/ pte'[v] = pte[v]
        \/ /\ pte[v].format = "memory"
           /\ pte'[v].format = "memory"
           /\ pte'[v].frame = pte[v].frame
           /\ pte'[v].protections = pte[v].protections
           /\ pte'[v].being_changed = pte[v].being_changed
           /\ pte'[v].being_trimmed = pte[v].being_trimmed

LEMMA AccessBitSet ==
    ASSUME NEW e \in PTE, e.format = "memory", NEW b \in BOOLEAN
    PROVE  LET f == [e EXCEPT !.access_bit = b]
           IN  /\ f.format = "memory"
               /\ f.frame = e.frame
               /\ f.protections = e.protections
               /\ f.being_changed = e.being_changed
               /\ f.being_trimmed = e.being_trimmed
  BY MemoryFormat DEF MemoryPTE

LEMMA AccessBitSteps ==
    ASSUME TypeOK,
           \/ \E u \in Users, va \in VAs : UserSetAccessBit(u, va)
           \/ \E va \in VAs : TrimClearAccessBit(va)
           \/ \E u \in Users : SpeculateAccessBits(u)
    PROVE  AccessBits
  <1>1. ASSUME NEW u \in Users, NEW va \in VAs, UserSetAccessBit(u, va)
        PROVE  AccessBits
    BY <1>1, AccessBitSet DEF TypeOK, AccessBits, UserSetAccessBit
  <1>2. ASSUME NEW va \in VAs, TrimClearAccessBit(va)
        PROVE  AccessBits
    BY <1>2, AccessBitSet DEF TypeOK, AccessBits, TrimClearAccessBit, IsStable
  <1>3. ASSUME NEW u \in Users, SpeculateAccessBits(u)
        PROVE  AccessBits
    BY <1>3, AccessBitSet DEF TypeOK, AccessBits, SpeculateAccessBits
  <1>4. QED
    BY <1>1, <1>2, <1>3

\* No PTE but va's changes.
OnlyPTE(va) == \A v \in VAs \ {va} : pte'[v] = pte[v]

----------------------------------------------------------------------------
USE DEF InTransition, BeingChanged, BeingTrimmed, BeingReadIn, IsStillTrimmed,
        InFlight, Unlisted, Untaken, Spare, Listable, Released

\* What the types say of the fields.
LEMMA Fields ==
    ASSUME OInv
    PROVE  /\ \A p \in Pages :
                 /\ page[p].status \in Statuses
                 /\ page[p].pte \in VAs \cup {None}
                 /\ page[p].status \notin {"ZERO", "FREE"} => page[p].pte \in VAs
                 /\ page[p].pagefile_idx \in Slots \cup {None}
           /\ \A v \in VAs :
                 pte[v].format \in {"memory", "transition"} => pte[v].frame \in Pages
           /\ \A u \in Users : user[u].va \in VAs
           /\ \A u \in Users : user[u].pc \in FramePC => user[u].page \in Pages
           /\ None \notin VAs
  <1>1. \A p \in Pages : page[p].status \in Statuses
                         /\ page[p].pte \in VAs \cup {None}
                         /\ page[p].pagefile_idx \in Slots \cup {None}
    BY DEF OInv, IInv, TypeOK, Page
  <1>2. \A v \in VAs :
           pte[v].format \in {"memory", "transition"} => pte[v].frame \in Pages
    BY MemoryFormat, TransitionFormat DEF OInv, IInv, TypeOK
  <1>3. \A u \in Users : user[u].va \in VAs
    BY DEF OInv, IInv, TypeOK, UserType
  <1>4. None \notin VAs
    BY ConstantsAssumption DEF VAs
  <1>5. QED
    BY <1>1, <1>2, <1>3, <1>4 DEF OInv, IInv, Owned, Frames, FramesNamePTEs, FramesChosen

\* Where a handler has a frame or a right.
WorkPC == ResolverPC \cup {"claim"}

\* Steps of handlers that have neither, and the setting of access bits, disturb
\* nobody.
LEMMA UntakenOwned ==
    ASSUME OInv, AccessBits,
           \A w \in Users : \/ user'[w] = user[w]
                            \/ user[w].pc \notin WorkPC /\ user'[w].pc \notin WorkPC,
           \A q \in Pages : Untaken(q)' <=> Untaken(q),
           UNCHANGED <<page, list, trim, writer, refreshing>>,
           corrupted => corrupted'
    PROVE  Owned'
  <1> USE DEF OInv, Owned
  <1>1. \A w \in Users : user[w].pc \in WorkPC \/ user'[w].pc \in WorkPC
                            => user'[w] = user[w]
    OBVIOUS
  <1>3. Handlers'
    <2>2. QED
      BY <1>1, Fields DEF AccessBits, Handlers, ResolversApart, ValidFaults, Claims,
         Rescues, Connections, WorkPC, ResolverPC, ValidPC, ReadPC, ConnectPC
  <1>4. FramesNamePTEs'
    <2>1. \A w \in Users : \A v, p : Reader(w, v, p) => Reader(w, v, p)'
      BY <1>1 DEF WorkPC, ResolverPC, Reader, Changer, Connector
    <2>2. QED
      BY <2>1, Fields DEF AccessBits, Frames, FramesNamePTEs
  <1>5. PTEsNameFrames'
    <2>1. \A w \in Users : \A v, p : /\ Changer(w, v, p) => Changer(w, v, p)'
                                     /\ Connector(w, v, p) => Connector(w, v, p)'
      BY <1>1 DEF WorkPC, ResolverPC, Reader, Changer, Connector
    <2>2. QED
      BY <2>1, Fields DEF AccessBits, Frames, PTEsNameFrames
  <1>6. (Lists /\ OffLists /\ WriterBatch /\ SlotsOfFrames)'
    BY DEF Frames, Lists, OffLists, WriterBatch, SlotsOfFrames
  <1>7. TrimBatch'
    BY Fields DEF AccessBits, Frames, FramesNamePTEs, TrimBatch
  <1>8. QED
    BY <1>3, <1>4, <1>5, <1>6, <1>7 DEF Frames

\* So do they if no lock is taken or let go.
LEMMA QuietOwned ==
    ASSUME OInv, AccessBits,
           \A w \in Users : \/ user'[w] = user[w]
                            \/ /\ user[w].pc \notin WorkPC \cup {"check"}
                               /\ user'[w].pc \notin WorkPC \cup {"check"},
           UNCHANGED <<page, pageLock, list, trim, writer, refreshing>>,
           corrupted => corrupted'
    PROVE  Owned'
  <1>1. \A w \in Users : user'[w].pc = "check" <=> user[w].pc = "check"
    OBVIOUS
  <1>2. \A q \in Pages : Untaken(q)' <=> Untaken(q)
    BY <1>1
  <1>3. \A w \in Users : \/ user'[w] = user[w]
                         \/ user[w].pc \notin WorkPC /\ user'[w].pc \notin WorkPC
    OBVIOUS
  <1>4. QED
    BY <1>2, <1>3, UntakenOwned

\* The PTE of a VA that a handler resolves is not one a fault may begin on.
LEMMA ResolversBusy ==
    ASSUME OInv, NEW u \in Users, user[u].pc \in ResolverPC
    PROVE  LET e == pte[user[u].va]
           IN  ~IsStable(e) /\ e.format # "unused" /\ ~(e.format = "disk" /\ ~e.being_read)
  BY DEF OInv, Owned, Handlers, ValidFaults, Claims, Rescues, Connections,
     ResolverPC, ReadPC, ConnectPC, IsStable

----------------------------------------------------------------------------
(* Faults on valid PTEs *)

LEMMA BeginValidFaultOwned ==
    ASSUME OInv, NEW u \in Users, BeginValidFault(u)
    PROVE  Owned'
  <1> DEFINE va == user[u].va
             p == pte[va].frame
  <1> USE DEF OInv, Owned
  <1>1. /\ user[u].pc = "faulted" /\ IsStable(pte[va]) /\ va \in VAs
        /\ UNCHANGED <<page, pageLock, list, trim, writer, refreshing, corrupted>>
    BY Fields DEF BeginValidFault, At
  <1>2. /\ pte'[va].format = "memory" /\ pte'[va].frame = p
        /\ pte'[va].being_changed /\ ~pte'[va].being_trimmed
        /\ OnlyPTE(va)
    <2>1. pte'[va] = [pte[va] EXCEPT !.being_changed = TRUE] /\ OnlyPTE(va)
      BY <1>1 DEF BeginValidFault, IInv, TypeOK, OnlyPTE
    <2>2. pte[va] \in MemoryPTE
      BY <1>1, MemoryFormat DEF IInv, TypeOK, IsStable
    <2>3. QED
      BY <1>1, <2>1, <2>2 DEF MemoryPTE, IsStable
  <1>3. /\ user'[u].pc \in {"remap", "finish_valid"}
        /\ user'[u].va = va /\ user'[u].page = p
        /\ (user'[u].writable <=> user'[u].access = "WRITE")
        /\ user'[u].pc = "remap" => user'[u].access = "WRITE"
        /\ \A w \in Users \ {u} : user'[w] = user[w]
    BY DEF BeginValidFault, IInv, TypeOK, UserType
  <1>4. page[p].status = "ACTIVE" /\ page[p].pte = va
    BY <1>1 DEF Frames, PTEsNameFrames, IsStable
  <1>5. \A w \in Users : user[w].pc \in ResolverPC => user[w].va # va
    BY <1>1, ResolversBusy
  <1>12. \A w \in Users \ {u} : user[w].pc \in ResolverPC => pte'[user[w].va] = pte[user[w].va]
    BY <1>2, <1>5, Fields DEF OnlyPTE
  <1>6. Handlers'
    <2>1. ResolversApart'
      BY <1>1, <1>3, <1>5 DEF Handlers, ResolversApart, ResolverPC
    <2>2. ValidFaults'
      <3>1. \A w \in Users \ {u} : user[w].pc \in ValidPC => pte'[user[w].va] = pte[user[w].va]
        BY <1>12 DEF ResolverPC
      <3>2. QED
        BY <1>1, <1>2, <1>3, <1>4, <3>1 DEF Handlers, ValidFaults, ValidPC
    <2>3. Claims'
      BY <1>1, <1>3, <1>12 DEF Handlers, Claims, ResolverPC
    <2>4. Rescues'
      BY <1>1, <1>3, <1>12 DEF Handlers, Rescues, ResolverPC
    <2>5. Connections'
      BY <1>1, <1>3, <1>12 DEF Handlers, Connections, ResolverPC, ReadPC, ConnectPC
    <2>6. QED
      BY <2>1, <2>2, <2>3, <2>4, <2>5 DEF Handlers
  <1>7. FramesNamePTEs'
    <2>1. \A w \in Users, v \in VAs, q \in Pages : Reader(w, v, q) => Reader(w, v, q)'
      BY <1>1, <1>3 DEF Reader, ReadPC, ConnectPC
    <2>2. \A q \in Pages : page[q].pte = va => q = p
      <3>1. \A q \in Pages : ~\E w \in Users : Reader(w, va, q)
        BY <1>5 DEF Reader, ResolverPC
      <3>2. \A q \in Pages : page[q].pte = va =>
               page[q].status = "ACTIVE" \/ page[q].status \in Listable
        BY <1>1, Fields DEF Frames, FramesNamePTEs, Statuses
      <3>3. QED
        BY <1>1, <3>1, <3>2 DEF Frames, FramesNamePTEs, IsStable
    <2>3. \A q \in Pages \ {p} : page[q].pte \in VAs => pte'[page[q].pte] = pte[page[q].pte]
      BY <1>2, <2>2 DEF OnlyPTE
    <2>4. p \in Pages
      BY <1>1, Fields DEF IsStable
    <2>5. QED
      BY <1>1, <1>2, <1>4, <2>1, <2>3, <2>4, Fields DEF Frames, FramesNamePTEs
  <1>8. PTEsNameFrames'
    BY <1>1, <1>2, <1>3, Fields DEF Frames, PTEsNameFrames, OnlyPTE, Changer, Connector, ValidPC, ConnectPC
  <1>9. (Lists /\ OffLists /\ WriterBatch /\ SlotsOfFrames)'
    BY <1>1, <1>3 DEF Frames, Lists, OffLists, WriterBatch, SlotsOfFrames
  <1>10. TrimBatch'
    BY <1>1, <1>2, <1>3, Fields DEF Frames, FramesNamePTEs, TrimBatch, OnlyPTE, IsStable
  <1>11. QED
    BY <1>6, <1>7, <1>8, <1>9, <1>10 DEF Frames

LEMMA RemapWritableOwned ==
    ASSUME OInv, NEW u \in Users, RemapWritable(u)
    PROVE  Owned'
  <1> USE DEF OInv, Owned
  <1>1. /\ user[u].pc = "remap" /\ Moves(u, "drop_slot")
        /\ UNCHANGED <<pte, page, pageLock, list, trim, writer, refreshing, corrupted>>
    BY GotoMoves DEF RemapWritable, At, IInv
  <1>2. Handlers'
    BY <1>1 DEF Moves, Handlers, ResolversApart, ValidFaults, Claims,
       Rescues, Connections, ResolverPC, ValidPC, ReadPC, ConnectPC
  <1>3. FramesNamePTEs'
    BY <1>1 DEF Moves, Frames, FramesNamePTEs, Reader, ReadPC, ConnectPC
  <1>4. PTEsNameFrames'
    BY <1>1 DEF Moves, Frames, PTEsNameFrames, Changer, Connector, ValidPC, ConnectPC
  <1>5. (Lists /\ OffLists /\ WriterBatch /\ SlotsOfFrames /\ TrimBatch)'
    BY <1>1 DEF Moves, Frames, Lists, OffLists, WriterBatch, SlotsOfFrames, TrimBatch
  <1>6. QED
    BY <1>2, <1>3, <1>4, <1>5 DEF Frames

LEMMA DropSlotOwned ==
    ASSUME OInv, NEW u \in Users, DropSlot(u)
    PROVE  Owned'
  <1> USE DEF OInv, Owned
  <1> DEFINE p == user[u].page
  <1>1. /\ user[u].pc = "drop_slot" /\ Moves(u, "set_modified")
        /\ UNCHANGED <<pte, pageLock, list, trim, writer, refreshing, corrupted>>
    BY GotoMoves DEF DropSlot, At, IInv
  <1>2. /\ p \in Pages /\ page[p].status = "ACTIVE"
        /\ BeingChanged(pte[page[p].pte], p)
    BY <1>1, Fields DEF FramePC, Handlers, ValidFaults, ValidPC
  <1>3. \A q \in Pages :
           /\ page'[q].status = page[q].status /\ page'[q].pte = page[q].pte
           /\ page'[q].modified = page[q].modified
           /\ page'[q].writing_to_disk = page[q].writing_to_disk
           /\ page'[q].pagefile_idx = IF q = p THEN None ELSE page[q].pagefile_idx
    BY <1>2 DEF DropSlot, IInv, TypeOK, Page
  <1>4. Handlers'
    BY <1>1, <1>3, Fields DEF Moves, Handlers, ResolversApart, ValidFaults, Claims,
       Rescues, Connections, ResolverPC, ValidPC, ReadPC, ConnectPC, FramePC
  <1>5. FramesNamePTEs'
    BY <1>1, <1>3 DEF Moves, Frames, FramesNamePTEs, Reader, ReadPC, ConnectPC
  <1>6. PTEsNameFrames'
    BY <1>1, <1>3, Fields DEF Moves, Frames, PTEsNameFrames, Changer, Connector, ValidPC, ConnectPC
  <1>7. (Lists /\ OffLists /\ WriterBatch /\ SlotsOfFrames /\ TrimBatch)'
    <2>1. (Lists /\ OffLists)'
      BY <1>1, <1>3 DEF Moves, Frames, Lists, OffLists
    <2>2. (WriterBatch /\ SlotsOfFrames)'
      BY <1>1, <1>2, <1>3 DEF Frames, WriterBatch, SlotsOfFrames
    <2>3. TrimBatch'
      BY <1>1, <1>2, <1>3 DEF Moves, Frames, TrimBatch
    <2>4. QED
      BY <2>1, <2>2, <2>3
  <1>8. QED
    BY <1>4, <1>5, <1>6, <1>7 DEF Frames

LEMMA SetModifiedOwned ==
    ASSUME OInv, NEW u \in Users, SetModified(u)
    PROVE  Owned'
  <1> USE DEF OInv, Owned
  <1> DEFINE p == user[u].page
  <1>1. /\ user[u].pc = "set_modified" /\ Moves(u, "finish_valid")
        /\ UNCHANGED <<pte, pageLock, list, trim, writer, refreshing, corrupted>>
    BY GotoMoves DEF SetModified, At, IInv
  <1>2. /\ p \in Pages /\ page[p].status = "ACTIVE"
        /\ BeingChanged(pte[page[p].pte], p)
    BY <1>1, Fields DEF FramePC, Handlers, ValidFaults, ValidPC
  <1>3. \A q \in Pages :
           /\ page'[q].status = page[q].status /\ page'[q].pte = page[q].pte
           /\ page'[q].writing_to_disk = page[q].writing_to_disk
           /\ page'[q].pagefile_idx = page[q].pagefile_idx
           /\ q # p => page'[q].modified = page[q].modified
           /\ q = p => page'[q].modified = TRUE
    <2>1. page \in [Pages -> Page]
      BY DEF IInv, TypeOK
    <2>2. page' = [page EXCEPT ![p].modified = TRUE]
      BY DEF SetModified
    <2>3. QED
      BY <2>1, <2>2 DEF Page
  <1>4. Handlers'
    BY <1>1, <1>3, Fields DEF Moves, Handlers, ResolversApart, ValidFaults, Claims,
       Rescues, Connections, ResolverPC, ValidPC, ReadPC, ConnectPC, FramePC
  <1>5. FramesNamePTEs'
    BY <1>1, <1>3 DEF Moves, Frames, FramesNamePTEs, Reader, ReadPC, ConnectPC
  <1>6. PTEsNameFrames'
    BY <1>1, <1>3, Fields DEF Moves, Frames, PTEsNameFrames, Changer, Connector, ValidPC, ConnectPC
  <1>7. (Lists /\ OffLists /\ WriterBatch /\ SlotsOfFrames /\ TrimBatch)'
    <2>1. (Lists /\ OffLists)'
      BY <1>1, <1>2, <1>3 DEF Moves, Frames, Lists, OffLists
    <2>2. (WriterBatch /\ SlotsOfFrames)'
      BY <1>1, <1>2, <1>3 DEF Frames, WriterBatch, SlotsOfFrames
    <2>3. TrimBatch'
      BY <1>1, <1>3 DEF Moves, Frames, TrimBatch
    <2>4. QED
      BY <2>1, <2>2, <2>3
  <1>8. QED
    BY <1>4, <1>5, <1>6, <1>7 DEF Frames

LEMMA FinishValidFaultOwned ==
    ASSUME OInv, NEW u \in Users, FinishValidFault(u)
    PROVE  Owned'
  <1> USE DEF OInv, Owned
  <1> DEFINE va == user[u].va
             p == user[u].page
  <1>1. /\ user[u].pc = "finish_valid" /\ Ends(u) /\ va \in VAs /\ p \in Pages
        /\ UNCHANGED <<page, pageLock, list, trim, writer, refreshing, corrupted>>
    BY BackToUserEnds, Fields DEF FinishValidFault, At, IInv, FramePC
  <1>2. /\ page[p].status = "ACTIVE" /\ page[p].pte = va
        /\ BeingChanged(pte[va], p)
    BY <1>1 DEF Handlers, ValidFaults, ValidPC
  <1>3. /\ pte'[va].format = "memory" /\ pte'[va].frame = p
        /\ ~pte'[va].being_changed /\ ~pte'[va].being_trimmed
        /\ pte'[va].protections # "NONE"
        /\ OnlyPTE(va)
    BY <1>1 DEF FinishValidFault, Connected, Memory, OnlyPTE, IInv, TypeOK
  <1>4. \A w \in Users \ {u} : user[w].pc \in ResolverPC => user[w].va # va
    BY <1>1 DEF Handlers, ResolversApart, ResolverPC, ValidPC
  <1>11. \A w \in Users \ {u} : user[w].pc \in ResolverPC => pte'[user[w].va] = pte[user[w].va]
    BY <1>3, <1>4, Fields DEF OnlyPTE
  <1>5. Handlers'
    <2>1. ResolversApart'
      BY <1>1 DEF Ends, Handlers, ResolversApart, ResolverPC, ValidPC, ReadPC, ConnectPC
    <2>2. ValidFaults'
      BY <1>1, <1>11 DEF Ends, Handlers, ValidFaults, ResolverPC, ValidPC
    <2>3. (Claims /\ Rescues)'
      BY <1>1, <1>11 DEF Ends, Handlers, Claims, Rescues, ResolverPC
    <2>4. Connections'
      BY <1>1, <1>11 DEF Ends, Handlers, Connections, ResolverPC, ReadPC, ConnectPC
    <2>5. QED
      BY <2>1, <2>2, <2>3, <2>4 DEF Handlers
  <1>6. FramesNamePTEs'
    BY <1>1, <1>2, <1>3, <1>4, Fields DEF Ends, OnlyPTE, Frames, FramesNamePTEs, Reader, ReadPC, ConnectPC
  <1>7. PTEsNameFrames'
    BY <1>1, <1>2, <1>3, <1>4, Fields DEF Ends, OnlyPTE, Frames, PTEsNameFrames, Changer, Connector, ValidPC, ConnectPC
  <1>8. (Lists /\ OffLists /\ WriterBatch /\ SlotsOfFrames)'
    BY <1>1 DEF Ends, Frames, Lists, OffLists, WriterBatch, SlotsOfFrames
  <1>9. TrimBatch'
    <2>1. \A q \in Pages : BeingTrimmed(pte[page[q].pte], q) /\ page[q].pte \in VAs
             => page[q].pte # va
      BY <1>1, <1>2 DEF InTransition
    <2>2. \A q \in Pages : BeingTrimmed(pte[page[q].pte], q) /\ page[q].pte \in VAs
             => pte'[page[q].pte] = pte[page[q].pte]
      BY <1>3, <2>1 DEF OnlyPTE
    <2>3. \A q \in Pages : page[q].status \in {"ACTIVE", "MODIFIED", "STANDBY"} => page[q].pte \in VAs
      BY Fields
    <2>4. QED
      BY <1>1, <2>2, <2>3 DEF Ends, Frames, TrimBatch
  <1>10. QED
    BY <1>5, <1>6, <1>7, <1>8, <1>9 DEF Frames

----------------------------------------------------------------------------
(* Taking a frame *)

\* A frame that is allocated is taken off its list and locked.
LEMMA AllocateSteps ==
    ASSUME OInv, NEW u \in Users, NEW p \in Pages, NEW l, Allocate(u, p, l)
    PROVE  /\ MovesWith(u, l, p)
           /\ page[p].status \in Spare
           /\ pageLock[p] = None /\ pageLock'[p] = u /\ list[p] # None /\ list'[p] = None
           /\ \A q \in Pages \ {p} : pageLock'[q] = pageLock[q] /\ list'[q] = list[q]
  <1>1. MovesWith(u, l, p)
    BY AllocateMoves DEF OInv, IInv
  <1>2. page[p].status \in Spare /\ list[p] # None
    BY ConstantsAssumption DEF OInv, Owned, Frames, Lists, Allocate
  <1>3. QED
    BY <1>1, <1>2 DEF OInv, IInv, TypeOK, Allocate

LEMMA TakePageOwned ==
    ASSUME OInv, NEW u \in Users, NEW p \in Pages, TakePage(u, p)
    PROVE  Owned'
  <1> USE DEF OInv, Owned
  <1>1. /\ user[u].pc = "take_page" /\ ~corrupted
        /\ UNCHANGED <<pte, page, trim, writer, refreshing, corrupted>>
    BY DEF TakePage, At
  <1>2. /\ MovesWith(u, "claim", p)
        /\ page[p].status \in Spare
        /\ pageLock[p] = None /\ pageLock'[p] = u /\ list[p] # None /\ list'[p] = None
        /\ \A q \in Pages \ {p} : pageLock'[q] = pageLock[q] /\ list'[q] = list[q]
    BY AllocateSteps DEF TakePage
  <1>3. Handlers'
    BY <1>1, <1>2 DEF MovesWith, Handlers, ResolversApart, ValidFaults, Claims,
       Rescues, Connections, ResolverPC, ValidPC, ReadPC, ConnectPC
  <1>4. FramesNamePTEs'
    BY <1>1, <1>2 DEF MovesWith, Frames, FramesNamePTEs, Reader, ReadPC, ConnectPC
  <1>5. PTEsNameFrames'
    BY <1>1, <1>2 DEF MovesWith, Frames, PTEsNameFrames, Changer, Connector, ValidPC, ConnectPC
  <1>6. (Lists /\ OffLists)'
    BY <1>1, <1>2, ConstantsAssumption DEF MovesWith, Frames, Lists, OffLists
  <1>7. (WriterBatch /\ SlotsOfFrames)'
    BY <1>1 DEF Frames, WriterBatch, SlotsOfFrames
  <1>8. TrimBatch'
    BY <1>1, <1>2 DEF MovesWith, Frames, TrimBatch
  <1>9. QED
    BY <1>3, <1>4, <1>5, <1>6, <1>7, <1>8 DEF Frames

LEMMA GetPageOwned ==
    ASSUME OInv, NEW u \in Users, NEW p \in Pages, GetPage(u, p)
    PROVE  Owned'
  <1> USE DEF OInv, Owned
  <1>1. /\ user[u].pc = "get_page" /\ ~corrupted
        /\ UNCHANGED <<pte, page, trim, writer, refreshing, corrupted>>
    BY DEF GetPage, At
  <1>2. /\ MovesWith(u, "commit_disk", p)
        /\ page[p].status \in Spare
        /\ pageLock[p] = None /\ pageLock'[p] = u /\ list[p] # None /\ list'[p] = None
        /\ \A q \in Pages \ {p} : pageLock'[q] = pageLock[q] /\ list'[q] = list[q]
    BY AllocateSteps DEF GetPage
  <1>3. Handlers'
    BY <1>1, <1>2 DEF MovesWith, Handlers, ResolversApart, ValidFaults, Claims,
       Rescues, Connections, ResolverPC, ValidPC, ReadPC, ConnectPC
  <1>4. FramesNamePTEs'
    BY <1>1, <1>2 DEF MovesWith, Frames, FramesNamePTEs, Reader, ReadPC, ConnectPC
  <1>5. PTEsNameFrames'
    BY <1>1, <1>2 DEF MovesWith, Frames, PTEsNameFrames, Changer, Connector, ValidPC, ConnectPC
  <1>6. (Lists /\ OffLists)'
    BY <1>1, <1>2, ConstantsAssumption DEF MovesWith, Frames, Lists, OffLists
  <1>7. (WriterBatch /\ SlotsOfFrames)'
    BY <1>1 DEF Frames, WriterBatch, SlotsOfFrames
  <1>8. TrimBatch'
    BY <1>1, <1>2 DEF MovesWith, Frames, TrimBatch
  <1>9. QED
    BY <1>3, <1>4, <1>5, <1>6, <1>7, <1>8 DEF Frames

LEMMA ClaimUnaccessedOwned ==
    ASSUME OInv, NEW u \in Users, ClaimUnaccessed(u)
    PROVE  Owned'
  <1> USE DEF OInv, Owned
  <1> DEFINE va == user[u].va
             p == user[u].page
  <1>1. /\ user[u].pc = "claim" /\ Moves(u, "commit") /\ va \in VAs /\ p \in Pages
        /\ pte[va].format = "unused"
        /\ UNCHANGED <<page, pageLock, list, trim, writer, refreshing, corrupted>>
    BY GotoMoves, Fields DEF ClaimUnaccessed, StillUnaccessed, Unused, At, IInv, FramePC
  <1>2. BeingChanged(pte'[va], p) /\ OnlyPTE(va)
    BY <1>1 DEF ClaimUnaccessed, Memory, OnlyPTE, IInv, TypeOK
  <1>3. \A w \in Users : user[w].pc \in ResolverPC => user[w].va # va
    BY <1>1, ResolversBusy
  <1>4. page[p].status \in Spare
    BY <1>1 DEF Handlers, Claims
  <1>5. Handlers'
    <2>1. ResolversApart'
      BY <1>1, <1>3 DEF Moves, Handlers, ResolversApart
    <2>2. ValidFaults'
      BY <1>1, <1>2, <1>3, Fields DEF Moves, Handlers, ValidFaults, OnlyPTE, ResolverPC, ValidPC
    <2>3. (Claims /\ Rescues)'
      BY <1>1, <1>2, <1>3, <1>4, Fields DEF Moves, Handlers, Claims, Rescues, OnlyPTE, ResolverPC
    <2>4. Connections'
      BY <1>1, <1>2, <1>3, Fields DEF Moves, Handlers, Connections, OnlyPTE, ResolverPC,
         ReadPC, ConnectPC
    <2>5. QED
      BY <2>1, <2>2, <2>3, <2>4 DEF Handlers
  <1>6. FramesNamePTEs'
    BY <1>1, <1>2, Fields DEF Moves, OnlyPTE, Frames, FramesNamePTEs, Reader, ReadPC, ConnectPC
  <1>7. PTEsNameFrames'
    BY <1>1, <1>2, Fields DEF Moves, OnlyPTE, Frames, PTEsNameFrames, Changer, Connector, ValidPC, ConnectPC
  <1>8. (Lists /\ OffLists /\ WriterBatch /\ SlotsOfFrames)'
    BY <1>1 DEF Moves, Frames, Lists, OffLists, WriterBatch, SlotsOfFrames
  <1>9. TrimBatch'
    BY <1>1, <1>2, Fields DEF Moves, OnlyPTE, Frames, FramesNamePTEs, TrimBatch
  <1>10. QED
    BY <1>5, <1>6, <1>7, <1>8, <1>9 DEF Frames

\* A frame whose lock a handler holds is nobody else's.
LEMMA LockedAlone ==
    ASSUME OInv, NEW u \in Users, user[u].pc \in LockedPC \ {"check"}
    PROVE  /\ user[u].page \in Pages
           /\ pageLock[user[u].page] = u
           /\ list[user[u].page] = None
           /\ u # None
           /\ user[u].page \notin writer.confirmed \cup refreshing
           /\ \A w \in Users \ {u} :
                 user[w].pc \in LockedPC => user[w].page # user[u].page
  <1>1. user[u].page \in Pages /\ u # None /\ u # "writer" /\ u # "refresher"
    BY Fields, ConstantsAssumption DEF LockedPC, FramePC
  <1>2. pageLock[user[u].page] = u
    BY <1>1 DEF OInv, IInv, PageLocksOwned
  <1>3. QED
    BY <1>1, <1>2 DEF OInv, IInv, PageLocksOwned, Owned, Frames, Lists

LEMMA ReturnUnneededPageOwned ==
    ASSUME OInv, NEW u \in Users, ReturnUnneededPage(u)
    PROVE  Owned'
  <1> USE DEF OInv, Owned
  <1> DEFINE p == user[u].page
             standby == page[p].status = "STANDBY"
  <1>1. /\ user[u].pc = "claim" /\ ~corrupted /\ Ends(u) /\ p \in Pages
        /\ UNCHANGED <<pte, trim, writer, refreshing, corrupted>>
    BY BackToUserEnds, Fields DEF ReturnUnneededPage, At, IInv, FramePC
  <1>2. /\ pageLock[p] = u /\ u # None /\ p \notin writer.confirmed \cup refreshing
        /\ \A w \in Users \ {u} : user[w].pc \in LockedPC => user[w].page # p
    BY <1>1, LockedAlone DEF LockedPC
  <1>3. page[p].status \in Spare
    BY <1>1 DEF Handlers, Claims
  <1>4. /\ \A q \in Pages \ {p} : /\ page'[q] = page[q] /\ list'[q] = list[q]
                                  /\ pageLock'[q] = pageLock[q]
        /\ pageLock'[p] = None
        /\ list'[p] = IF standby THEN "standby" ELSE "available"
        /\ standby => page'[p] = page[p]
        /\ ~standby => /\ page'[p].status = "FREE" /\ page'[p].pte = None
                       /\ page'[p].writing_to_disk = page[p].writing_to_disk
                       /\ page[p].pte = None
    <2>1. ~standby => page[p].pte = None
      BY <1>1, <1>3 DEF Frames, FramesNamePTEs
    <2>2. QED
      BY <1>1, <2>1 DEF ReturnUnneededPage, IInv, TypeOK, Page
  <1>5. Handlers'
    <2>1. ResolversApart'
      BY <1>1 DEF Ends, Handlers, ResolversApart, ResolverPC, ValidPC, ReadPC, ConnectPC
    <2>2. ValidFaults'
      BY <1>1, <1>3, <1>4, Fields DEF Ends, Handlers, ValidFaults, ValidPC, FramePC
    <2>3. Claims'
      BY <1>1, <1>2, <1>4, Fields DEF Ends, Handlers, Claims, LockedPC, FramePC
    <2>4. Rescues'
      BY <1>1, <1>2, <1>4, Fields DEF Ends, Handlers, Rescues, LockedPC, FramePC
    <2>5. Connections'
      BY <1>1, <1>3, <1>4, Fields DEF Ends, Handlers, Connections, ReadPC, ConnectPC, FramePC
    <2>6. QED
      BY <2>1, <2>2, <2>3, <2>4, <2>5 DEF Handlers
  <1>6. FramesNamePTEs'
    BY <1>1, <1>3, <1>4, Fields DEF Ends, Frames, FramesNamePTEs, Reader, ReadPC, ConnectPC
  <1>7. PTEsNameFrames'
    BY <1>1, <1>3, <1>4, Fields DEF Ends, Frames, PTEsNameFrames, Changer, Connector, ValidPC, ConnectPC
  <1>8. (Lists /\ OffLists)'
    BY <1>1, <1>2, <1>3, <1>4, ConstantsAssumption DEF Ends, Frames, Lists, OffLists
  <1>9. (WriterBatch /\ SlotsOfFrames)'
    BY <1>1, <1>2, <1>3, <1>4 DEF Frames, WriterBatch, SlotsOfFrames
  <1>10. TrimBatch'
    BY <1>1, <1>2, <1>3, <1>4, Fields DEF Ends, Frames, TrimBatch
  <1>11. QED
    BY <1>5, <1>6, <1>7, <1>8, <1>9, <1>10 DEF Frames

----------------------------------------------------------------------------
(* Rescues *)

LEMMA RescueOwned ==
    ASSUME OInv, NEW u \in Users, Rescue(u)
    PROVE  Owned'
  <1> USE DEF OInv, Owned
  <1> DEFINE va == user[u].va
             p == user[u].page
  <1>1. /\ user[u].pc = "check" /\ ~corrupted /\ va \in VAs /\ p \in Pages
        /\ pageLock[p] = u
        /\ page[p].pte = va /\ page[p].status \in Listable
        /\ UNCHANGED <<pte, page, pageLock, trim, writer, refreshing>>
    BY Fields DEF Rescue, Rescuable, At, FramePC, IInv, PageLocksOwned, LockedPC
  <1>2. /\ \A w \in Users \ {u} : user'[w] = user[w]
        /\ user'[u].va = va /\ user'[u].page = p
        /\ user'[u].pc \in {"commit", "await_trim"}
        /\ user'[u].pc = "commit" => pte[va].format = "transition"
    BY DEF Rescue, IInv, TypeOK, UserType
  <1>3. /\ list'[p] \in {None, list[p]}
        /\ u # None
        /\ \A q \in Pages \ {p} : list'[q] = list[q] /\ pageLock[q] # u
    BY <1>1, ConstantsAssumption DEF Rescue, IInv, TypeOK, PageLocksOwned
  <1>4. InTransition(pte[va], p) \/ BeingTrimmed(pte[va], p)
    BY <1>1 DEF Frames, FramesNamePTEs
  <1>5. list'[p] = None
    <2>1. CASE page[p].status = "MODIFIED" /\ InFlight(p)
      <3>1. list[p] = None
        BY <1>1, <2>1 DEF Frames, Lists, IInv, TypeOK
      <3>2. QED
        BY <1>1, <1>3, <3>1
    <2>2. CASE ~(page[p].status = "MODIFIED" /\ InFlight(p))
      BY <1>1, <2>2 DEF Rescue, IInv, TypeOK
    <2>3. QED
      BY <2>1, <2>2
  <1>6. \A w \in Users : user[w].pc \in ResolverPC => user[w].va # va
    <2> SUFFICES ASSUME NEW w \in Users, user[w].pc \in ResolverPC, user[w].va = va
                 PROVE  FALSE
      OBVIOUS
    <2>1. CASE user[w].pc \in ValidPC \cup {"get_page", "commit_disk"}
      BY <1>4, <2>1 DEF Handlers, ValidFaults, Claims
    <2>2. CASE user[w].pc \in {"await_trim", "commit"}
      <3>1. pageLock[user[w].page] = w /\ w # None
        BY <2>2, LockedAlone DEF LockedPC
      <3>2. user[w].page = p
        BY <1>4, <2>2 DEF Handlers, Rescues
      <3>3. QED
        BY <1>1, <2>2, <3>1, <3>2
    <2>3. CASE user[w].pc \in ReadPC \cup ConnectPC
      BY <1>1, <1>4, <2>3 DEF Handlers, Connections
    <2>4. QED
      BY <2>1, <2>2, <2>3 DEF ResolverPC
  <1>7. Handlers'
    <2>1. ResolversApart'
      BY <1>2, <1>6 DEF Handlers, ResolversApart
    <2>2. (ValidFaults /\ Claims)'
      BY <1>1, <1>2 DEF Handlers, ValidFaults, Claims, ValidPC
    <2>3. Rescues'
      BY <1>1, <1>2, <1>4 DEF Handlers, Rescues
    <2>4. Connections'
      BY <1>1, <1>2 DEF Handlers, Connections, ReadPC, ConnectPC
    <2>5. QED
      BY <2>1, <2>2, <2>3, <2>4 DEF Handlers
  <1>8. FramesNamePTEs'
    BY <1>1, <1>2 DEF Frames, FramesNamePTEs, Reader, ReadPC, ConnectPC
  <1>9. PTEsNameFrames'
    BY <1>1, <1>2 DEF Frames, PTEsNameFrames, Changer, Connector, ValidPC, ConnectPC
  <1>10. (Lists /\ OffLists)'
    <2>1. \A q \in Pages : Untaken(q)' => Untaken(q) /\ q # p
      BY <1>1, <1>2, <1>3
    <2>5. \A q \in Pages \ {p} : Untaken(q) => Untaken(q)'
      BY <1>1, <1>2, <1>3
    <2>2. Lists'
      BY <1>1, <1>3, <1>5, <2>5, ConstantsAssumption DEF Frames, Lists
    <2>3. OffLists'
      BY <1>1, <1>3, <2>1 DEF Frames, OffLists
    <2>4. QED
      BY <2>2, <2>3
  <1>11. (WriterBatch /\ SlotsOfFrames)'
    BY <1>1 DEF Frames, WriterBatch, SlotsOfFrames
  <1>12. TrimBatch'
    <2>1. ASSUME NEW q \in Pages, Untaken(q) /\ list[q] = None, ~corrupted',
                 \/ page[q].status = "MODIFIED" /\ ~InFlight(q)
                 \/ page[q].status = "STANDBY"
          PROVE  Untaken(q)' /\ list'[q] = None
      <3>1. q # p
        BY <1>1, <2>1, ConstantsAssumption DEF Rescue, ListOf
      <3>2. QED
        BY <1>1, <1>2, <1>3, <2>1, <3>1
    <2>2. QED
      BY <1>1, <2>1 DEF Frames, TrimBatch
  <1>13. QED
    BY <1>7, <1>8, <1>9, <1>10, <1>11, <1>12 DEF Frames

\* The end of the wait must find the PTE in transition format.
LEMMA AwaitTrimOwned ==
    ASSUME OInv, NEW u \in Users, AwaitTrim(u), pte[user[u].va].format = "transition"
    PROVE  Owned'
  <1> USE DEF OInv, Owned
  <1>1. /\ user[u].pc = "await_trim" /\ Moves(u, "commit")
        /\ UNCHANGED <<pte, page, pageLock, list, trim, writer, refreshing, corrupted>>
    BY DEF AwaitTrim, At, IInv, TypeOK, UserType, Moves
  <1>2. InTransition(pte[user[u].va], user[u].page)
    BY <1>1 DEF Handlers, Rescues
  <1>3. Handlers'
    BY <1>1, <1>2 DEF Moves, Handlers, ResolversApart, ValidFaults, Claims,
       Rescues, Connections, ResolverPC, ValidPC, ReadPC, ConnectPC
  <1>4. FramesNamePTEs'
    BY <1>1 DEF Moves, Frames, FramesNamePTEs, Reader, ReadPC, ConnectPC
  <1>5. PTEsNameFrames'
    BY <1>1 DEF Moves, Frames, PTEsNameFrames, Changer, Connector, ValidPC, ConnectPC
  <1>6. (Lists /\ OffLists /\ WriterBatch /\ SlotsOfFrames /\ TrimBatch)'
    BY <1>1 DEF Moves, Frames, Lists, OffLists, WriterBatch, SlotsOfFrames, TrimBatch
  <1>7. QED
    BY <1>3, <1>4, <1>5, <1>6 DEF Frames

----------------------------------------------------------------------------
(* Committing a frame *)

\* Forcing the PTE of one frame to disk format.
LEMMA ForcedOne ==
    ASSUME NEW p \in Pages, NEW v \in VAs
    PROVE  ForceToDisk({p})[v] =
              IF page[p].pte = v THEN Disk(page[p].pagefile_idx, FALSE) ELSE pte[v]
  BY DEF ForceToDisk

\* A frame taken for another VA than the one it names: that VA's PTE goes to
\* disk format, and nobody was at work on it.
LEMMA Repurposed ==
    ASSUME OInv, NEW u \in Users, user[u].pc \in {"claim", "commit", "commit_disk"},
           page[user[u].page].status \in Spare
    PROVE  LET p == user[u].page
               v == page[p].pte
           IN  /\ p \in Pages
               /\ page[p].status = "STANDBY" =>
                     /\ v \in VAs
                     /\ InTransition(pte[v], p) \/ BeingTrimmed(pte[v], p)
                     /\ user[u].pc \in ResolverPC /\ ~InTransition(pte[user[u].va], p) => user[u].va # v
                     /\ \A w \in Users \ {u} : user[w].pc \in ResolverPC => user[w].va # v
               /\ p \notin writer.batch
               /\ p \in trim.to_modified => trim.pc \notin {"mark", "chain_modified", "insert_modified"}
               /\ p \in trim.to_standby /\ ~corrupted => trim.pc = "edit"
  <1> DEFINE p == user[u].page
             v == page[p].pte
  <1>1. /\ p \in Pages /\ pageLock[p] = u /\ u # None
        /\ \A w \in Users \ {u} : user[w].pc \in LockedPC => user[w].page # p
    BY LockedAlone DEF LockedPC
  <1>2. page[p].status = "STANDBY" =>
           v \in VAs /\ (InTransition(pte[v], p) \/ BeingTrimmed(pte[v], p))
    BY <1>1, Fields DEF OInv, Owned, Frames, FramesNamePTEs
  <1>3. ASSUME page[p].status = "STANDBY", NEW w \in Users \ {u}, user[w].pc \in ResolverPC,
               user[w].va = v
        PROVE  FALSE
    <2>1. CASE user[w].pc \in ValidPC \cup {"get_page", "commit_disk"}
      BY <1>2, <1>3, <2>1 DEF OInv, Owned, Handlers, ValidFaults, Claims
    <2>2. CASE user[w].pc \in {"await_trim", "commit"}
      <3>1. user[w].page # p
        BY <1>1, <2>2 DEF LockedPC
      <3>2. \/ InTransition(pte[v], user[w].page)
            \/ BeingTrimmed(pte[v], user[w].page)
            \/ BeingChanged(pte[v], user[w].page)
        BY <1>3, <2>2 DEF OInv, Owned, Handlers, Rescues
      <3>3. QED
        BY <1>2, <1>3, <3>1, <3>2
    <2>3. CASE user[w].pc \in ReadPC \cup ConnectPC
      <3>1. /\ page[user[w].page].status = "ACTIVE"
            /\ \/ InTransition(pte[v], user[w].page)
               \/ BeingReadIn(pte[v])
               \/ BeingChanged(pte[v], user[w].page)
        BY <1>3, <2>3 DEF OInv, Owned, Handlers, Connections
      <3>2. QED
        BY <1>2, <1>3, <3>1
    <2>4. QED
      BY <1>3, <2>1, <2>2, <2>3 DEF ResolverPC
  <1>4. page[p].status = "STANDBY" /\ user[u].pc \in ResolverPC /\ ~InTransition(pte[user[u].va], p)
           => user[u].va # v
    BY <1>2 DEF OInv, Owned, Handlers, Claims, Rescues, ResolverPC, ValidPC, ReadPC, ConnectPC
  <1>5. /\ p \notin writer.batch
        /\ p \in trim.to_modified => trim.pc \notin {"mark", "chain_modified", "insert_modified"}
        /\ p \in trim.to_standby /\ ~corrupted => trim.pc = "edit"
    BY <1>1 DEF OInv, Owned, Frames, WriterBatch, TrimBatch
  <1>6. QED
    BY <1>1, <1>2, <1>3, <1>4, <1>5

\* The PTE v, which nobody resolves, is forced to the slot of its frame p.
Forced(v, p) ==
    /\ v \in VAs
    /\ page[p].pte = v /\ page[p].status = "STANDBY"
    /\ InTransition(pte[v], p) \/ BeingTrimmed(pte[v], p)
    /\ pte'[v] = Disk(page[p].pagefile_idx, FALSE)
    /\ \A x \in Users : user[x].pc \in ResolverPC => user[x].va # v

LEMMA ForcedFormat ==
    ASSUME NEW v, NEW p, Forced(v, p)
    PROVE  /\ pte'[v].format = "disk" /\ ~pte'[v].being_read
           /\ \A x \in Users : user[x].pc \in ResolverPC => user[x].va # v
  BY DEF Forced, Disk

LEMMA CommitPagePTEs ==
    ASSUME OInv, NEW u \in Users, CommitPage(u)
    PROVE  LET va == user[u].va
               p == user[u].page
               w == page[p].pte
           IN  /\ pte'[va] = pte[va]
               /\ \A v \in VAs : pte'[v] = pte[v] \/ (v = w /\ w # va /\ Forced(v, p))
               /\ w # va /\ w # None => Forced(w, p)
  <1> USE DEF OInv, Owned
  <1> DEFINE va == user[u].va
             p == user[u].page
             w == page[p].pte
  <1>1. user[u].pc = "commit" /\ va \in VAs /\ p \in Pages
    BY LockedAlone, Fields DEF CommitPage, At, LockedPC
  <1>2. \/ BeingChanged(pte[va], p) /\ page[p].status \in Spare
        \/ InTransition(pte[va], p) /\ page[p].status \in Listable /\ w = va
    BY <1>1 DEF Handlers, Rescues
  <1>3. CASE InTransition(pte[va], p) /\ w = va
    <2>1. pte' = pte
      BY <1>3 DEF CommitPage
    <2>2. QED
      BY <1>3, <2>1
  <1>4. CASE BeingChanged(pte[va], p) /\ page[p].status = "STANDBY"
    <2>1. /\ w # va /\ w \in VAs
          /\ \A x \in Users : user[x].pc \in ResolverPC => user[x].va # w
          /\ InTransition(pte[w], p) \/ BeingTrimmed(pte[w], p)
      BY <1>1, <1>4, Repurposed DEF ResolverPC
    <2>2. pte' = ForceToDisk({p})
      BY <1>4 DEF CommitPage
    <2>3. \A v \in VAs : pte'[v] = IF w = v THEN Disk(page[p].pagefile_idx, FALSE) ELSE pte[v]
      BY <1>1, <2>2, ForcedOne
    <2>4. Forced(w, p)
      BY <1>4, <2>1, <2>3 DEF Forced
    <2>5. QED
      BY <1>1, <2>1, <2>3, <2>4
  <1>5. CASE BeingChanged(pte[va], p) /\ page[p].status \in {"ZERO", "FREE"}
    <2>1. pte' = pte
      BY <1>5 DEF CommitPage
    <2>2. w = None
      BY <1>1, <1>5 DEF Frames, FramesNamePTEs
    <2>3. QED
      BY <2>1, <2>2
  <1>6. QED
    BY <1>2, <1>3, <1>4, <1>5

LEMMA CommitPageOwned ==
    ASSUME OInv, NEW u \in Users, CommitPage(u)
    PROVE  Owned'
  <1> USE DEF OInv, Owned
  <1> DEFINE va == user[u].va
             p == user[u].page
             w == page[p].pte
  <1>1. /\ user[u].pc = "commit" /\ ~corrupted /\ Moves(u, "map")
        /\ va \in VAs /\ p \in Pages /\ list[p] = None
        /\ pageLock[p] = u /\ u # None /\ p \notin writer.confirmed \cup refreshing
        /\ UNCHANGED <<list, trim, writer, refreshing, corrupted>>
    BY GotoMoves, LockedAlone, Fields DEF CommitPage, At, IInv, LockedPC
  <1>2. /\ pageLock'[p] = None
        /\ \A q \in Pages \ {p} : pageLock'[q] = pageLock[q] /\ page'[q] = page[q]
        /\ page'[p].status = "ACTIVE" /\ page'[p].pte = va
        /\ page'[p].writing_to_disk = page[p].writing_to_disk
        /\ page'[p].pagefile_idx \in {None, page[p].pagefile_idx}
        /\ page[p].modified => page'[p].modified
    BY <1>1 DEF CommitPage, IInv, TypeOK, Page
  <1>3. \A x \in Users \ {u} : /\ user[x].pc \in LockedPC => user[x].page # p
                               /\ user[x].pc \in ResolverPC => user[x].va # va
    BY <1>1, LockedAlone DEF LockedPC, Handlers, ResolversApart, ResolverPC
  <1>4. \/ BeingChanged(pte[va], p) /\ page[p].status \in Spare
        \/ InTransition(pte[va], p) /\ page[p].status \in Listable /\ w = va
    BY <1>1 DEF Handlers, Rescues
  <1>5. /\ pte'[va] = pte[va]
        /\ \A x \in Users \ {u} : user[x].pc \in ResolverPC => pte'[user[x].va] = pte[user[x].va]
        /\ \A v \in VAs : \/ pte'[v] = pte[v]
                          \/ v = w /\ w # va /\ pte'[v].format = "disk"
        /\ w # va /\ w # None => pte'[w].format = "disk"
    <2>1. /\ pte'[va] = pte[va]
          /\ \A v \in VAs : pte'[v] = pte[v] \/ (v = w /\ w # va /\ Forced(v, p))
          /\ w # va /\ w # None => Forced(w, p)
      BY CommitPagePTEs
    <2>2. \A v \in VAs : Forced(v, p) =>
             /\ pte'[v].format = "disk"
             /\ \A x \in Users : user[x].pc \in ResolverPC => user[x].va # v
      BY ForcedFormat
    <2>3. \A x \in Users : user[x].va \in VAs
      BY Fields
    <2>4. w \in VAs \cup {None}
      BY <1>1, Fields
    <2>5. QED
      BY <1>1, <2>1, <2>2, <2>3, <2>4
  <1>13. \A x \in Users \ {u} : user[x].pc \in ValidPC \cup ReadPC \cup ConnectPC =>
            /\ user[x].pc \in ResolverPC
            /\ user[x].page \in Pages \ {p}
            /\ page'[user[x].page] = page[user[x].page]
            /\ pte'[user[x].va] = pte[user[x].va]
    <2>1. \A x \in Users : user[x].pc \in ValidPC \cup ReadPC \cup ConnectPC =>
             /\ user[x].pc \in ResolverPC
             /\ user[x].page \in Pages
             /\ page[user[x].page].status = "ACTIVE"
      BY Fields DEF Handlers, ValidFaults, Connections, ResolverPC, FramePC, ValidPC, ReadPC, ConnectPC
    <2>2. QED
      BY <2>1, <1>2, <1>4, <1>5
  <1>6. Handlers'
    <2>1. ResolversApart'
      BY <1>1 DEF Moves, Handlers, ResolversApart, ResolverPC
    <2>2. ValidFaults'
      <3>1. \A x \in Users : user'[x].pc \in ValidPC => x # u /\ user[x].pc = user'[x].pc
        BY <1>1 DEF Moves, ValidPC
      <3>2. QED
        BY <1>1, <1>13, <3>1 DEF Moves, Handlers, ValidFaults, ValidPC
    <2>3. Claims'
      BY <1>1, <1>2, <1>3, <1>5, Fields DEF Moves, Handlers, Claims, ResolverPC, FramePC,
         LockedPC
    <2>4. Rescues'
      <3>1. \A x \in Users : user'[x].pc \in {"await_trim", "commit"} =>
               /\ x # u /\ user[x].pc = user'[x].pc
               /\ user'[x].page = user[x].page /\ user'[x].va = user[x].va
        BY <1>1 DEF Moves
      <3>2. \A x \in Users \ {u} : user[x].pc \in {"await_trim", "commit"} =>
               /\ page'[user[x].page] = page[user[x].page]
               /\ pte'[user[x].va] = pte[user[x].va]
        BY <1>2, <1>3, <1>5, Fields DEF ResolverPC, FramePC, LockedPC
      <3>3. QED
        BY <3>1, <3>2 DEF Handlers, Rescues
    <2>5. Connections'
      <3>1. ASSUME NEW x \in Users \ {u}, user'[x].pc \in ReadPC \cup ConnectPC
            PROVE  user[x].pc \in ReadPC \cup ConnectPC /\ user'[x].page = user[x].page
                   /\ user'[x].va = user[x].va /\ user'[x].pc = user[x].pc
        BY <1>1, <3>1 DEF Moves
      <3>2. /\ user'[u].pc = "map" /\ user'[u].page = p /\ user'[u].va = va
            /\ InTransition(pte'[va], p) \/ BeingChanged(pte'[va], p)
        BY <1>1, <1>4, <1>5 DEF Moves
      <3>3. QED
        BY <1>1, <1>2, <1>13, <3>1, <3>2 DEF Handlers, Connections, ReadPC, ConnectPC
    <2>6. QED
      BY <2>1, <2>2, <2>3, <2>4, <2>5 DEF Handlers
  <1>7. FramesNamePTEs'
    <2>1. user'[u].va = va /\ user'[u].page = p /\ user'[u].pc \in ReadPC \cup ConnectPC
      BY <1>1 DEF Moves, ReadPC, ConnectPC
    <2>2. ASSUME NEW q \in Pages \ {p}
          PROVE  /\ page'[q] = page[q]
                 /\ \A v \in VAs, x \in Users : Reader(x, v, q) => Reader(x, v, q)'
      BY <1>1, <1>2 DEF Moves, Reader, ReadPC, ConnectPC
    <2>3. w \in VAs /\ w # va =>
             pte[w].frame = p /\ (IsStillTrimmed(pte[w]) \/ pte[w].format = "transition")
      <3>1. HAVE w \in VAs /\ w # va
      <3>2. page[p].status \notin {"ZERO", "FREE"}
        BY <1>1, <3>1, ConstantsAssumption DEF VAs, Frames, FramesNamePTEs
      <3>3. page[p].status \in Listable
        BY <1>4, <3>1, <3>2 DEF Spare, Listable
      <3>4. QED
        BY <1>1, <3>3 DEF Frames, FramesNamePTEs, InTransition, BeingTrimmed
    <2>4. ASSUME NEW q \in Pages \ {p}, NEW v \in VAs, page[q].pte = v
          PROVE  \/ pte'[v] = pte[v]
                 \/ /\ page[q].status \notin Listable
                    /\ ~(pte[v].format = "memory" /\ pte[v].frame = q)
      <3>1. CASE v = w /\ w # va
        BY <3>1, <2>3, <2>4 DEF Frames, FramesNamePTEs, InTransition, BeingTrimmed
      <3>2. QED
        BY <1>5, <3>1
    <2>5. ASSUME NEW q \in Pages \ {p}
          PROVE  LET v == page[q].pte IN
                 /\ page[q].status \in {"ZERO", "FREE"} <=> v = None
                 /\ page[q].status \in Listable =>
                       InTransition(pte'[v], q) \/ BeingTrimmed(pte'[v], q)
                 /\ page[q].status = "ACTIVE" =>
                       \/ pte'[v].format = "memory" /\ pte'[v].frame = q
                       \/ \E x \in Users : Reader(x, v, q)'
      <3>1. /\ page[q].pte \in VAs \cup {None}
            /\ page[q].status = "ACTIVE" \/ page[q].status \in Listable => page[q].pte # None
        BY Fields DEF Frames, FramesNamePTEs, Listable
      <3>2. QED
        BY <2>2, <2>4, <3>1 DEF Frames, FramesNamePTEs
    <2>6. QED
      <3>1. ASSUME NEW q \in Pages \ {p}
            PROVE  LET v == page'[q].pte IN
                   /\ page'[q].status \in {"ZERO", "FREE"} <=> v = None
                   /\ page'[q].status \in Listable =>
                         InTransition(pte'[v], q) \/ BeingTrimmed(pte'[v], q)
                   /\ page'[q].status = "ACTIVE" =>
                         \/ pte'[v].format = "memory" /\ pte'[v].frame = q
                         \/ \E x \in Users : Reader(x, page[q].pte, q)'
        BY <2>2, <2>5
      <3>2. /\ page'[p].status = "ACTIVE" /\ page'[p].pte = va /\ va # None
            /\ user'[u].va = va /\ user'[u].page = p /\ user'[u].pc \in ReadPC \cup ConnectPC
        BY <1>1, <1>2, <2>1, ConstantsAssumption DEF VAs
      <3>3. QED
        BY <1>1, <3>1, <3>2 DEF FramesNamePTEs, Listable, InTransition, BeingTrimmed, IsStillTrimmed, Reader
  <1>8. PTEsNameFrames'
    <2>1. /\ user'[u].va = va /\ user'[u].page = p /\ user'[u].pc = "map"
          /\ \A x \in Users, v \in VAs \ {va}, q \in Pages :
                /\ Changer(x, v, q) => Changer(x, v, q)'
                /\ Connector(x, v, q) => Connector(x, v, q)'
      BY <1>1 DEF Moves, Changer, Connector
    <2>2. ASSUME NEW v \in VAs \ {va}, pte'[v].format \in {"memory", "transition"}
          PROVE  /\ pte'[v] = pte[v] /\ pte[v].frame \in Pages
                 /\ pte[v].format = "transition" \/ ~pte[v].being_changed =>
                       pte[v].frame # p /\ page'[pte[v].frame] = page[pte[v].frame]
      <3>1. pte'[v] = pte[v] /\ w # v
        BY <1>5, <2>2, ConstantsAssumption DEF VAs
      <3>2. pte[v].frame \in Pages
        BY <2>2, <3>1, Fields
      <3>3. pte[v].format = "transition" \/ ~pte[v].being_changed =>
               page[pte[v].frame].pte = v
        BY <2>2, <3>1 DEF Frames, PTEsNameFrames
      <3>4. QED
        BY <1>2, <3>1, <3>2, <3>3
    <2>3. ASSUME NEW v \in VAs \ {va}
          PROVE  LET e == pte'[v] IN
                 /\ e.format = "memory" /\ ~e.being_changed =>
                       /\ page'[e.frame].pte = v
                       /\ e.protections # "NONE"
                       /\ e.being_trimmed =>
                             /\ v \in trim.ptes
                             /\ page'[e.frame].status = "ACTIVE" => e.frame \in Unchained(trim)
                       /\ ~e.being_trimmed => page'[e.frame].status = "ACTIVE"
                 /\ e.format = "memory" /\ e.being_changed =>
                       \E x \in Users : Changer(x, v, pte[v].frame)'
                 /\ e.format = "transition" =>
                       /\ page'[e.frame].pte = v
                       /\ \/ page'[e.frame].status \in Listable
                          \/ /\ page'[e.frame].status = "ACTIVE"
                             /\ \E x \in Users : Connector(x, v, pte[v].frame)'
      BY <2>1, <2>2 DEF Frames, PTEsNameFrames
    <2>4. /\ pte'[va].frame = p /\ page'[p].pte = va /\ page'[p].status = "ACTIVE"
          /\ \/ pte'[va].format = "memory" /\ pte'[va].being_changed
             \/ pte'[va].format = "transition"
      BY <1>2, <1>4, <1>5 DEF InTransition, BeingChanged
    <2>5. QED
      BY <1>1, <2>1, <2>2, <2>3, <2>4 DEF PTEsNameFrames, Changer, Connector, ConnectPC
  <1>9. (Lists /\ OffLists)'
    BY <1>1, <1>2, ConstantsAssumption DEF Moves, Frames, Lists, OffLists
  <1>10. (WriterBatch /\ SlotsOfFrames)'
    BY <1>1, <1>2 DEF Frames, WriterBatch, SlotsOfFrames
  <1>11. TrimBatch'
    <2>1. /\ p \in trim.to_modified => trim.pc \notin {"mark", "chain_modified", "insert_modified"}
          /\ p \in trim.to_standby => trim.pc = "edit"
      <3>1. CASE BeingChanged(pte[va], p) /\ page[p].status \in Spare
        BY <1>1, <3>1, Repurposed
      <3>2. CASE InTransition(pte[va], p) /\ w = va
        BY <1>1, <3>2 DEF Frames, TrimBatch
      <3>3. QED
        BY <1>4, <3>1, <3>2
    <2>2. \A q \in Pages \ {p} :
             BeingTrimmed(pte[page[q].pte], q) /\ page[q].status # "ZERO" /\ page[q].status # "FREE"
                => BeingTrimmed(pte'[page[q].pte], q)
      <3> SUFFICES ASSUME NEW q \in Pages \ {p}, BeingTrimmed(pte[page[q].pte], q), page[q].pte \in VAs
                   PROVE  BeingTrimmed(pte'[page[q].pte], q)
        BY Fields
      <3>1. CASE page[q].pte = w /\ w # va
        <4>1. page[p].status \in {"STANDBY"} \cup Listable
          <5>1. page[p].status \notin {"ZERO", "FREE"}
            BY <1>1, <3>1, ConstantsAssumption DEF VAs, Frames, FramesNamePTEs
          <5>2. QED
            BY <1>4, <5>1
        <4>2. InTransition(pte[w], p) \/ BeingTrimmed(pte[w], p)
          BY <1>1, <4>1 DEF Frames, FramesNamePTEs
        <4>3. QED
          BY <3>1, <4>2
      <3>2. CASE ~(page[q].pte = w /\ w # va)
        BY <1>5, <3>2
      <3>3. QED
        BY <3>1, <3>2
    <2>3. \A q \in Pages \ {p} : BeingTrimmed(pte[page[q].pte], q) /\ page[q].status \in {"ACTIVE", "MODIFIED", "STANDBY"}
                => BeingTrimmed(pte'[page[q].pte], q)
      BY <2>2
    <2>4. p # trim.page
      BY <1>1, <1>4 DEF Frames, TrimBatch
    <2>5. QED
      BY <1>1, <1>2, <2>1, <2>3, <2>4 DEF Moves, Frames, TrimBatch
  <1>12. QED
    BY <1>6, <1>7, <1>8, <1>9, <1>10, <1>11 DEF Frames

----------------------------------------------------------------------------
(* Faults on disk PTEs *)

LEMMA AcquireReadRightsOwned ==
    ASSUME OInv, NEW u \in Users, AcquireReadRights(u)
    PROVE  Owned'
  <1> USE DEF OInv, Owned
  <1> DEFINE va == user[u].va
  <1>1. /\ user[u].pc = "faulted" /\ va \in VAs /\ Moves(u, "get_page")
        /\ pte[va].format = "disk" /\ ~pte[va].being_read
        /\ UNCHANGED <<page, pageLock, list, trim, writer, refreshing, corrupted>>
    BY GotoMoves, Fields DEF AcquireReadRights, At, IInv
  <1>2. BeingReadIn(pte'[va]) /\ OnlyPTE(va)
    <2>1. pte'[va] = [pte[va] EXCEPT !.being_read = TRUE] /\ OnlyPTE(va)
      BY <1>1 DEF AcquireReadRights, IInv, TypeOK, OnlyPTE
    <2>2. pte[va] \in DiskPTE
      BY <1>1 DEF IInv, TypeOK, PTE, Unused, MemoryPTE, TransitionPTE
    <2>3. QED
      BY <1>1, <2>1, <2>2 DEF DiskPTE
  <1>3. \A x \in Users : user[x].pc \in ResolverPC => user[x].va # va
    BY <1>1, ResolversBusy
  <1>4. Handlers'
    <2>1. ResolversApart'
      BY <1>1, <1>3 DEF Moves, Handlers, ResolversApart
    <2>2. ValidFaults'
      BY <1>1, <1>2, <1>3, Fields DEF Moves, Handlers, ValidFaults, OnlyPTE, ResolverPC, ValidPC
    <2>3. (Claims /\ Rescues)'
      BY <1>1, <1>2, <1>3, Fields DEF Moves, Handlers, Claims, Rescues, OnlyPTE, ResolverPC
    <2>4. Connections'
      BY <1>1, <1>2, <1>3, Fields DEF Moves, Handlers, Connections, OnlyPTE, ResolverPC,
         ReadPC, ConnectPC
    <2>5. QED
      BY <2>1, <2>2, <2>3, <2>4 DEF Handlers
  <1>5. FramesNamePTEs'
    BY <1>1, <1>2, Fields DEF Moves, OnlyPTE, Frames, FramesNamePTEs, Reader, ReadPC, ConnectPC
  <1>6. PTEsNameFrames'
    BY <1>1, <1>2, Fields DEF Moves, OnlyPTE, Frames, PTEsNameFrames, Changer, Connector, ValidPC, ConnectPC
  <1>7. (Lists /\ OffLists /\ WriterBatch /\ SlotsOfFrames)'
    BY <1>1 DEF Moves, Frames, Lists, OffLists, WriterBatch, SlotsOfFrames
  <1>8. TrimBatch'
    BY <1>1, <1>2, Fields DEF Moves, OnlyPTE, Frames, FramesNamePTEs, TrimBatch
  <1>9. QED
    BY <1>4, <1>5, <1>6, <1>7, <1>8 DEF Frames

LEMMA ReleaseReadRightsOwned ==
    ASSUME OInv, NEW u \in Users, ReleaseReadRights(u)
    PROVE  Owned'
  <1> USE DEF OInv, Owned
  <1> DEFINE va == user[u].va
  <1>1. /\ user[u].pc = "get_page" /\ va \in VAs /\ Ends(u)
        /\ UNCHANGED <<page, pageLock, list, trim, writer, refreshing, corrupted>>
    BY BackToUserEnds, Fields DEF ReleaseReadRights, At, IInv
  <1>2. /\ pte'[va].format = "disk" /\ OnlyPTE(va)
        /\ BeingReadIn(pte[va])
    BY <1>1 DEF ReleaseReadRights, Disk, IInv, TypeOK, OnlyPTE, Handlers, Claims
  <1>3. \A x \in Users \ {u} : user[x].pc \in ResolverPC => user[x].va # va
    BY <1>1 DEF Handlers, ResolversApart, ResolverPC
  <1>4. Handlers'
    <2>1. ResolversApart'
      BY <1>1 DEF Ends, Handlers, ResolversApart, ResolverPC, ValidPC, ReadPC, ConnectPC
    <2>2. ValidFaults'
      BY <1>1, <1>2, <1>3, Fields DEF Ends, Handlers, ValidFaults, OnlyPTE, ResolverPC, ValidPC
    <2>3. (Claims /\ Rescues)'
      BY <1>1, <1>2, <1>3, Fields DEF Ends, Handlers, Claims, Rescues, OnlyPTE, ResolverPC
    <2>4. Connections'
      BY <1>1, <1>2, <1>3, Fields DEF Ends, Handlers, Connections, OnlyPTE, ResolverPC,
         ReadPC, ConnectPC
    <2>5. QED
      BY <2>1, <2>2, <2>3, <2>4 DEF Handlers
  <1>5. FramesNamePTEs'
    BY <1>1, <1>2, Fields DEF Ends, OnlyPTE, Frames, FramesNamePTEs, Reader, ReadPC, ConnectPC
  <1>6. PTEsNameFrames'
    BY <1>1, <1>2, Fields DEF Ends, OnlyPTE, Frames, PTEsNameFrames, Changer, Connector, ValidPC, ConnectPC
  <1>7. (Lists /\ OffLists /\ WriterBatch /\ SlotsOfFrames)'
    BY <1>1 DEF Ends, Frames, Lists, OffLists, WriterBatch, SlotsOfFrames
  <1>8. TrimBatch'
    BY <1>1, <1>2, Fields DEF Ends, OnlyPTE, Frames, FramesNamePTEs, TrimBatch
  <1>9. QED
    BY <1>4, <1>5, <1>6, <1>7, <1>8 DEF Frames

LEMMA CommitPageDiskPTEs ==
    ASSUME OInv, NEW u \in Users, CommitPageDisk(u)
    PROVE  LET va == user[u].va
               p == user[u].page
               w == page[p].pte
           IN  /\ pte'[va] = pte[va]
               /\ \A v \in VAs : pte'[v] = pte[v] \/ (v = w /\ Forced(v, p))
               /\ w # None => w # va /\ Forced(w, p)
  <1> USE DEF OInv, Owned
  <1> DEFINE va == user[u].va
             p == user[u].page
             w == page[p].pte
  <1>1. user[u].pc = "commit_disk" /\ va \in VAs /\ p \in Pages
    BY LockedAlone, Fields DEF CommitPageDisk, At, LockedPC
  <1>2. BeingReadIn(pte[va]) /\ page[p].status \in Spare
    BY <1>1 DEF Handlers, Claims
  <1>3. CASE page[p].status = "STANDBY"
    <2>1. /\ w # va /\ w \in VAs
          /\ \A x \in Users : user[x].pc \in ResolverPC => user[x].va # w
          /\ InTransition(pte[w], p) \/ BeingTrimmed(pte[w], p)
      BY <1>1, <1>2, <1>3, Repurposed DEF ResolverPC
    <2>2. pte' = ForceToDisk({p})
      BY <1>3 DEF CommitPageDisk
    <2>3. \A v \in VAs : pte'[v] = IF w = v THEN Disk(page[p].pagefile_idx, FALSE) ELSE pte[v]
      BY <1>1, <2>2, ForcedOne
    <2>4. Forced(w, p)
      BY <1>3, <2>1, <2>3 DEF Forced
    <2>5. QED
      BY <1>1, <2>1, <2>3, <2>4
  <1>4. CASE page[p].status # "STANDBY"
    <2>1. pte' = pte
      BY <1>4 DEF CommitPageDisk
    <2>2. w = None
      BY <1>1, <1>2, <1>4 DEF Frames, FramesNamePTEs
    <2>3. QED
      BY <2>1, <2>2
  <1>5. QED
    BY <1>3, <1>4

LEMMA CommitPageDiskOwned ==
    ASSUME OInv, NEW u \in Users, CommitPageDisk(u)
    PROVE  Owned'
  <1> USE DEF OInv, Owned
  <1> DEFINE va == user[u].va
             p == user[u].page
             w == page[p].pte
  <1>1. /\ user[u].pc = "commit_disk" /\ ~corrupted /\ Moves(u, "read_disk")
        /\ va \in VAs /\ p \in Pages /\ list[p] = None
        /\ pageLock[p] = u /\ u # None /\ p \notin writer.confirmed \cup refreshing
        /\ UNCHANGED <<list, trim, writer, refreshing, corrupted>>
    BY GotoMoves, LockedAlone, Fields DEF CommitPageDisk, At, IInv, LockedPC
  <1>2. /\ pageLock'[p] = None
        /\ \A q \in Pages \ {p} : pageLock'[q] = pageLock[q] /\ page'[q] = page[q]
        /\ page'[p].status = "ACTIVE" /\ page'[p].pte = va
        /\ page'[p].writing_to_disk = page[p].writing_to_disk
        /\ page'[p].pagefile_idx = page[p].pagefile_idx
        /\ page[p].modified => page'[p].modified
    BY <1>1 DEF CommitPageDisk, IInv, TypeOK, Page
  <1>3. \A x \in Users \ {u} : /\ user[x].pc \in LockedPC => user[x].page # p
                               /\ user[x].pc \in ResolverPC => user[x].va # va
    BY <1>1, LockedAlone DEF LockedPC, Handlers, ResolversApart, ResolverPC
  <1>4. BeingReadIn(pte[va]) /\ page[p].status \in Spare
    BY <1>1 DEF Handlers, Claims
  <1>5. /\ pte'[va] = pte[va]
        /\ \A x \in Users \ {u} : user[x].pc \in ResolverPC => pte'[user[x].va] = pte[user[x].va]
        /\ \A v \in VAs : \/ pte'[v] = pte[v]
                          \/ v = w /\ w # va /\ pte'[v].format = "disk"
        /\ w # None => w # va /\ pte'[w].format = "disk"
    <2>1. /\ pte'[va] = pte[va]
          /\ \A v \in VAs : pte'[v] = pte[v] \/ (v = w /\ Forced(v, p))
          /\ w # None => w # va /\ Forced(w, p)
      BY CommitPageDiskPTEs
    <2>2. \A v \in VAs : Forced(v, p) =>
             /\ pte'[v].format = "disk"
             /\ \A x \in Users : user[x].pc \in ResolverPC => user[x].va # v
      BY ForcedFormat
    <2>3. \A x \in Users : user[x].va \in VAs
      BY Fields
    <2>4. w \in VAs \cup {None}
      BY <1>1, Fields
    <2>5. QED
      BY <1>1, <2>1, <2>2, <2>3, <2>4
  <1>6. \A x \in Users \ {u} : user[x].pc \in ValidPC \cup ReadPC \cup ConnectPC =>
            /\ user[x].pc \in ResolverPC
            /\ user[x].page \in Pages \ {p}
            /\ page'[user[x].page] = page[user[x].page]
            /\ pte'[user[x].va] = pte[user[x].va]
    <2>1. \A x \in Users : user[x].pc \in ValidPC \cup ReadPC \cup ConnectPC =>
             /\ user[x].pc \in ResolverPC
             /\ user[x].page \in Pages
             /\ page[user[x].page].status = "ACTIVE"
      BY Fields DEF Handlers, ValidFaults, Connections, ResolverPC, FramePC, ValidPC, ReadPC, ConnectPC
    <2>2. QED
      BY <2>1, <1>2, <1>4, <1>5
  <1>7. p \notin writer.batch
    BY <1>1, <1>4, Repurposed
  <1>8. Handlers'
    <2>1. ResolversApart'
      BY <1>1 DEF Moves, Handlers, ResolversApart, ResolverPC, ReadPC
    <2>2. ValidFaults'
      <3>1. \A x \in Users : user'[x].pc \in ValidPC => x # u /\ user[x].pc = user'[x].pc
        BY <1>1 DEF Moves, ValidPC
      <3>2. QED
        BY <1>1, <1>6, <3>1 DEF Moves, Handlers, ValidFaults, ValidPC
    <2>3. Claims'
      BY <1>1, <1>2, <1>3, <1>5, Fields DEF Moves, Handlers, Claims, ResolverPC, FramePC,
         LockedPC
    <2>4. Rescues'
      <3>1. \A x \in Users : user'[x].pc \in {"await_trim", "commit"} =>
               /\ x # u /\ user[x].pc = user'[x].pc
               /\ user'[x].page = user[x].page /\ user'[x].va = user[x].va
        BY <1>1 DEF Moves
      <3>2. \A x \in Users \ {u} : user[x].pc \in {"await_trim", "commit"} =>
               /\ page'[user[x].page] = page[user[x].page]
               /\ pte'[user[x].va] = pte[user[x].va]
        BY <1>2, <1>3, <1>5, Fields DEF ResolverPC, FramePC, LockedPC
      <3>3. QED
        BY <3>1, <3>2 DEF Handlers, Rescues
    <2>5. Connections'
      <3>1. ASSUME NEW x \in Users \ {u}, user'[x].pc \in ReadPC \cup ConnectPC
            PROVE  user[x].pc \in ReadPC \cup ConnectPC /\ user'[x].page = user[x].page
                   /\ user'[x].va = user[x].va /\ user'[x].pc = user[x].pc
        BY <1>1, <3>1 DEF Moves
      <3>2. /\ user'[u].pc = "read_disk" /\ user'[u].page = p /\ user'[u].va = va
            /\ BeingReadIn(pte'[va])
        BY <1>1, <1>4, <1>5 DEF Moves
      <3>3. QED
        BY <1>1, <1>2, <1>6, <1>7, <3>1, <3>2 DEF Handlers, Connections, ReadPC, ConnectPC
    <2>6. QED
      BY <2>1, <2>2, <2>3, <2>4, <2>5 DEF Handlers
  <1>9. FramesNamePTEs'
    <2>1. user'[u].va = va /\ user'[u].page = p /\ user'[u].pc \in ReadPC \cup ConnectPC
      BY <1>1 DEF Moves, ReadPC, ConnectPC
    <2>2. ASSUME NEW q \in Pages \ {p}
          PROVE  /\ page'[q] = page[q]
                 /\ \A v \in VAs, x \in Users : Reader(x, v, q) => Reader(x, v, q)'
      BY <1>1, <1>2 DEF Moves, Reader, ReadPC, ConnectPC
    <2>3. w \in VAs /\ w # va =>
             pte[w].frame = p /\ (IsStillTrimmed(pte[w]) \/ pte[w].format = "transition")
      <3>1. HAVE w \in VAs /\ w # va
      <3>2. page[p].status \notin {"ZERO", "FREE"}
        BY <1>1, <3>1, ConstantsAssumption DEF VAs, Frames, FramesNamePTEs
      <3>3. page[p].status \in Listable
        BY <1>4, <3>1, <3>2 DEF Spare, Listable
      <3>4. QED
        BY <1>1, <3>3 DEF Frames, FramesNamePTEs, InTransition, BeingTrimmed
    <2>4. ASSUME NEW q \in Pages \ {p}, NEW v \in VAs, page[q].pte = v
          PROVE  \/ pte'[v] = pte[v]
                 \/ /\ page[q].status \notin Listable
                    /\ ~(pte[v].format = "memory" /\ pte[v].frame = q)
      <3>1. CASE v = w /\ w # va
        BY <3>1, <2>3, <2>4 DEF Frames, FramesNamePTEs, InTransition, BeingTrimmed
      <3>2. QED
        BY <1>5, <3>1
    <2>5. ASSUME NEW q \in Pages \ {p}
          PROVE  LET v == page[q].pte IN
                 /\ page[q].status \in {"ZERO", "FREE"} <=> v = None
                 /\ page[q].status \in Listable =>
                       InTransition(pte'[v], q) \/ BeingTrimmed(pte'[v], q)
                 /\ page[q].status = "ACTIVE" =>
                       \/ pte'[v].format = "memory" /\ pte'[v].frame = q
                       \/ \E x \in Users : Reader(x, v, q)'
      <3>1. /\ page[q].pte \in VAs \cup {None}
            /\ page[q].status = "ACTIVE" \/ page[q].status \in Listable => page[q].pte # None
        BY Fields DEF Frames, FramesNamePTEs, Listable
      <3>2. QED
        BY <2>2, <2>4, <3>1 DEF Frames, FramesNamePTEs
    <2>6. QED
      <3>1. ASSUME NEW q \in Pages \ {p}
            PROVE  LET v == page'[q].pte IN
                   /\ page'[q].status \in {"ZERO", "FREE"} <=> v = None
                   /\ page'[q].status \in Listable =>
                         InTransition(pte'[v], q) \/ BeingTrimmed(pte'[v], q)
                   /\ page'[q].status = "ACTIVE" =>
                         \/ pte'[v].format = "memory" /\ pte'[v].frame = q
                         \/ \E x \in Users : Reader(x, page[q].pte, q)'
        BY <2>2, <2>5
      <3>2. /\ page'[p].status = "ACTIVE" /\ page'[p].pte = va /\ va # None
            /\ user'[u].va = va /\ user'[u].page = p /\ user'[u].pc \in ReadPC \cup ConnectPC
        BY <1>1, <1>2, <2>1, ConstantsAssumption DEF VAs
      <3>3. QED
        BY <1>1, <3>1, <3>2 DEF FramesNamePTEs, Listable, InTransition, BeingTrimmed, IsStillTrimmed, Reader
  <1>10. PTEsNameFrames'
    <2>1. /\ user'[u].va = va /\ user'[u].page = p /\ user'[u].pc = "read_disk"
          /\ \A x \in Users, v \in VAs \ {va}, q \in Pages :
                /\ Changer(x, v, q) => Changer(x, v, q)'
                /\ Connector(x, v, q) => Connector(x, v, q)'
      BY <1>1 DEF Moves, Changer, Connector
    <2>2. ASSUME NEW v \in VAs \ {va}, pte'[v].format \in {"memory", "transition"}
          PROVE  /\ pte'[v] = pte[v] /\ pte[v].frame \in Pages
                 /\ pte[v].format = "transition" \/ ~pte[v].being_changed =>
                       pte[v].frame # p /\ page'[pte[v].frame] = page[pte[v].frame]
      <3>1. pte'[v] = pte[v] /\ w # v
        BY <1>5, <2>2, ConstantsAssumption DEF VAs
      <3>2. pte[v].frame \in Pages
        BY <2>2, <3>1, Fields
      <3>3. pte[v].format = "transition" \/ ~pte[v].being_changed =>
               page[pte[v].frame].pte = v
        BY <2>2, <3>1 DEF Frames, PTEsNameFrames
      <3>4. QED
        BY <1>2, <3>1, <3>2, <3>3
    <2>3. ASSUME NEW v \in VAs \ {va}
          PROVE  LET e == pte'[v] IN
                 /\ e.format = "memory" /\ ~e.being_changed =>
                       /\ page'[e.frame].pte = v
                       /\ e.protections # "NONE"
                       /\ e.being_trimmed =>
                             /\ v \in trim.ptes
                             /\ page'[e.frame].status = "ACTIVE" => e.frame \in Unchained(trim)
                       /\ ~e.being_trimmed => page'[e.frame].status = "ACTIVE"
                 /\ e.format = "memory" /\ e.being_changed =>
                       \E x \in Users : Changer(x, v, pte[v].frame)'
                 /\ e.format = "transition" =>
                       /\ page'[e.frame].pte = v
                       /\ \/ page'[e.frame].status \in Listable
                          \/ /\ page'[e.frame].status = "ACTIVE"
                             /\ \E x \in Users : Connector(x, v, pte[v].frame)'
      BY <2>1, <2>2 DEF Frames, PTEsNameFrames
    <2>4. pte'[va].format = "disk"
      BY <1>4, <1>5
    <2>5. QED
      BY <1>1, <2>1, <2>2, <2>3, <2>4 DEF PTEsNameFrames, Changer, Connector
  <1>11. (Lists /\ OffLists)'
    BY <1>1, <1>2, ConstantsAssumption DEF Moves, Frames, Lists, OffLists
  <1>12. (WriterBatch /\ SlotsOfFrames)'
    BY <1>1, <1>2 DEF Frames, WriterBatch, SlotsOfFrames
  <1>13. TrimBatch'
    <2>1. /\ p \in trim.to_modified => trim.pc \notin {"mark", "chain_modified", "insert_modified"}
          /\ p \in trim.to_standby => trim.pc = "edit"
      BY <1>1, <1>4, Repurposed
    <2>2. \A q \in Pages \ {p} :
             BeingTrimmed(pte[page[q].pte], q) /\ page[q].status \in {"ACTIVE", "MODIFIED", "STANDBY"}
                => BeingTrimmed(pte'[page[q].pte], q)
      <3> SUFFICES ASSUME NEW q \in Pages \ {p}, BeingTrimmed(pte[page[q].pte], q), page[q].pte \in VAs
                   PROVE  BeingTrimmed(pte'[page[q].pte], q)
        BY Fields
      <3>1. CASE page[q].pte = w
        <4>1. page[p].status = "STANDBY"
          <5>1. page[p].status \notin {"ZERO", "FREE"}
            BY <1>1, <3>1, ConstantsAssumption DEF VAs, Frames, FramesNamePTEs
          <5>2. QED
            BY <1>4, <5>1
        <4>2. InTransition(pte[w], p) \/ BeingTrimmed(pte[w], p)
          BY <1>1, <4>1 DEF Frames, FramesNamePTEs
        <4>3. QED
          BY <3>1, <4>2
      <3>2. CASE page[q].pte # w
        BY <1>5, <3>2
      <3>3. QED
        BY <3>1, <3>2
    <2>3. p # trim.page
      BY <1>1, <1>4 DEF Frames, TrimBatch
    <2>4. QED
      BY <1>1, <1>2, <2>1, <2>2, <2>3 DEF Moves, Frames, TrimBatch
  <1>14. QED
    BY <1>8, <1>9, <1>10, <1>11, <1>12, <1>13 DEF Frames

LEMMA ReadPageFromDiskOwned ==
    ASSUME OInv, NEW u \in Users, ReadPageFromDisk(u)
    PROVE  Owned'
  <1> USE DEF OInv, Owned
  <1>1. /\ user[u].pc = "read_disk" /\ Moves(u, "end_slot")
        /\ UNCHANGED <<pte, page, pageLock, list, trim, writer, refreshing, corrupted>>
    BY GotoMoves DEF ReadPageFromDisk, At, IInv
  <1>2. Handlers'
    BY <1>1 DEF Moves, Handlers, ResolversApart, ValidFaults, Claims,
       Rescues, Connections, ResolverPC, ValidPC, ReadPC, ConnectPC
  <1>3. FramesNamePTEs'
    BY <1>1 DEF Moves, Frames, FramesNamePTEs, Reader, ReadPC, ConnectPC
  <1>4. PTEsNameFrames'
    BY <1>1 DEF Moves, Frames, PTEsNameFrames, Changer, Connector, ValidPC, ConnectPC
  <1>5. (Lists /\ OffLists /\ WriterBatch /\ SlotsOfFrames /\ TrimBatch)'
    BY <1>1 DEF Moves, Frames, Lists, OffLists, WriterBatch, SlotsOfFrames, TrimBatch
  <1>6. QED
    BY <1>2, <1>3, <1>4, <1>5 DEF Frames

LEMMA EndOfFaultDiskSlotOwned ==
    ASSUME OInv, NEW u \in Users, EndOfFaultDiskSlot(u)
    PROVE  Owned'
  <1> USE DEF OInv, Owned
  <1> DEFINE va == user[u].va
             p == user[u].page
  <1>1. /\ user[u].pc = "end_slot" /\ Moves(u, "map") /\ va \in VAs /\ p \in Pages
        /\ UNCHANGED <<pte, pageLock, list, trim, writer, refreshing, corrupted>>
    BY GotoMoves, Fields DEF EndOfFaultDiskSlot, At, IInv, FramePC
  <1>2. /\ page[p].status = "ACTIVE" /\ page[p].pte = va /\ p \notin writer.batch
        /\ BeingReadIn(pte[va])
    BY <1>1 DEF Handlers, Connections, ReadPC, ConnectPC
  <1>3. \A q \in Pages :
           /\ page'[q].status = page[q].status /\ page'[q].pte = page[q].pte
           /\ page'[q].modified = page[q].modified
           /\ page'[q].writing_to_disk = page[q].writing_to_disk
           /\ q # p => page'[q].pagefile_idx = page[q].pagefile_idx
    BY <1>1 DEF EndOfFaultDiskSlot, IInv, TypeOK, Page
  <1>4. Handlers'
    <2>1. ResolversApart'
      BY <1>1 DEF Moves, Handlers, ResolversApart, ResolverPC, ReadPC, ConnectPC
    <2>2. ValidFaults'
      BY <1>1, <1>3, Fields DEF Moves, Handlers, ValidFaults, ValidPC, FramePC
    <2>3. (Claims /\ Rescues)'
      BY <1>1, <1>3, Fields DEF Moves, Handlers, Claims, Rescues, FramePC
    <2>4. Connections'
      BY <1>1, <1>2, <1>3, Fields DEF Moves, Handlers, Connections, ReadPC, ConnectPC, FramePC
    <2>5. QED
      BY <2>1, <2>2, <2>3, <2>4 DEF Handlers
  <1>5. FramesNamePTEs'
    BY <1>1, <1>3 DEF Moves, Frames, FramesNamePTEs, Reader, ReadPC, ConnectPC
  <1>6. PTEsNameFrames'
    BY <1>1, <1>3, Fields DEF Moves, Frames, PTEsNameFrames, Changer, Connector, ValidPC, ConnectPC
  <1>7. (Lists /\ OffLists /\ WriterBatch /\ SlotsOfFrames /\ TrimBatch)'
    BY <1>1, <1>2, <1>3 DEF Moves, Frames, Lists, OffLists, WriterBatch, SlotsOfFrames, TrimBatch
  <1>8. QED
    BY <1>4, <1>5, <1>6, <1>7 DEF Frames

----------------------------------------------------------------------------
(* Connecting PTEs *)

LEMMA MapPageOwned ==
    ASSUME OInv, NEW u \in Users, MapPage(u)
    PROVE  Owned'
  <1> USE DEF OInv, Owned
  <1>1. /\ user[u].pc = "map"
        /\ \A x \in Users \ {u} : user'[x] = user[x]
        /\ user'[u].pc = "connect" /\ user'[u].page = user[u].page /\ user'[u].va = user[u].va
        /\ UNCHANGED <<pte, page, pageLock, list, trim, writer, refreshing, corrupted>>
    BY DEF MapPage, At, IInv, TypeOK, UserType
  <1>2. Handlers'
    <2>1. ResolversApart'
      BY <1>1 DEF Handlers, ResolversApart, ResolverPC, ConnectPC
    <2>2. ValidFaults'
      BY <1>1 DEF Handlers, ValidFaults, ValidPC
    <2>3. (Claims /\ Rescues)'
      BY <1>1 DEF Handlers, Claims, Rescues
    <2>4. Connections'
      BY <1>1 DEF Handlers, Connections, ReadPC, ConnectPC
    <2>5. QED
      BY <2>1, <2>2, <2>3, <2>4 DEF Handlers
  <1>3. FramesNamePTEs'
    BY <1>1 DEF Frames, FramesNamePTEs, Reader, ReadPC, ConnectPC
  <1>4. PTEsNameFrames'
    BY <1>1 DEF Frames, PTEsNameFrames, Changer, Connector, ValidPC, ConnectPC
  <1>5. (Lists /\ OffLists /\ WriterBatch /\ SlotsOfFrames /\ TrimBatch)'
    BY <1>1 DEF Frames, Lists, OffLists, WriterBatch, SlotsOfFrames, TrimBatch
  <1>6. QED
    BY <1>2, <1>3, <1>4, <1>5 DEF Frames

LEMMA ConnectPTEOwned ==
    ASSUME OInv, NEW u \in Users, ConnectPTE(u)
    PROVE  Owned'
  <1> USE DEF OInv, Owned
  <1> DEFINE va == user[u].va
             p == user[u].page
  <1>1. /\ user[u].pc = "connect" /\ Moves(u, "speculate") /\ va \in VAs /\ p \in Pages
        /\ UNCHANGED <<page, pageLock, list, trim, writer, refreshing, corrupted>>
    BY GotoMoves, Fields DEF ConnectPTE, At, IInv, FramePC
  <1>2. /\ page[p].status = "ACTIVE" /\ page[p].pte = va
        /\ BeingReadIn(pte[va]) \/ InTransition(pte[va], p) \/ BeingChanged(pte[va], p)
    BY <1>1 DEF Handlers, Connections, ConnectPC
  <1>3. /\ pte'[va].format = "memory" /\ pte'[va].frame = p
        /\ ~pte'[va].being_changed /\ ~pte'[va].being_trimmed
        /\ pte'[va].protections # "NONE"
        /\ OnlyPTE(va)
    BY <1>1 DEF ConnectPTE, Connected, Memory, OnlyPTE, IInv, TypeOK
  <1>4. \A x \in Users \ {u} : user[x].pc \in ResolverPC => user[x].va # va
    BY <1>1 DEF Handlers, ResolversApart, ResolverPC, ConnectPC
  <1>5. Handlers'
    <2>1. ResolversApart'
      BY <1>1 DEF Moves, Handlers, ResolversApart, ResolverPC, ValidPC, ReadPC, ConnectPC
    <2>2. ValidFaults'
      BY <1>1, <1>3, <1>4, Fields DEF Moves, Handlers, ValidFaults, OnlyPTE, ResolverPC, ValidPC
    <2>3. (Claims /\ Rescues)'
      BY <1>1, <1>3, <1>4, Fields DEF Moves, Handlers, Claims, Rescues, OnlyPTE, ResolverPC
    <2>4. Connections'
      BY <1>1, <1>3, <1>4, Fields DEF Moves, Handlers, Connections, OnlyPTE, ResolverPC,
         ReadPC, ConnectPC
    <2>5. QED
      BY <2>1, <2>2, <2>3, <2>4 DEF Handlers
  <1>6. FramesNamePTEs'
    BY <1>1, <1>2, <1>3, <1>4, Fields DEF Moves, OnlyPTE, Frames, FramesNamePTEs, Reader,
       ReadPC, ConnectPC, ResolverPC
  <1>7. PTEsNameFrames'
    <2>1. \A v \in VAs \ {va}, x \in Users, q \in Pages :
             /\ Changer(x, v, q) => Changer(x, v, q)'
             /\ Connector(x, v, q) => Connector(x, v, q)'
      BY <1>1 DEF Moves, Changer, Connector
    <2>2. \A v \in VAs \ {va} : pte'[v] = pte[v]
      BY <1>3 DEF OnlyPTE
    <2>3. QED
      BY <1>1, <1>2, <1>3, <2>1, <2>2, Fields DEF Frames, PTEsNameFrames
  <1>8. (Lists /\ OffLists /\ WriterBatch /\ SlotsOfFrames)'
    BY <1>1 DEF Moves, Frames, Lists, OffLists, WriterBatch, SlotsOfFrames
  <1>9. TrimBatch'
    <2>1. \A q \in Pages : BeingTrimmed(pte[page[q].pte], q) /\ page[q].pte \in VAs
             => page[q].pte # va
      BY <1>1, <1>2 DEF InTransition
    <2>2. \A q \in Pages : BeingTrimmed(pte[page[q].pte], q) /\ page[q].pte \in VAs
             => pte'[page[q].pte] = pte[page[q].pte]
      BY <1>3, <2>1 DEF OnlyPTE
    <2>3. \A q \in Pages : page[q].status \in {"ACTIVE", "MODIFIED", "STANDBY"} => page[q].pte \in VAs
      BY Fields
    <2>4. QED
      BY <1>1, <2>2, <2>3 DEF Moves, Frames, TrimBatch
  <1>10. QED
    BY <1>5, <1>6, <1>7, <1>8, <1>9 DEF Frames

----------------------------------------------------------------------------
(* The trimmer *)

\* A frame in use is on no list, and nobody has it under its lock.
LEMMA ActiveUnlocked ==
    ASSUME OInv, NEW p \in Pages, page[p].status = "ACTIVE"
    PROVE  Untaken(p) /\ list[p] = None
  <1> USE DEF OInv, Owned
  <1>1. list[p] = None
    BY DEF Frames, Lists, IInv, TypeOK
  <1>2. \A x \in Users : pageLock[p] = x => user[x].pc = "check"
    <2> SUFFICES ASSUME NEW x \in Users, pageLock[p] = x
                 PROVE  user[x].pc = "check"
      OBVIOUS
    <2>1. user[x].page = p /\ user[x].pc \in LockedPC
      BY DEF IInv, PageLocksOwned
    <2>2. QED
      BY <2>1 DEF LockedPC, Handlers, Claims, Rescues
  <1>3. pageLock[p] # "writer" /\ pageLock[p] # "refresher"
    BY DEF IInv, PageLocksOwned, Frames, WriterBatch, Lists
  <1>4. QED
    BY <1>1, <1>2, <1>3 DEF IInv, TypeOK, Threads

LEMMA TrimMarkOwned ==
    ASSUME OInv, NEW va \in VAs, TrimMark(va)
    PROVE  Owned'
  <1> USE DEF OInv, Owned
  <1>0. PICK p \in Pages : p = pte[va].frame
    BY Fields DEF TrimMark, IsStable
  <1>1. /\ trim.pc = "mark" /\ IsStable(pte[va]) /\ trim.page = None
        /\ page[p].status = "ACTIVE" /\ page[p].pte = va
        /\ UNCHANGED <<page, pageLock, list, user, writer, refreshing, corrupted>>
    BY <1>0, Fields DEF TrimMark, TrimmerAt, IsStable, Frames, PTEsNameFrames
  <1>2. BeingTrimmed(pte'[va], p) /\ pte'[va].protections # "NONE" /\ OnlyPTE(va)
    <2>1. pte'[va] = [pte[va] EXCEPT !.being_trimmed = TRUE] /\ OnlyPTE(va)
      BY DEF TrimMark, IInv, TypeOK, OnlyPTE
    <2>2. pte[va] \in MemoryPTE
      BY <1>1, MemoryFormat DEF IInv, TypeOK, IsStable
    <2>3. pte[va].protections # "NONE"
      BY <1>1 DEF IsStable, Frames, PTEsNameFrames
    <2>4. QED
      BY <1>0, <1>1, <2>1, <2>2, <2>3 DEF MemoryPTE, IsStable
  <1>4. /\ trim'.pc = "mark" /\ trim'.ptes = trim.ptes \cup {va}
        /\ trim'.to_modified = trim.to_modified
        /\ trim'.page \in {None, p}
        /\ \A q \in Pages :
              q \in trim'.to_standby <=>
                    q \in trim.to_standby \/ (q = p /\ page[p].pagefile_idx # None)
        /\ p \in trim'.to_standby \/ p = trim'.page
    BY <1>0, <1>1 DEF TrimMark, IInv, TypeOK, TrimType
  <1>5. \A x \in Users : user[x].pc \in ResolverPC => user[x].va # va
    BY <1>1, ResolversBusy
  <1>6. Handlers'
    <2>1. \A x \in Users : user[x].pc \in ResolverPC =>
             user[x].va \in VAs /\ pte'[user[x].va] = pte[user[x].va]
      BY <1>2, <1>5, Fields DEF OnlyPTE
    <2>2. ResolversApart'
      BY <1>1 DEF Handlers, ResolversApart
    <2>3. ValidFaults'
      BY <1>1, <2>1 DEF Handlers, ValidFaults, ResolverPC, ValidPC
    <2>4. Claims'
      BY <1>1, <2>1 DEF Handlers, Claims, ResolverPC
    <2>5. Rescues'
      BY <1>1, <2>1 DEF Handlers, Rescues, ResolverPC
    <2>6. Connections'
      BY <1>1, <2>1 DEF Handlers, Connections, ResolverPC
    <2>7. QED
      BY <2>2, <2>3, <2>4, <2>5, <2>6 DEF Handlers
  <1>7. \A x \in Users : \A v, q : /\ Reader(x, v, q)' <=> Reader(x, v, q)
                                   /\ Changer(x, v, q)' <=> Changer(x, v, q)
                                   /\ Connector(x, v, q)' <=> Connector(x, v, q)
                                   /\ Reader(x, v, q) => v # va
    BY <1>1, <1>5 DEF Reader, Changer, Connector, ResolverPC
  <1>8. FramesNamePTEs'
    BY <1>1, <1>2, <1>7, Fields DEF Frames, FramesNamePTEs, OnlyPTE, IsStable
  <1>9. PTEsNameFrames'
    <2>1. /\ Unchained(trim) \ {None} \subseteq Unchained(trim')
          /\ p \in Unchained(trim')
      BY <1>1, <1>4 DEF Unchained, IInv, TypeOK, TrimType
    <2>2. \A v \in VAs \ {va} : pte'[v] = pte[v]
      BY <1>2 DEF OnlyPTE
    <2>3. SUFFICES ASSUME NEW v \in VAs
                   PROVE  LET e == pte'[v] IN
        /\ e.format = "memory" /\ ~e.being_changed =>
              /\ page[e.frame].pte = v
              /\ e.protections # "NONE"
              /\ e.being_trimmed =>
                    /\ v \in trim'.ptes
                    /\ page[e.frame].status = "ACTIVE" => e.frame \in Unchained(trim')
              /\ ~e.being_trimmed => page[e.frame].status = "ACTIVE"
        /\ e.format = "memory" /\ e.being_changed =>
              \E u \in Users : Changer(u, v, e.frame)
        /\ e.format = "transition" =>
              /\ page[e.frame].pte = v
              /\ \/ page[e.frame].status \in Listable
                 \/ /\ page[e.frame].status = "ACTIVE"
                    /\ \E u \in Users : Connector(u, v, e.frame)
      BY <1>1 DEF PTEsNameFrames, Changer, Connector
    <2>4. CASE v = va
      BY <1>1, <1>2, <1>4, <2>1, <2>4
    <2>5. CASE v # va
      <3>1. pte'[v] = pte[v] /\ v \in VAs \ {va}
        BY <2>2, <2>5
      <3>2. pte[v].format = "memory" => pte[v].frame \in Pages /\ pte[v].frame # None
        BY Fields, ConstantsAssumption
      <3>3. QED
        BY <1>4, <2>1, <3>1, <3>2 DEF Frames, PTEsNameFrames
    <2>6. QED
      BY <2>4, <2>5
  <1>10. (Lists /\ OffLists)'
    BY <1>1, <1>4 DEF Frames, Lists, OffLists
  <1>11. (WriterBatch /\ SlotsOfFrames)'
    BY <1>1 DEF Frames, WriterBatch, SlotsOfFrames
  <1>12. TrimBatch'
    <2>1. \A q \in Pages \ {p} :
             BeingTrimmed(pte[page[q].pte], q) /\ page[q].status = "ACTIVE"
                => BeingTrimmed(pte'[page[q].pte], q)
      <3>1. \A q \in Pages : BeingTrimmed(pte[page[q].pte], q) /\ page[q].status = "ACTIVE"
               => page[q].pte \in VAs \ {va}
        BY <1>1, Fields DEF IsStable
      <3>2. QED
        BY <1>2, <3>1 DEF OnlyPTE
    <2>2. p \notin trim.to_modified /\ p \notin trim.to_standby
      BY <1>1 DEF Frames, TrimBatch, IsStable
    <2>3. \A q \in Pages \ {p} :
             /\ q # trim'.page
             /\ q \in trim'.to_modified =>
                   /\ BeingTrimmed(pte'[page[q].pte], q) /\ page[q].status = "ACTIVE"
                   /\ page[q].pagefile_idx = None /\ ~InFlight(q)
             /\ q \in trim'.to_standby =>
                   /\ BeingTrimmed(pte'[page[q].pte], q) /\ page[q].status = "ACTIVE"
                   /\ page[q].pagefile_idx # None
      BY <1>1, <1>4, <2>1, ConstantsAssumption DEF Frames, TrimBatch
    <2>4. /\ BeingTrimmed(pte'[page[p].pte], p) /\ page[p].status = "ACTIVE"
          /\ p \notin trim'.to_modified
          /\ p \in trim'.to_standby => page[p].pagefile_idx # None
      BY <1>1, <1>2, <1>4, <2>2
    <2>5. QED
      BY <1>1, <1>4, <2>3, <2>4 DEF TrimBatch
  <1>13. QED
    BY <1>6, <1>8, <1>9, <1>10, <1>11, <1>12 DEF Frames

\* Steps of the trimmer that change its batch only.
LEMMA TrimOnly ==
    ASSUME OInv, UNCHANGED <<pte, page, pageLock, user, writer, refreshing, corrupted>>
    PROVE  /\ Handlers' /\ FramesNamePTEs' /\ WriterBatch' /\ SlotsOfFrames'
           /\ /\ trim.ptes \subseteq trim'.ptes
              /\ Unchained(trim) \subseteq Unchained(trim') \cup {None}
              => PTEsNameFrames'
  <1> USE DEF OInv, Owned
  <1>1. Handlers'
    BY DEF Handlers, ResolversApart, ValidFaults, Claims, Rescues, Connections
  <1>2. FramesNamePTEs'
    BY DEF Frames, FramesNamePTEs, Reader
  <1>3. WriterBatch' /\ SlotsOfFrames'
    BY DEF Frames, WriterBatch, SlotsOfFrames
  <1>4. /\ trim.ptes \subseteq trim'.ptes
        /\ Unchained(trim) \subseteq Unchained(trim') \cup {None}
        => PTEsNameFrames'
    BY Fields, ConstantsAssumption DEF Frames, PTEsNameFrames, Changer, Connector
  <1>5. QED
    BY <1>1, <1>2, <1>3, <1>4

\* Both kinds of chains: the frames leave use and go to a status.
LEMMA TrimChainSteps ==
    ASSUME OInv, NEW S \in SUBSET Pages, NEW status \in Listable,
           \A p \in S : /\ page[p].status = "ACTIVE"
                        /\ BeingTrimmed(pte[page[p].pte], p)
                        /\ status = "MODIFIED" <=> page[p].pagefile_idx = None,
           page' = [p \in Pages |-> IF p \in S THEN [page[p] EXCEPT !.status = status]
                                               ELSE page[p]],
           UNCHANGED <<pte, pageLock, list, user, writer, refreshing, corrupted>>,
           trim'.ptes = trim.ptes, Unchained(trim) \subseteq Unchained(trim') \cup S
    PROVE  /\ Handlers' /\ FramesNamePTEs' /\ PTEsNameFrames' /\ Lists' /\ WriterBatch'
           /\ SlotsOfFrames'
           /\ \A p \in S : list[p] = None /\ Untaken(p)
  <1> USE DEF OInv, Owned
  <1>1. \A p \in Pages :
           /\ page'[p].status = IF p \in S THEN status ELSE page[p].status
           /\ page'[p].pte = page[p].pte
           /\ page'[p].pagefile_idx = page[p].pagefile_idx
           /\ page'[p].modified = page[p].modified
           /\ page'[p].writing_to_disk = page[p].writing_to_disk
    BY DEF IInv, TypeOK, Page
  <1>2. \A p \in S : list[p] = None /\ Untaken(p)
    BY ActiveUnlocked
  <1>3. \A x \in Users :
           \/ user[x].pc \in ValidPC \cup ReadPC \cup ConnectPC
           \/ user[x].pc \in {"claim", "commit_disk", "await_trim", "commit"}
           => user[x].page \in Pages \ S
    <2>1. \A x \in Users : user[x].pc \in ValidPC \cup ReadPC \cup ConnectPC =>
             /\ page[user[x].page].pte = user[x].va /\ user[x].page \in Pages
             /\ ~BeingTrimmed(pte[user[x].va], user[x].page)
      BY Fields DEF Handlers, ValidFaults, Connections, FramePC, ValidPC, ReadPC, ConnectPC
    <2>2. \A x \in Users : user[x].pc \in {"claim", "commit_disk", "await_trim", "commit"} =>
             page[user[x].page].status # "ACTIVE" /\ user[x].page \in Pages
      BY Fields DEF Handlers, Claims, Rescues, FramePC
    <2>3. QED
      BY <2>1, <2>2
  <1>4. Handlers'
    <2>1. ResolversApart'
      BY DEF Handlers, ResolversApart
    <2>2. ValidFaults'
      BY <1>1, <1>3 DEF Handlers, ValidFaults, ValidPC
    <2>3. Claims'
      BY <1>1, <1>3 DEF Handlers, Claims
    <2>4. Rescues'
      BY <1>1, <1>3 DEF Handlers, Rescues
    <2>5. Connections'
      BY <1>1, <1>3 DEF Handlers, Connections
    <2>6. QED
      BY <2>1, <2>2, <2>3, <2>4, <2>5 DEF Handlers
  <1>5. \A x \in Users : \A v, q : /\ Reader(x, v, q)' <=> Reader(x, v, q)
                                   /\ Changer(x, v, q)' <=> Changer(x, v, q)
                                   /\ Connector(x, v, q)' <=> Connector(x, v, q)
    BY DEF Reader, Changer, Connector
  <1>6. FramesNamePTEs'
    BY <1>1, <1>5, Fields DEF Frames, FramesNamePTEs
  <1>7. PTEsNameFrames'
    BY <1>1, <1>5, Fields DEF Frames, PTEsNameFrames
  <1>8. Lists'
    BY <1>1, <1>2, ConstantsAssumption DEF Frames, Lists
  <1>9. (WriterBatch /\ SlotsOfFrames)'
    BY <1>1 DEF Frames, WriterBatch, SlotsOfFrames
  <1>10. QED
    BY <1>2, <1>4, <1>6, <1>7, <1>8, <1>9

\* With the lock free, nobody can be about to change the frame: it is in use.
LEMMA TrimPlaceOwned ==
    ASSUME OInv, TrimPlace
    PROVE  Owned'
  <1> USE DEF OInv, Owned
  <1>0. PICK p \in Pages : p = trim.page
    BY DEF TrimPlace, IInv, TypeOK, TrimType
  <1>1. /\ trim.pc = "mark"
        /\ BeingTrimmed(pte[page[p].pte], p) /\ page[p].status = "ACTIVE"
        /\ trim'.pc = "mark" /\ trim'.ptes = trim.ptes /\ trim'.page = None
        /\ p # None
        /\ UNCHANGED <<pte, pageLock, list, user, writer, refreshing, corrupted>>
    BY <1>0, ConstantsAssumption DEF TrimPlace, TrimmerAt, IInv, TypeOK, TrimType, Frames, TrimBatch
  <1>2. \A q \in Pages :
           /\ q \in trim'.to_standby <=>
                 q \in trim.to_standby
                 \/ (q = p /\ page[p].pagefile_idx # None /\ ~InFlight(p))
           /\ q \in trim'.to_modified <=>
                 q \in trim.to_modified
                 \/ (q = p /\ page[p].pagefile_idx = None /\ ~InFlight(p))
    BY <1>0 DEF TrimPlace, IInv, TypeOK, TrimType
  <1>3. CASE InFlight(p)
    <2>1. page' = [q \in Pages |-> IF q \in {p} THEN [page[q] EXCEPT !.status = "MODIFIED"]
                                                ELSE page[q]]
      <3>1. page' = [page EXCEPT ![p].status = "MODIFIED"] /\ page \in [Pages -> Page]
        BY <1>0, <1>3 DEF TrimPlace, IInv, TypeOK
      <3>2. QED
        BY <3>1
    <2>2. page[p].pagefile_idx = None /\ p \in writer.batch
      BY <1>3 DEF Frames, WriterBatch
    <2>3. Unchained(trim) \subseteq Unchained(trim') \cup {p}
      BY <1>0, <1>1, <1>2 DEF Unchained, IInv, TypeOK, TrimType
    <2>4. /\ Handlers' /\ FramesNamePTEs' /\ PTEsNameFrames' /\ Lists' /\ WriterBatch'
          /\ SlotsOfFrames'
          /\ \A q \in {p} : list[q] = None /\ Untaken(q)
      <3>1. /\ {p} \in SUBSET Pages
            /\ \A q \in {p} : /\ page[q].status = "ACTIVE"
                              /\ BeingTrimmed(pte[page[q].pte], q)
                              /\ "MODIFIED" = "MODIFIED" <=> page[q].pagefile_idx = None
        BY <1>1, <2>2
      <3>2. QED
        BY <1>1, <2>1, <2>3, <3>1, TrimChainSteps
    <2>5. \A q \in Pages :
             /\ page'[q].status = IF q = p THEN "MODIFIED" ELSE page[q].status
             /\ page'[q].pte = page[q].pte
             /\ page'[q].pagefile_idx = page[q].pagefile_idx
             /\ page'[q].modified = page[q].modified
             /\ page'[q].writing_to_disk = page[q].writing_to_disk
      BY <2>1 DEF IInv, TypeOK, Page
    <2>6. OffLists'
      BY <1>1, <1>2, <1>3, <2>5 DEF Frames, OffLists
    <2>7. p \notin trim.to_modified /\ p \notin trim.to_standby
      BY <1>1, <1>3, <2>2 DEF Frames, TrimBatch
    <2>8. TrimBatch'
      BY <1>1, <1>2, <1>3, <2>5, <2>7, ConstantsAssumption DEF Frames, TrimBatch
    <2>9. QED
      BY <2>4, <2>6, <2>8 DEF Frames
  <1>4. CASE ~InFlight(p)
    <2>1. page' = page
      BY <1>0, <1>4 DEF TrimPlace
    <2>2. trim.ptes \subseteq trim'.ptes /\ Unchained(trim) \subseteq Unchained(trim')
      BY <1>0, <1>1, <1>2, <1>4 DEF Unchained, IInv, TypeOK, TrimType
    <2>3. /\ Handlers' /\ FramesNamePTEs' /\ WriterBatch' /\ SlotsOfFrames'
          /\ PTEsNameFrames'
      BY <1>1, <2>1, <2>2, TrimOnly
    <2>4. (Lists /\ OffLists)'
      BY <1>1, <1>2, <2>1 DEF Frames, Lists, OffLists
    <2>5. TrimBatch'
      BY <1>1, <1>2, <1>4, <2>1, ConstantsAssumption DEF Frames, TrimBatch
    <2>6. QED
      BY <2>3, <2>4, <2>5 DEF Frames
  <1>5. QED
    BY <1>3, <1>4

LEMMA TrimDisconnectOwned ==
    ASSUME OInv, TrimDisconnect
    PROVE  Owned'
  <1> USE DEF OInv, Owned
  <1>1. /\ trim.pc = "mark"
        /\ trim'.pc = IF trim.to_modified # {} THEN "chain_modified" ELSE AfterModified
        /\ trim'.ptes = trim.ptes /\ trim'.to_modified = trim.to_modified
        /\ trim'.to_standby = trim.to_standby /\ trim'.page = trim.page
        /\ trim.page = None
        /\ UNCHANGED <<pte, page, pageLock, list, user, writer, refreshing, corrupted>>
    BY DEF TrimDisconnect, TrimmerAt, IInv, TypeOK, TrimType
  <1>2. Unchained(trim) \subseteq Unchained(trim')
    BY <1>1 DEF Unchained, AfterModified
  <1>3. /\ Handlers' /\ FramesNamePTEs' /\ WriterBatch' /\ SlotsOfFrames'
        /\ PTEsNameFrames'
    BY <1>1, <1>2, TrimOnly
  <1>4. (Lists /\ OffLists)'
    BY <1>1 DEF Frames, Lists, OffLists
  <1>5. TrimBatch'
    BY <1>1, ConstantsAssumption DEF Frames, TrimBatch, AfterModified
  <1>6. QED
    BY <1>3, <1>4, <1>5 DEF Frames

LEMMA TrimChainModifiedOwned ==
    ASSUME OInv, TrimChainModified
    PROVE  Owned'
  <1> USE DEF OInv, Owned
  <1> DEFINE S == trim.to_modified
  <1>1. /\ trim.pc = "chain_modified" /\ S \in SUBSET Pages
        /\ trim'.pc = "insert_modified"
        /\ trim'.ptes = trim.ptes /\ trim'.to_modified = S
        /\ trim'.to_standby = trim.to_standby /\ trim'.page = trim.page
        /\ page' = [p \in Pages |-> IF p \in S THEN [page[p] EXCEPT !.status = "MODIFIED"]
                                               ELSE page[p]]
        /\ UNCHANGED <<pte, pageLock, list, user, writer, refreshing, corrupted>>
    BY DEF TrimChainModified, TrimChain, TrimmerAt, IInv, TypeOK, TrimType
  <1>2. \A p \in S : /\ page[p].status = "ACTIVE"
                     /\ BeingTrimmed(pte[page[p].pte], p)
                     /\ page[p].pagefile_idx = None
                     /\ ~InFlight(p)
    BY <1>1 DEF Frames, TrimBatch
  <1>3. Unchained(trim) \subseteq Unchained(trim') \cup S
    BY <1>1 DEF Unchained
  <1>4. /\ Handlers' /\ FramesNamePTEs' /\ PTEsNameFrames' /\ Lists' /\ WriterBatch'
        /\ SlotsOfFrames'
        /\ \A p \in S : list[p] = None /\ Untaken(p)
    BY <1>1, <1>2, <1>3, TrimChainSteps
  <1>5. \A p \in Pages :
           /\ page'[p].status = IF p \in S THEN "MODIFIED" ELSE page[p].status
           /\ page'[p].pte = page[p].pte
           /\ page'[p].pagefile_idx = page[p].pagefile_idx
           /\ page'[p].modified = page[p].modified
           /\ page'[p].writing_to_disk = page[p].writing_to_disk
    BY <1>1 DEF IInv, TypeOK, Page
  <1>6. OffLists'
    BY <1>1, <1>5 DEF Frames, OffLists
  <1>7. TrimBatch'
    BY <1>1, <1>2, <1>4, <1>5 DEF Frames, TrimBatch
  <1>8. QED
    BY <1>4, <1>6, <1>7 DEF Frames

LEMMA TrimChainStandbyOwned ==
    ASSUME OInv, TrimChainStandby
    PROVE  Owned'
  <1> USE DEF OInv, Owned
  <1> DEFINE S == trim.to_standby
  <1>1. /\ trim.pc = "chain_standby" /\ S \in SUBSET Pages
        /\ trim'.pc = "insert_standby"
        /\ trim'.ptes = trim.ptes /\ trim'.to_modified = trim.to_modified
        /\ trim'.to_standby = S /\ trim'.page = trim.page
        /\ page' = [p \in Pages |-> IF p \in S THEN [page[p] EXCEPT !.status = "STANDBY"]
                                               ELSE page[p]]
        /\ UNCHANGED <<pte, pageLock, list, user, writer, refreshing, corrupted>>
    BY DEF TrimChainStandby, TrimChain, TrimmerAt, IInv, TypeOK, TrimType
  <1>2. \A p \in S : /\ page[p].status = "ACTIVE"
                     /\ BeingTrimmed(pte[page[p].pte], p)
                     /\ page[p].pagefile_idx # None
    BY <1>1 DEF Frames, TrimBatch
  <1>3. Unchained(trim) \subseteq Unchained(trim') \cup S
    BY <1>1 DEF Unchained
  <1>4. /\ Handlers' /\ FramesNamePTEs' /\ PTEsNameFrames' /\ Lists' /\ WriterBatch'
        /\ SlotsOfFrames'
        /\ \A p \in S : list[p] = None /\ Untaken(p)
    BY <1>1, <1>2, <1>3, TrimChainSteps
  <1>5. \A p \in Pages :
           /\ page'[p].status = IF p \in S THEN "STANDBY" ELSE page[p].status
           /\ page'[p].pte = page[p].pte
           /\ page'[p].pagefile_idx = page[p].pagefile_idx
           /\ page'[p].modified = page[p].modified
           /\ page'[p].writing_to_disk = page[p].writing_to_disk
    BY <1>1 DEF IInv, TypeOK, Page
  <1>6. OffLists'
    BY <1>1, <1>5 DEF Frames, OffLists
  <1>7. TrimBatch'
    BY <1>1, <1>2, <1>4, <1>5 DEF Frames, TrimBatch
  <1>8. QED
    BY <1>4, <1>6, <1>7 DEF Frames

LEMMA TrimInsertModifiedOwned ==
    ASSUME OInv, TrimInsertModified
    PROVE  Owned'
  <1> USE DEF OInv, Owned
  <1> DEFINE S == trim.to_modified
  <1>1. /\ trim.pc = "insert_modified" /\ ~corrupted
        /\ trim'.pc = AfterModified
        /\ trim'.ptes = trim.ptes /\ trim'.to_modified = S
        /\ trim'.to_standby = trim.to_standby /\ trim'.page = trim.page
        /\ \A p \in Pages : list'[p] = IF p \in S THEN "modified" ELSE list[p]
        /\ UNCHANGED <<pte, page, pageLock, user, writer, refreshing, corrupted>>
    BY DEF TrimInsertModified, TrimInsert, Listed, TrimmerAt, IInv, TypeOK, TrimType
  <1>2. \A p \in Pages : p \in S => /\ page[p].status = "MODIFIED"
                                    /\ ~InFlight(p)
                                    /\ Untaken(p)
    BY <1>1 DEF Frames, TrimBatch
  <1>3. Unchained(trim) \subseteq Unchained(trim')
    BY <1>1 DEF Unchained, AfterModified
  <1>4. /\ Handlers' /\ FramesNamePTEs' /\ WriterBatch' /\ SlotsOfFrames'
        /\ PTEsNameFrames'
    BY <1>1, <1>3, TrimOnly
  <1>5. (Lists /\ OffLists)'
    BY <1>1, <1>2, ConstantsAssumption DEF Frames, Lists, OffLists
  <1>6. TrimBatch'
    BY <1>1 DEF Frames, TrimBatch, AfterModified
  <1>7. QED
    BY <1>4, <1>5, <1>6 DEF Frames

LEMMA TrimInsertStandbyOwned ==
    ASSUME OInv, TrimInsertStandby
    PROVE  Owned'
  <1> USE DEF OInv, Owned
  <1> DEFINE S == trim.to_standby
  <1>1. /\ trim.pc = "insert_standby" /\ ~corrupted
        /\ trim'.pc = "edit"
        /\ trim'.ptes = trim.ptes /\ trim'.to_modified = trim.to_modified
        /\ trim'.to_standby = S /\ trim'.page = trim.page
        /\ \A p \in Pages : list'[p] = IF p \in S THEN "standby" ELSE list[p]
        /\ UNCHANGED <<pte, page, pageLock, user, writer, refreshing, corrupted>>
    BY DEF TrimInsertStandby, TrimInsert, Listed, TrimmerAt, IInv, TypeOK, TrimType
  <1>2. \A p \in Pages : p \in S => page[p].status = "STANDBY" /\ Untaken(p)
    BY <1>1 DEF Frames, TrimBatch
  <1>3. Unchained(trim) \subseteq Unchained(trim')
    BY <1>1 DEF Unchained
  <1>4. /\ Handlers' /\ FramesNamePTEs' /\ WriterBatch' /\ SlotsOfFrames'
        /\ PTEsNameFrames'
    BY <1>1, <1>3, TrimOnly
  <1>5. (Lists /\ OffLists)'
    BY <1>1, <1>2, ConstantsAssumption DEF Frames, Lists, OffLists
  <1>6. TrimBatch'
    BY <1>1 DEF Frames, TrimBatch
  <1>7. QED
    BY <1>4, <1>5, <1>6 DEF Frames

LEMMA TrimEditOwned ==
    ASSUME OInv, NEW va \in VAs, TrimEdit(va)
    PROVE  Owned'
  <1> USE DEF OInv, Owned
  <1> DEFINE p == pte[va].frame
  <1>1. /\ trim.pc = "edit" /\ va \in trim.ptes
        /\ UNCHANGED <<page, pageLock, list, user, writer, refreshing, corrupted>>
    BY DEF TrimEdit, TrimmerAt
  <1>2. /\ \/ trim'.pc = "edit"
           \/ trim'.pc = "mark" /\ trim'.to_modified = {} /\ trim'.to_standby = {}
        /\ \A v \in VAs \ {va} : v \in trim.ptes => v \in trim'.ptes
        /\ \A q \in Pages : q # trim.page /\ q # trim'.page
        /\ \A q \in Pages : q \notin Unchained(trim)
    <2>1. \A q \in Pages : q # trim.page /\ q # None
      BY <1>1, ConstantsAssumption DEF Frames, TrimBatch
    <2>2. CASE trim.ptes = {va} /\ trim' = NoBatch
      BY <1>1, <2>1, <2>2 DEF NoBatch, Unchained
    <2>3. CASE trim' = [trim EXCEPT !.ptes = @ \ {va}]
      BY <1>1, <2>1, <2>3 DEF IInv, TypeOK, TrimType, Unchained
    <2>4. QED
      BY <1>1, <2>2, <2>3 DEF TrimEdit
  <1>3. /\ OnlyPTE(va)
        /\ \/ pte'[va] = pte[va] /\ ~IsStillTrimmed(pte[va])
           \/ BeingTrimmed(pte[va], p) /\ InTransition(pte'[va], p)
    BY DEF TrimEdit, IInv, TypeOK, OnlyPTE, Transition
  <1>4. BeingTrimmed(pte[va], p) =>
           p \in Pages /\ page[p].pte = va /\ page[p].status \in Listable
    <2>1. BeingTrimmed(pte[va], p) =>
             p \in Pages /\ page[p].pte = va /\ page[p].status # "ACTIVE"
      BY <1>2, Fields DEF Frames, PTEsNameFrames
    <2>2. BeingTrimmed(pte[va], p) => page[p].status \in Listable
      BY <2>1, Fields DEF Frames, FramesNamePTEs, Statuses
    <2>3. QED
      BY <2>1, <2>2
  <1>5. Handlers'
    <2>1. ResolversApart'
      BY <1>1 DEF Handlers, ResolversApart
    <2>2. ValidFaults'
      BY <1>1, <1>3, Fields DEF Handlers, ValidFaults, OnlyPTE, ValidPC
    <2>3. Claims'
      BY <1>1, <1>3, Fields DEF Handlers, Claims, OnlyPTE
    <2>4. Rescues'
      BY <1>1, <1>3, Fields DEF Handlers, Rescues, OnlyPTE
    <2>5. Connections'
      BY <1>1, <1>3, Fields DEF Handlers, Connections, OnlyPTE
    <2>6. QED
      BY <2>1, <2>2, <2>3, <2>4, <2>5 DEF Handlers
  <1>6. \A x \in Users : \A v, q : /\ Reader(x, v, q)' <=> Reader(x, v, q)
                                   /\ Changer(x, v, q)' <=> Changer(x, v, q)
                                   /\ Connector(x, v, q)' <=> Connector(x, v, q)
    BY <1>1 DEF Reader, Changer, Connector
  <1>7. FramesNamePTEs'
    BY <1>1, <1>3, <1>4, <1>6, Fields DEF OnlyPTE, Frames, FramesNamePTEs
  <1>8. PTEsNameFrames'
    BY <1>1, <1>2, <1>3, <1>4, <1>6, Fields DEF OnlyPTE, Frames, PTEsNameFrames
  <1>9. (Lists /\ OffLists /\ WriterBatch /\ SlotsOfFrames)'
    BY <1>1, <1>2 DEF Frames, Lists, OffLists, WriterBatch, SlotsOfFrames
  <1>10. TrimBatch'
    BY <1>1, <1>2 DEF Frames, TrimBatch
  <1>11. QED
    BY <1>5, <1>7, <1>8, <1>9, <1>10 DEF Frames

----------------------------------------------------------------------------
(* The modified writer *)

LEMMA WriterPopOwned ==
    ASSUME OInv, WriterPop
    PROVE  Owned'
  <1> USE DEF OInv, Owned
  <1>0. PICK p \in Pages : p = potential_page
    BY DEF WriterPop, IInv, TypeOK
  <1>1. /\ writer.pc = "pop" /\ list[p] = "modified" /\ page[p].status = "MODIFIED"
        /\ pageLock[p] = None /\ page[p].pagefile_idx = None
        /\ UNCHANGED <<pte, pageLock, user, trim, refreshing, corrupted>>
    BY <1>0 DEF WriterPop, Poppable, WriterAt, Frames, SlotsOfFrames
  <1>2. /\ list'[p] = None
        /\ \A q \in Pages \ {p} : list'[q] = list[q] /\ page'[q] = page[q]
        /\ page'[p].status = "MODIFIED" /\ page'[p].pte = page[p].pte
        /\ page'[p].pagefile_idx = None
        /\ page'[p].writing_to_disk /\ ~page'[p].modified
    BY <1>0, <1>1 DEF WriterPop, IInv, TypeOK, Page
  <1>3. /\ writer'.pc = "pop" /\ writer'.confirmed = writer.confirmed
        /\ writer'.slot = writer.slot
        /\ \A q \in Pages : q \in writer'.batch <=> q \in writer.batch \/ q = p
    <2>1. CASE page[p].writing_to_disk
      BY <1>0, <1>1, <2>1 DEF WriterPop, Frames, WriterBatch
    <2>2. CASE ~page[p].writing_to_disk
      BY <1>0, <1>1, <2>2 DEF WriterPop, IInv, TypeOK, WriterType
    <2>3. QED
      BY <2>1, <2>2
  <1>4. \A q \in Pages : page'[q].status = page[q].status /\ page'[q].pte = page[q].pte
    BY <1>1, <1>2
  <1>5. Handlers'
    <2>1. ResolversApart' /\ Claims' /\ Rescues'
      BY <1>1, <1>4, Fields DEF Handlers, ResolversApart, Claims, Rescues, FramePC
    <2>2. ValidFaults'
      BY <1>1, <1>4, Fields DEF Handlers, ValidFaults, ValidPC, FramePC
    <2>3. Connections'
      BY <1>1, <1>3, <1>4, Fields DEF Handlers, Connections, ReadPC, ConnectPC, FramePC
    <2>4. QED
      BY <2>1, <2>2, <2>3 DEF Handlers
  <1>6. \A x \in Users : \A v, q : /\ Reader(x, v, q)' <=> Reader(x, v, q)
                                   /\ Changer(x, v, q)' <=> Changer(x, v, q)
                                   /\ Connector(x, v, q)' <=> Connector(x, v, q)
    BY <1>1 DEF Reader, Changer, Connector
  <1>7. FramesNamePTEs'
    BY <1>1, <1>4, <1>6 DEF Frames, FramesNamePTEs
  <1>8. PTEsNameFrames'
    BY <1>1, <1>4, <1>6, Fields DEF Frames, PTEsNameFrames
  <1>9. (Lists /\ OffLists)'
    BY <1>1, <1>2, ConstantsAssumption DEF Frames, Lists, OffLists
  <1>10. WriterBatch'
    BY <1>1, <1>2, <1>3 DEF Frames, WriterBatch
  <1>11. SlotsOfFrames'
    BY <1>1, <1>2 DEF Frames, SlotsOfFrames
  <1>12. TrimBatch'
    <2>1. /\ p \in trim.to_modified =>
                corrupted \/ trim.pc \notin {"mark", "chain_modified", "insert_modified"}
          /\ p \in trim.to_standby => trim.pc = "edit"
          /\ p # trim.page
      BY <1>1, ConstantsAssumption DEF Frames, TrimBatch
    <2>2. ~corrupted
      BY DEF WriterPop, WriterAt
    <2>3. QED
      BY <1>1, <1>2, <2>1, <2>2 DEF Frames, TrimBatch
  <1>13. QED
    BY <1>5, <1>7, <1>8, <1>9, <1>10, <1>11, <1>12 DEF Frames

LEMMA WriterWriteBatchOwned ==
    ASSUME OInv, WriterWriteBatch
    PROVE  Owned'
  <1> USE DEF OInv, Owned
  <1>1. /\ writer.pc = "pop"
        /\ UNCHANGED <<pte, page, pageLock, list, user, trim, refreshing, corrupted>>
    BY DEF WriterWriteBatch, WriterAt
  <1>2. /\ writer'.pc = "complete" /\ writer'.batch = writer.batch
        /\ writer'.confirmed = writer.confirmed
        /\ \A p \in Pages : p \in writer.batch <=> writer'.slot[p] # None
    <2>1. PICK slot \in [writer.batch -> Slots \ used] :
             writer' = [writer EXCEPT !.pc = "complete",
                          !.slot = [p \in Pages |-> IF p \in writer.batch THEN slot[p]
                                                                         ELSE None]]
      BY DEF WriterWriteBatch
    <2>2. \A p \in writer.batch : slot[p] # None
      BY ConstantsAssumption
    <2>3. QED
      BY <2>1, <2>2 DEF IInv, TypeOK, WriterType
  <1>3. Handlers'
    <2>1. ResolversApart' /\ Claims' /\ Rescues'
      BY <1>1 DEF Handlers, ResolversApart, Claims, Rescues
    <2>2. ValidFaults' /\ Connections'
      BY <1>1, <1>2 DEF Handlers, ValidFaults, Connections
    <2>3. QED
      BY <2>1, <2>2 DEF Handlers
  <1>4. FramesNamePTEs' /\ PTEsNameFrames'
    BY <1>1 DEF Frames, FramesNamePTEs, PTEsNameFrames, Reader, Changer, Connector
  <1>5. Lists' /\ OffLists' /\ SlotsOfFrames' /\ TrimBatch'
    BY <1>1 DEF Frames, Lists, OffLists, SlotsOfFrames, TrimBatch
  <1>6. WriterBatch'
    BY <1>1, <1>2 DEF Frames, WriterBatch
  <1>7. QED
    BY <1>3, <1>4, <1>5, <1>6 DEF Frames

LEMMA WriterCompleteOwned ==
    ASSUME OInv, NEW p \in Pages, WriterComplete(p)
    PROVE  Owned'
  <1> USE DEF OInv, Owned
  <1>1. /\ writer.pc = "complete" /\ p \in writer.batch /\ pageLock[p] = None
        /\ page[p].writing_to_disk /\ page[p].pagefile_idx = None
        /\ page[p].status \in {"ACTIVE", "MODIFIED"}
        /\ UNCHANGED <<pte, list, user, trim, refreshing, corrupted>>
    BY DEF WriterComplete, WriterAt, Frames, WriterBatch
  <1>2. /\ \A q \in Pages \ {p} : page'[q] = page[q] /\ pageLock'[q] = pageLock[q]
        /\ page'[p].status = page[p].status /\ page'[p].pte = page[p].pte
        /\ page'[p].modified = page[p].modified
        /\ ~page'[p].writing_to_disk
        /\ page[p].modified \/ page[p].status = "MODIFIED" => page'[p].pagefile_idx = None
    BY <1>1 DEF WriterComplete, Confirmable, KeepsSlot, Locked, IInv, TypeOK, Page
  <1>3. /\ Confirmable(p) => pageLock'[p] = "writer"
        /\ ~Confirmable(p) => pageLock'[p] = None
    BY <1>1 DEF WriterComplete, Locked, IInv, TypeOK
  <1>4. /\ writer'.pc = "complete"
        /\ \A q \in Pages :
              /\ q \in writer'.batch <=> q \in writer.batch /\ q # p
              /\ q \in writer'.confirmed <=>
                    q \in writer.confirmed \/ (q = p /\ Confirmable(p))
              /\ q # p => writer'.slot[q] = writer.slot[q]
        /\ writer'.slot[p] = IF Confirmable(p) THEN writer.slot[p] ELSE None
    <2>1. CASE Confirmable(p)
      BY <1>1, <2>1 DEF WriterComplete, IInv, TypeOK, WriterType
    <2>2. CASE ~Confirmable(p)
      BY <1>1, <2>2 DEF WriterComplete, IInv, TypeOK, WriterType
    <2>3. QED
      BY <2>1, <2>2
  <1>5. \A q \in Pages : page'[q].status = page[q].status /\ page'[q].pte = page[q].pte
    BY <1>2
  <1>6. Handlers'
    <2>1. ResolversApart' /\ Claims' /\ Rescues'
      BY <1>1, <1>5, Fields DEF Handlers, ResolversApart, Claims, Rescues, FramePC
    <2>2. ValidFaults'
      BY <1>1, <1>5, Fields DEF Handlers, ValidFaults, ValidPC, FramePC
    <2>3. Connections'
      BY <1>1, <1>4, <1>5, Fields DEF Handlers, Connections, ReadPC, ConnectPC, FramePC
    <2>4. QED
      BY <2>1, <2>2, <2>3 DEF Handlers
  <1>7. \A x \in Users : \A v, q : /\ Reader(x, v, q)' <=> Reader(x, v, q)
                                   /\ Changer(x, v, q)' <=> Changer(x, v, q)
                                   /\ Connector(x, v, q)' <=> Connector(x, v, q)
    BY <1>1 DEF Reader, Changer, Connector
  <1>8. FramesNamePTEs'
    BY <1>1, <1>5, <1>7 DEF Frames, FramesNamePTEs
  <1>9. PTEsNameFrames'
    BY <1>1, <1>5, <1>7, Fields DEF Frames, PTEsNameFrames
  <1>10. (Lists /\ OffLists)'
    <2>1. Confirmable(p) => page[p].status = "MODIFIED" /\ InFlight(p)
      BY <1>1 DEF Confirmable
    <2>2. Confirmable(p) => list[p] = None
      BY <1>1, <2>1 DEF Frames, Lists, IInv, TypeOK
    <2>3. Lists'
      BY <1>1, <1>2, <1>3, <2>2 DEF Frames, Lists
    <2>4. page[p].status = "MODIFIED" /\ InFlight(p) => ~Untaken(p)'
      BY <1>3, ConstantsAssumption DEF Confirmable
    <2>5. OffLists'
      BY <1>1, <1>2, <2>4 DEF Frames, OffLists
    <2>6. QED
      BY <2>3, <2>5
  <1>11. WriterBatch'
    BY <1>1, <1>2, <1>4 DEF Frames, WriterBatch, Confirmable
  <1>12. SlotsOfFrames'
    BY <1>1, <1>2 DEF Frames, SlotsOfFrames
  <1>13. TrimBatch'
    <2>1. /\ p \in trim.to_modified /\ trim.pc \in {"mark", "chain_modified", "insert_modified"}
                => page[p].modified /\ ~Confirmable(p)
          /\ p \in trim.to_standby => trim.pc = "edit"
      BY <1>1 DEF Frames, TrimBatch, Confirmable
    <2>2. QED
      BY <1>1, <1>2, <1>3, <2>1 DEF Frames, TrimBatch
  <1>14. QED
    BY <1>6, <1>8, <1>9, <1>10, <1>11, <1>12, <1>13 DEF Frames

LEMMA WriterInsertStandbyOwned ==
    ASSUME OInv, WriterInsertStandby
    PROVE  Owned'
  <1> USE DEF OInv, Owned
  <1> DEFINE S == writer.confirmed
  <1>1. /\ writer.pc = "complete" /\ writer.batch = {} /\ ~corrupted
        /\ UNCHANGED <<pte, user, trim, refreshing, corrupted>>
        /\ writer'.pc = "pop" /\ writer'.batch = {} /\ writer'.confirmed = {}
        /\ \A p \in Pages : writer'.slot[p] = None
    BY DEF WriterInsertStandby, WriterAt
  <1>2. \A p \in Pages :
           /\ page'[p].status = IF p \in S THEN "STANDBY" ELSE page[p].status
           /\ page'[p].pagefile_idx = IF p \in S THEN writer.slot[p] ELSE page[p].pagefile_idx
           /\ page'[p].pte = page[p].pte
           /\ page'[p].modified = page[p].modified
           /\ page'[p].writing_to_disk = page[p].writing_to_disk
           /\ list'[p] = IF p \in S THEN "standby" ELSE list[p]
           /\ pageLock'[p] = IF p \in S THEN None ELSE pageLock[p]
    <2>1. page \in [Pages -> Page]
      BY DEF IInv, TypeOK
    <2>2. /\ page' = [p \in Pages |-> IF p \in S
                THEN [page[p] EXCEPT !.status = "STANDBY", !.pagefile_idx = writer.slot[p]]
                ELSE page[p]]
          /\ list' = Listed(S, "standby") /\ pageLock' = Locked(S, None)
      BY DEF WriterInsertStandby
    <2>3. QED
      BY <2>1, <2>2 DEF Listed, Locked, Page
  <1>3. \A p \in Pages :
           p \in S => /\ page[p].status = "MODIFIED"
                      /\ writer.slot[p] # None
                      /\ pageLock[p] = "writer" /\ ~Untaken(p)
                      /\ p \notin refreshing
    BY <1>1, ConstantsAssumption DEF Frames, WriterBatch, Lists, IInv, PageLocksOwned
  <1>4. Handlers'
    <2>1. ResolversApart'
      BY <1>1 DEF Handlers, ResolversApart
    <2>2. ValidFaults'
      BY <1>1, <1>2, <1>3, Fields DEF Handlers, ValidFaults, ValidPC, FramePC
    <2>3. Claims'
      BY <1>1, <1>2, <1>3, Fields DEF Handlers, Claims, FramePC
    <2>4. Rescues'
      BY <1>1, <1>2, <1>3, Fields DEF Handlers, Rescues, FramePC
    <2>5. Connections'
      BY <1>1, <1>2, <1>3, Fields DEF Handlers, Connections, ReadPC, ConnectPC, FramePC
    <2>6. QED
      BY <2>1, <2>2, <2>3, <2>4, <2>5 DEF Handlers
  <1>5. \A x \in Users : \A v, q : /\ Reader(x, v, q)' <=> Reader(x, v, q)
                                   /\ Changer(x, v, q)' <=> Changer(x, v, q)
                                   /\ Connector(x, v, q)' <=> Connector(x, v, q)
    BY <1>1 DEF Reader, Changer, Connector
  <1>6. FramesNamePTEs'
    BY <1>1, <1>2, <1>3, <1>5 DEF Frames, FramesNamePTEs
  <1>7. PTEsNameFrames'
    BY <1>1, <1>2, <1>3, <1>5, Fields DEF Frames, PTEsNameFrames
  <1>8. (Lists /\ OffLists)'
    BY <1>1, <1>2, <1>3, ConstantsAssumption DEF Frames, Lists, OffLists
  <1>9. (WriterBatch /\ SlotsOfFrames)'
    BY <1>1, <1>2, <1>3 DEF Frames, WriterBatch, SlotsOfFrames
  <1>10. TrimBatch'
    <2>1. \A p \in Pages : p \in S =>
             /\ p \in trim.to_modified => trim.pc \notin {"mark", "chain_modified", "insert_modified"}
             /\ p \in trim.to_standby => trim.pc = "edit"
             /\ p # trim.page
      BY <1>1, <1>3 DEF Frames, TrimBatch
    <2>2. QED
      BY <1>1, <1>2, <2>1 DEF Frames, TrimBatch
  <1>11. QED
    BY <1>4, <1>6, <1>7, <1>8, <1>9, <1>10 DEF Frames

----------------------------------------------------------------------------
(* The list refresher *)

LEMMA RefreshPopOwned ==
    ASSUME OInv, NEW S \in SUBSET Pages, RefreshPop(S)
    PROVE  Owned'
  <1> USE DEF OInv, Owned
  <1>1. /\ refreshing = {} /\ refreshing' = S /\ ~corrupted
        /\ UNCHANGED <<pte, page, user, trim, writer, corrupted>>
        /\ \A p \in S : list[p] = "standby" /\ pageLock[p] = None /\ page[p].status = "STANDBY"
    BY DEF RefreshPop, Frames, Lists
  <1>2. \A p \in Pages : /\ list'[p] = IF p \in S THEN None ELSE list[p]
                         /\ pageLock'[p] = IF p \in S THEN "refresher" ELSE pageLock[p]
    BY DEF RefreshPop, Listed, Locked
  <1>3. Handlers'
    BY <1>1 DEF Handlers, ResolversApart, ValidFaults, Claims, Rescues, Connections
  <1>4. FramesNamePTEs' /\ PTEsNameFrames'
    BY <1>1 DEF Frames, FramesNamePTEs, PTEsNameFrames, Reader, Changer, Connector
  <1>5. (Lists /\ OffLists)'
    BY <1>1, <1>2, ConstantsAssumption DEF Frames, Lists, OffLists
  <1>6. WriterBatch' /\ SlotsOfFrames'
    BY <1>1 DEF Frames, WriterBatch, SlotsOfFrames
  <1>7. TrimBatch'
    <2>1. \A p \in S : /\ p \in trim.to_modified => trim.pc \notin {"mark", "chain_modified", "insert_modified"}
                       /\ p \in trim.to_standby => trim.pc = "edit"
      BY <1>1, ConstantsAssumption DEF Frames, TrimBatch
    <2>2. QED
      BY <1>1, <1>2, <2>1 DEF Frames, TrimBatch
  <1>8. QED
    BY <1>3, <1>4, <1>5, <1>6, <1>7 DEF Frames

\* Forcing the PTEs of a set of frames to disk format.
LEMMA ForcedAll ==
    ASSUME NEW S \in SUBSET Pages, NEW v \in VAs
    PROVE  /\ (\E p \in S : page[p].pte = v) =>
                 /\ ForceToDisk(S)[v].format = "disk" /\ ~ForceToDisk(S)[v].being_read
                 /\ \E p \in S : page[p].pte = v
                                 /\ ForceToDisk(S)[v] = Disk(page[p].pagefile_idx, FALSE)
           /\ (\A p \in S : page[p].pte # v) => ForceToDisk(S)[v] = pte[v]
  BY DEF ForceToDisk, Disk

LEMMA RefreshFreePTEs ==
    ASSUME OInv, RefreshFree
    PROVE  /\ \A v \in VAs : (\A p \in refreshing : page[p].pte # v) => pte'[v] = pte[v]
           /\ \A p \in refreshing : Forced(page[p].pte, p)
  <1> USE DEF OInv, Owned
  <1> DEFINE S == refreshing
  <1>1. S \in SUBSET Pages /\ pte' = ForceToDisk(S)
    BY DEF RefreshFree, IInv, TypeOK
  <1>2. \A p \in Pages : p \in S =>
           /\ page[p].status = "STANDBY" /\ pageLock[p] \notin Users
           /\ page[p].pte \in VAs
           /\ InTransition(pte[page[p].pte], p) \/ BeingTrimmed(pte[page[p].pte], p)
    BY Fields, ConstantsAssumption DEF Frames, FramesNamePTEs, Lists, IInv, PageLocksOwned
  <1>3. \A x \in Users, p \in S : user[x].pc \in ResolverPC => user[x].va # page[p].pte
    <2> SUFFICES ASSUME NEW x \in Users, NEW p \in S, user[x].pc \in ResolverPC,
                        user[x].va = page[p].pte
                 PROVE  FALSE
      OBVIOUS
    <2>1. p \in Pages
      BY <1>1
    <2>2. CASE user[x].pc \in ValidPC \cup {"get_page", "commit_disk"}
      BY <1>2, <2>1, <2>2 DEF Handlers, ValidFaults, Claims
    <2>3. CASE user[x].pc \in {"await_trim", "commit"}
      <3>1. pageLock[user[x].page] = x
        BY <2>3, LockedAlone DEF LockedPC
      <3>2. user[x].page # p
        BY <1>2, <2>1, <3>1
      <3>3. \/ InTransition(pte[user[x].va], user[x].page)
            \/ BeingTrimmed(pte[user[x].va], user[x].page)
            \/ BeingChanged(pte[user[x].va], user[x].page)
        BY <2>3 DEF Handlers, Rescues
      <3>4. QED
        BY <1>2, <2>1, <3>2, <3>3
    <2>4. CASE user[x].pc \in ReadPC \cup ConnectPC
      <3>1. /\ page[user[x].page].status = "ACTIVE"
            /\ \/ InTransition(pte[user[x].va], user[x].page)
               \/ BeingReadIn(pte[user[x].va])
               \/ BeingChanged(pte[user[x].va], user[x].page)
        BY <2>4 DEF Handlers, Connections
      <3>2. QED
        BY <1>2, <2>1, <3>1
    <2>5. QED
      BY <2>2, <2>3, <2>4 DEF ResolverPC
  <1>4. \A p \in S : Forced(page[p].pte, p)
    <2> SUFFICES ASSUME NEW p \in S
                 PROVE  Forced(page[p].pte, p)
      OBVIOUS
    <2>1. p \in Pages
      BY <1>1
    <2>2. PICK q \in S : /\ page[q].pte = page[p].pte
                         /\ pte'[page[p].pte] = Disk(page[q].pagefile_idx, FALSE)
      <3>1. page[p].pte \in VAs
        BY <1>2, <2>1
      <3>2. \E q \in S : page[q].pte = page[p].pte
        OBVIOUS
      <3>3. QED
        BY <1>1, <3>1, <3>2, ForcedAll
    <2>3. q = p
      BY <1>1, <1>2, <2>1, <2>2
    <2>4. QED
      BY <1>2, <1>3, <2>1, <2>2, <2>3 DEF Forced
  <1>5. QED
    BY <1>1, <1>4, ForcedAll

LEMMA RefreshFreeOwned ==
    ASSUME OInv, RefreshFree
    PROVE  Owned'
  <1> USE DEF OInv, Owned
  <1> DEFINE S == refreshing
  <1>1. /\ ~corrupted /\ S \in SUBSET Pages /\ refreshing' = {}
        /\ pte' = ForceToDisk(S)
        /\ UNCHANGED <<user, trim, writer, corrupted>>
    BY DEF RefreshFree, IInv, TypeOK
  <1>2. \A p \in Pages :
           /\ p \notin S => page'[p] = page[p] /\ list'[p] = list[p] /\ pageLock'[p] = pageLock[p]
           /\ p \in S => /\ page'[p].status = "FREE" /\ page'[p].pte = None
                         /\ page'[p].writing_to_disk = page[p].writing_to_disk
                         /\ list'[p] = "available" /\ pageLock'[p] = None
    BY DEF RefreshFree, Listed, Locked, IInv, TypeOK, Page
  <1>3. \A p \in Pages : p \in S =>
           /\ page[p].status = "STANDBY" /\ pageLock[p] = "refresher"
           /\ pageLock[p] \notin Users /\ pageLock[p] # "writer" /\ pageLock[p] # None
           /\ page[p].pte \in VAs
           /\ InTransition(pte[page[p].pte], p) \/ BeingTrimmed(pte[page[p].pte], p)
    BY Fields, ConstantsAssumption DEF Frames, FramesNamePTEs, Lists, IInv, PageLocksOwned
  <1>4. /\ \A v \in VAs : (\A p \in S : page[p].pte # v) => pte'[v] = pte[v]
        /\ \A p \in S : Forced(page[p].pte, p)
    BY RefreshFreePTEs
  <1>17. \A v \in VAs :
            (\E p \in S : page[p].pte = v) => pte'[v].format = "disk" /\ ~pte'[v].being_read
    BY <1>4, ForcedFormat
  <1>5. \A x \in Users, p \in S : user[x].pc \in ResolverPC => user[x].va # page[p].pte
    BY <1>4 DEF Forced
  <1>6. \A x \in Users : user[x].pc \in ResolverPC => pte'[user[x].va] = pte[user[x].va]
    BY <1>4, <1>5, Fields
  <1>7. \A x \in Users :
           \/ user[x].pc \in ValidPC \cup ReadPC \cup ConnectPC
           \/ user[x].pc \in {"claim", "commit_disk", "await_trim", "commit"}
           => user[x].page \in Pages \ S /\ page'[user[x].page] = page[user[x].page]
    <2>1. \A x \in Users : user[x].pc \in ValidPC \cup ReadPC \cup ConnectPC =>
             page[user[x].page].status = "ACTIVE" /\ user[x].page \in Pages
      BY Fields DEF Handlers, ValidFaults, Connections, FramePC, ValidPC, ReadPC, ConnectPC
    <2>2. \A x \in Users : user[x].pc \in {"claim", "commit_disk", "await_trim", "commit"} =>
             user[x].page \in Pages \ S
      BY LockedAlone DEF LockedPC
    <2>3. QED
      BY <1>2, <1>3, <2>1, <2>2
  <1>8. Handlers'
    <2>1. ResolversApart'
      BY <1>1 DEF Handlers, ResolversApart
    <2>2. ValidFaults'
      BY <1>1, <1>6, <1>7 DEF Handlers, ValidFaults, ResolverPC, ValidPC
    <2>3. Claims'
      BY <1>1, <1>6, <1>7 DEF Handlers, Claims, ResolverPC
    <2>4. Rescues'
      BY <1>1, <1>6, <1>7 DEF Handlers, Rescues, ResolverPC
    <2>5. Connections'
      BY <1>1, <1>6, <1>7 DEF Handlers, Connections, ResolverPC
    <2>6. QED
      BY <2>1, <2>2, <2>3, <2>4, <2>5 DEF Handlers
  <1>9. \A x \in Users : \A v, q : /\ Reader(x, v, q)' <=> Reader(x, v, q)
                                   /\ Changer(x, v, q)' <=> Changer(x, v, q)
                                   /\ Connector(x, v, q)' <=> Connector(x, v, q)
    BY <1>1 DEF Reader, Changer, Connector
  <1>10. \A q \in Pages :
            /\ q \notin S
            /\ \/ InTransition(pte[page[q].pte], q)
               \/ pte[page[q].pte].format = "memory" /\ pte[page[q].pte].frame = q
            /\ page[q].pte \in VAs
            => pte'[page[q].pte] = pte[page[q].pte]
    BY <1>1, <1>3, <1>4
  <1>11. FramesNamePTEs'
    BY <1>1, <1>2, <1>9, <1>10, Fields DEF Frames, FramesNamePTEs
  <1>12. PTEsNameFrames'
    <2>1. ASSUME NEW v \in VAs, pte'[v].format # "disk"
          PROVE  /\ pte'[v] = pte[v]
                 /\ \/ pte[v].format = "transition"
                    \/ pte[v].format = "memory" /\ ~pte[v].being_changed
                    => page'[pte[v].frame] = page[pte[v].frame]
      <3>1. \A p \in S : page[p].pte # v
        BY <1>17, <2>1
      <3>2. pte'[v] = pte[v]
        BY <1>4, <3>1
      <3>3. \/ pte[v].format = "transition"
            \/ pte[v].format = "memory" /\ ~pte[v].being_changed
            => pte[v].frame \in Pages /\ page[pte[v].frame].pte = v
        BY Fields DEF Frames, PTEsNameFrames
      <3>4. QED
        BY <1>2, <3>1, <3>2, <3>3
    <2>2. QED
      BY <1>1, <1>9, <2>1 DEF Frames, PTEsNameFrames
  <1>13. (Lists /\ OffLists)'
    BY <1>1, <1>2, ConstantsAssumption DEF Frames, Lists, OffLists
  <1>14. (WriterBatch /\ SlotsOfFrames)'
    BY <1>1, <1>2, <1>3 DEF Frames, WriterBatch, SlotsOfFrames
  <1>15. TrimBatch'
    <2>1. \A p \in Pages : p \in S =>
             /\ p \in trim.to_modified => trim.pc \notin {"mark", "chain_modified", "insert_modified"}
             /\ p \in trim.to_standby => trim.pc = "edit"
             /\ p # trim.page
      BY <1>1, <1>3 DEF Frames, TrimBatch
    <2>2. \A q \in Pages : q \notin S /\ BeingTrimmed(pte[page[q].pte], q)
             /\ page[q].status \in {"ACTIVE", "MODIFIED", "STANDBY"}
                => BeingTrimmed(pte'[page[q].pte], q)
      BY <1>10, Fields
    <2>3. QED
      BY <1>1, <1>2, <2>1, <2>2 DEF Frames, TrimBatch
  <1>16. QED
    BY <1>8, <1>11, <1>12, <1>13, <1>14, <1>15 DEF Frames

----------------------------------------------------------------------------
(* Every step *)

LEMMA QuietStep ==
    ASSUME OInv,
           \/ \E u \in Users, va \in VAs :
                 \/ UserWrite(u, va) \/ UserSetAccessBit(u, va)
                 \/ \E access \in Accesses : UserFault(u, va, access)
           \/ \E u \in Users : \/ FaultRetry(u) \/ FindNoPage(u) \/ BeginUnaccessedFault(u)
                               \/ BeginTransitionFault(u) \/ SpeculateAccessBits(u)
           \/ \E va \in VAs : TrimClearAccessBit(va)
           \/ \E p \in Pages : WriterReadTail(p)
           \/ WriterSkip \/ WriterPopUnlisted
           \/ UNCHANGED vars
    PROVE  AccessBits /\ Owned'
  <1> USE DEF OInv, Owned
  <1>0. pte' = pte => AccessBits
    BY DEF AccessBits
  <1>1. ASSUME NEW u \in Users, NEW va \in VAs, UserWrite(u, va)
        PROVE  AccessBits /\ Owned'
    <2>1. pte' = pte /\ user' = user
          /\ UNCHANGED <<page, pageLock, list, trim, writer, refreshing, corrupted>>
      BY <1>1 DEF UserWrite
    <2>2. QED
      BY <1>0, <2>1, QuietOwned
  <1>2. ASSUME NEW u \in Users, NEW va \in VAs, UserSetAccessBit(u, va)
        PROVE  AccessBits /\ Owned'
    <2>1. /\ user' = user
          /\ UNCHANGED <<page, pageLock, list, trim, writer, refreshing, corrupted>>
      BY <1>2 DEF UserSetAccessBit
    <2>2. AccessBits
      BY <1>2, AccessBitSteps DEF IInv
    <2>3. QED
      BY <2>1, <2>2, QuietOwned
  <1>3. ASSUME NEW u \in Users, NEW va \in VAs, NEW access \in Accesses,
               UserFault(u, va, access)
        PROVE  AccessBits /\ Owned'
    <2>1. /\ pte' = pte /\ user[u].pc = "idle" /\ user'[u].pc = "faulted"
          /\ \A w \in Users \ {u} : user'[w] = user[w]
          /\ UNCHANGED <<page, pageLock, list, trim, writer, refreshing, corrupted>>
      BY <1>3 DEF UserFault, At, IInv, TypeOK, UserType
    <2>2. \A w \in Users : \/ user'[w] = user[w]
                           \/ /\ user[w].pc \notin WorkPC \cup {"check"}
                              /\ user'[w].pc \notin WorkPC \cup {"check"}
      BY <2>1 DEF WorkPC, ResolverPC, ValidPC, ReadPC, ConnectPC
    <2>3. QED
      BY <1>0, <2>1, <2>2, QuietOwned
  <1>4. ASSUME NEW u \in Users, FaultRetry(u) \/ FindNoPage(u)
        PROVE  AccessBits /\ Owned'
    <2>1. /\ pte' = pte /\ user[u].pc \in {"faulted", "take_page"} /\ Ends(u)
          /\ UNCHANGED <<page, pageLock, list, trim, writer, refreshing, corrupted>>
      BY <1>4, BackToUserEnds DEF FaultRetry, FindNoPage, At, IInv
    <2>2. \A w \in Users : \/ user'[w] = user[w]
                           \/ /\ user[w].pc \notin WorkPC \cup {"check"}
                              /\ user'[w].pc \notin WorkPC \cup {"check"}
      BY <2>1 DEF Ends, WorkPC, ResolverPC, ValidPC, ReadPC, ConnectPC
    <2>3. QED
      BY <1>0, <2>1, <2>2, QuietOwned
  <1>5. ASSUME NEW u \in Users, BeginTransitionFault(u) \/ BeginUnaccessedFault(u)
        PROVE  AccessBits /\ Owned'
    <2>1. /\ pte' = pte /\ user[u].pc = "faulted" /\ user'[u].pc \in {"rescue", "take_page"}
          /\ \A w \in Users \ {u} : user'[w] = user[w]
          /\ UNCHANGED <<page, pageLock, list, trim, writer, refreshing, corrupted>>
      BY <1>5 DEF BeginTransitionFault, BeginUnaccessedFault, Goto, At, IInv, TypeOK, UserType
    <2>2. \A w \in Users : \/ user'[w] = user[w]
                           \/ /\ user[w].pc \notin WorkPC \cup {"check"}
                              /\ user'[w].pc \notin WorkPC \cup {"check"}
      BY <2>1 DEF WorkPC, ResolverPC, ValidPC, ReadPC, ConnectPC
    <2>3. QED
      BY <1>0, <2>1, <2>2, QuietOwned
  <1>6. ASSUME NEW u \in Users, SpeculateAccessBits(u)
        PROVE  AccessBits /\ Owned'
    <2>1. /\ user[u].pc = "speculate" /\ Ends(u)
          /\ UNCHANGED <<page, pageLock, list, trim, writer, refreshing, corrupted>>
      BY <1>6, BackToUserEnds DEF SpeculateAccessBits, At, IInv
    <2>2. \A w \in Users : \/ user'[w] = user[w]
                           \/ /\ user[w].pc \notin WorkPC \cup {"check"}
                              /\ user'[w].pc \notin WorkPC \cup {"check"}
      BY <2>1 DEF Ends, WorkPC, ResolverPC, ValidPC, ReadPC, ConnectPC
    <2>3. AccessBits
      BY <1>6, AccessBitSteps DEF IInv
    <2>4. QED
      BY <2>1, <2>2, <2>3, QuietOwned
  <1>7. ASSUME NEW va \in VAs, TrimClearAccessBit(va)
        PROVE  AccessBits /\ Owned'
    <2>1. /\ user' = user
          /\ UNCHANGED <<page, pageLock, list, trim, writer, refreshing, corrupted>>
      BY <1>7 DEF TrimClearAccessBit
    <2>2. AccessBits
      BY <1>7, AccessBitSteps DEF IInv
    <2>3. QED
      BY <2>1, <2>2, QuietOwned
  <1>8. CASE UNCHANGED vars
    <2>1. pte' = pte /\ user' = user
          /\ UNCHANGED <<page, pageLock, list, trim, writer, refreshing, corrupted>>
      BY <1>8 DEF vars
    <2>2. QED
      BY <1>0, <2>1, QuietOwned
  <1>9. CASE (\E p \in Pages : WriterReadTail(p)) \/ WriterSkip \/ WriterPopUnlisted
    <2>1. /\ pte' = pte /\ user' = user
          /\ corrupted => corrupted'
          /\ UNCHANGED <<page, pageLock, list, trim, writer, refreshing>>
      BY <1>9 DEF WriterReadTail, WriterSkip, WriterPopUnlisted
    <2>2. QED
      BY <1>0, <2>1, QuietOwned
  <1>10. QED
    BY <1>1, <1>2, <1>3, <1>4, <1>5, <1>6, <1>7, <1>8, <1>9

\* A late rescuer takes the lock and lets it go without a claim to the frame.
LEMMA RescueLockOwned ==
    ASSUME OInv, NEW u \in Users, LockToRescue(u) \/ RescueFail(u)
    PROVE  Owned'
  <1> USE DEF OInv, Owned
  <1> DEFINE p == user[u].page
  <1>1. /\ pte' = pte /\ p \in Pages
        /\ UNCHANGED <<page, list, trim, writer, refreshing, corrupted>>
    BY Fields DEF LockToRescue, RescueFail, At, FramePC
  <1>2. /\ user[u].pc \in {"rescue", "check"} /\ user'[u].pc \in {"check", "idle"}
        /\ \A w \in Users \ {u} : user'[w] = user[w]
    BY BackToUserEnds DEF LockToRescue, RescueFail, Goto, At, Ends, IInv, TypeOK, UserType
  <1>3. \A w \in Users : \/ user'[w] = user[w]
                         \/ user[w].pc \notin WorkPC /\ user'[w].pc \notin WorkPC
    BY <1>2 DEF WorkPC, ResolverPC, ValidPC, ReadPC, ConnectPC
  <1>4. \A q \in Pages : Untaken(q)' <=> Untaken(q)
    <2>1. CASE LockToRescue(u)
      <3>1. /\ user[u].pc = "rescue" /\ user'[u].pc = "check"
            /\ pageLock[p] = None /\ pageLock'[p] = u
            /\ \A q \in Pages \ {p} : pageLock'[q] = pageLock[q]
        BY <1>1, <2>1 DEF LockToRescue, Goto, At, IInv, TypeOK, UserType
      <3>2. \A q \in Pages : pageLock[q] # u
        BY <3>1 DEF IInv, PageLocksOwned, LockedPC
      <3>3. \A q \in Pages \ {p} : Untaken(q)' <=> Untaken(q)
        BY <1>2, <3>1, <3>2
      <3>4. QED
        BY <3>1, <3>3
    <2>2. CASE RescueFail(u)
      <3>1. /\ user[u].pc = "check" /\ user'[u].pc = "idle"
            /\ pageLock'[p] = None
            /\ \A q \in Pages \ {p} : pageLock'[q] = pageLock[q]
        BY <1>1, <2>2, BackToUserEnds DEF RescueFail, Ends, At, IInv, TypeOK, UserType
      <3>2. pageLock[p] = u /\ \A q \in Pages \ {p} : pageLock[q] # u
        BY <1>1, <3>1 DEF IInv, PageLocksOwned, LockedPC
      <3>3. \A q \in Pages \ {p} : Untaken(q)' <=> Untaken(q)
        BY <1>2, <3>1, <3>2
      <3>4. QED
        BY <3>1, <3>2, <3>3
    <2>3. QED
      BY <2>1, <2>2
  <1>5. AccessBits
    BY <1>1 DEF AccessBits
  <1>6. QED
    BY <1>1, <1>3, <1>4, <1>5, UntakenOwned

\* A step keeps everything owned, unless it is a half rescue.
LEMMA StepOwned ==
    ASSUME OInv, [Next]_vars,
           \A u \in Users : AwaitTrim(u) => pte[user[u].va].format = "transition"
    PROVE  OInv'
  <1>1. IInv'
    BY StepIInv DEF OInv
  <1>2. ASSUME NEW u \in Users, UserAccess(u)
        PROVE  Owned'
    BY <1>2, QuietStep DEF UserAccess
  <1>3. ASSUME NEW u \in Users, FaultStep(u)
        PROVE  Owned'
    <2>1. CASE FaultRetry(u) \/ BeginUnaccessedFault(u) \/ FindNoPage(u)
               \/ BeginTransitionFault(u) \/ SpeculateAccessBits(u)
      BY <2>1, QuietStep
    <2>2. CASE BeginValidFault(u) \/ RemapWritable(u) \/ DropSlot(u) \/ SetModified(u)
               \/ FinishValidFault(u)
      BY <2>2, BeginValidFaultOwned, RemapWritableOwned, DropSlotOwned, SetModifiedOwned,
         FinishValidFaultOwned
    <2>3. CASE (\E p \in Pages : TakePage(u, p)) \/ ClaimUnaccessed(u)
               \/ ReturnUnneededPage(u)
      BY <2>3, TakePageOwned, ClaimUnaccessedOwned, ReturnUnneededPageOwned
    <2>4. CASE LockToRescue(u) \/ RescueFail(u) \/ Rescue(u) \/ AwaitTrim(u)
               \/ CommitPage(u)
      BY <2>4, RescueLockOwned, RescueOwned, AwaitTrimOwned, CommitPageOwned
    <2>5. CASE AcquireReadRights(u) \/ (\E p \in Pages : GetPage(u, p))
               \/ ReleaseReadRights(u)
      BY <2>5, AcquireReadRightsOwned, GetPageOwned, ReleaseReadRightsOwned
    <2>6. CASE CommitPageDisk(u) \/ ReadPageFromDisk(u) \/ EndOfFaultDiskSlot(u)
      BY <2>6, CommitPageDiskOwned, ReadPageFromDiskOwned, EndOfFaultDiskSlotOwned
    <2>7. CASE MapPage(u) \/ ConnectPTE(u)
      BY <2>7, MapPageOwned, ConnectPTEOwned
    <2>8. QED
      BY <1>3, <2>1, <2>2, <2>3, <2>4, <2>5, <2>6, <2>7 DEF FaultStep
  <1>4. ASSUME TrimmerStep
        PROVE  Owned'
    <2>1. CASE \E va \in VAs : TrimClearAccessBit(va)
      BY <2>1, QuietStep
    <2>2. CASE \E va \in VAs : TrimMark(va) \/ TrimEdit(va)
      BY <2>2, TrimMarkOwned, TrimEditOwned
    <2>3. CASE TrimPlace \/ TrimDisconnect \/ TrimChainModified \/ TrimInsertModified
               \/ TrimChainStandby \/ TrimInsertStandby
      BY <2>3, TrimPlaceOwned, TrimDisconnectOwned, TrimChainModifiedOwned, TrimInsertModifiedOwned,
         TrimChainStandbyOwned, TrimInsertStandbyOwned
    <2>4. QED
      BY <1>4, <2>1, <2>2, <2>3 DEF TrimmerStep, TrimFinish
  <1>5. ASSUME WriterStep \/ RefresherStep
        PROVE  Owned'
    BY <1>5, QuietStep, WriterPopOwned, WriterCompleteOwned, WriterWriteBatchOwned,
       WriterInsertStandbyOwned, RefreshPopOwned, RefreshFreeOwned DEF WriterStep, RefresherStep
  <1>6. ASSUME Corrupted \/ UNCHANGED vars
        PROVE  Owned'
    BY <1>6, QuietStep DEF Corrupted
  <1>7. QED
    BY <1>1, <1>2, <1>3, <1>4, <1>5, <1>6 DEF Next, OInv

LEMMA InitOwned == Init => OInv
  <1> SUFFICES ASSUME Init PROVE Owned
    BY InitIInv DEF OInv
  <1>1. \A u \in Users : user[u].pc = "idle"
    BY DEF Init, IdleUser
  <1>2. \A v \in VAs : pte[v].format = "unused"
    BY DEF Init, Unused
  <1>3. \A p \in Pages :
           /\ page[p].status = "ZERO" /\ page[p].pte = None /\ ~page[p].writing_to_disk
           /\ list[p] = "available" /\ pageLock[p] = None
           /\ writer.slot[p] = None
    BY DEF Init
  <1>4. trim.to_modified = {} /\ trim.to_standby = {} /\ trim.page = None
        /\ writer.batch = {} /\ writer.confirmed = {} /\ writer.pc = "pop" /\ refreshing = {}
    BY DEF Init, NoBatch
  <1>5. Handlers
    BY <1>1 DEF Handlers, ResolversApart, ValidFaults, Claims, Rescues, Connections,
       ResolverPC, ValidPC, ReadPC, ConnectPC
  <1>6. FramesNamePTEs /\ PTEsNameFrames
    BY <1>2, <1>3 DEF FramesNamePTEs, PTEsNameFrames
  <1>7. Lists /\ OffLists
    BY <1>3, <1>4, ConstantsAssumption DEF Lists, OffLists
  <1>8. WriterBatch /\ SlotsOfFrames /\ TrimBatch
    BY <1>3, <1>4, ConstantsAssumption DEF WriterBatch, SlotsOfFrames, TrimBatch
  <1>9. QED
    BY <1>5, <1>6, <1>7, <1>8 DEF Owned, Frames

\* A half rescue is the only way to let go of what is owned.
LEMMA FullRescue ==
    ASSUME OInv, RescuesInTransition', NEW u \in Users, AwaitTrim(u)
    PROVE  pte[user[u].va].format = "transition"
  <1>1. /\ user[u].pc = "await_trim" /\ Moves(u, "commit")
        /\ UNCHANGED <<pte, page>>
    BY DEF OInv, AwaitTrim, At, IInv, TypeOK, UserType, Moves
  <1>2. Rescuable(user[u].page, user[u].va)
    BY <1>1 DEF OInv, Owned, Handlers, Rescues, Rescuable
  <1>3. QED
    BY <1>1, <1>2 DEF RescuesInTransition, Rescuable, Moves

----------------------------------------------------------------------------
(* How PTEs change *)

\* Bits that other threads set for reasons of their own: the access bit by an
\* access or by a fault's speculation, the marks by a fault or the trimmer.
SetsAccessBit(v) ==
    /\ pte[v].format = "memory" /\ ~pte[v].access_bit
    /\ pte'[v] = [pte[v] EXCEPT !.access_bit = TRUE]
    /\ \E u \in Users : user[u].pc \in {"idle", "speculate"}
MarksStable(v) ==
    /\ IsStable(pte[v])
    /\ pte'[v].format = "memory" /\ pte'[v].frame = pte[v].frame
    /\ \/ pte'[v].being_changed
       \/ TrimMark(v) /\ pte'[v].being_trimmed /\ pte'[v].access_bit = pte[v].access_bit
       \/ /\ FALSE \in TrimAccessed
          /\ IsStable(pte'[v]) /\ pte'[v].protections = pte[v].protections

\* The end of a fault: the PTE is connected, or given back.
EndsFault(u, v) ==
    /\ user[u].va = v
    /\ user'[u].pc # user[u].pc
    /\ \/ /\ user[u].pc \in {"connect", "finish_valid"} /\ pte'[v] = Connected(u)
          /\ ConnectPTE(u) \/ FinishValidFault(u)
       \/ user[u].pc = "get_page" /\ pte'[v].format = "disk"

\* Every way a PTE may change.
PTEChange(v) ==
    \/ pte'[v] = pte[v]
    \/ SetsAccessBit(v)
    \/ MarksStable(v)
    \/ pte[v].format = "unused" /\ pte'[v].format = "memory" /\ pte'[v].being_changed
    \/ IsStillTrimmed(pte[v]) /\ TrimEdit(v) /\ pte'[v] = Transition(pte[v].frame)
    \/ pte[v].format = "disk" /\ ~pte[v].being_read /\ pte'[v].format = "disk"
    \/ \E p \in Pages : Forced(v, p)
    \/ \E u \in Users : EndsFault(u, v)

\* Setting an access bit that is set changes nothing.
LEMMA AccessBitAgain ==
    ASSUME NEW e \in PTE, e.format = "memory"
    PROVE  e.access_bit => [e EXCEPT !.access_bit = TRUE] = e
  BY MemoryFormat DEF MemoryPTE

LEMMA PTEChanges ==
    ASSUME OInv, [Next]_vars, NEW v \in VAs
    PROVE  PTEChange(v)
  <1> USE DEF OInv
  <1>0. pte \in [VAs -> PTE]
    BY DEF IInv, TypeOK
  <1>1. ASSUME NEW u \in Users, UserAccess(u)
        PROVE  PTEChange(v)
    <2>1. CASE pte' = pte
      BY <2>1 DEF PTEChange
    <2>2. ASSUME NEW va \in VAs, UserSetAccessBit(u, va), v = va
          PROVE  PTEChange(v)
      BY <1>0, <2>2 DEF UserSetAccessBit, At, PTEChange, SetsAccessBit
    <2>3. ASSUME NEW va \in VAs, UserSetAccessBit(u, va), v # va
          PROVE  PTEChange(v)
      BY <1>0, <2>3 DEF UserSetAccessBit, PTEChange
    <2>4. QED
      BY <1>1, <2>1, <2>2, <2>3 DEF UserAccess, UserWrite, UserFault
  <1>2. ASSUME NEW u \in Users, FaultStep(u), pte' # pte
        PROVE  PTEChange(v)
    <2> DEFINE va == user[u].va
    <2>1. va \in VAs
      BY Fields
    <2>2. CASE BeginValidFault(u)
      <3>1. CASE v = va
        <4>1. IsStable(pte[v]) /\ pte'[v] = [pte[v] EXCEPT !.being_changed = TRUE]
          BY <1>0, <2>1, <2>2, <3>1 DEF BeginValidFault
        <4>2. pte[v] \in MemoryPTE
          BY <1>0, <4>1, MemoryFormat DEF IsStable
        <4>3. pte'[v].format = "memory" /\ pte'[v].being_changed /\ pte'[v].frame = pte[v].frame
          BY <4>1, <4>2 DEF MemoryPTE
        <4>4. QED
          BY <4>1, <4>3 DEF PTEChange, MarksStable
      <3>2. CASE v # va
        BY <1>0, <2>2, <3>2 DEF BeginValidFault, PTEChange
      <3>3. QED
        BY <3>1, <3>2
    <2>3. CASE FinishValidFault(u) \/ ConnectPTE(u)
      <3>1. CASE v = va
        <4>1. user[u].pc \in {"connect", "finish_valid"} /\ user'[u].pc # user[u].pc
          BY <2>3, GotoMoves, BackToUserEnds DEF FinishValidFault, ConnectPTE, At, Moves, Ends, IInv
        <4>2. pte'[v] = Connected(u)
          BY <1>0, <2>1, <2>3, <3>1 DEF FinishValidFault, ConnectPTE
        <4>3. QED
          BY <2>3, <3>1, <4>1, <4>2 DEF PTEChange, EndsFault
      <3>2. CASE v # va
        BY <1>0, <2>3, <3>2 DEF FinishValidFault, ConnectPTE, PTEChange
      <3>3. QED
        BY <3>1, <3>2
    <2>4. CASE ClaimUnaccessed(u)
      <3>1. CASE v = va
        BY <1>0, <2>1, <2>4, <3>1 DEF ClaimUnaccessed, StillUnaccessed, Unused, Memory, PTEChange
      <3>2. CASE v # va
        BY <1>0, <2>4, <3>2 DEF ClaimUnaccessed, PTEChange
      <3>3. QED
        BY <3>1, <3>2
    <2>5. CASE CommitPage(u)
      <3>1. user[u].page \in Pages
        BY <2>5, Fields DEF CommitPage, At, FramePC
      <3>2. QED
        BY <2>5, <3>1, CommitPagePTEs DEF PTEChange
    <2>6. CASE CommitPageDisk(u)
      <3>1. user[u].page \in Pages
        BY <2>6, Fields DEF CommitPageDisk, At, FramePC
      <3>2. QED
        BY <2>6, <3>1, CommitPageDiskPTEs DEF PTEChange
    <2>7. CASE AcquireReadRights(u)
      <3>1. CASE v = va
        <4>1. /\ pte[v].format = "disk" /\ ~pte[v].being_read
              /\ pte'[v] = [pte[v] EXCEPT !.being_read = TRUE]
          BY <1>0, <2>1, <2>7, <3>1 DEF AcquireReadRights
        <4>2. pte[v] \in DiskPTE
          BY <1>0, <4>1 DEF PTE, Unused, MemoryPTE, TransitionPTE
        <4>3. QED
          BY <4>1, <4>2 DEF DiskPTE, PTEChange
      <3>2. CASE v # va
        BY <1>0, <2>7, <3>2 DEF AcquireReadRights, PTEChange
      <3>3. QED
        BY <3>1, <3>2
    <2>8. CASE ReleaseReadRights(u)
      <3>1. CASE v = va
        <4>1. user[u].pc = "get_page" /\ user'[u].pc # user[u].pc
          BY <2>8, BackToUserEnds DEF ReleaseReadRights, At, Ends, IInv
        <4>2. pte'[v].format = "disk"
          BY <1>0, <2>1, <2>8, <3>1 DEF ReleaseReadRights, Disk
        <4>3. QED
          BY <3>1, <4>1, <4>2 DEF PTEChange, EndsFault
      <3>2. CASE v # va
        BY <1>0, <2>8, <3>2 DEF ReleaseReadRights, PTEChange
      <3>3. QED
        BY <3>1, <3>2
    <2>9. CASE SpeculateAccessBits(u)
      <3>1. \/ pte'[v] = pte[v]
            \/ pte[v].format = "memory" /\ pte'[v] = [pte[v] EXCEPT !.access_bit = TRUE]
        BY <1>0, <2>9 DEF SpeculateAccessBits
      <3>2. user[u].pc = "speculate"
        BY <2>9 DEF SpeculateAccessBits, At
      <3>3. CASE pte[v].format = "memory" /\ pte[v].access_bit
        BY <1>0, <3>1, <3>3, AccessBitAgain DEF PTEChange
      <3>4. CASE ~(pte[v].format = "memory" /\ pte[v].access_bit)
        BY <3>1, <3>2, <3>4 DEF PTEChange, SetsAccessBit
      <3>5. QED
        BY <3>3, <3>4
    <2>10. QED
      BY <1>2, <2>2, <2>3, <2>4, <2>5, <2>6, <2>7, <2>8, <2>9
      DEF FaultStep, FaultRetry, RemapWritable, DropSlot, SetModified,
          BeginUnaccessedFault, TakePage, FindNoPage, ReturnUnneededPage,
          BeginTransitionFault, LockToRescue, RescueFail, Rescue,
          AwaitTrim, GetPage, ReadPageFromDisk, EndOfFaultDiskSlot, MapPage
  <1>3. ASSUME TrimmerStep, pte' # pte
        PROVE  PTEChange(v)
    <2>1. ASSUME NEW va \in VAs, TrimClearAccessBit(va)
          PROVE  PTEChange(v)
      <3>1. CASE v = va
        <4>1. IsStable(pte[v]) /\ FALSE \in TrimAccessed
              /\ pte'[v] = [pte[v] EXCEPT !.access_bit = FALSE]
          BY <1>0, <2>1, <3>1 DEF TrimClearAccessBit
        <4>2. /\ pte'[v].format = "memory" /\ pte'[v].frame = pte[v].frame
              /\ IsStable(pte'[v]) /\ pte'[v].protections = pte[v].protections
          BY <1>0, <4>1, AccessBitSet DEF IsStable
        <4>3. QED
          BY <4>1, <4>2 DEF PTEChange, MarksStable
      <3>2. CASE v # va
        BY <1>0, <2>1, <3>2 DEF TrimClearAccessBit, PTEChange
      <3>3. QED
        BY <3>1, <3>2
    <2>2. ASSUME NEW va \in VAs, TrimMark(va)
          PROVE  PTEChange(v)
      <3>1. CASE v = va
        <4>1. IsStable(pte[v]) /\ pte'[v] = [pte[v] EXCEPT !.being_trimmed = TRUE]
          BY <1>0, <2>2, <3>1 DEF TrimMark
        <4>2. pte[v] \in MemoryPTE
          BY <1>0, <4>1, MemoryFormat DEF IsStable
        <4>3. /\ pte'[v].format = "memory" /\ pte'[v].access_bit = pte[v].access_bit
              /\ pte'[v].frame = pte[v].frame /\ pte'[v].being_trimmed
          BY <4>1, <4>2 DEF MemoryPTE
        <4>4. QED
          BY <2>2, <3>1, <4>1, <4>3 DEF PTEChange, MarksStable
      <3>2. CASE v # va
        BY <1>0, <2>2, <3>2 DEF TrimMark, PTEChange
      <3>3. QED
        BY <3>1, <3>2
    <2>3. ASSUME NEW va \in VAs, TrimEdit(va)
          PROVE  PTEChange(v)
      <3>1. CASE v = va /\ IsStillTrimmed(pte[va])
        <4>1. pte'[v] = Transition(pte[v].frame)
          BY <1>0, <2>3, <3>1 DEF TrimEdit
        <4>2. QED
          BY <2>3, <3>1, <4>1 DEF PTEChange
      <3>2. CASE ~(v = va /\ IsStillTrimmed(pte[va]))
        <4>1. pte'[v] = pte[v]
          BY <1>0, <2>3, <3>2 DEF TrimEdit
        <4>2. QED
          BY <4>1 DEF PTEChange
      <3>3. QED
        BY <3>1, <3>2
    <2>4. QED
      BY <1>3, <2>1, <2>2, <2>3 DEF TrimmerStep, TrimFinish, TrimPlace, TrimDisconnect,
         TrimChainModified, TrimInsertModified, TrimChainStandby, TrimInsertStandby,
         TrimChain, TrimInsert
  <1>4. ASSUME WriterStep
        PROVE  PTEChange(v)
    BY <1>4 DEF WriterStep, WriterReadTail, WriterSkip, WriterPop, WriterPopUnlisted,
       WriterComplete, WriterWriteBatch, WriterInsertStandby, PTEChange
  <1>5. ASSUME RefresherStep
        PROVE  PTEChange(v)
    <2>1. CASE RefreshFree
      <3>1. refreshing \subseteq Pages
        BY DEF IInv, TypeOK
      <3>2. CASE \A p \in refreshing : page[p].pte # v
        <4>1. pte'[v] = pte[v]
          BY <2>1, <3>2, RefreshFreePTEs
        <4>2. QED
          BY <4>1 DEF PTEChange
      <3>3. ASSUME NEW p \in refreshing, page[p].pte = v
            PROVE  PTEChange(v)
        <4>1. Forced(v, p)
          BY <2>1, <3>3, RefreshFreePTEs
        <4>2. QED
          BY <3>1, <4>1 DEF PTEChange
      <3>4. QED
        BY <3>2, <3>3
    <2>2. QED
      BY <1>5, <2>1 DEF RefresherStep, RefreshPop, PTEChange
  <1>6. CASE pte' = pte
    BY <1>6 DEF PTEChange
  <1>7. QED
    BY <1>1, <1>2, <1>3, <1>4, <1>5, <1>6 DEF Next, Corrupted, vars

----------------------------------------------------------------------------
(* What ownership says of the properties the runs check *)

LEMMA OwnedExclusive == OInv => FramesExclusive
  <1> USE DEF OInv, Owned, Handlers, Frames
  <1> SUFFICES ASSUME OInv, NEW v \in VAs, NEW w \in VAs, v # w,
                      pte[v].format \in {"memory", "transition"},
                      pte[w].format \in {"memory", "transition"},
                      pte[v].frame = pte[w].frame,
                      pageLock[pte[v].frame] = None
               PROVE  FALSE
    BY DEF FramesExclusive
  <1>1. ASSUME NEW x \in VAs, pte[x].format \in {"memory", "transition"},
               pageLock[pte[x].frame] = None
        PROVE  page[pte[x].frame].pte = x
    <2>1. CASE pte[x].format = "transition" \/ ~pte[x].being_changed
      BY <1>1, <2>1 DEF PTEsNameFrames
    <2>2. CASE pte[x].format = "memory" /\ pte[x].being_changed
      <3>1. PICK u \in Users : Changer(u, x, pte[x].frame)
        BY <2>2 DEF PTEsNameFrames
      <3>2. user[u].pc # "commit"
        BY <1>1, <3>1, LockedAlone DEF Changer, LockedPC
      <3>3. QED
        BY <3>1, <3>2 DEF Changer, ValidFaults, Connections
    <2>3. QED
      BY <1>1, <2>1, <2>2
  <1>2. QED
    BY <1>1

LEMMA OwnedAccounted == OInv => FramesAccounted
  BY DEF OInv, Owned, Frames, OffLists, FramesAccounted

LEMMA OwnedRescuable == OInv => TransitionsRescuable
  BY DEF OInv, Owned, Frames, PTEsNameFrames, TransitionsRescuable, Rescuable, Connector,
     ConnectPC

LEMMA OwnedChangeRight ==
    ASSUME OInv, [Next]_vars, NEW va \in VAs,
           pte[va].format = "memory", pte[va].being_changed
    PROVE  \/ pte'[va] = pte[va]
           \/ pte'[va] = [pte[va] EXCEPT !.access_bit = TRUE]
           \/ \E u \in Users : /\ user[u].va = va
                               /\ user[u].pc \in {"connect", "finish_valid"}
                               /\ user'[u].pc # user[u].pc
  <1>1. PTEChange(va)
    BY PTEChanges
  <1>2. \A p \in Pages : ~Forced(va, p)
    BY DEF Forced
  <1>3. ~MarksStable(va)
    BY DEF MarksStable, IsStable
  <1>4. \A u \in Users : EndsFault(u, va) => /\ user[u].va = va
                                             /\ user[u].pc \in {"connect", "finish_valid"}
                                             /\ user'[u].pc # user[u].pc
    BY DEF EndsFault, OInv, Owned, Handlers, Claims
  <1>5. QED
    BY <1>1, <1>2, <1>3, <1>4 DEF PTEChange, SetsAccessBit

----------------------------------------------------------------------------
(* Theorems *)

\* As long as every frame that is rescued is committed in transition format
\* (pagefault.c:127), frames, PTEs, page locks, lists and batches agree.
THEOREM Ownership == Spec /\ []RescuesInTransition => []OInv
  <1>1. Init => OInv
    BY InitOwned
  <1>2. OInv /\ RescuesInTransition' /\ [Next]_vars => OInv'
    BY StepOwned, FullRescue
  <1>3. QED
    BY <1>1, <1>2, PTL DEF Spec

\* No frame is named by two PTEs, but while a thread has its page lock.
THEOREM FrameExclusivity == Spec /\ []RescuesInTransition => []FramesExclusive
  BY Ownership, OwnedExclusive, PTL

\* No frame is ever lost: off the lists it is in use, locked, in flight or the
\* trimmer's.
THEOREM FrameAccounting == Spec /\ []RescuesInTransition => []FramesAccounted
  BY Ownership, OwnedAccounted, PTL

\* Every PTE in transition format leads a later fault to its frame.
THEOREM TransitionsLead == Spec /\ []RescuesInTransition => []TransitionsRescuable
  BY Ownership, OwnedRescuable, PTL

\* Nobody changes a PTE that a fault has taken for itself.
THEOREM ChangeRights == Spec /\ []RescuesInTransition => ChangeRightRespected
  <1> DEFINE Respected ==
        \A va \in VAs :
          pte[va].format = "memory" /\ pte[va].being_changed =>
             \/ pte'[va] = pte[va]
             \/ pte'[va] = [pte[va] EXCEPT !.access_bit = TRUE]
             \/ \E u \in Users : /\ user[u].va = va
                                 /\ user[u].pc \in {"connect", "finish_valid"}
                                 /\ user'[u].pc # user[u].pc
  <1>1. OInv /\ [Next]_vars => Respected
    BY OwnedChangeRight
  <1> HIDE DEF Respected
  <1>2. Spec /\ []RescuesInTransition => [][Respected]_vars
    BY <1>1, Ownership, PTL DEF Spec
  <1>3. QED
    BY <1>2, PTL DEF Respected, ChangeRightRespected

=============================================================================
