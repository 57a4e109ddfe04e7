--------------------------- MODULE VirtualMemory ---------------------------
(***************************************************************************)
(* The memory manager's page state machine: page table, page frames, page  *)
(* lists, page file and hardware mappings, worked on at once by the        *)
(* faulting user threads, the trimmer, the modified writer and the list    *)
(* refresher.  Content is abstracted to the function                       *)
(* holds[place]: the VA whose current bytes a frame or slot holds.         *)
(*                                                                         *)
(* One action is one step between two points where another thread can see  *)
(* or change what the step works on.  Every fault resolves one PTE (the    *)
(* code speculates on neighbours only while frames are plentiful), except  *)
(* that access bits ahead of the fault are still set speculatively.        *)
(***************************************************************************)
EXTENDS Integers, FiniteSets

CONSTANTS NumVAs,      \* virtual pages, numbered 0 .. NumVAs - 1
          Pages,       \* physical page frames
          Slots,       \* usable page file slots (slot 0 of the code excluded)
          Users,       \* usermode threads
          TrimAccessed, \* values the trimmer's trim_accessed_ptes may take
          Zero,        \* the content of a zeroed frame
          None         \* null pointer / DISK_IDX_NOTUSED / lock free

ASSUME ConstantsAssumption ==
    /\ NumVAs \in Nat \ {0}
    /\ TrimAccessed \subseteq BOOLEAN
    /\ None \notin Pages \cup Slots \cup Nat
    /\ None \notin Users \cup {"writer", "refresher"}
    /\ None \notin {"available", "modified", "standby"}
    /\ Zero \notin Nat \cup {None}
    /\ Pages \cap Slots = {}
    /\ Users \cap {"writer", "refresher"} = {}

VAs == 0 .. NumVAs - 1
Places == Pages \cup Slots \cup {None}
Accesses == {"READ", "WRITE"}
Threads == Users \cup {"writer", "refresher"}

VARIABLES
    pte,        \* the page table
    page,       \* PAGE structures
    pageLock,   \* holder of each page lock
    list,       \* the list each frame is linked on, or None
    hw,         \* what the CPU maps each VA to
    used,       \* allocated page file slots
    holds,      \* content: the VA whose current bytes each place holds
    user,       \* user threads
    trim,       \* TRIM_INFORMATION of the trimming thread
    writer,     \* DISK_BATCH of the modified writer
    potential_page, \* the tail of the modified list as the writer read it
    refreshing, \* pages the refresher popped from standby
    raced,      \* history: VAs whose first write met an in-flight write
    corrupted   \* a frame was unlinked from a list it is not on

vars == <<pte, page, pageLock, list, hw, used, holds, user, trim, writer,
          potential_page, refreshing, raced, corrupted>>

----------------------------------------------------------------------------
(* The formats of a PTE (pagetable.h) and of a PAGE (pagelists.h) *)

Unused == [format |-> "unused"]
Memory(p, prot, acc, chg, trm) ==
    [format |-> "memory", frame |-> p, protections |-> prot,
     access_bit |-> acc, being_changed |-> chg, being_trimmed |-> trm]
Transition(p) == [format |-> "transition", frame |-> p]
Disk(s, reading) ==
    [format |-> "disk", pagefile_idx |-> s, being_read |-> reading]

Protections == {"NONE", "READ", "READWRITE"}
MemoryPTE == [format : {"memory"}, frame : Pages, protections : Protections,
              access_bit : BOOLEAN, being_changed : BOOLEAN,
              being_trimmed : BOOLEAN]
TransitionPTE == [format : {"transition"}, frame : Pages]
DiskPTE == [format : {"disk"}, pagefile_idx : Slots \cup {None},
            being_read : BOOLEAN]
PTE == {Unused} \cup MemoryPTE \cup TransitionPTE \cup DiskPTE

Statuses == {"ZERO", "FREE", "MODIFIED", "STANDBY", "ACTIVE"}
Page == [status : Statuses, pagefile_idx : Slots \cup {None},
         writing_to_disk : BOOLEAN, modified : BOOLEAN, pte : VAs \cup {None}]

Mapping == [frame : Pages, writable : BOOLEAN]

\* Mutant: the being_changed bit is not looked at.
IsNotTrimmed(e) == e.format = "memory" /\ ~e.being_trimmed

\* A memory PTE nobody is working on: its page may be trimmed or re-protected.
IsStable(e) == e.format = "memory" /\ ~e.being_changed /\ ~e.being_trimmed

(* Content: holds[q] is a VA if q holds its current bytes, Zero if q is     *)
(* zeroed, None otherwise (stale, or free and no longer counted on).  There *)
(* is nothing to be had from the place None.                                *)
Copied(from, to) == [holds EXCEPT ![to] = holds[from]]
Forgotten(S) == [q \in Places |-> IF q \in S THEN None ELSE holds[q]]
\* Only va's first access may find zeros.
Zeroed(p, va) ==
    [holds EXCEPT ![p] = IF \A q \in Places : holds[q] # va THEN va ELSE Zero]
Written(va, p) == [q \in Places |-> IF q = p THEN va
                                   ELSE IF holds[q] = va THEN None ELSE holds[q]]

Locked(S, holder) == [p \in Pages |-> IF p \in S THEN holder ELSE pageLock[p]]
\* Mutant: the lock is kept.
StillLocked(p) == pageLock
Released(p) == [pageLock EXCEPT ![p] = None]
Listed(S, l) == [p \in Pages |-> IF p \in S THEN l ELSE list[p]]

\* Mutants: the old PTE is forgotten; the frame number goes into the slot field.
LeaveOldPTE(S) == pte
ForceFrameToDisk(S) ==
    [v \in VAs |-> IF \E p \in S : page[p].pte = v
                   THEN Disk(CHOOSE p \in S : page[p].pte = v, FALSE)
                   ELSE pte[v]]

(* PTEs of repurposed standby frames are forced to disk format *)
ForceToDisk(S) ==
    [v \in VAs |-> IF \E p \in S : page[p].pte = v
                   THEN Disk(page[CHOOSE p \in S : page[p].pte = v].pagefile_idx,
                             FALSE)
                   ELSE pte[v]]

\* The trimmer before it marks the first PTE of a batch.
NoBatch == [pc |-> "mark", page |-> None, ptes |-> {}, to_modified |-> {},
            to_standby |-> {}]

IdleUser == [pc |-> "idle", va |-> 0, access |-> "READ", page |-> None,
             seen |-> Unused, writable |-> FALSE]

\* Unlinking a frame that is on no list follows stale links and corrupts the
\* lists: what the program does after that is not modelled.
At(u, label) == ~corrupted /\ user[u].pc = label
TrimmerAt(label) == ~corrupted /\ trim.pc = label
WriterAt(label) == ~corrupted /\ writer.pc = label

\* Mutant: the right to change the PTE is not given back.
StillChanging(u) ==
    Memory(user[u].page, IF user[u].writable THEN "READWRITE" ELSE "READ",
           TRUE, TRUE, FALSE)

\* The PTE a fault ends with.
Connected(u) ==
    Memory(user[u].page, IF user[u].writable THEN "READWRITE" ELSE "READ",
           TRUE, FALSE, FALSE)

Goto(u, label) == user' = [user EXCEPT ![u].pc = label]
BackToUser(u) == user' = [user EXCEPT ![u] = IdleUser]

----------------------------------------------------------------------------
(* All frames start zeroed on the zero lists; the page table is empty. *)
Init ==
    /\ pte = [v \in VAs |-> Unused]
    /\ page = [p \in Pages |-> [status |-> "ZERO", pagefile_idx |-> None,
                  writing_to_disk |-> FALSE, modified |-> FALSE, pte |-> None]]
    /\ pageLock = [p \in Pages |-> None]
    /\ list = [p \in Pages |-> "available"]
    /\ hw = [v \in VAs |-> None]
    /\ used = {}
    /\ holds = [q \in Places |-> IF q \in Pages THEN Zero ELSE None]
    /\ user = [u \in Users |-> IdleUser]
    /\ trim = NoBatch
    /\ writer = [pc |-> "pop", batch |-> {}, confirmed |-> {},
                 slot |-> [p \in Pages |-> None]]
    /\ potential_page = None
    /\ refreshing = {}
    /\ raced = {}
    /\ corrupted = FALSE

----------------------------------------------------------------------------
(* User threads: accesses *)

\* A store through a writable mapping: only that frame now has va's bytes.
UserWrite(u, va) ==
    /\ At(u, "idle")
    /\ hw[va] # None
    /\ hw[va].writable
    /\ holds' = Written(va, hw[va].frame)
    /\ UNCHANGED <<pte, page, pageLock, list, hw, used, user, trim, writer,
                   potential_page, refreshing, raced, corrupted>>

\* After an access that did not fault the thread sets the access bit by CAS;
\* the PTE may have changed since the access.
UserSetAccessBit(u, va) ==
    /\ At(u, "idle")
    /\ pte[va].format = "memory"
    /\ ~pte[va].access_bit
    /\ pte' = [pte EXCEPT ![va].access_bit = TRUE]
    /\ UNCHANGED <<page, pageLock, list, hw, used, holds, user, trim, writer,
                   potential_page, refreshing, raced, corrupted>>

\* The access faults; pagefault() has not yet read the PTE.  The program loads
\* before it stores, so a store never is the first access to a VA.
UserFault(u, va, access) ==
    /\ At(u, "idle")
    /\ \/ hw[va] = None
       \/ hw[va] # None /\ access = "WRITE" /\ ~hw[va].writable
    /\ access = "WRITE" => pte[va] # Unused
    /\ user' = [user EXCEPT ![u].pc = "faulted", ![u].va = va,
                            ![u].access = access]
    /\ UNCHANGED <<pte, page, pageLock, list, hw, used, holds, trim, writer,
                   potential_page, refreshing, raced, corrupted>>

\* The PTE is already as the access needs it or is being worked on: the
\* handler returns (or spins on the PTE, then returns) and the access retries.
FaultRetry(u) ==
    LET e == pte[user[u].va]
    IN  /\ At(u, "faulted")
        /\ \/ e.format = "memory" /\ ~IsStable(e)
           \/ e.format = "disk" /\ e.being_read
        /\ BackToUser(u)
        /\ UNCHANGED <<pte, page, pageLock, list, hw, used, holds, trim,
                       writer, potential_page, refreshing, raced, corrupted>>

----------------------------------------------------------------------------
(* A fault on a valid PTE: change its permissions under being_changed *)

\* Compare-exchange the being_changed bit in: the right to edit this PTE.
BeginValidFault(u) ==
    LET va == user[u].va IN
    /\ At(u, "faulted")
    /\ IsStable(pte[va])
    /\ pte' = [pte EXCEPT ![va].being_changed = TRUE]
    /\ user' = [user EXCEPT
          ![u].page = pte[va].frame,
          ![u].writable = (user[u].access = "WRITE"),
          ![u].pc = IF user[u].access = "WRITE" /\ pte[va].protections = "READ"
                    THEN "remap" ELSE "finish_valid"]
    /\ UNCHANGED <<page, pageLock, list, hw, used, holds, trim, writer,
                   potential_page, refreshing, raced, corrupted>>

RemapWritable(u) ==
    /\ At(u, "remap")
    /\ hw' = [hw EXCEPT ![user[u].va] =
                  [frame |-> user[u].page, writable |-> TRUE]]
    /\ Goto(u, "drop_slot")
    /\ UNCHANGED <<pte, page, pageLock, list, used, holds, trim, writer,
                   potential_page, refreshing, raced, corrupted>>

\* The page file copy is about to become stale: give its slot back.
DropSlot(u) ==
    LET p == user[u].page IN
    /\ At(u, "drop_slot")
    /\ used' = used \ {page[p].pagefile_idx}
    /\ page' = [page EXCEPT ![p].pagefile_idx = None]
    /\ holds' = Forgotten({page[p].pagefile_idx})
    /\ raced' = raced \ {user[u].va}
    /\ Goto(u, "set_modified")
    /\ UNCHANGED <<pte, pageLock, list, hw, trim, writer, potential_page,
                   refreshing, corrupted>>

\* No page lock is held: the modified writer may have recorded a slot in the
\* page since DropSlot looked (raced remembers the VA it happened to).
SetModified(u) ==
    LET p == user[u].page IN
    /\ At(u, "set_modified")
    /\ page' = [page EXCEPT ![p].modified = TRUE]
    /\ raced' = IF page[p].pagefile_idx # None THEN raced \cup {user[u].va}
                                               ELSE raced
    /\ Goto(u, "finish_valid")
    /\ UNCHANGED <<pte, pageLock, list, hw, used, holds, trim, writer,
                   potential_page, refreshing, corrupted>>

\* Forced write of the final PTE, whatever access bit was set meanwhile.
FinishValidFault(u) ==
    /\ At(u, "finish_valid")
    /\ pte' = [pte EXCEPT ![user[u].va] = Connected(u)]
    /\ BackToUser(u)
    /\ UNCHANGED <<page, pageLock, list, hw, used, holds, trim, writer,
                   potential_page, refreshing, raced, corrupted>>

----------------------------------------------------------------------------
(* Taking a frame: zero and free lists ("available"), then standby.  The    *)
(* scan is not atomic, so which list has a frame when it is reached is open. *)

\* Mutants: the frame stays on its list; it is taken without its lock.
AllocateListed(u, p, label) ==
    /\ list[p] \in {"available", "standby"}
    /\ pageLock[p] = None
    /\ pageLock' = [pageLock EXCEPT ![p] = u]
    /\ user' = [user EXCEPT ![u].page = p, ![u].pc = label]
    /\ UNCHANGED list
AllocateUnlocked(u, p, label) ==
    /\ list[p] \in {"available", "standby"}
    /\ list' = [list EXCEPT ![p] = None]
    /\ user' = [user EXCEPT ![u].page = p, ![u].pc = label]
    /\ UNCHANGED pageLock

Allocate(u, p, label) ==
    /\ list[p] \in {"available", "standby"}
    /\ pageLock[p] = None
    /\ pageLock' = [pageLock EXCEPT ![p] = u]
    /\ list' = [list EXCEPT ![p] = None]
    /\ user' = [user EXCEPT ![u].page = p, ![u].pc = label]

BeginUnaccessedFault(u) ==
    /\ At(u, "faulted")
    /\ pte[user[u].va] = Unused
    /\ Goto(u, "take_page")
    /\ UNCHANGED <<pte, page, pageLock, list, hw, used, holds, trim, writer,
                   potential_page, refreshing, raced, corrupted>>

TakePage(u, p) ==
    /\ At(u, "take_page")
    /\ Allocate(u, p, "claim")
    /\ UNCHANGED <<pte, page, hw, used, holds, trim, writer, potential_page,
                   refreshing, raced, corrupted>>

\* The scan came back empty: wait for pages, retry.
FindNoPage(u) ==
    /\ At(u, "take_page")
    /\ BackToUser(u)
    /\ UNCHANGED <<pte, page, pageLock, list, hw, used, holds, trim, writer,
                   potential_page, refreshing, raced, corrupted>>

\* Mutant: no second look at the PTE under its lock.
AnyPTE(va) == TRUE
StillUnaccessed(va) == pte[va] = Unused

\* Under the PTE lock the PTE is still unused: publish it as being changed.
\* Its access and being_trimmed bits come from an uninitialised local.
ClaimUnaccessed(u) ==
    LET va == user[u].va IN
    /\ At(u, "claim")
    /\ StillUnaccessed(va)
    /\ \E acc, trm \in BOOLEAN :
          pte' = [pte EXCEPT ![va] =
                     Memory(user[u].page, "NONE", acc, TRUE, trm)]
    /\ Goto(u, "commit")
    /\ UNCHANGED <<page, pageLock, list, hw, used, holds, trim, writer,
                   potential_page, refreshing, raced, corrupted>>

\* Another thread resolved the PTE: the frame goes back to its list.  Zeroed
\* frames come back as FREE (zero_list_add_batch), and only standby frames
\* keep their PTE.
ReturnUnneededPage(u) ==
    LET p == user[u].page
        standby == page[p].status = "STANDBY"
    IN  /\ At(u, "claim")
        /\ ~StillUnaccessed(user[u].va)
        /\ page' = IF standby THEN page
                   ELSE [page EXCEPT ![p].status = "FREE", ![p].pte = None]
        /\ list' = [list EXCEPT ![p] = IF standby THEN "standby"
                                                  ELSE "available"]
        /\ holds' = IF standby THEN holds ELSE Forgotten({p})
        /\ pageLock' = Released(p)
        /\ BackToUser(u)
        /\ UNCHANGED <<pte, hw, used, trim, writer, potential_page,
                       refreshing, raced, corrupted>>

----------------------------------------------------------------------------
(* A fault on a transition PTE: rescue the frame *)

BeginTransitionFault(u) ==
    LET e == pte[user[u].va] IN
    /\ At(u, "faulted")
    /\ e.format = "transition"
    /\ user' = [user EXCEPT ![u].page = e.frame, ![u].pc = "rescue"]
    /\ UNCHANGED <<pte, page, pageLock, list, hw, used, holds, trim, writer,
                   potential_page, refreshing, raced, corrupted>>

Rescuable(p, va) ==
    page[p].pte = va /\ page[p].status \in {"MODIFIED", "STANDBY"}

\* Mutant: the frame may have been written to and listed again.
BeingWritten(p) == page[p].writing_to_disk

\* Popped by the modified writer and not written since: on no list.
InFlight(p) == page[p].writing_to_disk /\ ~page[p].modified

ListOf(status) == IF status = "MODIFIED" THEN "modified" ELSE "standby"

LockToRescue(u) ==
    LET p == user[u].page IN
    /\ At(u, "rescue")
    /\ pageLock[p] = None
    /\ pageLock' = [pageLock EXCEPT ![p] = u]
    /\ Goto(u, "check")
    /\ UNCHANGED <<pte, page, list, hw, used, holds, trim, writer,
                   potential_page, refreshing, raced, corrupted>>

\* Another thread rescued the frame, or it was repurposed.
RescueFail(u) ==
    LET p == user[u].page IN
    /\ At(u, "check")
    /\ ~Rescuable(p, user[u].va)
    /\ pageLock' = Released(p)
    /\ BackToUser(u)
    /\ UNCHANGED <<pte, page, list, hw, used, holds, trim, writer,
                   potential_page, refreshing, raced, corrupted>>

\* Unlink the frame from the list its status names (unless it is in flight)
\* and look at the PTE: if the trimmer has not put it in transition format
\* yet, wait, lock in hand, for it to change.
Rescue(u) ==
    LET p == user[u].page
        va == user[u].va
        unlink == ~(page[p].status = "MODIFIED" /\ InFlight(p))
    IN  /\ At(u, "check")
        /\ Rescuable(p, va)
        /\ list' = IF unlink THEN [list EXCEPT ![p] = None] ELSE list
        /\ corrupted' = (unlink /\ list[p] # ListOf(page[p].status))
        /\ user' = IF pte[va].format = "transition"
                   THEN [user EXCEPT ![u].pc = "commit"]
                   ELSE [user EXCEPT ![u].pc = "await_trim", ![u].seen = pte[va]]
        /\ UNCHANGED <<pte, page, pageLock, hw, used, holds, trim, writer,
                       potential_page, refreshing, raced>>

\* One change of the PTE ends the wait, whatever the change was.
AwaitTrim(u) ==
    /\ At(u, "await_trim")
    /\ pte[user[u].va] # user[u].seen
    /\ user' = [user EXCEPT ![u].seen = Unused, ![u].pc = "commit"]
    /\ UNCHANGED <<pte, page, pageLock, list, hw, used, holds, trim, writer,
                   potential_page, refreshing, raced, corrupted>>

----------------------------------------------------------------------------
(* Committing a frame to an unaccessed or transition PTE, under the page    *)
(* lock.  The code tells the cases apart by the PTE's present format:       *)
(* memory = unaccessed (zero the frame, forget its slot), transition =      *)
(* rescue (a write gives a standby frame's slot back).                      *)

\* Mutant: a write to a rescued standby frame forgets its slot.
LeaksSlot(u) == FALSE
FreesSlot(u) ==
    /\ user[u].access = "WRITE"
    /\ pte[user[u].va].format = "transition"
    /\ page[user[u].page].status = "STANDBY"

CommitPage(u) ==
    LET va == user[u].va
        p == user[u].page
        old == page[p]
        write == user[u].access = "WRITE"
        fresh == pte[va].format = "memory"
        rescued == pte[va].format = "transition"
    IN  /\ At(u, "commit")
        /\ page' = [page EXCEPT ![p] =
              [old EXCEPT !.status = "ACTIVE", !.pte = va,
                          !.modified = old.modified \/ write,
                          !.pagefile_idx = IF write \/ fresh THEN None ELSE @]]
        /\ used' = IF FreesSlot(u) THEN used \ {old.pagefile_idx} ELSE used
        /\ holds' = IF fresh /\ (old.status # "ZERO" \/ holds[p] = Zero)
                    THEN Zeroed(p, va) ELSE Forgotten(used \ used')
        /\ pte' = IF ~rescued /\ old.status = "STANDBY"
                  THEN ForceToDisk({p}) ELSE pte
        /\ pageLock' = Released(p)
        /\ raced' = IF FreesSlot(u) THEN raced \ {va} ELSE raced
        /\ Goto(u, "map")
        /\ UNCHANGED <<list, hw, trim, writer, potential_page, refreshing,
                       corrupted>>

----------------------------------------------------------------------------
(* A fault on a disk PTE: read the page back in *)

\* The handler reads the slot from the PTE whenever it needs it.  Once a half
\* rescue (see RescuesInTransition) has let two faults resolve one PTE it may
\* be in another format by then, and what is read is no slot.
SlotIn(e) == IF e.format = "disk" THEN e.pagefile_idx ELSE None

\* The being_read bit is the right to resolve this PTE.
AcquireReadRights(u) ==
    LET va == user[u].va IN
    /\ At(u, "faulted")
    /\ pte[va].format = "disk"
    /\ ~pte[va].being_read
    /\ pte' = [pte EXCEPT ![va].being_read = TRUE]
    /\ Goto(u, "get_page")
    /\ UNCHANGED <<page, pageLock, list, hw, used, holds, trim, writer,
                   potential_page, refreshing, raced, corrupted>>

GetPage(u, p) ==
    /\ At(u, "get_page")
    /\ Allocate(u, p, "commit_disk")
    /\ UNCHANGED <<pte, page, hw, used, holds, trim, writer, potential_page,
                   refreshing, raced, corrupted>>

\* The scan came back empty: undo the right, wait for pages, retry.
ReleaseReadRights(u) ==
    /\ At(u, "get_page")
    /\ pte' = [pte EXCEPT ![user[u].va] = Disk(SlotIn(@), FALSE)]
    /\ BackToUser(u)
    /\ UNCHANGED <<page, pageLock, list, hw, used, holds, trim, writer,
                   potential_page, refreshing, raced, corrupted>>

CommitPageDisk(u) ==
    LET p == user[u].page
        old == page[p]
    IN  /\ At(u, "commit_disk")
        /\ page' = [page EXCEPT ![p] =
              [old EXCEPT !.status = "ACTIVE", !.pte = user[u].va,
                          !.modified = @ \/ user[u].access = "WRITE"]]
        /\ pte' = IF old.status = "STANDBY" THEN ForceToDisk({p}) ELSE pte
        /\ pageLock' = Released(p)
        /\ Goto(u, "read_disk")
        /\ UNCHANGED <<list, hw, used, holds, trim, writer, potential_page,
                       refreshing, raced, corrupted>>

\* If this brings back bytes that a race left stale, the loss is complete:
\* from here on they are the VA's bytes.
ReadPageFromDisk(u) ==
    LET va == user[u].va
        s == SlotIn(pte[va])
        p == user[u].page
    IN
    /\ At(u, "read_disk")
    /\ holds' = IF va \in raced THEN [holds EXCEPT ![s] = va, ![p] = va]
                                 ELSE Copied(s, p)
    /\ raced' = raced \ {va}
    /\ Goto(u, "end_slot")
    /\ UNCHANGED <<pte, page, pageLock, list, hw, used, trim, writer,
                   potential_page, refreshing, corrupted>>

\* A read keeps the page file copy, a write gives its slot back.
EndOfFaultDiskSlot(u) ==
    LET e == pte[user[u].va]
        slot == SlotIn(e)
        write == user[u].access = "WRITE"
    IN  /\ At(u, "end_slot")
        /\ page' = [page EXCEPT ![user[u].page].pagefile_idx =
                        IF write THEN None
                        ELSE IF e.format = "disk" THEN slot ELSE @]
        /\ used' = IF write THEN used \ {slot} ELSE used
        /\ holds' = IF write THEN Forgotten({slot}) ELSE holds
        /\ Goto(u, "map")
        /\ UNCHANGED <<pte, pageLock, list, hw, trim, writer, potential_page,
                       refreshing, raced, corrupted>>

----------------------------------------------------------------------------
(* Connecting the PTE to its frame *)

\* Unaccessed PTEs (memory format by now) are mapped writable at once.
MapPage(u) ==
    LET va == user[u].va
        writable == user[u].access = "WRITE" \/ pte[va].format = "memory"
    IN  /\ At(u, "map")
        /\ hw' = [hw EXCEPT ![va] =
                      [frame |-> user[u].page, writable |-> writable]]
        /\ user' = [user EXCEPT ![u].writable = writable, ![u].pc = "connect"]
        /\ UNCHANGED <<pte, page, pageLock, list, used, holds, trim, writer,
                       potential_page, refreshing, raced, corrupted>>

ConnectPTE(u) ==
    /\ At(u, "connect")
    /\ pte' = [pte EXCEPT ![user[u].va] = Connected(u)]
    /\ Goto(u, "speculate")
    /\ UNCHANGED <<page, pageLock, list, hw, used, holds, trim, writer,
                   potential_page, refreshing, raced, corrupted>>

\* Length of the run of valid PTEs just below va; PTE 0 is never counted.
TrailingValid(va) ==
    Cardinality({v \in 1 .. va - 1 :
                    \A w \in v .. va - 1 : pte[w].format = "memory"})

\* Access bits ahead of the fault are set by one-shot CASes: some may fail.
SpeculateAccessBits(u) ==
    LET va == user[u].va
        run == IF TrailingValid(va) > 1 THEN TrailingValid(va) ELSE 1
        ahead == {v \in VAs : v > va /\ v <= va + run
                              /\ pte[v].format = "memory"}
    IN  /\ At(u, "speculate")
        /\ \E hit \in SUBSET ahead :
              pte' = [v \in VAs |-> IF v \in hit
                                    THEN [pte[v] EXCEPT !.access_bit = TRUE]
                                    ELSE pte[v]]
        /\ BackToUser(u)
        /\ UNCHANGED <<page, pageLock, list, hw, used, holds, trim, writer,
                       potential_page, refreshing, raced, corrupted>>

----------------------------------------------------------------------------
(* The trimmer *)

\* An accessed PTE is spared: only its access bit is cleared.  (Two forced
\* writes in the code, between which other threads can only spin.)
TrimClearAccessBit(va) ==
    /\ TrimmerAt("mark")
    /\ trim.page = None
    /\ IsStable(pte[va])
    /\ FALSE \in TrimAccessed
    /\ pte[va].access_bit
    /\ pte' = [pte EXCEPT ![va].access_bit = FALSE]
    /\ UNCHANGED <<page, pageLock, list, hw, used, holds, user, trim, writer,
                   potential_page, refreshing, raced, corrupted>>

\* Mark the PTE as being trimmed.  A frame that has kept its slot goes to
\* standby; where any other goes is decided under its page lock.
TrimMark(va) ==
    LET p == pte[va].frame
        keepsSlot == page[p].pagefile_idx # None
    IN  /\ TrimmerAt("mark")
        /\ trim.page = None
        /\ IsStable(pte[va])
        /\ pte[va].access_bit => TRUE \in TrimAccessed
        /\ pte' = [pte EXCEPT ![va].being_trimmed = TRUE]
        /\ trim' = [trim EXCEPT
              !.ptes = @ \cup {va},
              !.to_standby = IF keepsSlot THEN @ \cup {p} ELSE @,
              !.page = IF keepsSlot THEN None ELSE p]
        /\ UNCHANGED <<page, pageLock, list, hw, used, holds, user, writer,
                       potential_page, refreshing, raced, corrupted>>

\* With the lock, to agree with the modified writer: a frame in flight is left
\* to the writer, and one whose write has just completed has a slot by now.
TrimPlace ==
    LET p == trim.page
        inFlight == InFlight(p)
        hasSlot == page[p].pagefile_idx # None
    IN  /\ TrimmerAt("mark")
        /\ p # None
        /\ pageLock[p] = None
        /\ page' = IF inFlight THEN [page EXCEPT ![p].status = "MODIFIED"]
                               ELSE page
        /\ trim' = [trim EXCEPT
              !.page = None,
              !.to_standby = IF ~inFlight /\ hasSlot THEN @ \cup {p} ELSE @,
              !.to_modified = IF inFlight \/ hasSlot THEN @ ELSE @ \cup {p}]
        /\ UNCHANGED <<pte, pageLock, list, hw, used, holds, user, writer,
                       potential_page, refreshing, raced, corrupted>>

AfterModified == IF trim.to_standby # {} THEN "chain_standby" ELSE "edit"

\* Mutant: the last VA of a batch is not unmapped.
UnmappedButLast(S) ==
    [v \in VAs |-> IF v \in S /\ \E w \in S : v < w THEN None ELSE hw[v]]
Unmapped(S) == [v \in VAs |-> IF v \in S THEN None ELSE hw[v]]

TrimDisconnect ==
    /\ TrimmerAt("mark")
    /\ trim.page = None
    /\ trim.ptes # {}
    /\ hw' = Unmapped(trim.ptes)
    /\ trim' = [trim EXCEPT !.pc = IF trim.to_modified # {} THEN "chain_modified"
                                                            ELSE AfterModified]
    /\ UNCHANGED <<pte, page, pageLock, list, used, holds, user, writer,
                   potential_page, refreshing, raced, corrupted>>

\* create_chain_of_pages sets the statuses and holds no page lock ...
TrimChain(pages, status, from, to) ==
    /\ TrimmerAt(from)
    /\ page' = [p \in Pages |-> IF p \in pages
                                THEN [page[p] EXCEPT !.status = status]
                                ELSE page[p]]
    /\ trim' = [trim EXCEPT !.pc = to]
    /\ UNCHANGED <<pte, pageLock, list, hw, used, holds, user, writer,
                   potential_page, refreshing, raced, corrupted>>

\* ... and only then is the chain linked into its list.
TrimInsert(pages, l, from, to) ==
    /\ TrimmerAt(from)
    /\ list' = Listed(pages, l)
    /\ trim' = [trim EXCEPT !.pc = to]
    /\ UNCHANGED <<pte, page, pageLock, hw, used, holds, user, writer,
                   potential_page, refreshing, raced, corrupted>>

TrimChainModified ==
    TrimChain(trim.to_modified, "MODIFIED", "chain_modified", "insert_modified")
TrimInsertModified ==
    TrimInsert(trim.to_modified, "modified", "insert_modified", AfterModified)
TrimChainStandby ==
    TrimChain(trim.to_standby, "STANDBY", "chain_standby", "insert_standby")
TrimInsertStandby ==
    TrimInsert(trim.to_standby, "standby", "insert_standby", "edit")

\* Mutants: a PTE that was faulted back in is edited; one whose frame is
\* locked is skipped.
IsConnected(e) == e.format = "memory" /\ ~e.being_changed
IsUnlockedTrim(e) == /\ e.format = "memory" /\ ~e.being_changed
                     /\ e.being_trimmed /\ pageLock[e.frame] = None
IsStillTrimmed(e) == e.format = "memory" /\ ~e.being_changed /\ e.being_trimmed

\* Put a PTE of the batch in transition format, unless it was meanwhile sent
\* to disk or even faulted back in.
TrimEdit(va) ==
    /\ TrimmerAt("edit")
    /\ va \in trim.ptes
    /\ pte' = IF IsStillTrimmed(pte[va])
              THEN [pte EXCEPT ![va] = Transition(pte[va].frame)]
              ELSE pte
    /\ trim' = IF trim.ptes = {va}
               THEN NoBatch
               ELSE [trim EXCEPT !.ptes = @ \ {va}]
    /\ UNCHANGED <<page, pageLock, list, hw, used, holds, user, writer,
                   potential_page, refreshing, raced, corrupted>>

----------------------------------------------------------------------------
(* The modified writer *)

\* The tail of the modified list is read without any lock.
WriterReadTail(p) ==
    /\ WriterAt("pop")
    /\ potential_page = None
    /\ list[p] = "modified"
    /\ potential_page' = p
    /\ UNCHANGED <<pte, page, pageLock, list, hw, used, holds, user, trim,
                   writer, refreshing, raced, corrupted>>

\* Its lock is taken, or it has another status by now: one attempt fewer.
WriterSkip ==
    /\ WriterAt("pop")
    /\ potential_page # None
    /\ \/ pageLock[potential_page] # None
       \/ page[potential_page].status # "MODIFIED"
    /\ potential_page' = None
    /\ UNCHANGED <<pte, page, pageLock, list, hw, used, holds, user, trim,
                   writer, refreshing, raced, corrupted>>

Poppable(p) == pageLock[p] = None /\ page[p].status = "MODIFIED"

\* With the lock only the status is looked at again.  A frame already being
\* written is unlinked again but not batched twice.
WriterPop ==
    LET p == potential_page IN
    /\ WriterAt("pop")
    /\ p # None
    /\ Poppable(p)
    /\ list[p] = "modified"
    /\ list' = [list EXCEPT ![p] = None]
    /\ writer' = IF page[p].writing_to_disk THEN writer
                 ELSE [writer EXCEPT !.batch = @ \cup {p}]
    /\ page' = [page EXCEPT ![p].modified = FALSE, ![p].writing_to_disk = TRUE]
    /\ potential_page' = None
    /\ UNCHANGED <<pte, pageLock, hw, used, holds, user, trim, refreshing,
                   raced, corrupted>>

\* The frame was rescued and trimmed again meanwhile: it has the status, but
\* is not on the list.  The step ends at the links that unlink_page follows.
WriterPopUnlisted ==
    LET p == potential_page IN
    /\ WriterAt("pop")
    /\ p # None
    /\ Poppable(p)
    /\ list[p] # "modified"
    /\ corrupted' = TRUE
    /\ UNCHANGED <<pte, page, pageLock, list, hw, used, holds, user, trim,
                   writer, potential_page, refreshing, raced>>

\* Allocate a slot for every frame of the batch and copy the frames out.
WriterWriteBatch ==
    /\ WriterAt("pop")
    /\ potential_page = None
    /\ writer.batch # {}
    /\ \E slot \in [writer.batch -> Slots \ used] :
          /\ \A p, q \in writer.batch : slot[p] = slot[q] => p = q
          /\ used' = used \cup {slot[p] : p \in writer.batch}
          /\ holds' = [q \in Places |->
                IF \E p \in writer.batch : slot[p] = q
                THEN holds[CHOOSE p \in writer.batch : slot[p] = q]
                ELSE holds[q]]
          /\ writer' = [writer EXCEPT !.pc = "complete",
                !.slot = [p \in Pages |-> IF p \in writer.batch THEN slot[p]
                                                               ELSE None]]
    /\ UNCHANGED <<pte, page, pageLock, list, hw, user, trim, potential_page,
                   refreshing, raced, corrupted>>

\* Mutants: only the status is looked at; the slot is kept even if the frame
\* was written to.
Unrescued(p) == page[p].status = "MODIFIED"
Kept(p) == TRUE
Confirmable(p) == page[p].status = "MODIFIED" /\ ~page[p].modified
KeepsSlot(p) == ~page[p].modified

\* Under the page lock: a frame that is still clean and in MODIFIED status is
\* confirmed for standby and stays locked.  Otherwise it was rescued; its slot
\* is kept if the frame is still clean and freed if it was written to.
WriterComplete(p) ==
    LET confirm == Confirmable(p)
    IN  /\ WriterAt("complete")
        /\ p \in writer.batch
        /\ pageLock[p] = None
        /\ page' = [page EXCEPT ![p].writing_to_disk = FALSE,
                      ![p].pagefile_idx = IF ~confirm /\ KeepsSlot(p)
                                          THEN writer.slot[p] ELSE @]
        /\ used' = IF confirm \/ KeepsSlot(p) THEN used
                                              ELSE used \ {writer.slot[p]}
        /\ holds' = Forgotten(used \ used')
        /\ pageLock' = IF confirm THEN Locked({p}, "writer") ELSE pageLock
        /\ writer' = [writer EXCEPT
              !.batch = @ \ {p},
              !.confirmed = IF confirm THEN @ \cup {p} ELSE @,
              !.slot = IF confirm THEN @ ELSE [@ EXCEPT ![p] = None]]
        /\ UNCHANGED <<pte, list, hw, user, trim, potential_page, refreshing,
                       raced, corrupted>>

\* The confirmed frames go to standby with their slots and are unlocked.
WriterInsertStandby ==
    /\ WriterAt("complete")
    /\ writer.batch = {}
    /\ page' = [p \in Pages |-> IF p \in writer.confirmed
                   THEN [page[p] EXCEPT !.status = "STANDBY",
                                        !.pagefile_idx = writer.slot[p]]
                   ELSE page[p]]
    /\ list' = Listed(writer.confirmed, "standby")
    /\ pageLock' = Locked(writer.confirmed, None)
    /\ writer' = [pc |-> "pop", batch |-> {}, confirmed |-> {},
                  slot |-> [p \in Pages |-> None]]
    /\ UNCHANGED <<pte, hw, used, holds, user, trim, potential_page,
                   refreshing, raced, corrupted>>

----------------------------------------------------------------------------
(* The list refresher: standby frames become free frames.  (Frames it has   *)
(* zeroed first come back with FREE status too, and are zeroed again.)      *)

RefreshPop(S) ==
    /\ ~corrupted
    /\ refreshing = {}
    /\ S # {}
    /\ \A p \in S : list[p] = "standby" /\ pageLock[p] = None
    /\ refreshing' = S
    /\ list' = Listed(S, None)
    /\ pageLock' = Locked(S, "refresher")
    /\ UNCHANGED <<pte, page, hw, used, holds, user, trim, writer,
                   potential_page, raced, corrupted>>

RefreshFree ==
    /\ ~corrupted
    /\ refreshing # {}
    /\ pte' = ForceToDisk(refreshing)
    /\ page' = [p \in Pages |-> IF p \in refreshing
                   THEN [page[p] EXCEPT !.status = "FREE", !.pte = None]
                   ELSE page[p]]
    /\ list' = Listed(refreshing, "available")
    /\ pageLock' = Locked(refreshing, None)
    /\ holds' = Forgotten(refreshing)
    /\ refreshing' = {}
    /\ UNCHANGED <<hw, used, user, trim, writer, potential_page, raced,
                   corrupted>>

----------------------------------------------------------------------------
UserAccess(u) ==
    \E va \in VAs :
        \/ UserWrite(u, va)
        \/ UserSetAccessBit(u, va)
        \/ \E access \in Accesses : UserFault(u, va, access)

FaultStep(u) ==
    \/ FaultRetry(u)
    \/ BeginValidFault(u)
    \/ RemapWritable(u)
    \/ DropSlot(u)
    \/ SetModified(u)
    \/ FinishValidFault(u)
    \/ BeginUnaccessedFault(u)
    \/ \E p \in Pages : TakePage(u, p)
    \/ FindNoPage(u)
    \/ ClaimUnaccessed(u)
    \/ ReturnUnneededPage(u)
    \/ BeginTransitionFault(u)
    \/ LockToRescue(u)
    \/ RescueFail(u)
    \/ Rescue(u)
    \/ AwaitTrim(u)
    \/ CommitPage(u)
    \/ AcquireReadRights(u)
    \/ \E p \in Pages : GetPage(u, p)
    \/ ReleaseReadRights(u)
    \/ CommitPageDisk(u)
    \/ ReadPageFromDisk(u)
    \/ EndOfFaultDiskSlot(u)
    \/ MapPage(u)
    \/ ConnectPTE(u)
    \/ SpeculateAccessBits(u)

TrimFinish ==
    \/ TrimPlace
    \/ TrimDisconnect
    \/ TrimChainModified
    \/ TrimInsertModified
    \/ TrimChainStandby
    \/ TrimInsertStandby
    \/ \E va \in VAs : TrimEdit(va)

TrimmerStep ==
    \/ \E va \in VAs : TrimClearAccessBit(va) \/ TrimMark(va)
    \/ TrimFinish

WriterStep ==
    \/ \E p \in Pages : WriterReadTail(p) \/ WriterComplete(p)
    \/ WriterSkip
    \/ WriterPop
    \/ WriterPopUnlisted
    \/ WriterWriteBatch
    \/ WriterInsertStandby

RefresherStep ==
    \/ \E S \in SUBSET Pages : RefreshPop(S)
    \/ RefreshFree

Corrupted == corrupted /\ UNCHANGED vars

Next ==
    \/ \E u \in Users : UserAccess(u) \/ FaultStep(u)
    \/ TrimmerStep
    \/ WriterStep
    \/ RefresherStep
    \/ Corrupted

Spec == Init /\ [][Next]_vars

\* The scheduler runs every thread.  A fault handler goes on to its end, and
\* the trimmer goes on with a batch it has started; which pages it marks,
\* when it stops marking, and every access of a user thread are up to them.
Fairness ==
    /\ \A u \in Users : WF_vars(FaultStep(u))
    /\ WF_vars(TrimFinish)

FairSpec == Spec /\ Fairness

----------------------------------------------------------------------------
(* Type invariant *)

UserType == [pc : {"idle", "faulted", "remap", "drop_slot", "set_modified",
                   "finish_valid", "take_page", "claim", "rescue", "check",
                   "await_trim", "commit", "get_page", "commit_disk",
                   "read_disk", "end_slot", "map", "connect", "speculate"},
             va : VAs, access : Accesses, page : Pages \cup {None},
             seen : PTE, writable : BOOLEAN]

TrimType == [pc : {"mark", "chain_modified", "insert_modified",
                   "chain_standby", "insert_standby", "edit"},
             page : Pages \cup {None}, ptes : SUBSET VAs, to_modified : SUBSET Pages,
             to_standby : SUBSET Pages]
WriterType == [pc : {"pop", "complete"}, batch : SUBSET Pages,
               confirmed : SUBSET Pages, slot : [Pages -> Slots \cup {None}]]

TypeOK ==
    /\ pte \in [VAs -> PTE]
    /\ page \in [Pages -> Page]
    /\ pageLock \in [Pages -> Threads \cup {None}]
    /\ list \in [Pages -> {"available", "modified", "standby", None}]
    /\ hw \in [VAs -> Mapping \cup {None}]
    /\ used \subseteq Slots
    /\ holds \in [Places -> VAs \cup {Zero, None}]
    /\ user \in [Users -> UserType]
    /\ trim \in TrimType
    /\ writer \in WriterType
    /\ potential_page \in Pages \cup {None}
    /\ refreshing \subseteq Pages
    /\ raced \subseteq VAs
    /\ corrupted \in BOOLEAN

----------------------------------------------------------------------------
(* Safety *)

\* README.md: "without any loss of data".  Whatever a PTE says, the place it
\* points at holds the VA's current bytes, except for VAs whose write raced
\* with the modified writer's completion.
NoDataLoss ==
    \A va \in VAs \ raced :
        LET e == pte[va] IN
        /\ e.format = "memory" /\ ~e.being_changed => holds[e.frame] = va
        /\ e.format = "transition" => holds[e.frame] = va
        /\ e.format = "disk" /\ ~e.being_read => holds[e.pagefile_idx] = va

\* What the CPU reads through a mapping is the VA's own current content
\* (vm1.c:318), except between marking a PTE for trimming and editing it.
MappingsCurrent ==
    \A va \in VAs \ (raced \cup trim.ptes) :
        hw[va] # None => holds[hw[va].frame] = va

\* No two PTEs name one frame, unless a thread holds its page lock.
FramesExclusive ==
    \A v, w \in VAs :
        /\ v # w
        /\ {pte[v].format, pte[w].format} \subseteq {"memory", "transition"}
        /\ pte[v].frame = pte[w].frame
        => pageLock[pte[v].frame] # None

\* The threads on whose behalf a page lock is held are the ones that hold it.
LockedPC == {"claim", "check", "await_trim", "commit", "commit_disk"}
PageLocksOwned ==
    \A p \in Pages :
        /\ \A u \in Users :
              pageLock[p] = u <=> user[u].page = p /\ user[u].pc \in LockedPC
        /\ pageLock[p] = "writer" <=> p \in writer.confirmed
        /\ pageLock[p] = "refresher" <=> p \in refreshing

\* Asserted all over the fault and trim paths: a PTE that may be worked on
\* names an ACTIVE frame that names it back, and a writable one has no slot.
StablePTEsOwnActiveFrames ==
    \A va \in VAs :
        IsStable(pte[va]) =>
            LET p == pte[va].frame IN
            /\ page[p].status = "ACTIVE"
            /\ page[p].pte = va
            /\ pte[va].protections # "NONE"
            /\ pte[va].protections = "READWRITE" /\ va \notin raced
                  => page[p].pagefile_idx = None

\* A listed frame has the status its list stands for; a modified frame has no
\* slot (trim.c:824), a standby frame has an allocated one that holds the
\* bytes of the VA it still belongs to, an available frame belongs to nobody.
ListsConsistent ==
    \A p \in Pages :
        LET g == page[p] IN
        /\ list[p] = "available" =>
              /\ g.status \in {"ZERO", "FREE"} /\ g.pte = None
              /\ g.status = "ZERO" => holds[p] = Zero
        /\ list[p] = "modified" => g.status = "MODIFIED" /\ g.pagefile_idx = None
        /\ list[p] = "standby" =>
              /\ g.status = "STANDBY"
              /\ g.pagefile_idx \in used
              /\ g.pte \notin raced => holds[g.pagefile_idx] = g.pte

\* No frame is lost: off the lists it is in use, locked, in flight to disk or
\* in the trimmer's hands.
FramesAccounted ==
    \A p \in Pages :
        list[p] = None /\ pageLock[p] = None =>
            \/ page[p].status = "ACTIVE"
            \/ page[p].status = "MODIFIED" /\ InFlight(p)
            \/ page[p].status = "MODIFIED" /\ p \in trim.to_modified
            \/ page[p].status = "STANDBY" /\ p \in trim.to_standby

\* A transition PTE leads to a frame that can be rescued, or one being rescued:
\* otherwise its VA is lost to every later fault.
TransitionsRescuable ==
    \A va \in VAs :
        pte[va].format = "transition" =>
            \/ Rescuable(pte[va].frame, va)
            \/ \E u \in Users : /\ user[u].va = va
                                /\ user[u].page = pte[va].frame
                                /\ user[u].pc \in {"map", "connect"}

\* Every allocated slot has one owner: a frame, a disk PTE or a write in
\* flight; no free slot has any.  While a fault moves a slot between its PTE
\* and its frame the stale end is not counted.
Resolving(va) == \E u \in Users : user[u].va = va /\ user[u].pc \in {"map", "connect"}
BeingRead(p) == \E u \in Users :
                   user[u].page = p /\ user[u].pc \in {"read_disk", "end_slot"}
SlotOwners(s) ==
    {<<"frame", p>> : p \in {q \in Pages :
                               /\ page[q].pagefile_idx = s
                               /\ page[q].status \notin {"ZERO", "FREE"}
                               /\ ~BeingRead(q)}}
    \cup {<<"pte", v>> : v \in {w \in VAs :
                               /\ pte[w].format = "disk"
                               /\ pte[w].pagefile_idx = s
                               /\ ~Resolving(w)}}
    \cup {<<"writing", p>> : p \in {q \in Pages : writer.slot[q] = s}}
SlotsAccounted ==
    \A s \in Slots : Cardinality(SlotOwners(s)) = IF s \in used THEN 1 ELSE 0

\* At any time there is a free slot for every frame that waits to be written,
\* listed or popped, but for those whose last copy the writer still has the slot
\* of: it frees that before it allocates again.  The writer relies on it: it
\* maps as many frames as it got slots, but copies its whole batch (trim.c:863-906;
\* the assertion at 865 is commented out).  pagefault.c:69 asserts it of all
\* frames on the modified list, which is too much.
SlotsSuffice ==
    Cardinality({p \in Pages : /\ list[p] = "modified" \/ p \in writer.batch
                               /\ writer.slot[p] = None})
        <= Cardinality(Slots \ used)

\* A PTE that a faulter is changing is changed by that faulter alone, the
\* access bit excepted.
ChangeRightRespected ==
    [][\A va \in VAs :
          pte[va].format = "memory" /\ pte[va].being_changed =>
             \/ pte'[va] = pte[va]
             \/ pte'[va] = [pte[va] EXCEPT !.access_bit = TRUE]
             \/ \E u \in Users : /\ user[u].va = va
                                 /\ user[u].pc \in {"connect", "finish_valid"}
                                 /\ user'[u].pc # user[u].pc]_vars

\* Assertions of the code where a thread is about to act on its frame: a frame
\* being committed is not in use (commit_pages, commit_pages_disk), a valid
\* fault ends with an active frame without a slot if it is a write
\* (pagefault.c:316, 319), and a rescued frame the writer comes back to has
\* no slot yet (trim.c:933).
FrameAssertions ==
    /\ \A u \in Users :
          LET g == page[user[u].page] IN
          /\ user[u].pc \in {"commit", "commit_disk"} => g.status # "ACTIVE"
          /\ user[u].pc = "finish_valid" =>
                /\ g.status = "ACTIVE"
                /\ pte[user[u].va].format = "memory"
                /\ user[u].access = "WRITE" /\ user[u].va \notin raced
                      => g.pagefile_idx = None
    /\ writer.pc = "complete" =>
          \A p \in writer.batch : page[p].pagefile_idx = None

\* A fault that holds a page lock lets it go: it never waits, lock in hand,
\* for someone who waits for that lock.
LocksReleased ==
    \A u \in Users : user[u].pc \in LockedPC
                        ~> user[u].pc \notin LockedPC \/ corrupted

\* The trimmer waits for a page lock with PTEs marked that faults spin on: the
\* wait ends.
MarkedPagesPlaced == trim.page # None ~> trim.page = None \/ corrupted

\* A PTE a fault has taken for itself is given back: threads that spin on it
\* go on.
ChangeRightsReturned ==
    \A va \in VAs :
        pte[va].format = "memory" /\ pte[va].being_changed
            ~> corrupted \/ ~(pte[va].format = "memory" /\ pte[va].being_changed)

----------------------------------------------------------------------------
(* What the documentation says of the program, and the code does not do *)

\* README.md:7, "without any loss of data": a resolved PTE always leads to the
\* VA's current bytes.
NothingLost ==
    \A va \in VAs :
        LET e == pte[va] IN
        /\ IsStable(e) \/ e.format = "transition" => holds[e.frame] = va
        /\ e.format = "disk" /\ ~e.being_read => holds[e.pagefile_idx] = va

\* vm1.c:318-319 breaks into the debugger if a VA that does not fault reads
\* anything but its own bytes.
ReadsOwnContent ==
    \A va \in VAs \ raced :
        hw[va] # None => holds[hw[va].frame] \notin VAs \ {va}

\* pagefault.c:127, "we need to ensure the PTEs are in transition format
\* before we finish": so they are when a rescued frame is committed.
RescuesInTransition ==
    \A u \in Users :
        user[u].pc = "commit" /\ Rescuable(user[u].page, user[u].va)
            => pte[user[u].va].format = "transition"

\* trim.c:402: if PTEs were put in transition format too early, "transition
\* PTEs would try to grab and remove pages from lists that they aren't in yet".
\* So nobody does: neither a rescue, which "Assumes ... that the pre-sorted pages
\* are in the appropriate lists" (pagelist_operations.c:1475), nor the writer when
\* it gets to "We now remove the page from the modified list" (trim.c:827).
UnlinksListed ==
    [][/\ \A u \in Users : Rescue(u) => ~corrupted'
       /\ ~WriterPopUnlisted]_vars

============================================================================
