# Verification of the virtual memory manager

The program in `src/` simulates the memory manager of an operating system in a
Windows process: user threads touch the pages of a reserved address range, the
access violations they cause are resolved by the program's own page fault
handler, and background threads take frames away again. This directory holds
TLA+ models of it, the TLC configurations that check them, and proofs that the
TLA+ proof system checks.

Contents: [the system](#the-system), [modules](#modules), [the core
model](#the-core-model-virtualmemory), [the other models](#the-other-models),
[fairness](#fairness), [runs](#runs), [proofs](#proofs), [findings](#findings),
[what is not modelled](#what-is-not-modelled), [what could come
next](#what-could-come-next).

## The system

### Parts, their state and their operations

| part | source | state | operations |
|---|---|---|---|
| user threads | `vm1.c` | the address they touch; the CPU mapping of every VA | access, fault and retry, set the access bit by compare-exchange |
| page fault handling | `Machinery/pagefault.c` | locals of one fault | valid fault (change permissions), unaccessed fault, transition fault (rescue), disk fault, commit, connect, speculate on neighbours |
| page table | `Datastructures/pagetable.[ch]`, `conversions.c` | one 64-bit PTE per VA in one of four formats, a lock and a valid-PTE counter per section | read, forced write, compare-exchange |
| frames | `Datastructures/pagelists.h` | one PAGE per frame: status, slot, `writing_to_disk`, `modified` (one shared 64-bit word), PTE, lock | |
| page lists | `Datastructures/pagelists.[ch]`, `Machinery/pagelist_operations.c` | zero and free lists (several of each), modified list, standby list; doubly linked, a lock per list and the page locks of the frames | unlink, insert and remove sections, pop, rescue, find available pages, give back unneeded ones |
| trimmer | `trim.c` `thread_trimming` and below | a batch of PTEs, two chains of frames, one trim-behind buffer per user thread | mark, unmap, chain, insert, edit PTEs |
| modified writer | `trim.c` `thread_modified_writer` | one batch of frames with their slots | pop, allocate slots, copy, complete, file on standby |
| list refresher | `pagelist_operations.c` `thread_free_and_zero_refresher` | frames popped from standby | refill the free lists, feed the zeroing ring |
| zeroing thread | `pagelist_operations.c` 232-352 | ring of frames, zero slots | zero frames, file them on the zero lists |
| page file slots | `disk_operations.c`, `Datastructures/disk.c` | status per slot, two counters | allocate many, release one, hand over between PTE and frame |
| read sections | `disk_operations.c` 132-346 | a mapping window per thread | acquire, refresh, read pages |
| events | `init.c` 482-498 | `waiting_for_pages` (manual reset), four auto-reset events | wait for pages, wake trimmer, writer, refresher, zeroing thread |
| initialisation | `init.c`, `pagelists.c` 703-850 | everything above | all frames start zeroed on the zero lists |

The aging thread (never started), `db_linked_list.c` (never called) and several
single-page variants of the batch functions (`find_available_page`,
`rescue_page`, `release_unneeded_page`, `write_batch_to_disk`) are dead code.

### How the parts interact

Everything is shared memory. A PTE is edited under its section's lock *or* by
whoever owns one of its rights: `being_changed` (a faulter connecting it),
`being_read_from_disk` (a faulter reading it in), `being_trimmed` (the trimmer,
but a faulter may take the page back). The state of a frame is edited under its
page lock, with exceptions that matter: the trimmer sets the status of the frames
it is about to list without their locks, and a first write to a clean page drops
its slot and sets `modified` without the lock. A life of a frame:

    zero/free --fault--> active --trim--> modified --write--> standby --fault--> active
                            |   (clean copy on disk: straight to standby)  |
                            +<------------------rescue---------------------+
    standby --refresher or disk/unaccessed fault--> free or active for another VA,
              its old PTE is forced to disk format

### What is hard here, and what must hold

* Rights instead of locks. A fault is a sequence of steps between which the
  trimmer, the writer, the refresher and other faulters go on. Correct: one
  resolver per PTE, the PTE never leads to wrong bytes.
* Rescue races. A transition PTE is read without a lock, and the frame may be
  written out, repurposed, rescued or trimmed again before its lock is taken.
  Correct: a rescued frame still belongs to the VA; a transition PTE can always
  be rescued.
* The in-flight write. The writer copies without locks and finds out afterwards
  whether the frame was rescued, written to, or trimmed again. Correct: a slot
  that is kept holds current bytes, and no frame is lost between lists.
* Slots move between PTE, frame and writer, and clean resident pages keep
  theirs. Correct: one owner per allocated slot, none for a free one, never too
  few (`hardware.h` 41-58 dimensions the page file for it).
* Deadlock and starvation: page locks in hand while spinning on a PTE, spinning
  on rights, waiting for events.

`PROJECT.json` lists the hazards one by one, with the line where each bites and
the properties that watch it.

## Modules

| module | what it is |
|---|---|
| `VirtualMemory` | the page state machine with all its threads, its properties |
| `VirtualMemoryProofs` | theorems about its types and page locks |
| `VirtualMemoryFrameProofs` | theorems on who has which frame |
| `VirtualMemorySlotProofs` | theorems on who has which page file slot |
| `VirtualMemoryContentProofs` | theorems on what holds whose bytes, and on mappings |
| `DiskSlots` | the page file's slot table: statuses, two counters, the unlocked scan |
| `SlotPool` | the abstract specification `DiskSlots` implements |
| `DiskSlotsProofs` | theorems about `DiskSlots`, the refinement of `SlotPool` among them |
| `PageList` | one linked page list with its list lock and page locks |
| `PageListProofs` | theorems about it: links, removals, pops, waiting |
| `PageZeroing` | refresher, zeroing ring, zeroing thread, the counters of the lists |
| `PageZeroingProofs`, `PageZeroingFrameProofs` | theorems about `PageZeroing`: threads and slots, then frames and counters |
| `WaitForPages` | the events faulters, trimmer and writer wait for |
| `MC...` | instances for TLC: `MCVirtualMemory` has seven `.cfg` files, `MCPageList` two, `MCDiskSlots`, `MCPageZeroing` and `MCWaitForPages` one each |

`VirtualMemory` composes all threads at the level of PTEs and frames and takes four
things for granted: that a list is a set of frames, that a slot can be found
when the counter says so, that the refresher's frames come back as free ones,
and that a waiter is woken. Each of these is what one of the other modules looks
into, at the level of links, statuses, counters and events:

| taken for granted in `VirtualMemory` | looked into by | outcome |
|---|---|---|
| `list[p]` changes in one step | `PageList` | proved: the links are the list, where everyone who inserts locks the frames; not beside the trimmer's insertion (finding). The modified writer's pop is not one of `PageList`'s: it does not compare the tail again, and `VirtualMemory` models it itself |
| the writer gets its slots in one step | `DiskSlots` | proved, as a refinement of `SlotPool` |
| `RefreshFree`: frames in the refresher's hands become free | `PageZeroing` | proved: none is lost, doubled or listed uncleared |
| a scan that finds nothing leads to a retry | `WaitForPages` | not so: a waiter may sleep for ever (finding) |

## The core model: `VirtualMemory`

### State

| variable | code |
|---|---|
| `pte[va]` | the page table: records for the four formats of `PTE` |
| `page[p]` | `PAGE`: status, `pagefile_idx`, `writing_to_disk`, `modified`, `pte` |
| `pageLock[p]` | who holds the page lock across steps |
| `list[p]` | `"available"` (zero and free lists), `"modified"`, `"standby"`, or none |
| `hw[va]` | what `MapUserPhysicalPages` last set for the VA, and if it is writable |
| `used` | the page file slots whose status is used |
| `holds[q]` | content: the VA whose *current* bytes the frame or slot `q` holds, `Zero`, or `None` (stale, or free) |
| `user[u]` | program counter and locals of a user thread in `pagefault()` |
| `trim` | the trimmer's batch: its PTEs, its two chains, and the frame whose lock it waits for while it decides on a chain (`trim.page`) |
| `writer`, `potential_page` | the modified writer's batch, and the tail as it read it |
| `refreshing` | the frames the refresher has popped |
| `raced` | history: VAs hit by the lost-write race, see below |
| `corrupted` | a frame was unlinked from a list it is not on |

Content is one function instead of bytes: a store to a VA makes its frame the
only place that holds it, a copy copies the value, freeing forgets it. That is
all that the question "is this the right data?" needs.

### Actions

One action is one step between two points where another thread can see or change
what the step works on. A stretch that holds a lock from beginning to end is one
action; a stretch without one is split at its reads and writes of shared state.

* **User**: `UserWrite`, `UserSetAccessBit`, `UserFault`. A thread loads before
  it stores (`vm1.c` 305-321), so a store is never the first access to a VA.
* **Fault**: `FaultRetry` (PTE already fine or taken); a valid fault is
  `BeginValidFault`, `RemapWritable`, `DropSlot`, `SetModified`,
  `FinishValidFault`; an unaccessed one `BeginUnaccessedFault` (reads the PTE),
  `TakePage` or `FindNoPage`, `ClaimUnaccessed` or `ReturnUnneededPage`; a rescue
  `BeginTransitionFault` (reads the PTE), `LockToRescue`, `Rescue` or `RescueFail`,
  `AwaitTrim`; a disk fault `AcquireReadRights`,
  `GetPage` or `ReleaseReadRights`, `CommitPageDisk`, `ReadPageFromDisk`,
  `EndOfFaultDiskSlot`; then `CommitPage` (unaccessed and rescued frames),
  `MapPage`, `ConnectPTE`, `SpeculateAccessBits`.
* **Trimmer**: `TrimClearAccessBit`; `TrimMark` for each PTE, the exchange of its
  bit, and for a frame without a slot `TrimPlace`, under its page lock, for which
  the trimmer waits with all its PTEs marked; `TrimDisconnect`, then `TrimChain*`
  and `TrimInsert*` for either list, then `TrimEdit` for each PTE of the batch.
* **Modified writer**: for each frame `WriterReadTail`, without a lock, then
  `WriterPop`, `WriterSkip` (locked, or no longer in MODIFIED status) or
  `WriterPopUnlisted` (in that status, but not on the list: a finding); then
  `WriterWriteBatch`, `WriterComplete` for each frame, `WriterInsertStandby`.
* **Refresher**: `RefreshPop`, `RefreshFree`.
* `Corrupted`: a frame was unlinked from a list it is not on (`Rescue`,
  `WriterPopUnlisted`); what follows is not modelled.

### Abstractions

* A fault resolves one PTE: the code reads in or claims neighbours only while
  more than a tenth of the frames is available, never in the situation of the
  small instances. Access bits ahead of the fault *are* set speculatively.
* Spinning and waiting are a step that is not enabled, or a retry
  (`FaultRetry`). A scan for pages is a choice among all listed frames, since a
  scan is not atomic, and for the same reason it may find nothing (`FindNoPage`,
  `ReleaseReadRights`); whether the waiter is woken is the question of
  `WaitForPages`.
* Lists are sets of frames, except for the gap between setting a status and
  linking the frame, which is there. `PageList` has the links. Any modified frame
  may be the tail.
* Unlinking a frame that is on no list makes whatever its old links name each
  other's neighbours. What the lists look like after that depends on
  those links (a frame inside a trimmer's chain may even be cut out of it unharmed),
  and the models do not follow: the state stops in `corrupted`, and what is
  said of later states is said of behaviours in which this has not happened.
* Zeroed frames that return from the zeroing thread get FREE status in the code
  (`zero_list_add_batch`), so the ring is folded into `RefreshFree`;
  `PageZeroing` unfolds it.
* The access and `being_trimmed` bits of a claimed PTE come from an
  uninitialised local (`pagefault.c` 203), hence a choice.
* After a half rescue (a finding) two faults may resolve one PTE. A disk fault
  then reads the slot from a PTE in another format; `SlotIn` gives no slot.
* `trim_accessed_ptes` may change from batch to batch: `TrimAccessed` is the set
  of the values it takes.

### Properties

Safety: `NoDataLoss` (whatever a PTE says, the place it points at holds the VA's
bytes), `MappingsCurrent` (so does the CPU mapping), `FramesExclusive` (no two
PTEs name one frame that is not locked), `PageLocksOwned`,
`StablePTEsOwnActiveFrames`, `ListsConsistent`, `FramesAccounted` (no frame gets
lost between lists), `TransitionsRescuable`, `SlotsAccounted` (one owner per
allocated slot), `SlotsSuffice` (a free slot for every frame that waits to be written,
but for those whose last copy is in flight), `FrameAssertions` (assertions of the code).
`RescuesInTransition` (a rescued frame is committed with its PTE in transition
format) is a comment of the code that the code violates (`half_rescue`), and the
hypothesis of most proofs below; `two_users` checks that the trimmer's setting there
leaves it true. Action property: `ChangeRightRespected`. Liveness: `LocksReleased`,
`MarkedPagesPlaced` (the trimmer's wait for a page lock ends),
`ChangeRightsReturned`. Statements of the code and its documentation that runs
refute: `NothingLost`, `ReadsOwnContent`, `RescuesInTransition`, `UnlinksListed`
(nobody unlinks a frame from a list it is not on). Each is stated in words in the
module.

`NoDataLoss` and two others except the VAs in `raced`. That is no bound on the
model: the race they except is itself checked, and violated, as `NothingLost`.
`raced` marks a VA in the step in which the race happens and unmarks it when its
stale slot is given up or its bytes are read back, so everything else that can go
wrong with these VAs before and after is still checked. `MappingsCurrent` excepts
the VAs of the trimmer's present batch, where a second finding lives
(`ReadsOwnContent` looks at these too).

## The other models

### `DiskSlots` and `SlotPool`: the page file's slots

State: `disk_slot_statuses`, `open_slot_counts` and `total_available_slots` of
`DISK`; `alloc`, the locals of `allocate_many_disk_slots`; `release[t]`, those of
`release_single_disk_slot` in each thread; `owned`, the slots frames and PTEs
hold (who exactly is `VirtualMemory`'s affair). Actions: `Request`,
`EnterSection`, `SkipUsedSlot`, `ClaimSlot`, `LowerOpenCount`, `LowerTotal`,
`ContinueScan`, `FinishRequest` for an allocation; `RaiseOpenCount`, `FreeSlot`,
`RaiseTotal` for a release. Each interlocked step of the code is a step here.

Only the modified writer allocates, so the exchange that claims a slot cannot
fail. A request is for no more slots than `total_available_slots` says: what
the writer asks for is bounded by the modified frames, each of which was
dimensioned for (`hardware.h` 41-58; `SlotsSuffice` in `VirtualMemory`). The hard
question is then whether the scan, which passes each section once, without a
lock, and skips those with a count of zero, may miss a slot it was promised
(`AllocationNotShort`). It may not, because of the order of a release: the section
count is raised before the slot is freed, so no section with a free slot is ever
skipped, and the total after, so it never promises a slot that is still used
(`CountersExact`). `SlotPool` says what this is for: a request is granted in full,
a slot has one owner, a freed slot can be granted again.

Noted on the way: `InterlockedIncrement64(...) == 0` (which would wake waiters)
is never true, since the counter is never negative; the bound test
`disk_idx > DISK_STORAGE_SLOTS` is one off but unreachable, as
`AllocationNotShort` shows.

### `PageList`: one list and its locks

State: `flink`, `blink` and `page_lock` of each node, the sentinels included;
the list lock as `shared` and `exclusive`; `order`, a history variable, the
frames as they were inserted; `op[t]`, the operation of each thread. Operations:
inserting a section of frames whose page locks are held (`insert_page_section`:
refresher, writer) or are not (`insert_page_section_no_release`: trimmer),
popping the tail (`unlink_page`), popping a batch from the tail
(`standby_pop_batch`), unlinking scattered frames
(`unlink_batch_scattered_pages`). Each lock operation is a step, and so is each
read that precedes one; failed try-locks lead from the shared to the exclusive
list lock as in the code. Assignments of one statement group (a pair of links)
are a step.

Free and zero lists have single pops and the standby list batch pops in the code;
one list has both here, which only adds interleavings. `unlink_page` is unlinking
a scattered batch of one. `list_length` is not modelled. Two things of the modified
writer are not here: its pop, which locks the tail but does not compare it again
(`trim.c` 803-828, in `VirtualMemory`), and its spinning on the lock of one frame while
it holds those of the frames it has confirmed (925), which it has taken off every
list. So what is said of pops is said of those of the zero, free and standby lists.

Properties: the links are the order of insertion in both directions
(`LinksMatch`); a removal joins the nodes its frames are really between
(`RemovesBetweenNeighbours`); what a pop has locked without the list lock is
the end of the list (`PopsOldest`); `insert_page_section` may read the `flink` of
a frame it has just unlocked (`WalkKeepsToSection`: the next frame is still locked
and the list lock held, so no one can unlink either); try-locks leave no
circular wait (`NoCircularWait`). A batch pop only walks onto frames
(`WalksOntoFrames`); that is false when the trimmer inserts, a finding.

### `PageZeroing`: from standby to the free and zero lists

State: the three lists as sets, `in_use`, the three counters faulters read without
locks, the ring (`status_map`, `pages_to_zero`, `curr_idx`, `slots_used`), the
events, `zeroed` (which frames hold zeroes), and the locals of the refresher, the
zeroing thread and the faulters. Actions: the refresher from `StartRefresh` to
`EndRefresh` through the three refresh functions; per slot `ClaimSlot`, `FillSlot`,
`PublishSlot`, `CountSlot`; the zeroing thread's scan, slot by slot (`ScanSlot`,
`OpenSlot`, `UncountSlot`), `ClearFrames`, `CountZeroed`, `InsertZeroed`,
`EndZeroing`; faulters take frames from any list, count them later, and ask for a
refresh; trimmer and writer bring frames in use back, which they count
(`CountBack`) before they insert them (`GiveBack`). At the start all frames are on the
zero lists. That a faulter may give back frames it did not need, with the counters
that go with it (`pagelist_operations.c` 1565-1709), is not in this model;
`ReturnUnneededPage` of `VirtualMemory` has what happens to the frames and PTEs.

The lists of all cache colors are one here, and there is one refresher and one
zeroing thread, as the program starts them. The three comparators handed to
`qsort` read the array's elements as frames instead of as pointers to frames;
the batches come out unsorted, which makes for more and shorter sections and
changes nothing else. The refresher also sets the trimming event when it finds
no standby frame; the trimmer is not in this model. Whether a *waiter* is woken
is `WaitForPages`' question.

### `WaitForPages`: the events

State: frames as listed, modified, active, accessed, with or without a copy on
disk; `total_available_pages`; `waiting_for_pages_event` (manual reset), the
trimmer's and the writer's auto-reset events, `trim_signaled`; the locals of
faulters, trimmer and writer. The wait itself is three steps as in the code,
`Reset`, `Signal` and `Wake`. Lists are merged, disk slots suffice
(`DiskSlots`), the refresher is left out (it moves frames among lists that are
one here), the trimmer's batch is the whole page table, and `set_event_at_end`,
which the code leaves uninitialised, has the value that wakes waiters most
often: what fails with it fails without it.

## Fairness

`VirtualMemory`'s `FairSpec` adds weak fairness of each thread's fault handling and
of the trimmer's way through a batch: placing a frame whose PTE it has marked,
unmapping, listing, editing. The operating system schedules
all of these threads, and none of the steps in question waits for an event.
Nothing is assumed of accesses (a user thread may stop), of marking (the trimmer may
find nothing), of the writer and of the refresher. In `VirtualMemory` a fault that
finds no page retries; what it waits for is in `WaitForPages`.

`DiskSlots` assumes weak fairness of the allocation alone: the writer's thread
runs on, and nothing is asked of the releasing threads. `WaitForPages` assumes
weak fairness of the trimmer, of the writer and of each fault that is under way
(they are threads of the operating system that go on when the event they wait
for is set); a user thread need not access anything. The counterexample to
`WaitersServed` is one under all of this.

## Runs

| run | instance | states | checks |
|---|---|---|---|
| `one_user` | 2 VAs, 2 frames, 3 slots, 1 thread, any `trim_accessed_ptes` | 1 120 000 | all safety properties of `VirtualMemory` |
| `two_users` | 1 VA, 2 frames, 2 slots, 2 threads, accessed PTEs are trimmed | 118 000 | the properties that two faulters on one VA can disturb, and that no rescue is a half rescue |
| `locks_released` | 1 VA, 1 frame, 2 slots, 2 threads, accessed PTEs are trimmed | 45 000 | liveness, no symmetry |
| `disk_slots` | 7 slots in 3 sections of 3, 2 faulters and the writer, requests up to 3 | 200 000 | scan, counters, refinement of `SlotPool` with its liveness |
| `page_list` | 3 frames, batches up to 2; an inserter, a popper, a batch popper, a rescuer | 314 000 | links, order, walks, locks, no circular wait |
| `page_zeroing` | 3 frames, ring of 2, batches of 2, 1 faulter | 262 000 | frames, counters, ring, signals |
| `lost_write`, `stale_mapping`, `half_rescue`, `unlisted`, `unlocked_insert`, `sleepers` | as small as the finding allows | | a finding each |

Deadlock is checked in every run but `sleepers`: in each model some thread can always
go on. In `WaitForPages` everybody asleep is the finding itself.

Why this is enough. Two VAs and two frames are the least with which one VA can
lose its frame to another while the first still has a PTE, a mapping or a fault
under way that names it, the pattern behind every rescue and repurposing race.
(Frames are repurposed although there are as many as VAs: a scan may reach the
standby list while another frame is on no list, and the refresher frees standby
frames at any time.) The page file has one usable slot more than there are VAs, as
`hardware.h` 41-58 says it must for slots to be kept by resident pages: a larger
one would hide leaks. All background threads run in every instance, so one
faulter already races three others; the second faulter adds faults on the same
PTE, for which one VA is enough. `two_users` and `locks_released` keep
`trim_accessed_ptes` on: with it off, two faulters reach the half rescue
below, after which `ChangeRightRespected` and the slot accounting are bound to
fail. Frames, slots and threads are symmetric: no
definition tells them apart, the choices made with `CHOOSE` are from sets
that have one member. `locks_released` uses no symmetry because it checks
liveness. One frame is enough for the wait it is about: a rescuer that read
the PTE in transition format arrives late, locks the frame, which by then is
active again, while the trimmer has marked the PTE and waits for that lock; and
a rescuer that finds the frame listed again waits, lock in hand, for the trimmer's edit,
while a second faulter wants the lock too. A batch of two frames, where the trimmer
would wait for the second with the first in its chain, takes more than the
five minutes a run is given; for the first frame it makes no difference, since nobody
can reach a frame whose PTE is marked but not yet edited except by an old
PTE, as in the instance.

`disk_slots`: three sections with room for a slot 0 that is never used, a full
section and an incomplete one; requests as large as a section and spanning two;
a slot may be freed ahead of and behind the scan while two others are at other
steps of a release. `page_list`: with three frames a thread can remove one
between two that others work on, and lists of no, one and more frames, where the
neighbours are sentinels, all occur; four threads are one for each kind of
operation but the trimmer's insertion. `page_zeroing`: with three frames, a ring
of two and batches of two the ring runs full with a frame left over, wraps
around, and is filled behind a scan; all three refresh functions run. What the
bounds leave out here, larger rings, more faulters and frames, is what the
proofs below cover for all six of its properties, as for `disk_slots` and
`page_list`.

Every property of a passing run has a mutant in `PROJECT.json`: a change of one
definition like a plausible bug in the code (a frame that stays on its list, a lock
not taken, a PTE not told that its frame is gone, a slot not freed, a batch
unmapped but for its last page), under which the run finds the property violated.
The mutated operators stand next to the definitions they replace.

## Proofs

All theorems hold for every value of the constants that satisfies the named
assumptions of the module, which TLC evaluates in every run.

### `VirtualMemoryProofs`

For every number of VAs, frames, slots and user threads, from
`ConstantsAssumption` (there is a VA, the null value and `Zero` are none
of the others, nor the name of a list, frames are not slots, and no user thread
is called `"writer"` or `"refresher"`):

* `TypeCorrectness`: `Spec => []TypeOK`. That the PTEs and mappings always name
  frames is more than the look of the formulas: a handler copies the frame from
  its locals into the PTE many steps after it put it there.
* `PageLocking`: `Spec => []PageLocksOwned`. Locks are held exactly by the thread
  at a step that holds them, so by one.
* `Invariance`: both follow from one inductive invariant `IInv`, which adds
  `FramesChosen` (a handler at a step that works on a frame has one). `TypeOK` is
  not inductive without it: `ConnectPTE` would write the null frame into a PTE.
  `PageLocksOwned` needs it too, because a handler releases the lock of the frame
  in its locals.

The argument: `InitIInv`, then `TypeStep`, `FramesChosenStep` and
`PageLocksStep` take the actions one by one, and the lemmas before them say what
the PTE formats allow: which fields a PTE of some format has, that setting its bits
gives a PTE, and that forcing the PTEs of a set of frames to disk format gives a page
table again.

### `VirtualMemoryFrameProofs`: who has which frame

The properties of frames are stated for two PTEs, or for a PTE and a frame, and none
of them is inductive: each rests on what every handler, the trimmer and the writer
have in hand at each of their steps. `OInv` says that for all of them. It is
`IInv` of `VirtualMemoryProofs` and

* `Handlers`: one handler at a time resolves a VA (`ResolversApart`), and what
  the PTE and the frame of a handler look like from its first step to its last:
  on a valid PTE (`ValidFaults`), with a frame it has taken (`Claims`), with a frame
  it rescues (`Rescues`), between commitment and connection (`Connections`).
* `Frames`: a frame names the VA whose PTE leads to it (`FramesNamePTEs`) and the
  other way round (`PTEsNameFrames`); lists, statuses and locks agree (`Lists`,
  `OffLists`, `SlotsOfFrames`); the writer's batch is what is being written
  (`WriterBatch`), and nobody has the trimmer's frames until it has listed them
  (`TrimBatch`).

Each part needs others: that a frame taken for a VA is nobody's needs the lists, the
lists need that a rescuer only unlinks what its status says, that needs the PTEs, and
the PTEs need that one handler at a time resolves them. `QuietOwned` takes the steps
that touch none of it; every other action has a lemma of its own.

One step does break `OInv`: the half rescue (a finding). `Ownership` therefore
reads `Spec /\ []RescuesInTransition => []OInv`: the frames are sound as long as
what the comment at `pagefault.c` 127 says is true. The program with its eight user
threads and its changing `trim_accessed_ptes` has behaviours where it is not
(`half_rescue`), and nothing is proved of these; the theorems are about all the
others, and say that the half rescue is what has to be mended for the rest to hold.
`two_users` shows that such behaviours include every other race (`RescuesInTransition`
is checked there). From `OInv` follow, each under this hypothesis,

* `FrameExclusivity` (`FramesExclusive`), `FrameAccounting` (`FramesAccounted`),
  `TransitionsLead` (`TransitionsRescuable`),
* `ChangeRights`: the action property `ChangeRightRespected`.

The writer's pop needs an argument of its own: the tail was read without a lock, and
the frame may since have been rescued, trimmed again and be anywhere. What `WriterPop`
relies on is the status it finds and that the frame is listed; when it is not, the
lists are corrupt. `FrameAccounting` and `ListConsistency` below therefore say nothing
of what comes after a frame has been unlinked from a list it is not on, which
`unlisted` shows to happen.

### `VirtualMemorySlotProofs`: who has which slot

`SlotInv` names the slot that counts as a frame's (`FrameSlot`), as a PTE's
(`PTESlot`) and as that of a write in flight (`WriteSlot`), leaving out the stale end
while a fault moves a slot; says that no two of these are the same (`SlotsApart`) and
that together they are the allocated ones (`SlotsInUse`). A step keeps them, frees
one, or moves some from one kind of owner to another; each of these is a lemma, and
each action is shown to be one of them. Which one an action is needs `OInv`: that a
frame a fault takes is not being read by another, that the frames of a batch have no
slots yet, that the PTEs of repurposed frames are theirs.

* `SlotAccounting` (`SlotsAccounted`), under `[]RescuesInTransition`.
* `SlotSufficiency` (`SlotsSuffice`), under it and from `EnoughSlots`: finitely many slots, at
  least as many as VAs, which is how `hardware.h` 41-58 dimensions the page file. Every
  slot in use and every frame that waits to be written is counted for a VA, and no
  two for one (`CountedApart`).

### `VirtualMemoryContentProofs`: what holds whose bytes

`NoDataLoss` speaks of PTEs that nobody works on, and loses its footing with the first
step of a fault: which places hold a VA's bytes while it is being rescued, read in,
written out or stored to has to be known too. `CInv` is `SInv` and

* `Contents`: a frame that names a VA holds its bytes, unless it is being read in
  (`FramesHold`); a slot that is *counted on* holds its VA's bytes (`SlotsHold`).
  Counted on (`Copy`) is the slot of a disk PTE, the slot of a frame, and the slot of
  a write in flight whose frame has not been written to since; the latter two not
  while a store has been let through whose fault has still to give the slot up
  (`Changing`), and none for a VA in `raced`. `UntouchedHold`, that nothing holds
  a VA before its first access, is why only the first access finds zeroes.
* `Mappings`: a mapping shows the frame that names its VA, or is read-only and
  about to be unmapped (`Mapped`, `TrimsUnmapped`, `UntouchedUnmapped`); and a
  frame that can be stored to, now or when the fault under way ends, is `Dirty`
  (`Writables`, `Stores`): it has no slot, and if it is in the writer's batch it
  is known to be modified, so that the writer will not keep what it wrote.

The two halves meet in `UserWrite`: a store makes every other place stale, so no copy
may be counted on where there is a writable mapping, and `Mapped` says so. And they
meet in the modified writer, whose batch is copied without locks: `Dirty` is what it
finds out afterwards. `QuietContents` and its kin take the steps that move neither
content nor slots; `ContentsKept`, `CopiesBack` and `ActiveSteps` say what is
left to show for the others.

* `DataKept` (`NoDataLoss`), `ReadsCurrent` (`MappingsCurrent`), `StableFrames`
  (`StablePTEsOwnActiveFrames`), `ListConsistency` (`ListsConsistent`), `Assertions`
  (`FrameAssertions`), all under `[]RescuesInTransition`.

With these every safety property of `VirtualMemory` that `one_user` checks is a theorem,
all but `TypeOK` and `PageLocksOwned` under the hypothesis on rescues.

### `DiskSlotsProofs`

From `SlotsAssumption` (the sections cover the slots, only the last may be
incomplete, threads are finitely many):

* `TypeCorrectness`: `Spec => []TypeOK`. That the counters are never negative and the
  scan stays within the table follows from what they count.
* `NeverShort`: `Spec => []AllocationNotShort`, and `CountersStand`:
  `Spec => []CountersExact`.
* `ImplementsPoolSafety`: `Spec => Pool!SafetySpec`, the safety part of the
  refinement that `disk_slots` checks together with its liveness part. A slot is
  free in the pool from the step that clears its status to the step that claims it,
  and slots about to be freed still have their owner; all other steps are stutters.
* `Invariance`: the inductive invariant. `AllocationNotShort` says little by
  itself; what carries it is `EnoughAhead`: the slots still wanted are at most
  the free slots at or after the scan's position, and at most the total. A
  release only adds to both; a claim takes one from each; and the scan passes a
  section only when its count is zero or its last slot has been looked at.
  `EnoughAhead` in turn needs `CountersExact`, which needs `SlotsOwned` (no slot
  is released twice at a time) and `ScanPosition`.

### `PageZeroingProofs` and `PageZeroingFrameProofs`

From the assumptions that the ring has a slot, batches a frame, and frames are
finitely many:

* `TypeCorrectness` and `NeverForgotten` (`NoSlotForgotten`) rest on `StateInv`:
  a slot is claimed exactly while the refresher is about to fill or publish it
  (`SlotStates`), and a thread has nothing in hand at the steps where that is so
  (`HandStates`). Without the first, the zeroing thread could be shown a slot
  that names no frame.
* `FramesInOnePlace` (`FramesOnce`): every step is shown to be a `Move` of a set
  of frames from one of nine places to another, or to move nothing; that a move
  keeps a partition is one lemma. The ring's place changes only when the slots
  with a frame to be taken (`Filled`) do, by one slot at a time.
* `ZeroListsStayZeroed` adds that what the zeroing thread counts or inserts has been
  cleared, and uses `FramesOnce` for faulters who write to their frames meanwhile.
* `SlotsStayCounted`: the set of ready slots grows and shrinks by one.
* `CountersStayAbove` (`CountersCover`): each counter is the size of a set of
  frames that the module names (`CountedFree`, `CountedZero`,
  `CountedAvailable`): those on the list, those taken off and not yet
  discounted, those counted and not yet inserted. By `FramesOnce` the parts are
  disjoint, so each step changes set and counter alike.

### `PageListProofs`

From `ListAssumption` (the kinds of operations are different threads, sentinels are
no frames, batches have room for a frame) and `Trimmers = {}`: everyone who inserts
has locked the frames. So it is with the free and zero lists, and with everyone but
the trimmer on the standby and modified lists. The hypothesis cannot be dropped: with
a trimmer `unlocked_insert` finds `WalksOntoFrames` violated, a finding. It is also
the instance `page_list` checks.

* `Invariance`: the inductive invariant `Inv`. It says who holds the list lock
  (`ListLock`, `ListHeld`) and which page locks (`FramesLocked`, `OwnedLocked`,
  `NextLocked`; `NoOthersLocked` where there are no others); that the links in both
  directions are the order, but for the ends of a section that is half linked
  (`LinksHold`); and what a thread knows of its own frames: they are in no list yet
  (`InsertsNew`), follow each other (`InsertsLinked`, `Walks`), are the end of the
  list (`PopsEnd`) or in it (`RescuesListed`), between the neighbours it
  has read (`Neighbours`), of which it has the locks or the list
  (`NeighboursLocked`).
* `TypeCorrectness` (`TypeOK`), `LinksStayMatched` (`LinksMatch`),
  `RemovalsBetweenNeighbours` (`RemovesBetweenNeighbours`), `PopsTakeOldest`
  (`PopsOldest`), `WalksKeepToSection` (`WalkKeepsToSection`), `WalksStayOnFrames`
  (`WalksOntoFrames`), `NobodyWaitsInCircles` (`NoCircularWait`).

The argument. A list is a sequence, but only two things about it matter: which
nodes are `Adjacent`, and which frames it `EndsWith`. The first lemmas say what
becomes of these when a section is put before a list (`PutAdjacent` and its kin) or
cut out of it (`CutAdjacent`); they need no induction. What one thread's step leaves
to another is `Undisturbed`: its locks; whether the frames it has locked are in the
list; who is next to what it has locked, while it holds the list lock; and that its
frames are the list's end. `UndisturbedInv` shows that this is enough, so each action
has two things to show: its own thread's part, and that it disturbs no other. `Link`
and `Unlink` are where the page locks matter: the pair of nodes they part are both
locked, or the list lock is held exclusively. `LinksRight` is what makes reading a
link worth anything: the links of a node are right for whoever has its lock, since a
thread that has linked one direction only has the locks of the nodes in question.
For `NobodyWaitsInCircles`, if nobody gets on then nobody holds the list lock, so
somebody waits for a page lock that somebody else who waits for one has. That is a
batch pop, and all frames it has locked are the list's end: two of them would have
the same last frame (`NextNotWaited`).

With these every safety property that a passing run checks, in any module, is a
theorem, under the hypotheses named; all but `RescuesInTransition`, which is itself one
of them and fails in general.

### Only model-checked

All liveness (`locks_released`, and the part of `ImplementsPool` that is): the
prover cannot reason about fairness.

## Findings

* **Lost write** (`pagefault.c` 314). A write to a clean rescued page drops its
  slot and sets `modified` without the page lock. If the modified writer completes
  in between, it sees a clean page and records the slot of the old copy; the page
  is then trimmed straight to standby with stale bytes on disk. Run `lost_write`.
* **Stale mapping** (`trim.c` 171). A page whose write is in flight is given
  MODIFIED status before its VA is unmapped. The writer may file it on standby
  and a fault may reuse it while the old VA still reads it. Run `stale_mapping`.
* **Half rescue** (`pagefault.c` 134). The rescuer waits for one change of the PTE;
  the setting of an access bit is one, and then the frame is committed as if
  its VA had never been accessed. Run `half_rescue`.
* **Unlisted frames** (`trim.c` 362). A frame has its list status before it is on the
  list. The modified writer reads the tail without a lock (803) and, with the lock,
  looks only at its status (817): if the frame was rescued and trimmed again
  meanwhile, it unlinks it by its old links (828). One user thread is enough. A late
  rescuer does the same to a frame it finds rescuable. Run `unlisted`.
* **Unlocked insert** (`pagelists.c` 574). The trimmer's frames are linked from
  the list before they lead back to it, without their page locks; a batch pop
  locks the new tail frame and follows a link that is not set. Run
  `unlocked_insert`.
* **Sleepers** (`pagelist_operations.c` 1286). A faulter resets the event after
  its search has failed. If pages were listed and signalled in between, the
  signal is lost; the trimming it asks for finds nothing, and it sleeps although
  pages are there. Run `sleepers`.

Without a run of its own: debug builds assert at every fault that there is a free slot
for each frame of the modified list (`pagefault.c` 69). That is too much. A page that is
rescued, written to and trimmed again while its write is in flight counts as
modified, and the writer still has the slot of its old copy; in the instance of
`one_user` both frames can be in that state, with one slot left. It is harmless to
the writer, which frees those slots before it allocates again. `SlotsSuffice` says by
how much the assertion is off: it holds, at any time, of the modified frames whose
last copy is not in flight.

## What is not modelled

* Zero slots (`pagelist_operations.c` 507-700): mapping windows a faulter
  claims, uses and releases within one call, and unmaps in bulk when they run
  out. Waiting for a slot is only a hazard with more than 16 threads, each with
  part of the 256 slots in hand.
* Disk read sections (`disk_operations.c` 132-346): private to a thread.
* Trim-behind buffers (`trim.c` 600-700): they propose PTEs to the trimmer, which
  looks at each again. Their count may drift upwards (a slot that is overwritten
  while it holds a PTE is counted twice), which makes for wasted scans.
* Speculation: a fault that claims or reads in neighbouring PTEs, takes read
  rights for a range and gives part of it back (`pagefault.c` 620-793), and the
  spin on an old copy of a PTE.
* The shared PAGE word: its fields are written without interlocked operations, so the
  loss of a neighbouring field is possible; how depends on the compiler.
* Conversions (`conversions.c`): address arithmetic without state.
* Initialisation: only the state it leaves behind; allocation and mapping calls
  are I/O.
* `list_length`, statistics, timing, debug output and checks.
* Dead code: the aging thread (never started), `db_linked_list.c` (never
  called), the single-page variants of batch functions.

## What could come next

1. Ranges of PTEs in one fault, with partial success.
2. `Memory`: what a user sees, a map from VAs to bytes that only a store changes;
   `VirtualMemory` without the races implements it. `CInv` is the invariant such a
   refinement needs.
3. `PageList` with trimmers: what is left of its properties if no batch pop walks
   the list while a trimmer inserts.
