---------------------------- MODULE WaitForPages ----------------------------
(***************************************************************************)
(* Faulters that find no page wait for the manual-reset event              *)
(* waiting_for_pages_event; the trimmer and the modified writer, woken by  *)
(* events of their own, make pages available and set it.  The free, zero   *)
(* and standby lists are one set of listed frames here, disk slots do not  *)
(* run out, and the trimmer's batch is the whole page table.               *)
(***************************************************************************)
EXTENDS Integers, FiniteSets

CONSTANTS Frames, Users,
          AccessedBelow, \* physical_page_count / TRIM_ACCESSED_PTES_PROPORTION
          TrimBelow,     \* physical_page_count / 2
          WriterHigh     \* MAX_PAGES_WRITABLE / 4

VARIABLES
    listed, modified,   \* frames a fault can take, frames to be written
    active, accessed,   \* mapped frames, and those whose access bit is set
    saved,              \* frames whose contents are on the disk
    available,          \* total_available_pages
    waiting_for_pages_event, trimming_event, modified_writer_event,
    trim_signaled,
    user, trimmer, writer

frames == <<listed, modified, active, accessed, saved>>
events == <<waiting_for_pages_event, trimming_event, modified_writer_event,
            trim_signaled>>
vars == <<frames, available, events, user, trimmer, writer>>

Init ==
    /\ listed = Frames /\ modified = {} /\ active = {} /\ accessed = {} /\ saved = {}
    /\ available = Cardinality(Frames)
    /\ waiting_for_pages_event = FALSE /\ trimming_event = FALSE
    /\ modified_writer_event = FALSE /\ trim_signaled = FALSE
    /\ user = [u \in Users |-> [pc |-> "run", hand |-> {}]]
    /\ trimmer = [pc |-> "wait", hand |-> {}]
    /\ writer = [pc |-> "wait", hand |-> {}, signal |-> FALSE]

UserAt(u, pc) == user[u].pc = pc
Goto(u, pc) == user' = [user EXCEPT ![u].pc = pc]

----------------------------------------------------------------------------
(* A faulter *)

\* A write gives up the disk space of the page.
Access(u) ==
    /\ UserAt(u, "run")
    /\ \E f \in active :
          /\ accessed' = accessed \cup {f}
          /\ saved' \in {saved, saved \ {f}}
    /\ UNCHANGED <<listed, modified, active, available, events, user, trimmer, writer>>

\* find_batch_available_pages
Find(u) ==
    /\ UserAt(u, "run")
    /\ \/ /\ listed = {}
          /\ Goto(u, "reset")
          /\ UNCHANGED listed
       \/ \E f \in listed :
             /\ listed' = listed \ {f}
             /\ user' = [user EXCEPT ![u] = [pc |-> "map", hand |-> {f}]]
    /\ UNCHANGED <<modified, active, accessed, saved, available, events,
                   trimmer, writer>>

\* The page of another VA: whatever the disk had of the frame is its own no more.
Map(u) ==
    /\ UserAt(u, "map")
    /\ available' = available - 1
    /\ active' = active \cup user[u].hand
    /\ accessed' = accessed \cup user[u].hand
    /\ saved' = saved \ user[u].hand
    /\ user' = [user EXCEPT ![u] = [pc |-> "end", hand |-> {}]]
    /\ UNCHANGED <<listed, modified, events, trimmer, writer>>

\* end_of_fault_work
EndFault(u) ==
    /\ UserAt(u, "end")
    /\ IF /\ ~ trim_signaled
          /\ available < TrimBelow /\ Cardinality(modified) < TrimBelow
       THEN trim_signaled' = TRUE /\ trimming_event' = TRUE
       ELSE UNCHANGED <<trim_signaled, trimming_event>>
    /\ Goto(u, "run")
    /\ UNCHANGED <<frames, available, waiting_for_pages_event,
                   modified_writer_event, trimmer, writer>>

\* wait_for_pages_signalling: ResetEvent, SetEvent, WaitForSingleObject.
Reset(u) ==
    /\ UserAt(u, "reset")
    /\ waiting_for_pages_event' = FALSE
    /\ Goto(u, "signal")
    /\ UNCHANGED <<frames, available, trimming_event, modified_writer_event,
                   trim_signaled, trimmer, writer>>

Signal(u) ==
    /\ UserAt(u, "signal")
    /\ trimming_event' = TRUE
    /\ modified_writer_event' = (modified_writer_event \/ modified # {})
    /\ Goto(u, "wait")
    /\ UNCHANGED <<frames, available, waiting_for_pages_event, trim_signaled,
                   trimmer, writer>>

Wake(u) ==
    /\ UserAt(u, "wait")
    /\ waiting_for_pages_event
    /\ Goto(u, "run")
    /\ UNCHANGED <<frames, available, events, trimmer, writer>>

----------------------------------------------------------------------------
(* thread_trimming *)

StartTrim ==
    /\ trimmer.pc = "wait" /\ trimming_event
    /\ trimming_event' = FALSE /\ trim_signaled' = FALSE
    /\ trimmer' = [trimmer EXCEPT !.pc = "mark"]
    /\ UNCHANGED <<frames, available, waiting_for_pages_event,
                   modified_writer_event, user, writer>>

\* With enough pages available, an accessed page only loses its access bit.
Mark ==
    LET T == IF available < AccessedBelow THEN active ELSE active \ accessed
    IN  /\ trimmer.pc = "mark"
        /\ active' = active \ T
        /\ accessed' = {}
        /\ trimmer' = IF T = {} THEN [pc |-> "wait", hand |-> {}]
                      ELSE [pc |-> "modified", hand |-> T]
        /\ UNCHANGED <<listed, modified, saved, available, events, user, writer>>

InsertModified ==
    LET M == trimmer.hand \ saved
    IN  /\ trimmer.pc = "modified"
        /\ modified' = modified \cup M
        /\ modified_writer_event' = (modified_writer_event \/ M # {})
        /\ trimmer' = IF M = trimmer.hand THEN [pc |-> "wait", hand |-> {}]
                      ELSE [pc |-> "count", hand |-> trimmer.hand \ M]
        /\ UNCHANGED <<listed, active, accessed, saved, available,
                       waiting_for_pages_event, trimming_event, trim_signaled,
                       user, writer>>

CountStandby ==
    /\ trimmer.pc = "count"
    /\ available' = available + Cardinality(trimmer.hand)
    /\ trimmer' = [trimmer EXCEPT !.pc = "insert"]
    /\ UNCHANGED <<frames, events, user, writer>>

InsertStandby ==
    /\ trimmer.pc = "insert"
    /\ listed' = listed \cup trimmer.hand
    /\ trimmer' = [pc |-> "wake", hand |-> {}]
    /\ UNCHANGED <<modified, active, accessed, saved, available, events, user, writer>>

WakeWaiters ==
    /\ trimmer.pc = "wake"
    /\ waiting_for_pages_event' = TRUE
    /\ trimmer' = [trimmer EXCEPT !.pc = "wait"]
    /\ UNCHANGED <<frames, available, trimming_event, modified_writer_event,
                   trim_signaled, user, writer>>

----------------------------------------------------------------------------
(* thread_modified_writer *)

StartWrite ==
    /\ writer.pc = "wait" /\ modified_writer_event
    /\ modified_writer_event' = FALSE
    /\ writer' = [writer EXCEPT !.pc = "collect"]
    /\ UNCHANGED <<frames, available, waiting_for_pages_event, trimming_event,
                   trim_signaled, user, trimmer>>

\* Nobody else takes frames off the modified list here, so the writer finds it
\* empty only after a signal, and then waits for the next one.
Collect ==
    /\ writer.pc = "collect"
    /\ modified' = {}
    /\ writer' = IF modified = {} THEN [writer EXCEPT !.pc = "wait"]
                 ELSE [pc |-> "write", hand |-> modified, signal |-> FALSE]
    /\ UNCHANGED <<listed, active, accessed, saved, available, events, user, trimmer>>

\* The copies are made, and whether somebody may be waiting is looked up.
Write ==
    /\ writer.pc = "write"
    /\ saved' = saved \cup writer.hand
    /\ writer' = [writer EXCEPT !.pc = "count", !.signal = (available = 0)]
    /\ UNCHANGED <<listed, modified, active, accessed, available, events, user, trimmer>>

CountWritten ==
    /\ writer.pc = "count"
    /\ available' = available + Cardinality(writer.hand)
    /\ writer' = [writer EXCEPT !.pc = "insert"]
    /\ UNCHANGED <<frames, events, user, trimmer>>

InsertWritten ==
    /\ writer.pc = "insert"
    /\ listed' = listed \cup writer.hand
    /\ writer' = [writer EXCEPT !.pc = IF writer.signal THEN "signal" ELSE "end",
                               !.hand = {}]
    /\ UNCHANGED <<modified, active, accessed, saved, available, events, user, trimmer>>

\* Once if nothing was available before, and in any case at the end.
WakeStarving ==
    /\ writer.pc = "signal"
    /\ waiting_for_pages_event' = TRUE
    /\ writer' = [writer EXCEPT !.pc = "end", !.signal = FALSE]
    /\ UNCHANGED <<frames, available, trimming_event, modified_writer_event,
                   trim_signaled, user, trimmer>>

EndWrite ==
    /\ writer.pc = "end"
    /\ waiting_for_pages_event' = TRUE
    /\ writer' = [writer EXCEPT !.pc = IF Cardinality(modified) > WriterHigh
                                      THEN "collect" ELSE "wait"]
    /\ UNCHANGED <<frames, available, trimming_event, modified_writer_event,
                   trim_signaled, user, trimmer>>

----------------------------------------------------------------------------
Resolve(u) == \/ Map(u) \/ EndFault(u) \/ Reset(u) \/ Signal(u) \/ Wake(u)
Trim == \/ StartTrim \/ Mark \/ InsertModified \/ CountStandby \/ InsertStandby
        \/ WakeWaiters
WriteBack == \/ StartWrite \/ Collect \/ Write \/ CountWritten \/ InsertWritten
             \/ WakeStarving \/ EndWrite

Next == (\E u \in Users : Access(u) \/ Find(u) \/ Resolve(u)) \/ Trim \/ WriteBack

\* Worker threads answer their events and a fault that is begun goes on; a user
\* thread need not access anything more.
Spec == /\ Init /\ [][Next]_vars
        /\ WF_vars(Trim) /\ WF_vars(WriteBack)
        /\ \A u \in Users : WF_vars(Resolve(u))

----------------------------------------------------------------------------
(* Properties *)

\* pagelist_operations.c 1279-1283: threads that "fail to acquire any pages, and
\* need to wait for pages to be available" signal the trimmer and the writer "so
\* that we start replenishing pages".  While pages are available, then, such a
\* thread does not go on waiting for ever.
WaitersServed ==
    \A u \in Users :
        (UserAt(u, "wait") /\ listed # {}) ~> (~ UserAt(u, "wait") \/ listed = {})
=============================================================================
