------------------------------ MODULE EventStream ------------------------------
(***************************************************************************)
(* The runtime events of one Run, from the transaction that appends one to *)
(* the people and services that read them.                                 *)
(*                                                                         *)
(*   persistence/events.py           the append, under the Run row lock    *)
(*   persistence/leases.py, repository.py   the transactions that append   *)
(*   api/sse.py, api/app.py          the stream and its resume cursor      *)
(*   RunDashboardPage.tsx            the browser: timeline and Run view    *)
(*   api/service.py, api/metrics.py  the metrics scan                      *)
(*   trace/projector.py              the causal trace, read in three parts *)
(*                                                                         *)
(* One task is executed through several generations.  The browser checks   *)
(* that sequences start at one and have no gap, the metrics that they are  *)
(* contiguous, the trace that evidence, events and dispatch ledger agree;  *)
(* each of them gives up for good when they do not.  An event is the facts *)
(* its readers use.  Idempotent repetitions of an append change nothing    *)
(* and are stuttering steps.                                               *)
(***************************************************************************)
EXTENDS Integers, Sequences, FiniteSets, Functions

CONSTANTS
  MaxEvents,    \* bound: events of the Run
  MaxAttempts,  \* bound: dispatch attempts of the task
  BatchLimit,   \* SSE_BATCH_LIMIT
  PageSize,     \* METRIC_EVENT_PAGE_SIZE, _EVENT_PAGE_SIZE
  MaxScan,      \* MAX_METRIC_EVENT_SCAN, _MAX_RUNTIME_EVENT_SCAN
  MaxTimeline,  \* MAX_TIMELINE_EVENTS
  MaxWire,      \* bound: events on the way to the browser
  MaxFaults,    \* bound: broken connections, failing requests, reloads
  MaxReads      \* bound: calls of metrics and trace

ASSUME StreamAssumption ==
  /\ {MaxEvents, MaxAttempts, BatchLimit, PageSize, MaxScan, MaxTimeline, MaxWire} \subseteq Nat \ {0}
  /\ {MaxFaults, MaxReads} \subseteq Nat

VARIABLES
  run,       \* runs row: status and event_sequence
  log,       \* committed runtime_events rows, in the order of their sequence
  attempts,  \* rows of the dispatch ledger: dispatches 1..attempts
  lease,     \* lease columns of the task
  evidence,  \* committed evidence rows of the task
  tx,        \* the transaction that holds the Run row lock
  conn,      \* runtime_event_stream: cursor and pending batch
  wire,      \* events between server and browser
  page,      \* RunDashboardPage and its EventSource
  query,     \* the ["run", runId] query of the page
  reader,    \* the metrics or trace call under way, or the last one
  faults, reads   \* how many happened so far

dbVars == <<run, log, attempts, lease, evidence, tx>>
pageVars == <<conn, wire, page, query>>
vars == <<dbVars, pageVars, reader, faults, reads>>

Kinds == {"RUN_STARTED", "LEASE_ACQUIRED", "LEASE_TAKEN_OVER", "LEASE_HEARTBEAT",
          "LEASE_RELEASED", "EVIDENCE_RECORDED", "RUN_FINALIZED"}
Refreshing == {"EVIDENCE_RECORDED", "LEASE_RELEASED", "RUN_FINALIZED"}

NoTx == [open |-> FALSE]
NoConn == [open |-> FALSE, cursor |-> 0, pending |-> <<>>]
NoReader == [kind |-> "none", phase |-> "idle", snapshot |-> <<>>, events |-> <<>>,
             cursor |-> 0, started |-> 0, result |-> "none"]
NewPage == [ok |-> FALSE, failed |-> FALSE, source |-> "none", last |-> 0, header |-> 0,
            timeline |-> <<>>, status |-> "connecting"]
NewQuery == [fetch |-> "requested", seen |-> 0, view |-> 0, needed |-> 0]

Least(a, b) == IF a < b THEN a ELSE b
Live == run.status # "DELETED"

-----------------------------------------------------------------------------
(* Transactions.  Every one that appends an event takes the Run row first. *)

\* _locked_run: SELECT ... FOR UPDATE.
LockedRun == Live /\ ~tx.open /\ Len(log) < MaxEvents

\* append_runtime_event: the next number, given under the lock.
AppendRuntimeEvent(kind, dispatch, generation) ==
  [sequence |-> run.sequence + 1, kind |-> kind, dispatch |-> dispatch, generation |-> generation]

Begin(event, newLease, row, status) ==
  /\ tx' = [open |-> TRUE, event |-> event, lease |-> newLease, row |-> row, status |-> status]
  /\ UNCHANGED <<run, log, attempts, lease, evidence, pageVars, reader, faults, reads>>

\* The ledger row of a dispatch comes before its message.
BeginAttempt ==
  /\ run.status = "RUNNING" /\ attempts < MaxAttempts
  /\ attempts = 0 \/ (lease.state = "EXPIRED" /\ lease.dispatch = attempts)
  /\ attempts' = attempts + 1
  /\ UNCHANGED <<run, log, lease, evidence, tx, pageVars, reader, faults, reads>>

\* Fault: an expired generation is taken over by its own dispatch.
AcquireSameDispatch ==
  /\ LockedRun /\ run.status = "RUNNING"
  /\ lease.state \in {"NONE", "EXPIRED"} /\ lease.dispatch <= attempts /\ attempts > 0
  /\ LET g == lease.generation + 1 IN
       Begin(AppendRuntimeEvent(IF g = 1 THEN "LEASE_ACQUIRED" ELSE "LEASE_TAKEN_OVER", attempts, g),
             [state |-> "ACTIVE", dispatch |-> attempts, generation |-> g], FALSE, run.status)

\* acquire_task_lease: a first generation or a takeover, by a dispatch that
\* has not run before (messages are not delivered twice).
AcquireTaskLease ==
  /\ LockedRun /\ run.status = "RUNNING"
  /\ lease.state \in {"NONE", "EXPIRED"} /\ lease.dispatch < attempts
  /\ LET g == lease.generation + 1 IN
       Begin(AppendRuntimeEvent(IF g = 1 THEN "LEASE_ACQUIRED" ELSE "LEASE_TAKEN_OVER", attempts, g),
             [state |-> "ACTIVE", dispatch |-> attempts, generation |-> g], FALSE, run.status)

\* renew_task_lease.
RenewTaskLease ==
  /\ LockedRun /\ lease.state = "ACTIVE"
  /\ Begin(AppendRuntimeEvent("LEASE_HEARTBEAT", lease.dispatch, lease.generation),
           lease, FALSE, run.status)

\* release_task_lease.
ReleaseTaskLease ==
  /\ LockedRun /\ lease.state = "ACTIVE"
  /\ Begin(AppendRuntimeEvent("LEASE_RELEASED", lease.dispatch, lease.generation),
           [lease EXCEPT !.state = "RELEASED"], FALSE, run.status)

\* append_evidence with the event that _evidence_event_draft makes of it.
AppendEvidence ==
  /\ LockedRun /\ run.status = "RUNNING" /\ lease.state = "ACTIVE"
  /\ Begin(AppendRuntimeEvent("EVIDENCE_RECORDED", lease.dispatch, lease.generation),
           lease, TRUE, run.status)

\* finalize_single_task_run or finalize_multi_task_run.
FinalizeRun ==
  /\ LockedRun /\ run.status = "RUNNING" /\ evidence # <<>>
  /\ Begin(AppendRuntimeEvent("RUN_FINALIZED", 0, 0), lease, FALSE, "FINISHED")

Commit ==
  /\ tx.open
  /\ run' = [status |-> tx.status, sequence |-> tx.event.sequence]
  /\ log' = Append(log, tx.event)
  /\ lease' = tx.lease
  /\ evidence' = IF tx.row THEN Append(evidence, [dispatch |-> lease.dispatch, generation |-> lease.generation])
                 ELSE evidence
  /\ tx' = NoTx
  /\ UNCHANGED <<attempts, pageVars, reader, faults, reads>>

\* The process dies or a later statement fails: sequence and rows as before.
Rollback ==
  /\ tx.open /\ tx' = NoTx
  /\ UNCHANGED <<run, log, attempts, lease, evidence, pageVars, reader, faults, reads>>

\* lease_until passes; a transaction under way judged the clock before.
ExpireLease ==
  /\ ~tx.open /\ lease.state = "ACTIVE"
  /\ lease' = [lease EXCEPT !.state = "EXPIRED"]
  /\ UNCHANGED <<run, log, attempts, evidence, tx, pageVars, reader, faults, reads>>

\* delete_project: the Run and everything that references it.
DeleteRun ==
  /\ run.status = "FINISHED" /\ ~tx.open
  /\ run' = [run EXCEPT !.status = "DELETED"]
  /\ log' = <<>> /\ attempts' = 0 /\ evidence' = <<>>
  /\ UNCHANGED <<lease, tx, pageVars, reader, faults, reads>>

\* Fault: rows of the open transaction are visible.
ListUncommitted(after, limit) ==
  LET rows == IF tx.open THEN Append(log, tx.event) ELSE log
      old == Cardinality({i \in DOMAIN rows : rows[i].sequence <= after})
  IN  SubSeq(rows, old + 1, Least(old + limit, Len(rows)))

\* list_runtime_events of a Run that exists: the rows behind the cursor, in
\* the order of their sequence, which is the order of the log.
ListRuntimeEvents(after, limit) ==
  LET old == Cardinality({i \in DOMAIN log : log[i].sequence <= after})
  IN  SubSeq(log, old + 1, Least(old + limit, Len(log)))

-----------------------------------------------------------------------------
(* The stream.                                                             *)

\* Fault: a reconnecting browser is served from its URL alone.
CursorFromUrl(after, lastEventId) == after

\* resolve_event_cursor.
ResolveEventCursor(after, lastEventId) == IF lastEventId > after THEN lastEventId ELSE after

\* stream_run_events: the first batch, then StreamingResponse; onopen.
Connect ==
  /\ page.source = "connecting" /\ Live
  /\ LET c == ResolveEventCursor(0, page.header) IN
       conn' = [open |-> TRUE, cursor |-> c, pending |-> ListRuntimeEvents(c, BatchLimit)]
  /\ page' = [page EXCEPT !.source = "open", !.status = "live"]
  /\ UNCHANGED <<dbVars, wire, query, reader, faults, reads>>

\* 404 for an unknown Run, 500 when the database is away: an EventSource
\* that gets an HTTP error never tries again.
ConnectRefused ==
  /\ page.source = "connecting"
  /\ IF Live THEN faults < MaxFaults /\ faults' = faults + 1 ELSE UNCHANGED faults
  /\ page' = [page EXCEPT !.source = "closed", !.status = "reconnecting"]
  /\ UNCHANGED <<dbVars, conn, wire, query, reader, reads>>

\* Fault: the cursor stays where the connection began.
YieldWithoutCursor ==
  /\ conn.open /\ conn.pending # <<>> /\ Len(wire) < MaxWire
  /\ wire' = Append(wire, Head(conn.pending))
  /\ conn' = [conn EXCEPT !.pending = Tail(@)]
  /\ UNCHANGED <<dbVars, page, query, reader, faults, reads>>

\* runtime_event_stream: one event of the batch is sent ...
YieldEvent ==
  /\ conn.open /\ conn.pending # <<>> /\ Len(wire) < MaxWire
  /\ wire' = Append(wire, Head(conn.pending))
  /\ conn' = [conn EXCEPT !.pending = Tail(@), !.cursor = Head(conn.pending).sequence]
  /\ UNCHANGED <<dbVars, page, query, reader, faults, reads>>

\* ... and the next batch is read once all of it is.
PollEvents ==
  /\ conn.open /\ conn.pending = <<>> /\ Live
  /\ conn' = [conn EXCEPT !.pending = ListRuntimeEvents(conn.cursor, BatchLimit)]
  /\ UNCHANGED <<dbVars, wire, page, query, reader, faults, reads>>

\* The network, the server or a query of the stream fails: what is on the
\* way is lost, and the EventSource connects again.
BreakConnection ==
  /\ conn.open
  /\ IF Live THEN faults < MaxFaults /\ faults' = faults + 1 ELSE UNCHANGED faults
  /\ conn' = NoConn /\ wire' = <<>>
  /\ page' = [page EXCEPT !.source = "connecting", !.status = "reconnecting"]
  /\ UNCHANGED <<dbVars, query, reader, reads>>

-----------------------------------------------------------------------------
(* The browser.                                                            *)

\* Fault: the timeline keeps every event.
ShowAll(timeline, e) == Append(timeline, e)

\* [...current, event].slice(-MAX_TIMELINE_EVENTS)
Show(timeline, e) ==
  LET all == Append(timeline, e)
  IN  SubSeq(all, Len(all) - Least(MaxTimeline, Len(all)) + 1, Len(all))

\* Fault: a fetch under way is taken for the new one.
InvalidateIdleQueries(q, e) ==
  IF e.kind \notin Refreshing THEN q
  ELSE [q EXCEPT !.fetch = IF @ = "none" THEN "requested" ELSE @, !.needed = e.sequence]

\* invalidateQueries: cancels a fetch under way and fetches anew.
InvalidateQueries(q, e) ==
  IF e.kind \notin Refreshing THEN q ELSE [q EXCEPT !.fetch = "requested", !.seen = 0, !.needed = e.sequence]

Repeated(e) == e.sequence = page.last /\ page.timeline # <<>> /\ e = page.timeline[Len(page.timeline)]

\* source.onmessage: an event follows the last one, repeats it, or ends the
\* stream with an error for good.
Deliver ==
  /\ page.source = "open" /\ wire # <<>>
  /\ LET e == Head(wire) IN
       /\ page' = IF e.sequence = page.last + 1
                  THEN [page EXCEPT !.last = e.sequence, !.header = e.sequence,
                          !.timeline = Show(@, e), !.status = "live"]
                  ELSE IF Repeated(e) THEN [page EXCEPT !.header = e.sequence]
                  ELSE [page EXCEPT !.source = "none", !.status = "error"]
       /\ query' = IF e.sequence = page.last + 1 THEN InvalidateQueries(query, e) ELSE query
  /\ wire' = IF page'.source = "open" THEN Tail(wire) ELSE <<>>
  /\ conn' = IF page'.source = "open" THEN conn ELSE NoConn
  /\ UNCHANGED <<dbVars, reader, faults, reads>>

\* getRun reads the Run; its answer is on the way.
QueryServed ==
  /\ query.fetch = "requested" /\ Live
  /\ query' = [query EXCEPT !.fetch = "answered", !.seen = Len(log)]
  /\ UNCHANGED <<dbVars, conn, wire, page, reader, faults, reads>>

\* The answer arrives; the first success opens the stream (useEffect).
QueryReceived ==
  /\ query.fetch = "answered"
  /\ query' = [query EXCEPT !.fetch = "none", !.view = query.seen, !.seen = 0]
  /\ page' = IF page.ok THEN page ELSE [NewPage EXCEPT !.ok = TRUE, !.source = "connecting"]
  /\ UNCHANGED <<dbVars, conn, wire, reader, faults, reads>>

\* The fetch and its one retry fail: run.isSuccess turns false, the effect
\* closes the stream and the page shows the error.
QueryFails ==
  /\ query.fetch = "requested"
  /\ IF Live THEN faults < MaxFaults /\ faults' = faults + 1 ELSE UNCHANGED faults
  /\ query' = [query EXCEPT !.fetch = "none"]
  /\ page' = [NewPage EXCEPT !.failed = TRUE]
  /\ conn' = NoConn /\ wire' = <<>>
  /\ UNCHANGED <<dbVars, reader, reads>>

\* The user reloads the page.
Reload ==
  /\ faults < MaxFaults /\ faults' = faults + 1
  /\ page' = NewPage /\ query' = NewQuery /\ conn' = NoConn /\ wire' = <<>>
  /\ UNCHANGED <<dbVars, reader, reads>>

-----------------------------------------------------------------------------
(* Metrics and trace: load_run, then the events page by page; the trace    *)
(* reads the dispatch ledger last.                                         *)

\* load_run: the evidence rows of the snapshot.
StartRead(kind) ==
  /\ reader.phase = "idle" /\ reads < MaxReads /\ Live
  /\ reads' = reads + 1
  /\ reader' = [NoReader EXCEPT !.kind = kind, !.phase = "paging", !.snapshot = evidence,
                  !.started = Len(log)]
  /\ UNCHANGED <<dbVars, pageVars, faults>>

Answer(result) == [NoReader EXCEPT !.result = result]

PageLimit == Least(PageSize, MaxScan - Len(reader.events))

\* Fault: a full page ends the scan as well.
LastPageFull(batch) == batch # <<>>

\* An empty or short page is the last one.
LastPage(batch) == Len(batch) < PageLimit

\* list_runtime_events of one page, or the overflow probe behind a full scan.
ReadPage ==
  /\ reader.phase = "paging" /\ Live
  /\ IF Len(reader.events) = MaxScan
     THEN reader' = IF ListRuntimeEvents(reader.cursor, 1) # <<>>
                    THEN Answer("unavailable")
                    ELSE [reader EXCEPT !.phase = "read"]
     ELSE LET batch == ListRuntimeEvents(reader.cursor, PageLimit) IN
          reader' = [reader EXCEPT !.events = @ \o batch,
                       !.cursor = IF batch = <<>> THEN @ ELSE batch[Len(batch)].sequence,
                       !.phase = IF LastPage(batch) THEN "read" ELSE @]
  /\ UNCHANGED <<dbVars, pageVars, faults, reads>>

Contiguous(events) == \A i \in DOMAIN events : events[i].sequence = i

\* aggregate_runtime_events.
AggregateRuntimeEvents ==
  /\ reader.phase = "read" /\ reader.kind = "metrics"
  /\ reader' = Answer(IF Contiguous(reader.events) THEN "ok" ELSE "corrupt")
  /\ UNCHANGED <<dbVars, pageVars, faults, reads>>

\* _generation_map and _batch_generation_map: the generations each dispatch
\* is seen with.
GenerationMap(rows) == {[dispatch |-> r.dispatch, generation |-> r.generation] :
                          r \in {r \in Range(rows) : r.dispatch # 0}}

OneGeneration(S) == \A a, b \in S : a.dispatch = b.dispatch => a = b

\* Every evidence row hangs below the dispatch it names.
Parents(snapshot, n) == \A r \in Range(snapshot) : r.dispatch <= n

\* CausalTraceProjector.project, from _load_dispatch_attempts on; the ledger
\* of a deleted Run is empty.
Project ==
  /\ reader.phase = "read" /\ reader.kind = "trace"
  /\ reader' = Answer(
       IF /\ OneGeneration(GenerationMap(reader.events) \cup GenerationMap(reader.snapshot))
          /\ Parents(reader.snapshot, attempts)
       THEN "ok" ELSE "corrupt")
  /\ UNCHANGED <<dbVars, pageVars, faults, reads>>

\* The Run disappeared under the call: 404.
ReadGone ==
  /\ reader.phase = "paging" /\ ~Live
  /\ reader' = Answer("gone")
  /\ UNCHANGED <<dbVars, pageVars, faults, reads>>

Init ==
  /\ run = [status |-> "RUNNING", sequence |-> 1]
  /\ log = <<[sequence |-> 1, kind |-> "RUN_STARTED", dispatch |-> 0, generation |-> 0]>>
  /\ attempts = 0 /\ lease = [state |-> "NONE", dispatch |-> 0, generation |-> 0]
  /\ evidence = <<>> /\ tx = NoTx
  /\ conn = NoConn /\ wire = <<>> /\ page = NewPage /\ query = NewQuery
  /\ reader = NoReader /\ faults = 0 /\ reads = 0

Write ==
  \/ BeginAttempt \/ AcquireTaskLease \/ RenewTaskLease \/ ReleaseTaskLease \/ AppendEvidence
  \/ FinalizeRun \/ Commit \/ Rollback \/ ExpireLease \/ DeleteRun

Stream == Connect \/ YieldEvent \/ PollEvents \/ Deliver \/ QueryServed \/ QueryReceived

Disturb == ConnectRefused \/ BreakConnection \/ QueryFails \/ Reload

Read ==
  \/ \E kind \in {"metrics", "trace"} : StartRead(kind)
  \/ ReadPage \/ AggregateRuntimeEvents \/ Project \/ ReadGone

Next == Write \/ Stream \/ Disturb \/ Read

Spec == Init /\ [][Next]_vars

\* The server loops, the EventSource connects again after `retry`, and the
\* query client performs its fetches; nobody has to write, read or reload.
FairSpec ==
  /\ Spec
  /\ WF_vars(Connect) /\ WF_vars(YieldEvent) /\ WF_vars(PollEvents) /\ WF_vars(Deliver)
  /\ WF_vars(QueryServed) /\ WF_vars(QueryReceived)

-----------------------------------------------------------------------------
(* Properties                                                              *)

Events == [sequence : 1..MaxEvents, kind : Kinds, dispatch : 0..MaxAttempts, generation : 0..MaxAttempts]
IsEvents(s, n) == Len(s) <= n /\ \A i \in DOMAIN s : s[i] \in Events

(* Every part keeps its shape; the timeline never outgrows its limit.      *)
TypeOK ==
  /\ run.status \in {"RUNNING", "FINISHED", "DELETED"} /\ run.sequence \in 1..MaxEvents
  /\ IsEvents(log, MaxEvents) /\ attempts \in 0..MaxAttempts
  /\ lease \in [state : {"NONE", "ACTIVE", "EXPIRED", "RELEASED"}, dispatch : 0..MaxAttempts,
                 generation : 0..MaxAttempts]
  /\ Len(evidence) <= MaxEvents
  /\ \A i \in DOMAIN evidence : evidence[i] \in [dispatch : 1..MaxAttempts, generation : 1..MaxAttempts]
  /\ tx.open => tx.event \in Events
  /\ conn.open \in BOOLEAN /\ conn.cursor \in 0..MaxEvents /\ IsEvents(conn.pending, BatchLimit)
  /\ IsEvents(wire, MaxWire) /\ IsEvents(page.timeline, MaxTimeline)
  /\ page.source \in {"none", "connecting", "open", "closed"}
  /\ page.status \in {"connecting", "live", "reconnecting", "error"}
  /\ {page.last, page.header} \subseteq 0..MaxEvents
  /\ query \in [fetch : {"none", "requested", "answered"}, seen : 0..MaxEvents, view : 0..MaxEvents,
                 needed : 0..MaxEvents]
  /\ reader.phase \in {"idle", "paging", "read"} /\ IsEvents(reader.events, MaxScan)
  /\ faults \in 0..MaxFaults /\ reads \in 0..MaxReads

(* Whatever rolls back, breaks or reconnects, the page never accuses the    *)
(* server of a gap, a step back or a reused number: sequences are given     *)
(* without gaps, become visible in their order, and the stream resumes      *)
(* exactly behind the last event the page has seen.                         *)
NoFalseAlarm == page.status # "error"

(* What the page shows is the history of the Run: its timeline is the       *)
(* newest part of the committed events up to the last one received.         *)
TimelineFaithful ==
  Live => /\ page.last <= Len(log)
          /\ Len(page.timeline) = Least(page.last, MaxTimeline)
          /\ \A i \in DOMAIN page.timeline :
               page.timeline[i] = log[page.last - Len(page.timeline) + i]

(* A page at rest has read the Run after the newest event that told it to,  *)
(* even when that event came while an older answer was on its way.          *)
ViewFresh == page.ok /\ query.fetch = "none" => query.view >= query.needed

(* Metrics and trace see every event committed before the call began, and   *)
(* are unavailable only for a Run with more events than the scan bound.     *)
ScanComplete ==
  /\ reader.phase = "read" => Len(reader.events) >= reader.started
  /\ reader.result = "unavailable" /\ Live => Len(log) > MaxScan

(* Evidence, events and dispatch ledger are read at three moments while     *)
(* workers take over from each other; for a Run that exists they are never  *)
(* reported as contradicting one another.                                   *)
NeverCorrupt == reader.result = "corrupt" => ~Live

(* Every committed event reaches the page, unless the page gave up openly:  *)
(* it shows a load error, or the EventSource was refused with an HTTP error.*)
EventuallyShown ==
  \A i \in 1..MaxEvents :
    (Live /\ Len(log) >= i) ~>
      (~Live \/ page.last >= i \/ page.failed \/ page.source = "closed")

(* The page raises no false alarm, shows the Run's own history, and fetches *)
(* the Run again after every event that changes it.                         *)
PageTruthful == NoFalseAlarm /\ TimelineFaithful /\ ViewFresh

(* Metrics and trace, which read a moving Run in several steps, miss nothing *)
(* and suspect nothing.                                                      *)
ReadersTruthful == TypeOK /\ ScanComplete /\ NeverCorrupt

=============================================================================
