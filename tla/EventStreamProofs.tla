--------------------------- MODULE EventStreamProofs ---------------------------
(***************************************************************************)
(* The proofs of PageTruthful and ReadersTruthful, for every bound on      *)
(* events, batches, pages and faults.                                      *)
(*                                                                         *)
(* The argument: numbers are given under the Run row lock, so the log has  *)
(* its numbers as positions (LogHolds).  A cursor is then a length: what   *)
(* the page has seen, what is on the wire and what the server still has    *)
(* pending are three consecutive pieces of the log (StreamHolds), and what *)
(* a metrics or trace call has read is a beginning of it (ReaderHolds).    *)
(* Leases take a dispatch once, so a dispatch number has one generation,   *)
(* however many rows name it (LeaseHolds, OneOwner).                       *)
(*                                                                         *)
(* The second part is about AgentContext, what a model is shown of its     *)
(* task.                                                                   *)
(***************************************************************************)
EXTENDS EventStream, AgentContext, FiniteSetTheorems, SequenceTheorems, WellFoundedInduction, TLAPS

Statuses == {"RUNNING", "FINISHED", "DELETED"}
LeaseSet == [state : {"NONE", "ACTIVE", "EXPIRED", "RELEASED"}, dispatch : 0..MaxAttempts,
             generation : 0..MaxAttempts]
Rows == [dispatch : 1..MaxAttempts, generation : 1..MaxAttempts]
Txs == [open : {TRUE}, event : Events, lease : LeaseSet, row : BOOLEAN, status : Statuses]
Conns == [open : BOOLEAN, cursor : 0..MaxEvents, pending : Seq(Events)]
Pages == [ok : BOOLEAN, failed : BOOLEAN, source : {"none", "connecting", "open", "closed"},
          last : 0..MaxEvents, header : 0..MaxEvents, timeline : Seq(Events),
          status : {"connecting", "live", "reconnecting", "error"}]
Queries == [fetch : {"none", "requested", "answered"}, seen : 0..MaxEvents, view : 0..MaxEvents,
            needed : 0..MaxEvents]
Readers == [kind : {"none", "metrics", "trace"}, phase : {"idle", "paging", "read"},
            snapshot : Seq(Rows), events : Seq(Events), cursor : 0..MaxEvents, started : 0..MaxEvents,
            result : {"none", "ok", "corrupt", "unavailable", "gone"}]

DbTypes ==
  /\ run \in [status : Statuses, sequence : 1..MaxEvents] /\ log \in Seq(Events)
  /\ attempts \in 0..MaxAttempts /\ lease \in LeaseSet /\ evidence \in Seq(Rows)
  /\ tx \in {NoTx} \cup Txs

PageTypes ==
  /\ conn \in Conns /\ wire \in Seq(Events) /\ page \in Pages /\ query \in Queries

CountTypes == faults \in 0..MaxFaults /\ reads \in 0..MaxReads

\* Numbers are positions; the next one is that of the open transaction.
LogHolds ==
  /\ Live => run.sequence = Len(log) /\ \A i \in 1..Len(log) : log[i].sequence = i
  /\ Len(log) <= MaxEvents /\ Len(evidence) <= Len(log)
  /\ ~Live => attempts = 0
  /\ tx.open => /\ Live /\ Len(log) < MaxEvents /\ tx.status # "DELETED"
                /\ tx.event.sequence = run.sequence + 1

\* A generation needs a dispatch of its own.
Grounded(l) ==
  /\ l.generation <= l.dispatch
  /\ l.state # "NONE" => l.generation >= 1

LeaseHolds ==
  /\ Grounded(lease)
  /\ Live => lease.dispatch <= attempts
  /\ tx.open => /\ Grounded(tx.lease) /\ tx.lease.dispatch <= attempts
                /\ \/ tx.lease.dispatch = lease.dispatch /\ tx.lease.generation = lease.generation
                   \/ tx.lease.dispatch > lease.dispatch
                /\ tx.event.dispatch # 0 => /\ tx.event.dispatch = tx.lease.dispatch
                                            /\ tx.event.generation = tx.lease.generation
                /\ tx.row => /\ lease.state = "ACTIVE"
                             /\ tx.event.dispatch = lease.dispatch
                             /\ tx.event.generation = lease.generation

\* One generation per dispatch, the lease included; evidence has its event.
OneOwner ==
  Live =>
    /\ \A i \in 1..Len(log) :
         /\ log[i].dispatch <= lease.dispatch
         /\ log[i].dispatch # 0 /\ log[i].dispatch = lease.dispatch => log[i].generation = lease.generation
    /\ \A i, j \in 1..Len(log) :
         log[i].dispatch # 0 /\ log[i].dispatch = log[j].dispatch => log[i].generation = log[j].generation
    /\ \A k \in 1..Len(evidence) : \E i \in 1..Len(log) :
         log[i].dispatch = evidence[k].dispatch /\ log[i].generation = evidence[k].generation

\* The rows s are those of the log behind position n.
Piece(s, n) == n + Len(s) <= Len(log) /\ \A i \in 1..Len(s) : s[i] = log[n + i]

Numbered(s, n) == \A i \in 1..Len(s) : s[i].sequence = n + i

\* Page, wire and pending batch are consecutive pieces of the log.
StreamHolds ==
  /\ conn.open <=> page.source = "open"
  /\ ~conn.open => conn = NoConn /\ wire = <<>>
  /\ page.source # "none" => page.ok
  /\ page.header = page.last /\ page.status # "error"
  /\ Len(wire) <= MaxWire /\ Len(conn.pending) <= BatchLimit
  /\ Numbered(wire, page.last) /\ Numbered(conn.pending, conn.cursor)
  /\ conn.open => conn.cursor = page.last + Len(wire)
  /\ Live => /\ page.last <= Len(log)
             /\ Piece(wire, page.last)
             /\ conn.open => Piece(conn.pending, conn.cursor)

TimelineHolds ==
  /\ Len(page.timeline) = Least(page.last, MaxTimeline)
  /\ Live => /\ page.last <= Len(log)
             /\ \A i \in 1..Len(page.timeline) : page.timeline[i] = log[page.last - Len(page.timeline) + i]

QueryHolds ==
  /\ Live => query.needed <= Len(log)
  /\ query.fetch = "answered" => query.seen >= query.needed
  /\ page.ok /\ query.fetch = "none" => query.view >= query.needed

ReaderHolds ==
  /\ reader \in Readers /\ Len(reader.events) <= MaxScan
  /\ reader.phase # "idle" => reader.cursor = Len(reader.events) /\ reader.result = "none"
  /\ reader.phase = "read" => Len(reader.events) >= reader.started
  /\ reader.phase # "idle" /\ Live =>
       /\ Piece(reader.events, 0) /\ reader.started <= Len(log)
       /\ Len(reader.snapshot) <= Len(evidence)
       /\ \A i \in 1..Len(reader.snapshot) : reader.snapshot[i] = evidence[i]
  /\ reader.result = "unavailable" /\ Live => Len(log) > MaxScan
  /\ reader.result = "corrupt" => ~Live

Inv ==
  /\ DbTypes /\ PageTypes /\ CountTypes /\ LogHolds /\ LeaseHolds /\ OneOwner
  /\ StreamHolds /\ TimelineHolds /\ QueryHolds /\ ReaderHolds

-----------------------------------------------------------------------------
(* The operators                                                           *)

LEMMA Bounds ==
  /\ MaxEvents \in Nat /\ MaxEvents >= 1 /\ MaxAttempts \in Nat /\ MaxAttempts >= 1
  /\ BatchLimit \in Nat /\ BatchLimit >= 1 /\ PageSize \in Nat /\ PageSize >= 1
  /\ MaxScan \in Nat /\ MaxScan >= 1 /\ MaxTimeline \in Nat /\ MaxTimeline >= 1
  /\ MaxWire \in Nat /\ MaxWire >= 1 /\ MaxFaults \in Nat /\ MaxReads \in Nat
BY StreamAssumption

LEMMA EventFields ==
  ASSUME NEW e \in Events
  PROVE  /\ e.sequence \in 1..MaxEvents /\ e.kind \in Kinds
         /\ e.dispatch \in 0..MaxAttempts /\ e.generation \in 0..MaxAttempts
BY DEF Events

(* list_runtime_events returns the rows that directly follow the cursor:    *)
(* with numbers that are positions, its WHERE clause skips exactly `after`. *)
LEMMA ListLemma ==
  ASSUME DbTypes, LogHolds, Live, NEW after \in Nat, after <= Len(log), NEW limit \in Nat
  PROVE  /\ ListRuntimeEvents(after, limit) \in Seq(Events)
         /\ Len(ListRuntimeEvents(after, limit)) = Least(limit, Len(log) - after)
         /\ Piece(ListRuntimeEvents(after, limit), after)
         /\ Numbered(ListRuntimeEvents(after, limit), after)
<1>1. log \in Seq(Events) /\ \A i \in 1..Len(log) : log[i].sequence = i
  BY DEF DbTypes, LogHolds
<1>2. Len(log) \in Nat /\ DOMAIN log = 1..Len(log)
  BY <1>1
<1>3. {i \in DOMAIN log : log[i].sequence <= after} = 1..after
  BY <1>1, <1>2
<1>4. Cardinality(1..after) = after
  <2>1. Cardinality(1..after) = IF 1 > after THEN 0 ELSE after - 1 + 1
    BY FS_Interval
  <2> QED
    BY <2>1
<1>m. PICK m : m = IF after + limit < Len(log) THEN after + limit ELSE Len(log)
  OBVIOUS
<1>5. ListRuntimeEvents(after, limit) = SubSeq(log, after + 1, m)
  BY <1>3, <1>4, <1>m DEF ListRuntimeEvents, Least
<1>6. m \in Nat /\ m <= Len(log) /\ m >= after /\ m - after = Least(limit, Len(log) - after)
  <2>1. PICK k \in Nat : k = Len(log)
    BY <1>2
  <2>2. m = IF after + limit < k THEN after + limit ELSE k
    BY <1>m, <2>1
  <2>3. m \in Nat /\ m <= k /\ m >= after /\ m - after = IF limit < k - after THEN limit ELSE k - after
    BY <2>1, <2>2
  <2> QED
    BY <2>1, <2>3 DEF Least
<1>7. \A i \in (after + 1)..m : log[i] \in Events
  BY <1>1, <1>2, <1>6
<1>8. /\ SubSeq(log, after + 1, m) \in Seq(Events)
      /\ Len(SubSeq(log, after + 1, m)) = m - after
      /\ \A i \in 1..(m - after) : SubSeq(log, after + 1, m)[i] = log[after + i]
  BY <1>1, <1>2, <1>6, <1>7
<1> QED
  BY <1>1, <1>2, <1>5, <1>6, <1>8 DEF Piece, Numbered

(* A batch or the wire without its first event begins one place further.    *)
LEMMA TailLemma ==
  ASSUME NEW s \in Seq(Events), s # <<>>, NEW n \in Nat
  PROVE  /\ Head(s) \in Events /\ Tail(s) \in Seq(Events) /\ Len(Tail(s)) = Len(s) - 1 /\ Len(s) >= 1
         /\ Numbered(s, n) => Head(s).sequence = n + 1 /\ Numbered(Tail(s), n + 1)
         /\ log \in Seq(Events) /\ Piece(s, n) =>
              n + 1 <= Len(log) /\ Head(s) = log[n + 1] /\ Piece(Tail(s), n + 1)
<1>1. /\ Head(s) = s[1] /\ Tail(s) \in Seq(Events) /\ Len(Tail(s)) = Len(s) - 1 /\ Len(s) >= 1
      /\ Len(s) \in Nat /\ Head(s) \in Events
      /\ \A i \in 1..Len(Tail(s)) : Tail(s)[i] = s[i + 1]
  BY HeadTailProperties
<1>2. ASSUME Numbered(s, n)
      PROVE  Head(s).sequence = n + 1 /\ Numbered(Tail(s), n + 1)
  BY <1>1, <1>2 DEF Numbered
<1>3. ASSUME log \in Seq(Events), Piece(s, n)
      PROVE  n + 1 <= Len(log) /\ Head(s) = log[n + 1] /\ Piece(Tail(s), n + 1)
  BY <1>1, <1>3 DEF Piece
<1> QED
  BY <1>1, <1>2, <1>3

LEMMA AppendLemma ==
  ASSUME NEW S, NEW s \in Seq(S), NEW e \in S
  PROVE  /\ Append(s, e) \in Seq(S) /\ Len(Append(s, e)) = Len(s) + 1 /\ Len(s) \in Nat
         /\ \A i \in 1..Len(s) : Append(s, e)[i] = s[i]
         /\ Append(s, e)[Len(s) + 1] = e
OBVIOUS

-----------------------------------------------------------------------------
(* Who writes what                                                         *)

Begins == AcquireTaskLease \/ RenewTaskLease \/ ReleaseTaskLease \/ AppendEvidence \/ FinalizeRun

LEMMA Writers ==
  ASSUME [Next]_vars
  PROVE  /\ UNCHANGED dbVars \/ UNCHANGED <<pageVars, reader, faults, reads>>
         /\ \/ UNCHANGED dbVars
            \/ BeginAttempt \/ Begins \/ Commit \/ Rollback \/ ExpireLease \/ DeleteRun
         /\ \/ UNCHANGED pageVars
            \/ Connect \/ YieldEvent \/ PollEvents \/ Deliver \/ QueryServed \/ QueryReceived
            \/ ConnectRefused \/ BreakConnection \/ QueryFails \/ Reload
         /\ \/ UNCHANGED <<reader, reads>>
            \/ \E kind \in {"metrics", "trace"} : StartRead(kind)
            \/ ReadPage \/ AggregateRuntimeEvents \/ Project \/ ReadGone
<1>1. CASE Write
  <2>1. ASSUME BeginAttempt \/ Begins \/ Commit \/ Rollback \/ ExpireLease \/ DeleteRun
        PROVE  UNCHANGED <<pageVars, reader, faults, reads>>
    BY <2>1 DEF BeginAttempt, Begins, AcquireTaskLease, RenewTaskLease, ReleaseTaskLease, AppendEvidence,
                FinalizeRun, Begin, Commit, Rollback, ExpireLease, DeleteRun
  <2> QED
    BY <1>1, <2>1 DEF Write, Begins
<1>2. CASE Stream
  BY <1>2 DEF Stream, Connect, YieldEvent, PollEvents, Deliver, QueryServed, QueryReceived
<1>3. CASE Disturb
  BY <1>3 DEF Disturb, ConnectRefused, BreakConnection, QueryFails, Reload
<1>4. CASE Read
  <2>1. ASSUME Read PROVE UNCHANGED <<dbVars, pageVars>>
    BY <2>1 DEF Read, StartRead, ReadPage, AggregateRuntimeEvents, Project, ReadGone
  <2> QED
    BY <1>4, <2>1 DEF Read
<1>5. CASE UNCHANGED vars
  BY <1>5 DEF vars
<1> QED
  BY <1>1, <1>2, <1>3, <1>4, <1>5 DEF Next

-----------------------------------------------------------------------------
(* The database                                                            *)

LEMMA EventLemma ==
  ASSUME DbTypes, LogHolds, LockedRun, NEW kind \in Kinds,
         NEW d \in 0..MaxAttempts, NEW g \in 0..MaxAttempts
  PROVE  /\ AppendRuntimeEvent(kind, d, g) \in Events
         /\ AppendRuntimeEvent(kind, d, g).sequence = run.sequence + 1
         /\ AppendRuntimeEvent(kind, d, g).dispatch = d
         /\ AppendRuntimeEvent(kind, d, g).generation = g
<1>1. run.sequence + 1 \in 1..MaxEvents
  <2>1. run.sequence = Len(log) /\ run.sequence \in 1..MaxEvents /\ Len(log) < MaxEvents
    BY DEF DbTypes, LogHolds, LockedRun
  <2> QED
    BY <2>1, Bounds
<1> QED
  BY <1>1 DEF AppendRuntimeEvent, Events

\* What an open transaction brings, for LogHolds and LeaseHolds.
Fits(t) ==
  /\ t \in Txs /\ t.open /\ Live /\ Len(log) < MaxEvents /\ t.status # "DELETED"
  /\ t.event.sequence = run.sequence + 1
  /\ Grounded(t.lease) /\ t.lease.dispatch <= attempts
  /\ \/ t.lease.dispatch = lease.dispatch /\ t.lease.generation = lease.generation
     \/ t.lease.dispatch > lease.dispatch
  /\ t.event.dispatch # 0 => /\ t.event.dispatch = t.lease.dispatch
                             /\ t.event.generation = t.lease.generation
  /\ t.row => /\ lease.state = "ACTIVE"
              /\ t.event.dispatch = lease.dispatch
              /\ t.event.generation = lease.generation

LEMMA BeginStep ==
  ASSUME DbTypes, LogHolds, LeaseHolds, Begins
  PROVE  \E t : tx' = t /\ Fits(t) /\ UNCHANGED <<run, log, attempts, lease, evidence>>
<1>l. /\ lease \in LeaseSet /\ lease.dispatch \in 0..MaxAttempts /\ lease.generation \in 0..MaxAttempts
      /\ attempts \in 0..MaxAttempts /\ run.status \in Statuses /\ Grounded(lease)
  BY DEF DbTypes, LeaseSet, LeaseHolds
<1>h. LockedRun /\ Live /\ Len(log) < MaxEvents /\ lease.dispatch <= attempts /\ run.status # "DELETED"
  BY DEF Begins, AcquireTaskLease, RenewTaskLease, ReleaseTaskLease, AppendEvidence, FinalizeRun,
         LockedRun, LeaseHolds, Live
<1>1. ASSUME AcquireTaskLease
      PROVE  \E t : tx' = t /\ Fits(t) /\ UNCHANGED <<run, log, attempts, lease, evidence>>
  <2>g. PICK g : g = lease.generation + 1
    OBVIOUS
  <2>1. lease.dispatch < attempts /\ g \in 1..MaxAttempts /\ g <= attempts /\ attempts \in 1..MaxAttempts
    BY <1>1, <1>l, <2>g, Bounds DEF AcquireTaskLease, Grounded
  <2>k. PICK k \in Kinds : k = IF g = 1 THEN "LEASE_ACQUIRED" ELSE "LEASE_TAKEN_OVER"
    BY DEF Kinds
  <2>n. PICK n : n = [state |-> "ACTIVE", dispatch |-> attempts, generation |-> g]
    OBVIOUS
  <2>2. n \in LeaseSet /\ Grounded(n) /\ n.dispatch = attempts /\ n.generation = g
    BY <2>n, <2>1, Bounds DEF LeaseSet, Grounded
  <2>e. PICK e : e = AppendRuntimeEvent(k, attempts, g)
    OBVIOUS
  <2>3. e \in Events /\ e.sequence = run.sequence + 1 /\ e.dispatch = attempts /\ e.generation = g
    BY <2>e, <2>1, <1>h, EventLemma
  <2>t. PICK t : t = [open |-> TRUE, event |-> e, lease |-> n, row |-> FALSE, status |-> run.status]
    OBVIOUS
  <2>4. tx' = t /\ UNCHANGED <<run, log, attempts, lease, evidence>>
    BY <1>1, <2>t, <2>e, <2>k, <2>n, <2>g DEF AcquireTaskLease, Begin
  <2>5. t \in Txs /\ t.event = e /\ t.lease = n /\ t.row = FALSE /\ t.status = run.status /\ t.open
    BY <2>t, <2>2, <2>3, <1>l DEF Txs
  <2>6. Fits(t)
    BY <2>1, <2>2, <2>3, <2>5, <1>h, <1>l DEF Fits
  <2> QED
    BY <2>4, <2>6
<1>2. ASSUME NEW k \in Kinds, NEW r \in BOOLEAN, NEW n \in LeaseSet, lease.state = "ACTIVE",
             n.dispatch = lease.dispatch, n.generation = lease.generation,
             Begin(AppendRuntimeEvent(k, lease.dispatch, lease.generation), n, r, run.status)
      PROVE  \E t : tx' = t /\ Fits(t) /\ UNCHANGED <<run, log, attempts, lease, evidence>>
  <2>1. Grounded(n)
    BY <1>2, <1>l DEF Grounded
  <2>e. PICK e : e = AppendRuntimeEvent(k, lease.dispatch, lease.generation)
    OBVIOUS
  <2>3. /\ e \in Events /\ e.sequence = run.sequence + 1 /\ e.dispatch = lease.dispatch
        /\ e.generation = lease.generation
    BY <2>e, <1>l, <1>h, EventLemma
  <2>t. PICK t : t = [open |-> TRUE, event |-> e, lease |-> n, row |-> r, status |-> run.status]
    OBVIOUS
  <2>4. tx' = t /\ UNCHANGED <<run, log, attempts, lease, evidence>>
    BY <1>2, <2>t, <2>e DEF Begin
  <2>5. t \in Txs /\ t.event = e /\ t.lease = n /\ t.row = r /\ t.status = run.status /\ t.open
    BY <2>t, <2>3, <1>l DEF Txs
  <2>6. Fits(t)
    BY <1>2, <2>1, <2>3, <2>5, <1>h, <1>l DEF Fits
  <2> QED
    BY <2>4, <2>6
<1>3. CASE RenewTaskLease
  BY <1>2, <1>3, <1>l DEF RenewTaskLease, Kinds
<1>4. CASE ReleaseTaskLease
  <2>n. PICK n : n = [lease EXCEPT !.state = "RELEASED"]
    OBVIOUS
  <2>1. n \in LeaseSet /\ n.dispatch = lease.dispatch /\ n.generation = lease.generation
    BY <2>n, <1>l DEF LeaseSet
  <2>2. /\ lease.state = "ACTIVE" /\ "LEASE_RELEASED" \in Kinds
        /\ Begin(AppendRuntimeEvent("LEASE_RELEASED", lease.dispatch, lease.generation), n, FALSE, run.status)
    BY <1>4, <2>n DEF ReleaseTaskLease, Kinds
  <2> QED
    BY <1>2, <2>1, <2>2
<1>5. CASE AppendEvidence
  BY <1>2, <1>5, <1>l DEF AppendEvidence, Kinds
<1>6. CASE FinalizeRun
  <2>e. PICK e : e = AppendRuntimeEvent("RUN_FINALIZED", 0, 0)
    OBVIOUS
  <2>3. e \in Events /\ e.sequence = run.sequence + 1 /\ e.dispatch = 0 /\ e.generation = 0
    BY <2>e, <1>h, EventLemma, Bounds DEF Kinds
  <2>t. PICK t : t = [open |-> TRUE, event |-> e, lease |-> lease, row |-> FALSE, status |-> "FINISHED"]
    OBVIOUS
  <2>4. tx' = t /\ UNCHANGED <<run, log, attempts, lease, evidence>>
    BY <1>6, <2>t, <2>e DEF FinalizeRun, Begin
  <2>5. t \in Txs /\ t.event = e /\ t.lease = lease /\ t.row = FALSE /\ t.status = "FINISHED" /\ t.open
    BY <2>t, <2>3, <1>l DEF Txs, Statuses
  <2>6. Fits(t)
    BY <2>3, <2>5, <1>h, <1>l DEF Fits
  <2> QED
    BY <2>4, <2>6
<1> QED
  BY <1>1, <1>3, <1>4, <1>5, <1>6 DEF Begins

LEMMA OpenTx ==
  ASSUME DbTypes, tx.open
  PROVE  /\ tx \in Txs /\ tx.event \in Events /\ tx.lease \in LeaseSet /\ tx.row \in BOOLEAN
         /\ tx.status \in Statuses
<1>1. tx # NoTx
  BY DEF NoTx
<1> QED
  BY <1>1 DEF DbTypes, Txs

(* What a commit does to the log and to the evidence, position by position. *)
LEMMA CommitLemma ==
  ASSUME DbTypes, LogHolds, LeaseHolds, Commit
  PROVE  /\ Live /\ Live' /\ run' \in [status : Statuses, sequence : 1..MaxEvents]
         /\ run'.sequence = Len(log) + 1 /\ ~tx'.open /\ tx' = NoTx /\ lease' = tx.lease
         /\ attempts' = attempts
         /\ log' \in Seq(Events) /\ Len(log') = Len(log) + 1 /\ Len(log) \in Nat
         /\ \A i \in 1..Len(log) : log'[i] = log[i]
         /\ log'[Len(log) + 1] = tx.event
         /\ evidence' \in Seq(Rows) /\ Len(evidence) \in Nat
         /\ \A i \in 1..Len(evidence) : evidence'[i] = evidence[i]
         /\ \/ evidence' = evidence
            \/ /\ Len(evidence') = Len(evidence) + 1
               /\ evidence'[Len(evidence) + 1].dispatch = tx.event.dispatch
               /\ evidence'[Len(evidence) + 1].generation = tx.event.generation
<1>1. tx.open /\ tx \in Txs /\ tx.event \in Events /\ tx.status \in Statuses /\ tx.row \in BOOLEAN
  BY OpenTx DEF Commit
<1>2. /\ Live /\ run.sequence = Len(log) /\ Len(log) < MaxEvents /\ tx.status # "DELETED"
      /\ tx.event.sequence = run.sequence + 1 /\ log \in Seq(Events) /\ evidence \in Seq(Rows)
      /\ Len(log) \in Nat
  BY <1>1 DEF LogHolds, DbTypes
<1>3. run' = [status |-> tx.status, sequence |-> Len(log) + 1]
  BY <1>2 DEF Commit
<1>4. run' \in [status : Statuses, sequence : 1..MaxEvents] /\ run'.sequence = Len(log) + 1 /\ Live'
  BY <1>1, <1>2, <1>3, Bounds DEF Live
<1>5. log' = Append(log, tx.event) /\ tx' = NoTx /\ ~tx'.open /\ lease' = tx.lease /\ attempts' = attempts
  BY DEF Commit, NoTx
<1>6. /\ log' \in Seq(Events) /\ Len(log') = Len(log) + 1 /\ log'[Len(log) + 1] = tx.event
      /\ \A i \in 1..Len(log) : log'[i] = log[i]
  BY <1>1, <1>2, <1>5, AppendLemma
<1>7. CASE ~tx.row
  BY <1>2, <1>4, <1>5, <1>6, <1>7 DEF Commit
<1>8. CASE tx.row
  <2>r. PICK r : r = [dispatch |-> lease.dispatch, generation |-> lease.generation]
    OBVIOUS
  <2>1. /\ lease.state = "ACTIVE" /\ Grounded(lease) /\ lease \in LeaseSet
        /\ tx.event.dispatch = lease.dispatch /\ tx.event.generation = lease.generation
    BY <1>1, <1>8 DEF LeaseHolds, DbTypes
  <2>2. r \in Rows /\ r.dispatch = tx.event.dispatch /\ r.generation = tx.event.generation
    BY <2>r, <2>1, Bounds DEF Rows, LeaseSet, Grounded
  <2>3. evidence' = Append(evidence, r)
    BY <1>8, <2>r DEF Commit
  <2>4. /\ evidence' \in Seq(Rows) /\ Len(evidence') = Len(evidence) + 1 /\ Len(evidence) \in Nat
        /\ \A i \in 1..Len(evidence) : evidence'[i] = evidence[i]
        /\ evidence'[Len(evidence) + 1] = r
    BY <1>2, <2>2, <2>3, AppendLemma
  <2> QED
    BY <1>2, <1>4, <1>5, <1>6, <2>2, <2>4
<1> QED
  BY <1>1, <1>7, <1>8

LEMMA DbStep ==
  ASSUME DbTypes, LogHolds, LeaseHolds, OneOwner, [Next]_vars
  PROVE  DbTypes' /\ LogHolds' /\ LeaseHolds' /\ OneOwner'
<1>0. NoTx.open = FALSE
  BY DEF NoTx
<1>1. CASE UNCHANGED dbVars
  BY <1>1 DEF dbVars, DbTypes, LogHolds, LeaseHolds, OneOwner, Live, Grounded
<1>2. CASE BeginAttempt
  <2>1. /\ UNCHANGED <<run, log, lease, evidence, tx>> /\ attempts' = attempts + 1 /\ attempts < MaxAttempts
        /\ Live /\ attempts \in 0..MaxAttempts
    BY <1>2 DEF BeginAttempt, Live, DbTypes
  <2>2. attempts' \in 0..MaxAttempts
    BY <2>1, Bounds
  <2>3. DbTypes' /\ LogHolds' /\ OneOwner'
    BY <2>1, <2>2 DEF DbTypes, LogHolds, OneOwner, Live
  <2>4. tx.open => tx.lease.dispatch \in 0..MaxAttempts
    BY OpenTx DEF LeaseSet
  <2>5. lease.dispatch \in 0..MaxAttempts
    BY DEF DbTypes, LeaseSet
  <2>6. (Live => lease.dispatch <= attempts') /\ (tx.open => tx.lease.dispatch <= attempts')
    BY <2>1, <2>4, <2>5, Bounds DEF LeaseHolds
  <2> QED
    BY <2>1, <2>3, <2>6 DEF LeaseHolds, Live, Grounded
<1>3. CASE Begins
  <2>1. PICK t : tx' = t /\ Fits(t) /\ UNCHANGED <<run, log, attempts, lease, evidence>>
    BY <1>3, BeginStep
  <2> QED
    BY <2>1 DEF Fits, DbTypes, LogHolds, LeaseHolds, OneOwner, Live, Grounded
<1>4. CASE Commit
  <2>c. tx.open /\ tx.event \in Events /\ tx.lease \in LeaseSet
    BY <1>4, OpenTx DEF Commit
  <2>1. DbTypes'
    BY <1>4, <2>c, CommitLemma DEF DbTypes
  <2>2. LogHolds'
    <3>1. \A i \in 1..Len(log') : log'[i].sequence = i
      <4>1. /\ Len(log) \in Nat /\ Len(log') = Len(log) + 1 /\ log'[Len(log) + 1].sequence = Len(log) + 1
            /\ \A i \in 1..Len(log) : log'[i].sequence = i
        BY <1>4, <2>c, CommitLemma DEF LogHolds
      <4>2. \A i \in 1..Len(log') : i \in 1..Len(log) \/ i = Len(log) + 1
        BY <4>1
      <4> QED
        BY <4>1, <4>2
    <3>2. Len(log') <= MaxEvents /\ Len(evidence') <= Len(log')
      BY <1>4, <2>c, CommitLemma, Bounds DEF LogHolds
    <3> QED
      BY <1>4, <3>1, <3>2, CommitLemma DEF LogHolds
  <2>3. LeaseHolds'
    BY <1>4, <2>c, CommitLemma DEF LeaseHolds, Grounded
  <2>4. OneOwner'
    <3>1. /\ \A i \in 1..Len(log) : log[i] \in Events /\ log[i].dispatch \in 0..MaxAttempts
          /\ lease.dispatch \in 0..MaxAttempts /\ tx.lease.dispatch \in 0..MaxAttempts
          /\ tx.event.dispatch \in 0..MaxAttempts /\ Len(log) \in Nat
      <4>1. log \in Seq(Events) /\ lease \in LeaseSet
        BY DEF DbTypes
      <4>2. \A i \in 1..Len(log) : log[i] \in Events
        BY <4>1
      <4>3. \A e \in Events : e.dispatch \in 0..MaxAttempts
        BY EventFields
      <4>4. \A l \in LeaseSet : l.dispatch \in 0..MaxAttempts
        BY DEF LeaseSet
      <4> QED
        BY <2>c, <4>1, <4>2, <4>3, <4>4
    <3>a. /\ Live /\ lease' = tx.lease /\ Len(log') = Len(log) + 1 /\ log'[Len(log) + 1] = tx.event
          /\ \A i \in 1..Len(log) : log'[i] = log[i]
      BY <1>4, CommitLemma
    <3>b. \A i \in 1..Len(log') : i \in 1..Len(log) \/ i = Len(log) + 1
      BY <3>1, <3>a
    <3>2. \A i \in 1..Len(log') :
            /\ log'[i].dispatch <= lease'.dispatch
            /\ log'[i].dispatch # 0 /\ log'[i].dispatch = lease'.dispatch
                 => log'[i].generation = lease'.generation
      <4>1. /\ tx.event.dispatch <= tx.lease.dispatch
            /\ tx.event.dispatch # 0 => tx.event.generation = tx.lease.generation
        BY <2>c, <3>1 DEF LeaseHolds
      <4>2. \A i \in 1..Len(log) :
              /\ log[i].dispatch <= tx.lease.dispatch
              /\ log[i].dispatch # 0 /\ log[i].dispatch = tx.lease.dispatch
                   => log[i].generation = tx.lease.generation
        BY <2>c, <3>1, <3>a DEF OneOwner, LeaseHolds
      <4> QED
        BY <3>a, <3>b, <4>1, <4>2
    <3>3. \A i, j \in 1..Len(log') :
            log'[i].dispatch # 0 /\ log'[i].dispatch = log'[j].dispatch
              => log'[i].generation = log'[j].generation
      <4>1. \A i \in 1..Len(log) :
              log[i].dispatch # 0 /\ log[i].dispatch = tx.event.dispatch => log[i].generation = tx.event.generation
        BY <1>4, <2>c, <3>1, CommitLemma, Bounds DEF OneOwner, LeaseHolds
      <4> QED
        BY <1>4, <3>1, <4>1, CommitLemma DEF OneOwner
    <3>4. \A k \in 1..Len(evidence') : \E i \in 1..Len(log') :
            log'[i].dispatch = evidence'[k].dispatch /\ log'[i].generation = evidence'[k].generation
      <4> SUFFICES ASSUME NEW k \in 1..Len(evidence')
                   PROVE  \E i \in 1..Len(log') :
                            /\ log'[i].dispatch = evidence'[k].dispatch
                            /\ log'[i].generation = evidence'[k].generation
        OBVIOUS
      <4>1. CASE k \in 1..Len(evidence)
        <5>1. PICK i \in 1..Len(log) : log[i].dispatch = evidence[k].dispatch /\ log[i].generation = evidence[k].generation
          BY <1>4, <4>1, CommitLemma DEF OneOwner
        <5>2. i \in 1..Len(log') /\ log'[i] = log[i] /\ evidence'[k] = evidence[k]
          BY <1>4, <4>1, <5>1, CommitLemma
        <5> QED
          BY <5>1, <5>2
      <4>2. CASE k \notin 1..Len(evidence)
        <5>1. k = Len(evidence) + 1 /\ Len(evidence') = Len(evidence) + 1
          BY <1>4, <4>2, CommitLemma
        <5>2. Len(log) + 1 \in 1..Len(log')
          BY <1>4, CommitLemma
        <5> QED
          BY <1>4, <4>2, <5>1, <5>2, CommitLemma
      <4> QED
        BY <4>1, <4>2
    <3> QED
      BY <3>2, <3>3, <3>4 DEF OneOwner
  <2> QED
    BY <2>1, <2>2, <2>3, <2>4
<1>5. CASE Rollback
  BY <1>5, <1>0 DEF Rollback, DbTypes, LogHolds, LeaseHolds, OneOwner, Live, Grounded
<1>6. CASE ExpireLease
  <2>1. /\ UNCHANGED <<run, log, attempts, evidence, tx>> /\ ~tx.open /\ lease.state = "ACTIVE"
        /\ lease' = [lease EXCEPT !.state = "EXPIRED"] /\ lease \in LeaseSet
    BY <1>6 DEF ExpireLease, DbTypes
  <2>2. lease' \in LeaseSet /\ lease'.dispatch = lease.dispatch /\ lease'.generation = lease.generation
    BY <2>1 DEF LeaseSet
  <2> QED
    BY <2>1, <2>2 DEF DbTypes, LogHolds, LeaseHolds, OneOwner, Live, Grounded
<1>7. CASE DeleteRun
  <2>1. /\ run' = [run EXCEPT !.status = "DELETED"] /\ log' = <<>> /\ attempts' = 0 /\ evidence' = <<>>
        /\ ~tx.open /\ UNCHANGED <<lease, tx>>
    BY <1>7 DEF DeleteRun
  <2>2. run' \in [status : Statuses, sequence : 1..MaxEvents] /\ ~Live'
    BY <2>1 DEF DbTypes, Statuses, Live
  <2> QED
    BY <2>1, <2>2, Bounds DEF DbTypes, LogHolds, LeaseHolds, OneOwner, Grounded
<1> QED
  BY <1>1, <1>2, <1>3, <1>4, <1>5, <1>6, <1>7, Writers

(* While the Run exists, its log and its evidence only grow.                *)
LEMMA Grows ==
  ASSUME DbTypes, LogHolds, LeaseHolds, [Next]_vars, Live'
  PROVE  /\ Live /\ Len(log) <= Len(log') /\ \A i \in 1..Len(log) : log'[i] = log[i]
         /\ Len(evidence) <= Len(evidence') /\ \A i \in 1..Len(evidence) : evidence'[i] = evidence[i]
<1>0. Len(log) \in Nat /\ Len(evidence) \in Nat
  BY DEF DbTypes
<1>1. CASE UNCHANGED dbVars \/ BeginAttempt \/ Rollback \/ ExpireLease
  BY <1>0, <1>1 DEF dbVars, BeginAttempt, Rollback, ExpireLease, Live
<1>2. CASE Begins
  BY <1>0, <1>2, BeginStep DEF Live
<1>3. CASE Commit
  <2>1. Len(evidence') = Len(evidence) \/ Len(evidence') = Len(evidence) + 1
    BY <1>3, CommitLemma
  <2> QED
    BY <1>0, <1>3, <2>1, CommitLemma
<1>4. CASE DeleteRun
  BY <1>4 DEF DeleteRun, Live, DbTypes
<1> QED
  BY <1>1, <1>2, <1>3, <1>4, Writers

(* A piece of the log that nobody touches stays one.                        *)
LEMMA PieceStays ==
  ASSUME DbTypes, LogHolds, LeaseHolds, [Next]_vars, Live',
         NEW s, Len(s) \in Nat, NEW n \in Nat, Piece(s, n)
  PROVE  n + Len(s) <= Len(log') /\ \A i \in 1..Len(s) : s[i] = log'[n + i]
<1>1. Len(log) \in Nat /\ Len(log') \in Nat
  BY Grows DEF DbTypes
<1>2. Len(log) <= Len(log') /\ \A i \in 1..Len(log) : log'[i] = log[i]
  BY Grows
<1>3. n + Len(s) <= Len(log) /\ \A i \in 1..Len(s) : s[i] = log[n + i] /\ n + i \in 1..Len(log)
  BY <1>1 DEF Piece
<1> QED
  BY <1>1, <1>2, <1>3

-----------------------------------------------------------------------------
(* The stream and the page                                                 *)

Behind == DbTypes /\ LogHolds /\ PageTypes /\ StreamHolds /\ TimelineHolds /\ QueryHolds

LEMMA Shapes ==
  ASSUME PageTypes
  PROVE  /\ conn.open \in BOOLEAN /\ conn.cursor \in 0..MaxEvents /\ conn.pending \in Seq(Events)
         /\ page.ok \in BOOLEAN /\ page.last \in 0..MaxEvents /\ page.header \in 0..MaxEvents
         /\ page.timeline \in Seq(Events) /\ Len(page.timeline) \in Nat
         /\ page.source \in {"none", "connecting", "open", "closed"}
         /\ page.status \in {"connecting", "live", "reconnecting", "error"}
         /\ wire \in Seq(Events) /\ Len(wire) \in Nat /\ Len(conn.pending) \in Nat
         /\ query.seen \in 0..MaxEvents /\ query.view \in 0..MaxEvents /\ query.needed \in 0..MaxEvents
         /\ query.fetch \in {"none", "requested", "answered"}
BY DEF PageTypes, Conns, Pages, Queries

LEMMA Blank ==
  /\ NoConn \in Conns /\ NoConn.open = FALSE /\ NoConn.cursor = 0 /\ NoConn.pending = <<>>
  /\ NewPage \in Pages /\ NewPage.ok = FALSE /\ NewPage.source = "none" /\ NewPage.last = 0
  /\ NewPage.header = 0 /\ NewPage.timeline = <<>> /\ NewPage.status = "connecting"
  /\ NewQuery \in Queries /\ NewQuery.fetch = "requested" /\ NewQuery.needed = 0
BY Bounds DEF NoConn, NewPage, NewQuery, Conns, Pages, Queries

LEMMA EmptyPieces ==
  ASSUME NEW n \in Nat, DbTypes
  PROVE  /\ Numbered(<<>>, n) /\ (n <= Len(log) => Piece(<<>>, n)) /\ Len(<<>>) = 0 /\ <<>> \in Seq(Events)
BY DEF Numbered, Piece, DbTypes

(* The page is cleared: nothing seen, nothing on the way.                   *)
LEMMA Cleared ==
  ASSUME Behind, UNCHANGED dbVars, conn' = NoConn, wire' = <<>>,
         page' \in Pages, page'.source # "open", page'.source # "none" => page'.ok,
         page'.header = page'.last, page'.status # "error",
         page'.last = page.last \/ page'.last = 0
  PROVE  StreamHolds' /\ conn' \in Conns /\ wire' \in Seq(Events)
<1>1. /\ Live' = Live /\ log' = log /\ page'.last \in Nat /\ Len(log) \in Nat
      /\ Live => page'.last <= Len(log')
  BY Shapes, Bounds DEF Behind, dbVars, Live, DbTypes, StreamHolds, Pages
<1>2. /\ \A n \in Nat : Numbered(<<>>, n) /\ (n <= Len(log) => Piece(<<>>, n))
      /\ Len(<<>>) = 0 /\ <<>> \in Seq(Events)
  BY EmptyPieces DEF Behind
<1>3. \A n \in Nat : (n <= Len(log) => n + Len(<<>>) <= Len(log') /\ \A i \in 1..Len(<<>>) : <<>>[i] = log'[n + i])
  BY <1>1, <1>2 DEF Piece
<1>4. /\ conn'.open = FALSE /\ conn'.cursor = 0 /\ conn'.pending = <<>> /\ conn' = NoConn /\ wire' = <<>>
      /\ conn' \in Conns
  BY Blank
<1>5. Numbered(wire, page.last)' /\ Numbered(conn.pending, conn.cursor)'
  BY <1>1, <1>2, <1>4 DEF Numbered
<1>6. Live' => page'.last <= Len(log') /\ Piece(wire, page.last)'
  BY <1>1, <1>3, <1>4 DEF Piece
<1>7. Len(wire') <= MaxWire /\ Len(conn'.pending) <= BatchLimit /\ ~conn'.open /\ NoConn' = NoConn
  BY <1>2, <1>4, Bounds DEF NoConn
<1> QED
  BY <1>2, <1>4, <1>5, <1>6, <1>7 DEF StreamHolds

\* s is the timeline t of n received events with e behind them.
Shown(s, t, n, e) ==
  /\ s \in Seq(Events) /\ Len(s) = Least(n + 1, MaxTimeline)
  /\ Len(s) >= 1 /\ s[Len(s)] = e
  /\ \A i \in 1..(Len(s) - 1) :
       /\ n + 1 - Len(s) + i = n - Len(t) + (Len(t) + 1 - Len(s) + i)
       /\ Len(t) + 1 - Len(s) + i \in 1..Len(t)
       /\ s[i] = t[Len(t) + 1 - Len(s) + i]

(* A timeline is the newest part of what was received.                      *)
LEMMA ShowLemma ==
  ASSUME NEW t \in Seq(Events), NEW e \in Events, NEW n \in Nat, Len(t) = Least(n, MaxTimeline)
  PROVE  Shown(Show(t, e), t, n, e)
<1>a. PICK a : a = Append(t, e)
  OBVIOUS
<1>1. /\ a \in Seq(Events) /\ Len(a) = Len(t) + 1 /\ Len(t) \in Nat /\ a[Len(t) + 1] = e
      /\ \A i \in 1..Len(t) : a[i] = t[i]
  BY <1>a, AppendLemma
<1>l. PICK l \in Nat : l = Len(t)
  BY <1>1
<1>k. PICK k : k = Least(n + 1, MaxTimeline)
  OBVIOUS
<1>2. l = (IF n < MaxTimeline THEN n ELSE MaxTimeline) /\ k = (IF n + 1 < MaxTimeline THEN n + 1 ELSE MaxTimeline)
  BY <1>l, <1>k DEF Least
<1>3. k \in Nat /\ k >= 1 /\ k <= l + 1 /\ k >= l /\ k = (IF MaxTimeline < l + 1 THEN MaxTimeline ELSE l + 1)
  BY <1>2, Bounds
<1>j. PICK j \in Nat : j = l + 2 - k
  <2>1. l + 2 - k \in Nat
    BY <1>3
  <2> QED
    BY <2>1
<1>m. PICK m \in Nat : m = l + 1
  OBVIOUS
<1>4. Show(t, e) = SubSeq(a, j, m)
  <2>1. Least(MaxTimeline, Len(a)) = k /\ Len(a) = m
    BY <1>1, <1>l, <1>3, <1>m DEF Least
  <2>2. Len(a) - Least(MaxTimeline, Len(a)) + 1 = j
    BY <1>1, <1>l, <1>3, <2>1, <1>j, <1>m
  <2> QED
    BY <1>a, <2>1, <2>2 DEF Show
<1>5. \A i \in j..m : a[i] \in Events
  BY <1>1, <1>l, <1>3, <1>j, <1>m
<1>6. /\ SubSeq(a, j, m) \in Seq(Events)
      /\ Len(SubSeq(a, j, m)) = IF j <= m THEN m - j + 1 ELSE 0
      /\ \A i \in 1..(m - j + 1) : SubSeq(a, j, m)[i] = a[j + i - 1]
  <2>1. j \in Int /\ m \in Int
    OBVIOUS
  <2> QED
    BY ONLY <1>5, <2>1, SubSeqProperties
<1>7. Show(t, e) \in Seq(Events) /\ Len(Show(t, e)) = k /\ \A i \in 1..k : Show(t, e)[i] = a[l + 1 - k + i]
  <2>1. m - j + 1 = k /\ j <= m /\ \A i \in 1..k : j + i - 1 = l + 1 - k + i
    BY <1>3, <1>j, <1>m
  <2> QED
    BY <1>4, <1>6, <2>1
<1>8. Show(t, e)[k] = e
  BY <1>1, <1>l, <1>3, <1>7
<1>9. ASSUME NEW i \in 1..(k - 1)
      PROVE  /\ n + 1 - k + i = n - l + (l + 1 - k + i) /\ l + 1 - k + i \in 1..l
             /\ Show(t, e)[i] = t[l + 1 - k + i]
  <2>1. l + 1 - k + i \in 1..l /\ i \in 1..k
    BY <1>3
  <2>2. Show(t, e)[i] = a[l + 1 - k + i]
    BY <1>7, <2>1
  <2>3. a[l + 1 - k + i] = t[l + 1 - k + i]
    BY <1>1, <1>l, <2>1
  <2> QED
    BY <1>3, <2>1, <2>2, <2>3
<1> QED
  BY <1>3, <1>7, <1>8, <1>9, <1>l, <1>k DEF Shown

LEMMA FreshQuery ==
  ASSUME NEW q \in Queries, NEW e \in Events
  PROVE  /\ InvalidateQueries(q, e) \in Queries
         /\ \/ InvalidateQueries(q, e) = q
            \/ InvalidateQueries(q, e).fetch = "requested" /\ InvalidateQueries(q, e).needed = e.sequence
<1>1. CASE e.kind \notin Refreshing
  BY <1>1 DEF InvalidateQueries
<1>2. CASE e.kind \in Refreshing
  <2>1. InvalidateQueries(q, e) = [q EXCEPT !.fetch = "requested", !.seen = 0, !.needed = e.sequence]
    BY <1>2 DEF InvalidateQueries
  <2>2. e.sequence \in 0..MaxEvents /\ 0 \in 0..MaxEvents
    BY Bounds, EventFields
  <2> QED
    BY <2>1, <2>2 DEF Queries
<1> QED
  BY <1>1, <1>2

\* The four conjuncts about the browser and its stream.
Browsing == PageTypes /\ StreamHolds /\ TimelineHolds /\ QueryHolds

(* The database moves, the page does not.                                   *)
LEMMA PageRests ==
  ASSUME Behind, LeaseHolds, [Next]_vars, UNCHANGED pageVars
  PROVE  Browsing'
<1>1. UNCHANGED <<conn, wire, page, query>> /\ DbTypes /\ LogHolds
  BY DEF pageVars, Behind
<1>2. PageTypes'
  BY <1>1 DEF Behind, PageTypes
<1>3. ~Live' => Browsing'
  BY <1>1, <1>2 DEF Behind, Browsing, StreamHolds, TimelineHolds, QueryHolds, Numbered, NoConn
<1>4. ASSUME Live' PROVE Browsing'
  <2>1. /\ Live /\ Len(log) <= Len(log') /\ \A i \in 1..Len(log) : log'[i] = log[i]
        /\ Len(log) \in Nat /\ Len(log') \in Nat
    BY <1>1, <1>4, Grows DEF Behind, DbTypes
  <2>2. Piece(wire, page.last)' /\ (conn.open => Piece(conn.pending, conn.cursor)')
    <3>1. /\ page.last \in Nat /\ conn.cursor \in Nat /\ Len(wire) \in Nat /\ Len(conn.pending) \in Nat
          /\ Piece(wire, page.last) /\ conn.open => Piece(conn.pending, conn.cursor)
      BY <2>1, Shapes DEF Behind, StreamHolds
    <3>2. page.last + Len(wire) <= Len(log') /\ \A i \in 1..Len(wire) : wire[i] = log'[page.last + i]
      BY <1>1, <1>4, <2>1, <3>1, PieceStays DEF Behind, StreamHolds
    <3>3. conn.open => /\ conn.cursor + Len(conn.pending) <= Len(log')
                       /\ \A i \in 1..Len(conn.pending) : conn.pending[i] = log'[conn.cursor + i]
      <4>1. ASSUME conn.open PROVE Piece(conn.pending, conn.cursor)
        BY <2>1, <4>1 DEF Behind, StreamHolds
      <4> QED
        BY <1>1, <1>4, <3>1, <4>1, PieceStays
    <3> QED
      BY <1>1, <3>2, <3>3 DEF Piece
  <2>3. page.last <= Len(log') /\ query.needed <= Len(log')
    BY <2>1, Shapes DEF Behind, StreamHolds, QueryHolds
  <2>4. \A i \in 1..Len(page.timeline) : page.timeline[i] = log'[page.last - Len(page.timeline) + i]
    <3>1. /\ page.last \in Nat /\ Len(page.timeline) \in Nat /\ Len(page.timeline) <= page.last
          /\ page.last <= Len(log)
          /\ \A i \in 1..Len(page.timeline) : page.timeline[i] = log[page.last - Len(page.timeline) + i]
      BY <2>1, Shapes, Bounds DEF Behind, TimelineHolds, Least
    <3>2. \A i \in 1..Len(page.timeline) : page.last - Len(page.timeline) + i \in 1..Len(log)
      BY <2>1, <3>1
    <3> QED
      BY <2>1, <3>1, <3>2
  <2>5. StreamHolds'
    BY <1>1, <2>1, <2>2, <2>3 DEF Behind, StreamHolds, Numbered, NoConn
  <2>6. TimelineHolds' /\ QueryHolds'
    BY <1>1, <2>1, <2>3, <2>4 DEF Behind, TimelineHolds, QueryHolds
  <2> QED
    BY <1>2, <2>5, <2>6 DEF Browsing
<1> QED
  BY <1>3, <1>4

LEMMA TimelineStays ==
  ASSUME Behind, UNCHANGED dbVars, page'.last = page.last, page'.timeline = page.timeline
  PROVE  TimelineHolds'
BY DEF Behind, dbVars, TimelineHolds, Live

LEMMA TimelineBlank ==
  ASSUME Behind, UNCHANGED dbVars, page'.last = 0, page'.timeline = <<>>
  PROVE  TimelineHolds'
<1>1. Len(<<>>) = 0 /\ Least(0, MaxTimeline) = 0 /\ 0 <= Len(log')
  BY Bounds DEF Behind, DbTypes, dbVars, Least
<1> QED
  BY <1>1 DEF TimelineHolds

LEMMA QueryStays ==
  ASSUME Behind, UNCHANGED dbVars, query' = query, page'.ok => page.ok
  PROVE  QueryHolds'
BY DEF Behind, dbVars, QueryHolds, Live

LEMMA ConnectStep ==
  ASSUME Behind, Connect
  PROVE  Browsing'
<1>d. UNCHANGED <<dbVars, wire, query>> /\ Live /\ page.source = "connecting" /\ DbTypes /\ LogHolds /\ PageTypes
  BY DEF Connect, Behind
<1>b. PICK b : b = ListRuntimeEvents(page.last, BatchLimit)
  OBVIOUS
<1>0. /\ page.header = page.last /\ page.last \in 0..MaxEvents /\ page.last <= Len(log) /\ ~conn.open
      /\ wire = <<>>  /\ page.ok /\ page.last \in Nat
  <2>1. page.last \in 0..MaxEvents /\ page.last \in Nat
    BY <1>d, Shapes, Bounds
  <2>2. page.header = page.last /\ page.last <= Len(log) /\ ~conn.open /\ wire = <<>> /\ page.ok
    BY <1>d DEF Behind, StreamHolds
  <2> QED
    BY <2>1, <2>2
<1>1. ResolveEventCursor(0, page.header) = page.last
  BY <1>0 DEF ResolveEventCursor
<1>2. conn' = [open |-> TRUE, cursor |-> page.last, pending |-> b]
  BY <1>1, <1>b DEF Connect
<1>3. /\ b \in Seq(Events) /\ Len(b) = Least(BatchLimit, Len(log) - page.last) /\ Piece(b, page.last)
      /\ Numbered(b, page.last)
  BY <1>b, <1>0, <1>d, ListLemma, Bounds
<1>4. Len(b) <= BatchLimit
  <2>1. Len(log) - page.last \in Int
    BY <1>0, <1>d DEF DbTypes
  <2> QED
    BY <1>3, <2>1, Bounds DEF Least
<1>5. conn' \in Conns /\ conn'.open = TRUE /\ conn'.cursor = page.last /\ conn'.pending = b
  BY <1>0, <1>2, <1>3 DEF Conns
<1>6. page' = [page EXCEPT !.source = "open", !.status = "live"] /\ page \in Pages
  BY <1>d DEF Connect, PageTypes
<1>7. /\ page' \in Pages /\ page'.source = "open" /\ page'.status = "live" /\ page'.last = page.last
      /\ page'.header = page.header /\ page'.timeline = page.timeline /\ page'.ok = page.ok
  BY <1>6 DEF Pages
<1>8. PageTypes'
  BY <1>d, <1>5, <1>7 DEF PageTypes
<1>9. StreamHolds'
  <2>1. /\ UNCHANGED <<run, log>> /\ wire' = <<>> /\ Len(<<>>) = 0
        /\ Numbered(<<>>, page.last) /\ Piece(<<>>, page.last)
    BY <1>0, <1>d, EmptyPieces DEF dbVars
  <2>2. Piece(wire, page.last)' /\ Piece(conn.pending, conn.cursor)'
    BY <1>3, <1>5, <1>7, <2>1 DEF Piece
  <2>3. Numbered(wire, page.last)' /\ Numbered(conn.pending, conn.cursor)'
    BY <1>3, <1>5, <1>7, <2>1 DEF Numbered
  <2>4. Len(wire') <= MaxWire /\ conn'.cursor = page'.last + Len(wire') /\ page'.last <= Len(log')
    BY <1>0, <1>5, <1>7, <2>1, Bounds
  <2> QED
    BY <1>0, <1>4, <1>5, <1>7, <2>2, <2>3, <2>4 DEF StreamHolds
<1> QED
  BY <1>d, <1>7, <1>8, <1>9, TimelineStays, QueryStays DEF Browsing

LEMMA YieldStep ==
  ASSUME Behind, YieldEvent
  PROVE  Browsing'
<1>d. /\ UNCHANGED <<dbVars, page, query>> /\ conn.open /\ conn.pending # <<>> /\ Len(wire) < MaxWire
      /\ DbTypes /\ LogHolds /\ PageTypes
  BY DEF YieldEvent, Behind
<1>e. PICK e : e = Head(conn.pending)
  OBVIOUS
<1>t. PICK t : t = Tail(conn.pending)
  OBVIOUS
<1>0. /\ conn.cursor = page.last + Len(wire) /\ conn.cursor \in Nat /\ page.last \in Nat /\ Len(wire) \in Nat
      /\ conn.pending \in Seq(Events) /\ wire \in Seq(Events) /\ Numbered(conn.pending, conn.cursor)
      /\ Numbered(wire, page.last) /\ page.source = "open"
      /\ Len(conn.pending) <= BatchLimit /\ log \in Seq(Events) /\ Len(log) \in Nat
  <2>1. /\ conn.cursor \in Nat /\ page.last \in Nat /\ Len(wire) \in Nat
        /\ conn.pending \in Seq(Events) /\ wire \in Seq(Events)
    BY <1>d, Shapes, Bounds
  <2>2. /\ conn.cursor = page.last + Len(wire) /\ Numbered(conn.pending, conn.cursor)
        /\ Numbered(wire, page.last) /\ page.source = "open" /\ Len(conn.pending) <= BatchLimit
    BY <1>d DEF Behind, StreamHolds
  <2>3. log \in Seq(Events) /\ Len(log) \in Nat
    BY <1>d DEF DbTypes
  <2> QED
    BY <2>1, <2>2, <2>3
<1>n. PICK L \in Nat, W \in Nat : L = page.last /\ W = Len(wire) /\ conn.cursor = L + W
  BY <1>0
<1>1. /\ e \in Events /\ t \in Seq(Events) /\ Len(t) = Len(conn.pending) - 1 /\ Len(conn.pending) >= 1
      /\ e.sequence = conn.cursor + 1 /\ Numbered(t, conn.cursor + 1)
  BY <1>d, <1>e, <1>t, <1>0, TailLemma
<1>2. Live => /\ Piece(wire, page.last) /\ page.last <= Len(log)
              /\ conn.cursor + 1 <= Len(log) /\ e = log[conn.cursor + 1] /\ Piece(t, conn.cursor + 1)
  BY <1>d, <1>e, <1>t, <1>0, TailLemma DEF Behind, StreamHolds
<1>3. conn' = [open |-> TRUE, cursor |-> conn.cursor + 1, pending |-> t] /\ wire' = Append(wire, e)
  <2>1. conn' = [conn EXCEPT !.pending = t, !.cursor = e.sequence] /\ conn \in Conns /\ wire' = Append(wire, e)
    BY <1>d, <1>e, <1>t DEF YieldEvent, PageTypes
  <2> QED
    BY <1>1, <1>d, <2>1 DEF Conns
<1>4. conn.cursor + 1 \in 0..MaxEvents
  BY <1>0, <1>1, EventFields
<1>5. conn' \in Conns /\ conn'.open = TRUE /\ conn'.cursor = conn.cursor + 1 /\ conn'.pending = t
  BY <1>1, <1>3, <1>4 DEF Conns
<1>6. /\ wire' \in Seq(Events) /\ Len(wire') = Len(wire) + 1 /\ wire'[Len(wire) + 1] = e
      /\ \A i \in 1..Len(wire) : wire'[i] = wire[i]
  BY <1>0, <1>1, <1>3, AppendLemma
<1>7. PageTypes'
  BY <1>d, <1>5, <1>6 DEF PageTypes
<1>8. \A i \in 1..Len(wire') : i \in 1..Len(wire) \/ i = Len(wire) + 1
  BY <1>0, <1>6
<1>9. StreamHolds'
  <2>1. UNCHANGED <<run, log, page>> /\ Live' = Live
    BY <1>d DEF dbVars, Live
  <2>2. Numbered(wire, page.last)'
    <3>1. \A i \in 1..Len(wire') : wire'[i].sequence = page.last + i
      <4>1. \A i \in 1..W : wire'[i].sequence = L + i
        BY <1>0, <1>6, <1>n DEF Numbered
      <4>2. wire'[W + 1].sequence = L + (W + 1)
        <5>1. conn.cursor + 1 = L + (W + 1)
          BY <1>n
        <5> QED
          BY <1>1, <1>6, <1>n, <5>1
      <4> QED
        BY <1>8, <1>n, <4>1, <4>2
    <3> QED
      BY <2>1, <3>1 DEF Numbered
  <2>3. Numbered(conn.pending, conn.cursor)'
    BY <1>1, <1>5 DEF Numbered
  <2>4. Live => Piece(wire, page.last)'
    <3>1. ASSUME Live
          PROVE  page.last + Len(wire') <= Len(log) /\ \A i \in 1..Len(wire') : wire'[i] = log[page.last + i]
      <4>1. L + W + 1 <= Len(log) /\ Len(wire') = W + 1
        BY <1>2, <1>6, <1>n, <3>1
      <4>2. \A i \in 1..W : wire'[i] = log[L + i]
        BY <1>2, <1>6, <1>n, <3>1 DEF Piece
      <4>3. wire'[W + 1] = log[L + (W + 1)]
        <5>1. conn.cursor + 1 = L + (W + 1)
          BY <1>n
        <5> QED
          BY <1>2, <1>6, <1>n, <3>1, <5>1
      <4>4. L + (W + 1) <= Len(log)
        BY <4>1, <1>0
      <4> QED
        BY <1>8, <1>n, <4>1, <4>2, <4>3, <4>4
    <3> QED
      BY <2>1, <3>1 DEF Piece
  <2>5. Live => Piece(conn.pending, conn.cursor)'
    BY <1>2, <1>5, <2>1 DEF Piece
  <2>6. Len(wire') <= MaxWire /\ conn'.cursor = page'.last + Len(wire') /\ Len(conn'.pending) <= BatchLimit
    <3>1. conn'.cursor = page'.last + Len(wire')
      BY <1>5, <1>6, <1>n, <2>1
    <3>2. Len(wire') <= MaxWire
      BY <1>6, <1>n, <1>d, Bounds
    <3>3. Len(conn'.pending) <= BatchLimit
      <4>1. PICK k \in Nat : k = Len(conn.pending)
        BY <1>0
      <4> QED
        BY <1>0, <1>1, <1>5, <4>1, Bounds
    <3> QED
      BY <3>1, <3>2, <3>3
  <2> QED
    BY <1>0, <1>2, <1>5, <2>1, <2>2, <2>3, <2>4, <2>5, <2>6 DEF Behind, StreamHolds
<1> QED
  BY <1>d, <1>7, <1>9, TimelineStays, QueryStays DEF Browsing

LEMMA PollStep ==
  ASSUME Behind, PollEvents
  PROVE  Browsing'
<1>d. /\ UNCHANGED <<dbVars, wire, page, query>> /\ conn.open /\ Live
      /\ DbTypes /\ LogHolds /\ PageTypes
  BY DEF PollEvents, Behind
<1>b. PICK b : b = ListRuntimeEvents(conn.cursor, BatchLimit)
  OBVIOUS
<1>0. /\ conn.cursor \in Nat /\ conn.cursor = page.last + Len(wire) /\ conn.cursor <= Len(log)
      /\ conn.cursor \in 0..MaxEvents /\ Len(log) \in Nat
  <2>1. conn.cursor \in 0..MaxEvents /\ conn.cursor \in Nat
    BY <1>d, Shapes, Bounds
  <2>2. conn.cursor = page.last + Len(wire) /\ Piece(wire, page.last)
    BY <1>d DEF Behind, StreamHolds
  <2> QED
    BY <1>d, <2>1, <2>2 DEF Piece, DbTypes
<1>1. /\ b \in Seq(Events) /\ Len(b) = Least(BatchLimit, Len(log) - conn.cursor) /\ Piece(b, conn.cursor)
      /\ Numbered(b, conn.cursor)
  BY <1>b, <1>0, <1>d, ListLemma, Bounds
<1>2. Len(b) <= BatchLimit
  <2>1. Len(log) - conn.cursor \in Int
    BY <1>0
  <2> QED
    BY <1>1, <2>1, Bounds DEF Least
<1>3. conn' = [open |-> TRUE, cursor |-> conn.cursor, pending |-> b]
  <2>1. conn' = [conn EXCEPT !.pending = b] /\ conn \in Conns
    BY <1>b, <1>d DEF PollEvents, PageTypes
  <2> QED
    BY <2>1, <1>d DEF Conns
<1>4. conn' \in Conns /\ conn'.open = TRUE /\ conn'.cursor = conn.cursor /\ conn'.pending = b
  BY <1>0, <1>1, <1>3 DEF Conns
<1>5. PageTypes'
  BY <1>d, <1>4 DEF PageTypes
<1>6. StreamHolds'
  <2>1. UNCHANGED <<run, log, page, wire>> /\ Live' = Live
    BY <1>d DEF dbVars, Live
  <2>2. Numbered(wire, page.last)' /\ Numbered(conn.pending, conn.cursor)'
    BY <1>1, <1>4, <2>1 DEF Numbered, Behind, StreamHolds
  <2>3. Piece(wire, page.last)' /\ Piece(conn.pending, conn.cursor)'
    BY <1>1, <1>4, <1>d, <2>1 DEF Piece, Behind, StreamHolds
  <2> QED
    BY <1>2, <1>4, <1>d, <2>1, <2>2, <2>3 DEF Behind, StreamHolds
<1> QED
  BY <1>d, <1>5, <1>6, TimelineStays, QueryStays DEF Browsing

(* The next event of the wire is always the one the page waits for: it is   *)
(* shown, and neither repeated nor refused.                                 *)
LEMMA DeliverStep ==
  ASSUME Behind, Deliver
  PROVE  Browsing'
<1>d. /\ UNCHANGED dbVars /\ page.source = "open" /\ wire # <<>>
      /\ DbTypes /\ LogHolds /\ PageTypes
  BY DEF Deliver, Behind
<1>e. PICK e : e = Head(wire)
  OBVIOUS
<1>t. PICK t : t = Tail(wire)
  OBVIOUS
<1>0. /\ conn.cursor = page.last + Len(wire) /\ conn.cursor \in Nat /\ page.last \in Nat /\ Len(wire) \in Nat
      /\ conn.pending \in Seq(Events) /\ wire \in Seq(Events) /\ Numbered(conn.pending, conn.cursor)
      /\ Numbered(wire, page.last) /\ conn.open /\ Len(wire) <= MaxWire /\ page.ok
      /\ Len(conn.pending) <= BatchLimit /\ log \in Seq(Events) /\ Len(log) \in Nat
      /\ conn \in Conns /\ page \in Pages /\ query \in Queries
  <2>1. /\ conn.cursor \in Nat /\ page.last \in Nat /\ Len(wire) \in Nat
        /\ conn.pending \in Seq(Events) /\ wire \in Seq(Events)
    BY <1>d, Shapes, Bounds
  <2>2. /\ conn.cursor = page.last + Len(wire) /\ Numbered(conn.pending, conn.cursor) /\ conn.open
        /\ Numbered(wire, page.last) /\ Len(wire) <= MaxWire /\ page.ok /\ Len(conn.pending) <= BatchLimit
    BY <1>d DEF Behind, StreamHolds
  <2>3. log \in Seq(Events) /\ Len(log) \in Nat
    BY <1>d DEF DbTypes
  <2> QED
    BY <1>d, <2>1, <2>2, <2>3 DEF PageTypes
<1>1. /\ e \in Events /\ t \in Seq(Events) /\ Len(t) = Len(wire) - 1 /\ Len(wire) >= 1
      /\ e.sequence = page.last + 1 /\ Numbered(t, page.last + 1) /\ e.sequence \in 1..MaxEvents
  BY <1>d, <1>e, <1>t, <1>0, TailLemma, EventFields
<1>2. Live => /\ page.last + 1 <= Len(log) /\ e = log[page.last + 1] /\ Piece(t, page.last + 1)
  BY <1>d, <1>e, <1>t, <1>0, TailLemma DEF Behind, StreamHolds
<1>s. PICK s : s = Show(page.timeline, e)
  OBVIOUS
<1>3. /\ page' = [page EXCEPT !.last = e.sequence, !.header = e.sequence, !.timeline = s, !.status = "live"]
      /\ query' = InvalidateQueries(query, e)
  BY <1>1, <1>e, <1>s DEF Deliver
<1>4. page.timeline \in Seq(Events) /\ Len(page.timeline) = Least(page.last, MaxTimeline)
  BY <1>d, Shapes DEF Behind, TimelineHolds
<1>5. s \in Seq(Events)
  BY <1>0, <1>1, <1>4, <1>s, ShowLemma DEF Shown
<1>6. /\ page' \in Pages /\ page'.last = e.sequence /\ page'.header = e.sequence /\ page'.timeline = s
      /\ page'.status = "live" /\ page'.source = "open" /\ page'.ok = page.ok
  <2>1. e.sequence \in 0..MaxEvents
    BY <1>1
  <2> QED
    BY <1>0, <1>3, <1>5, <1>d, <2>1 DEF Pages
<1>7. conn' = conn /\ wire' = t
  BY <1>6, <1>t DEF Deliver
<1>8. PageTypes'
  BY <1>0, <1>1, <1>3, <1>6, <1>7, FreshQuery DEF PageTypes
<1>9. UNCHANGED <<run, log>> /\ Live' = Live
  BY <1>d DEF dbVars, Live
<1>10. StreamHolds'
  <2>1. Numbered(wire, page.last)' /\ Numbered(conn.pending, conn.cursor)'
    BY <1>0, <1>1, <1>6, <1>7 DEF Numbered
  <2>2. Live => Piece(wire, page.last)' /\ page'.last <= Len(log')
    BY <1>1, <1>2, <1>6, <1>7, <1>9 DEF Piece
  <2>3. Live => Piece(conn.pending, conn.cursor)'
    BY <1>0, <1>7, <1>9 DEF Piece, Behind, StreamHolds
  <2>4. conn'.cursor = page'.last + Len(wire') /\ Len(wire') <= MaxWire
    <3>1. PICK W \in Nat, L \in Nat : W = Len(wire) /\ L = page.last
      BY <1>0
    <3>2. conn'.cursor = L + W /\ Len(wire') = W - 1 /\ page'.last = L + 1
      BY <1>0, <1>1, <1>6, <1>7, <3>1
    <3>3. W <= MaxWire /\ L + W = (L + 1) + (W - 1)
      BY <1>0, <3>1
    <3> QED
      BY <3>1, <3>2, <3>3, Bounds
  <2> QED
    BY <1>0, <1>6, <1>7, <1>9, <2>1, <2>2, <2>3, <2>4 DEF StreamHolds
<1>11. TimelineHolds'
  <2>1. PICK L \in Nat, T \in Nat, K \in Nat : L = page.last /\ T = Len(page.timeline) /\ K = Len(s)
    BY <1>0, <1>4, <1>5
  <2>2. /\ K = Least(L + 1, MaxTimeline) /\ K >= 1 /\ s[K] = e
        /\ \A i \in 1..(K - 1) : /\ L + 1 - K + i = L - T + (T + 1 - K + i)
                                 /\ T + 1 - K + i \in 1..T
                                 /\ s[i] = page.timeline[T + 1 - K + i]
    <3>1. /\ Len(s) = Least(page.last + 1, MaxTimeline) /\ Len(s) >= 1 /\ s[Len(s)] = e
          /\ \A i \in 1..(Len(s) - 1) :
               /\ page.last + 1 - Len(s) + i =
                    page.last - Len(page.timeline) + (Len(page.timeline) + 1 - Len(s) + i)
               /\ Len(page.timeline) + 1 - Len(s) + i \in 1..Len(page.timeline)
               /\ s[i] = page.timeline[Len(page.timeline) + 1 - Len(s) + i]
      <4>1. Shown(s, page.timeline, page.last, e)
        BY <1>0, <1>1, <1>4, <1>s, ShowLemma
      <4> QED
        BY <4>1 DEF Shown
    <3> QED
      BY <2>1, <3>1
  <2>3. page'.last = L + 1 /\ Len(page'.timeline) = K /\ page'.timeline = s
    BY <1>1, <1>6, <2>1
  <2>4. ASSUME Live PROVE \A i \in 1..K : s[i] = log[L + 1 - K + i]
    <3>1. \A j \in 1..T : page.timeline[j] = log[L - T + j]
      BY <2>1, <2>4 DEF Behind, TimelineHolds
    <3>2. ASSUME NEW i \in 1..(K - 1) PROVE s[i] = log[L + 1 - K + i]
      <4>j. PICK j : j = T + 1 - K + i
        OBVIOUS
      <4>1. j \in 1..T /\ s[i] = page.timeline[j] /\ L + 1 - K + i = L - T + j
        BY <2>2, <3>2, <4>j
      <4> QED
        BY <3>1, <4>1
    <3>3. s[K] = log[L + 1 - K + K]
      <4>1. L + 1 - K + K = L + 1
        OBVIOUS
      <4> QED
        BY <1>2, <2>1, <2>2, <2>4, <4>1
    <3>4. \A i \in 1..K : i \in 1..(K - 1) \/ i = K
      OBVIOUS
    <3> QED
      BY <3>2, <3>3, <3>4
  <2>5. Live => L + 1 <= Len(log)
    BY <1>2, <2>1
  <2> QED
    BY <1>9, <2>2, <2>3, <2>4, <2>5 DEF TimelineHolds
<1>12. QueryHolds'
  <2>1. \/ query' = query
        \/ query'.fetch = "requested" /\ query'.needed = e.sequence
    BY <1>0, <1>1, <1>3, FreshQuery
  <2>2. Live => e.sequence <= Len(log)
    BY <1>1, <1>2
  <2> QED
    BY <1>6, <1>9, <2>1, <2>2 DEF Behind, QueryHolds
<1> QED
  BY <1>8, <1>10, <1>11, <1>12 DEF Browsing

LEMMA QueryStep ==
  ASSUME Behind, QueryServed \/ QueryReceived
  PROVE  Browsing'
<1>d. UNCHANGED <<dbVars, conn, wire>> /\ DbTypes /\ LogHolds /\ PageTypes /\ query \in Queries /\ page \in Pages
  BY DEF QueryServed, QueryReceived, Behind, PageTypes
<1>9. UNCHANGED <<run, log>> /\ Live' = Live
  BY <1>d DEF dbVars, Live
<1>1. CASE QueryServed
  <2>1. query' = [query EXCEPT !.fetch = "answered", !.seen = Len(log)] /\ page' = page /\ Live
    BY <1>1 DEF QueryServed
  <2>2. Len(log) \in 0..MaxEvents
    BY <1>d, Bounds DEF DbTypes, LogHolds
  <2>3. /\ query' \in Queries /\ query'.fetch = "answered" /\ query'.seen = Len(log)
        /\ query'.needed = query.needed
    BY <1>d, <2>1, <2>2 DEF Queries
  <2>4. PageTypes'
    BY <1>d, <2>1, <2>3 DEF PageTypes
  <2>5. StreamHolds' /\ TimelineHolds'
    BY <1>9, <1>d, <2>1 DEF Behind, StreamHolds, TimelineHolds, Numbered, Piece, NoConn
  <2>6. QueryHolds'
    BY <1>9, <2>1, <2>3 DEF Behind, QueryHolds
  <2> QED
    BY <2>4, <2>5, <2>6 DEF Browsing
<1>2. CASE QueryReceived
  <2>1. /\ query' = [query EXCEPT !.fetch = "none", !.view = query.seen, !.seen = 0]
        /\ query.fetch = "answered"
        /\ page' = IF page.ok THEN page ELSE [NewPage EXCEPT !.ok = TRUE, !.source = "connecting"]
    BY <1>2 DEF QueryReceived
  <2>2. query.seen \in 0..MaxEvents /\ 0 \in 0..MaxEvents
    BY <1>d, Shapes, Bounds
  <2>3. query' \in Queries /\ query'.fetch = "none" /\ query'.view = query.seen /\ query'.needed = query.needed
    BY <1>d, <2>1, <2>2 DEF Queries
  <2>4. QueryHolds'
    BY <1>9, <2>1, <2>3 DEF Behind, QueryHolds
  <2>5. CASE page.ok
    <3>1. page' = page
      BY <2>1, <2>5
    <3>2. PageTypes'
      BY <1>d, <2>3, <3>1 DEF PageTypes
    <3>3. StreamHolds' /\ TimelineHolds'
      BY <1>9, <1>d, <3>1 DEF Behind, StreamHolds, TimelineHolds, Numbered, Piece, NoConn
    <3> QED
      BY <2>4, <3>2, <3>3 DEF Browsing
  <2>6. CASE ~page.ok
    <3>1. /\ page' \in Pages /\ page'.ok = TRUE /\ page'.source = "connecting" /\ page'.last = 0
          /\ page'.header = 0 /\ page'.timeline = <<>> /\ page'.status = "connecting"
      <4>1. page' = [NewPage EXCEPT !.ok = TRUE, !.source = "connecting"]
        BY <2>1, <2>6
      <4> QED
        BY <4>1, Blank DEF Pages
    <3>2. conn' = NoConn /\ wire' = <<>>
      BY <1>d, <2>6 DEF Behind, StreamHolds
    <3>3. StreamHolds' /\ conn' \in Conns /\ wire' \in Seq(Events)
      BY <1>d, <3>1, <3>2, Cleared
    <3>4. PageTypes'
      BY <2>3, <3>1, <3>3 DEF PageTypes
    <3> QED
      BY <1>d, <2>4, <3>1, <3>3, <3>4, TimelineBlank DEF Browsing
  <2> QED
    BY <2>5, <2>6
<1> QED
  BY <1>1, <1>2

LEMMA DisturbStep ==
  ASSUME Behind, Disturb
  PROVE  Browsing'
<1>d. UNCHANGED dbVars /\ PageTypes /\ page \in Pages /\ query \in Queries
  BY DEF Disturb, ConnectRefused, BreakConnection, QueryFails, Reload, Behind, PageTypes
<1>9. Live' = Live /\ log' = log
  BY <1>d DEF dbVars, Live
<1>1. CASE ConnectRefused \/ BreakConnection
  <2>1. conn' = NoConn /\ wire' = <<>> /\ query' = query
    BY <1>1 DEF ConnectRefused, BreakConnection, Behind, StreamHolds
  <2>2. page.source # "none" /\ page.ok /\ page.header = page.last
    <3>1. page.source # "none"
      BY <1>1 DEF ConnectRefused, BreakConnection, Behind, StreamHolds
    <3> QED
      BY <3>1 DEF Behind, StreamHolds
  <2>3. \E s \in {"closed", "connecting"} : page' = [page EXCEPT !.source = s, !.status = "reconnecting"]
    BY <1>1 DEF ConnectRefused, BreakConnection
  <2>4. /\ page' \in Pages /\ page'.source \in {"closed", "connecting"} /\ page'.status = "reconnecting"
        /\ page'.last = page.last /\ page'.header = page.header /\ page'.timeline = page.timeline
        /\ page'.ok = page.ok
    BY <1>d, <2>3 DEF Pages
  <2>5. StreamHolds' /\ conn' \in Conns /\ wire' \in Seq(Events)
    BY <1>d, <2>1, <2>2, <2>4, Cleared
  <2>6. PageTypes'
    BY <1>d, <2>1, <2>4, <2>5 DEF PageTypes
  <2> QED
    BY <1>d, <2>1, <2>4, <2>5, <2>6, TimelineStays, QueryStays DEF Browsing
<1>2. CASE QueryFails \/ Reload
  <2>1. conn' = NoConn /\ wire' = <<>>
    BY <1>2 DEF QueryFails, Reload
  <2>2. /\ page' \in Pages /\ page'.source = "none" /\ page'.status = "connecting" /\ page'.last = 0
        /\ page'.header = 0 /\ page'.timeline = <<>> /\ page'.ok = FALSE
    <3>1. page' = NewPage \/ page' = [NewPage EXCEPT !.failed = TRUE]
      BY <1>2 DEF QueryFails, Reload
    <3> QED
      BY <3>1, Blank DEF Pages
  <2>3. query' \in Queries /\ query'.fetch # "answered" /\ (query'.needed = query.needed \/ query'.needed = 0)
    BY <1>2, <1>d, Bounds DEF QueryFails, Reload, NewQuery, Queries
  <2>4. StreamHolds' /\ conn' \in Conns /\ wire' \in Seq(Events)
    BY <1>d, <2>1, <2>2, Cleared
  <2>5. PageTypes'
    BY <2>2, <2>3, <2>4 DEF PageTypes
  <2>6. Live => query'.needed <= Len(log)
    BY <2>3 DEF Behind, QueryHolds, DbTypes
  <2>7. QueryHolds'
    BY <1>9, <2>2, <2>3, <2>6 DEF QueryHolds
  <2> QED
    BY <1>d, <2>2, <2>4, <2>5, <2>7, TimelineBlank DEF Browsing
<1> QED
  BY <1>1, <1>2 DEF Disturb

LEMMA PageStep ==
  ASSUME Inv, [Next]_vars
  PROVE  Browsing'
<1>1. Behind /\ LeaseHolds
  BY DEF Inv, Behind
<1>2. CASE ConnectRefused \/ BreakConnection \/ QueryFails \/ Reload
  BY <1>1, <1>2, DisturbStep DEF Disturb
<1> QED
  BY <1>1, <1>2, Writers, PageRests, ConnectStep, YieldStep, PollStep, DeliverStep, QueryStep

-----------------------------------------------------------------------------
(* Metrics and trace                                                       *)

LEMMA CountStep ==
  ASSUME CountTypes, [Next]_vars
  PROVE  CountTypes'
<1>1. faults \in 0..MaxFaults /\ reads \in 0..MaxReads
  BY DEF CountTypes
<1>2. faults' = faults \/ (faults < MaxFaults /\ faults' = faults + 1)
  <2>1. CASE Write
    BY <2>1 DEF Write, BeginAttempt, AcquireTaskLease, RenewTaskLease, ReleaseTaskLease, AppendEvidence,
                FinalizeRun, Begin, Commit, Rollback, ExpireLease, DeleteRun
  <2>2. CASE Stream
    BY <2>2 DEF Stream, Connect, YieldEvent, PollEvents, Deliver, QueryServed, QueryReceived
  <2>3. CASE Disturb
    BY <2>3 DEF Disturb, ConnectRefused, BreakConnection, QueryFails, Reload
  <2>4. CASE Read
    BY <2>4 DEF Read, StartRead, ReadPage, AggregateRuntimeEvents, Project, ReadGone
  <2>5. CASE UNCHANGED vars
    BY <2>5 DEF vars
  <2> QED
    BY <2>1, <2>2, <2>3, <2>4, <2>5 DEF Next
<1>3. reads' = reads \/ (reads < MaxReads /\ reads' = reads + 1)
  BY Writers DEF StartRead, ReadPage, AggregateRuntimeEvents, Project, ReadGone
<1> QED
  BY <1>1, <1>2, <1>3, Bounds DEF CountTypes

LEMMA ReaderShape ==
  ASSUME ReaderHolds
  PROVE  /\ reader \in Readers /\ reader.events \in Seq(Events) /\ Len(reader.events) \in Nat
         /\ reader.snapshot \in Seq(Rows) /\ Len(reader.snapshot) \in Nat
         /\ reader.started \in 0..MaxEvents /\ reader.cursor \in 0..MaxEvents
         /\ reader.phase \in {"idle", "paging", "read"} /\ reader.kind \in {"none", "metrics", "trace"}
         /\ reader.result \in {"none", "ok", "corrupt", "unavailable", "gone"}
BY DEF ReaderHolds, Readers

LEMMA Idle ==
  /\ NoReader \in Readers /\ NoReader.phase = "idle" /\ NoReader.events = <<>> /\ NoReader.cursor = 0
  /\ NoReader.result = "none" /\ Len(<<>>) = 0 /\ <<>> \in Seq(Events)
BY Bounds DEF NoReader, Readers

(* A call that ends leaves its result and nothing else.                     *)
LEMMA AnswerLemma ==
  ASSUME UNCHANGED dbVars, NEW r \in {"ok", "corrupt", "unavailable", "gone"}, reader' = Answer(r),
         r = "unavailable" /\ Live => Len(log) > MaxScan,
         r = "corrupt" => ~Live
  PROVE  ReaderHolds'
<1>1. reader' = [NoReader EXCEPT !.result = r]
  BY DEF Answer
<1>2. reader' \in Readers /\ reader'.phase = "idle" /\ reader'.events = <<>> /\ reader'.result = r
  BY <1>1, Idle DEF Readers
<1>3. Len(reader'.events) <= MaxScan
  BY <1>2, Idle, Bounds
<1> QED
  BY <1>2, <1>3 DEF ReaderHolds, dbVars, Live

LEMMA ReaderRests ==
  ASSUME DbTypes, LogHolds, LeaseHolds, ReaderHolds, [Next]_vars, UNCHANGED reader
  PROVE  ReaderHolds'
<1>1. CASE ~Live'
  <2>1. reader'.phase = "read" => Len(reader'.events) >= reader'.started
    BY DEF ReaderHolds
  <2> QED
    BY <1>1, <2>1 DEF ReaderHolds
<1>2. CASE Live'
  <2>1. /\ Live /\ Len(log) <= Len(log') /\ Len(log) \in Nat /\ Len(log') \in Nat
        /\ Len(evidence) <= Len(evidence') /\ \A i \in 1..Len(evidence) : evidence'[i] = evidence[i]
        /\ Len(evidence) \in Nat /\ Len(evidence') \in Nat
    BY <1>2, Grows DEF DbTypes
  <2>2. reader.phase # "idle" => Piece(reader.events, 0)'
    <3>1. ASSUME reader.phase # "idle" PROVE Piece(reader.events, 0)'
      <4>1. Piece(reader.events, 0) /\ Len(reader.events) \in Nat
        BY <2>1, <3>1, ReaderShape DEF ReaderHolds
      <4>2. /\ 0 + Len(reader.events) <= Len(log')
            /\ \A i \in 1..Len(reader.events) : reader.events[i] = log'[0 + i]
        BY <1>2, <4>1, PieceStays
      <4> QED
        BY <4>2 DEF Piece
    <3> QED
      BY <3>1
  <2>3. reader.phase # "idle" =>
          /\ reader.started <= Len(log') /\ Len(reader.snapshot) <= Len(evidence')
          /\ \A i \in 1..Len(reader.snapshot) : reader.snapshot[i] = evidence'[i]
    BY <2>1, ReaderShape DEF ReaderHolds
  <2>4. reader.result = "unavailable" => Len(log') > MaxScan
    BY <2>1, Bounds DEF ReaderHolds
  <2> QED
    BY <1>2, <2>1, <2>2, <2>3, <2>4 DEF ReaderHolds
<1> QED
  BY <1>1, <1>2

LEMMA StartStep ==
  ASSUME DbTypes, LogHolds, NEW kind \in {"metrics", "trace"}, StartRead(kind)
  PROVE  ReaderHolds'
<1>1. /\ reader' = [NoReader EXCEPT !.kind = kind, !.phase = "paging", !.snapshot = evidence, !.started = Len(log)]
      /\ UNCHANGED dbVars
  BY DEF StartRead
<1>2. Len(log) \in 0..MaxEvents /\ evidence \in Seq(Rows) /\ Len(log) \in Nat /\ Len(evidence) \in Nat
  BY Bounds DEF DbTypes, LogHolds
<1>3. /\ reader' \in Readers /\ reader'.phase = "paging" /\ reader'.snapshot = evidence /\ reader'.events = <<>>
      /\ reader'.started = Len(log) /\ reader'.cursor = 0 /\ reader'.result = "none"
  BY <1>1, <1>2, Idle DEF Readers
<1>4. Piece(reader.events, 0)' /\ Len(reader'.events) = 0
  BY <1>1, <1>2, <1>3, Idle DEF Piece, dbVars
<1> QED
  BY <1>1, <1>2, <1>3, <1>4, Bounds DEF ReaderHolds, dbVars

(* A page of the scan continues the beginning that was read so far; a short *)
(* one reaches the end of the log, which held everything committed before.  *)
LEMMA PagingStep ==
  ASSUME DbTypes, LogHolds, ReaderHolds, ReadPage
  PROVE  ReaderHolds'
<1>d. /\ UNCHANGED dbVars /\ Live /\ Live' /\ reader.phase = "paging" /\ UNCHANGED <<log, evidence>>
      /\ log \in Seq(Events) /\ Len(log) \in Nat /\ Len(log) <= MaxEvents
  BY DEF ReadPage, dbVars, Live, DbTypes, LogHolds
<1>n. PICK n \in Nat : n = Len(reader.events)
  BY ReaderShape
<1>0. /\ reader.cursor = n /\ n <= MaxScan /\ n <= Len(log) /\ Piece(reader.events, 0)
      /\ reader.started <= Len(log) /\ reader.result = "none"
  BY <1>d, <1>n DEF ReaderHolds, Piece
<1>1. CASE n = MaxScan
  <2>1. /\ Len(ListRuntimeEvents(n, 1)) = Least(1, Len(log) - n)
        /\ ListRuntimeEvents(n, 1) \in Seq(Events)
    BY <1>d, <1>0, ListLemma
  <2>2. reader' = IF ListRuntimeEvents(n, 1) # <<>> THEN Answer("unavailable") ELSE [reader EXCEPT !.phase = "read"]
    BY <1>0, <1>1, <1>n DEF ReadPage
  <2>3. CASE ListRuntimeEvents(n, 1) # <<>>
    <3>1. Len(ListRuntimeEvents(n, 1)) # 0
      BY <2>1, <2>3
    <3>2. Len(log) > MaxScan
      <4>1. PICK k \in Nat : k = Len(log)
        BY <1>d
      <4>2. k - n # 0
        BY <1>0, <2>1, <3>1, <4>1 DEF Least
      <4> QED
        BY <1>0, <1>1, <4>1, <4>2, Bounds
    <3> QED
      BY <1>d, <2>2, <2>3, <3>2, AnswerLemma
  <2>4. CASE ListRuntimeEvents(n, 1) = <<>>
    <3>1. Len(ListRuntimeEvents(n, 1)) = 0
      BY <2>4
    <3>2. Len(log) = n
      <4>1. PICK k \in Nat : k = Len(log)
        BY <1>d
      <4>2. k <= n
        <5>1. (IF 1 < k - n THEN 1 ELSE k - n) = 0
          BY <2>1, <3>1, <4>1 DEF Least
        <5> QED
          BY <4>1, <5>1
      <4> QED
        BY <1>0, <4>1, <4>2
    <3>3. reader' = [reader EXCEPT !.phase = "read"] /\ reader \in Readers
      BY <2>2, <2>4, ReaderShape
    <3>4. /\ reader' \in Readers /\ reader'.phase = "read" /\ reader'.events = reader.events
          /\ reader'.snapshot = reader.snapshot /\ reader'.started = reader.started
          /\ reader'.cursor = reader.cursor /\ reader'.result = reader.result
      BY <3>3 DEF Readers
    <3>5. Piece(reader.events, 0)'
      BY <1>0, <1>d, <3>4 DEF Piece
    <3>6. Len(reader'.events) >= reader'.started
      BY <1>0, <1>n, <3>2, <3>4
    <3> QED
      BY <1>0, <1>d, <1>n, <3>4, <3>5, <3>6 DEF ReaderHolds
  <2> QED
    BY <2>3, <2>4
<1>2. CASE n # MaxScan
  <2>l. PICK l \in Nat : l = PageLimit /\ n + l <= MaxScan /\ l >= 1
    <3>1. PageLimit = IF PageSize < MaxScan - n THEN PageSize ELSE MaxScan - n
      BY <1>n DEF PageLimit, Least
    <3>2. PageLimit \in Nat /\ n + PageLimit <= MaxScan /\ PageLimit >= 1
      BY <1>0, <1>2, <3>1, Bounds
    <3> QED
      BY <3>2
  <2>b. PICK b : b = ListRuntimeEvents(n, l)
    OBVIOUS
  <2>1. b \in Seq(Events) /\ Len(b) = Least(l, Len(log) - n) /\ Piece(b, n) /\ Numbered(b, n) /\ Len(b) \in Nat
    <3>1. b \in Seq(Events) /\ Len(b) = Least(l, Len(log) - n) /\ Piece(b, n) /\ Numbered(b, n)
      BY <1>d, <1>0, <2>b, ListLemma
    <3>2. Len(b) \in Nat
      BY <3>1
    <3> QED
      BY <3>1, <3>2
  <2>m. PICK m \in Nat : m = Len(b)
    BY <2>1
  <2>2. m <= l /\ n + m <= Len(log) /\ (m < l => n + m = Len(log))
    <3>1. PICK k \in Nat : k = Len(log)
      BY <1>d
    <3>2. m = IF l < k - n THEN l ELSE k - n
      BY <2>1, <2>m, <3>1 DEF Least
    <3> QED
      BY <1>0, <3>1, <3>2
  <2>c. PICK c : c = IF b = <<>> THEN n ELSE b[Len(b)].sequence
    OBVIOUS
  <2>3. c = n + m
    <3>1. CASE b = <<>>
      BY <2>c, <2>m, <3>1
    <3>2. CASE b # <<>>
      <4>1. m \in 1..m /\ m >= 1
        BY <2>1, <2>m, <3>2
      <4> QED
        BY <2>1, <2>c, <2>m, <3>2, <4>1 DEF Numbered
    <3> QED
      BY <3>1, <3>2
  <2>p. PICK p \in {"read", "paging"} : p = IF Len(b) < PageLimit THEN "read" ELSE "paging"
    OBVIOUS
  <2>a. PICK a : a = reader.events \o b
    OBVIOUS
  <2>4. reader' = [reader EXCEPT !.events = a, !.cursor = c, !.phase = p]
    BY <1>0, <1>2, <1>d, <1>n, <2>l, <2>b, <2>c, <2>p, <2>a DEF ReadPage, LastPage
  <2>5. /\ a \in Seq(Events) /\ Len(a) = n + m
        /\ \A i \in 1..n : a[i] = reader.events[i]
        /\ \A i \in 1..m : a[n + i] = b[i]
    <3>1. reader.events \in Seq(Events)
      BY ReaderShape
    <3>2. PICK s : s = reader.events /\ s \in Seq(Events)
      BY <3>1
    <3>3. /\ s \o b \in Seq(Events) /\ Len(s \o b) = Len(s) + Len(b)
          /\ \A i \in 1..(Len(s) + Len(b)) : (s \o b)[i] = IF i <= Len(s) THEN s[i] ELSE b[i - Len(s)]
      BY ONLY <2>1, <3>2, ConcatProperties
    <3>4. \A i \in 1..n : i \in 1..(n + m) /\ i <= n
      OBVIOUS
    <3>5. \A i \in 1..m : n + i \in 1..(n + m) /\ ~(n + i <= n) /\ n + i - n = i
      OBVIOUS
    <3> QED
      BY <1>n, <2>a, <2>m, <3>2, <3>3, <3>4, <3>5
  <2>6. c \in 0..MaxEvents
    <3>1. n + m <= MaxEvents
      BY <1>d, <2>2, Bounds
    <3> QED
      BY <2>3, <3>1, Bounds
  <2>7. /\ reader' \in Readers /\ reader'.events = a /\ reader'.cursor = c /\ reader'.phase = p
        /\ reader'.snapshot = reader.snapshot /\ reader'.started = reader.started
        /\ reader'.result = reader.result
    BY <2>4, <2>5, <2>6, ReaderShape DEF Readers
  <2>8. Piece(reader.events, 0)'
    <3>1. \A i \in 1..n : a[i] = log[i]
      BY <1>0, <1>n, <2>5 DEF Piece
    <3>2. \A i \in 1..m : a[n + i] = log[n + i]
      BY <2>1, <2>5, <2>m DEF Piece
    <3>3. \A j \in 1..(n + m) : j \in 1..n \/ (j - n \in 1..m /\ n + (j - n) = j)
      OBVIOUS
    <3>4. \A j \in 1..(n + m) : a[j] = log[j]
      BY <3>1, <3>2, <3>3
    <3> QED
      BY <1>d, <2>2, <2>5, <2>7, <3>4 DEF Piece
  <2>9. p = "read" => n + m >= reader.started
    <3>1. ASSUME p = "read" PROVE n + m = Len(log)
      BY <2>2, <2>l, <2>m, <2>p, <3>1
    <3> QED
      BY <1>0, <3>1, <1>d, ReaderShape
  <2>10. n + m <= MaxScan
    BY <2>2, <2>l, Bounds
  <2> QED
    BY <1>0, <1>d, <2>3, <2>5, <2>7, <2>8, <2>9, <2>10 DEF ReaderHolds
<1> QED
  BY <1>1, <1>2

(* The rows a trace has read are rows of the log and of the evidence, where *)
(* a dispatch has one generation, and no row names a dispatch that is not   *)
(* in the ledger.                                                           *)
LEMMA TraceLemma ==
  ASSUME DbTypes, LogHolds, LeaseHolds, OneOwner, ReaderHolds, Live, reader.phase = "read"
  PROVE  /\ Contiguous(reader.events)
         /\ OneGeneration(GenerationMap(reader.events) \cup GenerationMap(reader.snapshot))
         /\ Parents(reader.snapshot, attempts)
<1>0. /\ reader.events \in Seq(Events) /\ Len(reader.events) \in Nat
      /\ reader.snapshot \in Seq(Rows) /\ Len(reader.snapshot) \in Nat
      /\ log \in Seq(Events) /\ Len(log) \in Nat /\ evidence \in Seq(Rows) /\ Len(evidence) \in Nat
      /\ DOMAIN reader.events = 1..Len(reader.events) /\ DOMAIN reader.snapshot = 1..Len(reader.snapshot)
  BY ReaderShape DEF DbTypes
<1>1. \A i \in DOMAIN reader.events : i \in 1..Len(log) /\ reader.events[i] = log[i]
  BY <1>0 DEF ReaderHolds, Piece
<1>2. \A k \in DOMAIN reader.snapshot : \E i \in 1..Len(log) :
        /\ log[i].dispatch = reader.snapshot[k].dispatch
        /\ log[i].generation = reader.snapshot[k].generation
  <2>1. \A k \in DOMAIN reader.snapshot : k \in 1..Len(evidence) /\ reader.snapshot[k] = evidence[k]
    BY <1>0 DEF ReaderHolds
  <2> QED
    BY <2>1 DEF OneOwner
<1>3. Contiguous(reader.events)
  BY <1>1 DEF Contiguous, LogHolds
<1>4. ASSUME NEW x \in GenerationMap(reader.events) \cup GenerationMap(reader.snapshot)
      PROVE  \E i \in 1..Len(log) : /\ log[i].dispatch # 0
                                    /\ x = [dispatch |-> log[i].dispatch, generation |-> log[i].generation]
  <2>1. CASE x \in GenerationMap(reader.events)
    <3>1. PICK i \in DOMAIN reader.events :
            /\ reader.events[i].dispatch # 0
            /\ x = [dispatch |-> reader.events[i].dispatch, generation |-> reader.events[i].generation]
      BY <2>1 DEF GenerationMap, Range
    <3> QED
      BY <1>1, <3>1
  <2>2. CASE x \in GenerationMap(reader.snapshot)
    <3>1. PICK k \in DOMAIN reader.snapshot :
            /\ reader.snapshot[k].dispatch # 0
            /\ x = [dispatch |-> reader.snapshot[k].dispatch, generation |-> reader.snapshot[k].generation]
      BY <2>2 DEF GenerationMap, Range
    <3> QED
      BY <1>2, <3>1
  <2> QED
    BY <2>1, <2>2
<1>5. OneGeneration(GenerationMap(reader.events) \cup GenerationMap(reader.snapshot))
  <2> SUFFICES ASSUME NEW a \in GenerationMap(reader.events) \cup GenerationMap(reader.snapshot),
                      NEW b \in GenerationMap(reader.events) \cup GenerationMap(reader.snapshot),
                      a.dispatch = b.dispatch
               PROVE  a = b
    BY DEF OneGeneration
  <2>1. PICK i \in 1..Len(log) : /\ log[i].dispatch # 0
                                 /\ a = [dispatch |-> log[i].dispatch, generation |-> log[i].generation]
    BY <1>4
  <2>2. PICK j \in 1..Len(log) : /\ log[j].dispatch # 0
                                 /\ b = [dispatch |-> log[j].dispatch, generation |-> log[j].generation]
    BY <1>4
  <2>3. log[i].dispatch = log[j].dispatch
    BY <2>1, <2>2
  <2>4. log[i].generation = log[j].generation
    BY <2>1, <2>3 DEF OneOwner
  <2> QED
    BY <2>1, <2>2, <2>3, <2>4
<1>6. Parents(reader.snapshot, attempts)
  <2> SUFFICES ASSUME NEW k \in DOMAIN reader.snapshot
               PROVE  reader.snapshot[k].dispatch <= attempts
    BY DEF Parents, Range
  <2>1. PICK i \in 1..Len(log) : log[i].dispatch = reader.snapshot[k].dispatch
    BY <1>2
  <2>2. log[i].dispatch <= lease.dispatch /\ lease.dispatch <= attempts
    BY DEF OneOwner, LeaseHolds
  <2>3. log[i].dispatch \in Int /\ lease.dispatch \in Int /\ attempts \in Int
    BY <1>0, EventFields DEF DbTypes, LeaseSet
  <2> QED
    BY <2>1, <2>2, <2>3
<1> QED
  BY <1>3, <1>5, <1>6

LEMMA ReaderStep ==
  ASSUME Inv, [Next]_vars
  PROVE  ReaderHolds'
<1>0. DbTypes /\ LogHolds /\ LeaseHolds /\ OneOwner /\ ReaderHolds
  BY DEF Inv
<1>1. CASE UNCHANGED reader
  BY <1>0, <1>1, ReaderRests
<1>2. CASE \E kind \in {"metrics", "trace"} : StartRead(kind)
  BY <1>0, <1>2, StartStep
<1>3. CASE ReadPage
  BY <1>0, <1>3, PagingStep
<1>4. CASE AggregateRuntimeEvents
  <2>1. /\ UNCHANGED dbVars /\ reader.phase = "read"
        /\ reader' = Answer(IF Contiguous(reader.events) THEN "ok" ELSE "corrupt")
    BY <1>4 DEF AggregateRuntimeEvents
  <2>2. CASE Contiguous(reader.events)
    BY <2>1, <2>2, AnswerLemma
  <2>3. CASE ~Contiguous(reader.events)
    <3>1. ~Live
      BY <1>0, <2>1, <2>3, TraceLemma
    <3> QED
      BY <2>1, <2>3, <3>1, AnswerLemma
  <2> QED
    BY <2>2, <2>3
<1>5. CASE Project
  <2>1. /\ UNCHANGED dbVars /\ reader.phase = "read"
        /\ \/ reader' = Answer("ok")
           \/ /\ reader' = Answer("corrupt")
              /\ ~(/\ OneGeneration(GenerationMap(reader.events) \cup GenerationMap(reader.snapshot))
                   /\ Parents(reader.snapshot, attempts))
    BY <1>5 DEF Project
  <2>2. CASE reader' = Answer("ok")
    BY <2>1, <2>2, AnswerLemma
  <2>3. CASE reader' # Answer("ok")
    <3>1. ~Live
      BY <1>0, <2>1, <2>3, TraceLemma
    <3> QED
      BY <2>1, <2>3, <3>1, AnswerLemma
  <2> QED
    BY <2>2, <2>3
<1>6. CASE ReadGone
  <2>1. UNCHANGED dbVars /\ reader' = Answer("gone")
    BY <1>6 DEF ReadGone
  <2> QED
    BY <2>1, AnswerLemma
<1> QED
  BY <1>1, <1>2, <1>3, <1>4, <1>5, <1>6, Writers

-----------------------------------------------------------------------------
(* The theorems                                                            *)

LEMMA InvInit == Init => Inv
<1> SUFFICES ASSUME Init PROVE Inv
  OBVIOUS
<1>e. PICK e : e = [sequence |-> 1, kind |-> "RUN_STARTED", dispatch |-> 0, generation |-> 0]
  OBVIOUS
<1>1. e \in Events /\ e.sequence = 1 /\ e.dispatch = 0
  BY <1>e, Bounds DEF Events, Kinds
<1>2. /\ log = <<e>> /\ run = [status |-> "RUNNING", sequence |-> 1] /\ attempts = 0 /\ evidence = <<>>
      /\ lease = [state |-> "NONE", dispatch |-> 0, generation |-> 0] /\ tx = NoTx /\ conn = NoConn
      /\ wire = <<>> /\ page = NewPage /\ query = NewQuery /\ reader = NoReader /\ faults = 0 /\ reads = 0
  BY <1>e DEF Init
<1>3. log \in Seq(Events) /\ Len(log) = 1 /\ log[1] = e /\ Len(evidence) = 0 /\ evidence \in Seq(Rows)
  BY <1>1, <1>2
<1>4. DbTypes
  <2>1. run \in [status : Statuses, sequence : 1..MaxEvents]
    BY <1>2, Bounds DEF Statuses
  <2>2. lease \in LeaseSet /\ attempts \in 0..MaxAttempts
    BY <1>2, Bounds DEF LeaseSet
  <2> QED
    BY <1>2, <1>3, <2>1, <2>2 DEF DbTypes
<1>5. PageTypes /\ CountTypes
  BY <1>2, Blank, Idle, Bounds DEF PageTypes, CountTypes
<1>6. ~tx.open /\ Live
  BY <1>2 DEF NoTx, Live
<1>7. LogHolds
  BY <1>1, <1>2, <1>3, <1>6, Bounds DEF LogHolds
<1>8. LeaseHolds /\ OneOwner
  BY <1>1, <1>2, <1>3, <1>6 DEF LeaseHolds, OneOwner, Grounded
<1>9. StreamHolds
  <2>1. /\ Numbered(<<>>, 0) /\ Piece(<<>>, 0) /\ Len(<<>>) = 0
    BY <1>3, <1>4, EmptyPieces
  <2> QED
    BY <1>2, <1>3, <2>1, Blank, Bounds DEF StreamHolds
<1>10. TimelineHolds
  BY <1>2, <1>3, Blank, Bounds DEF TimelineHolds, Least
<1>11. QueryHolds
  BY <1>2, <1>3, Blank DEF QueryHolds
<1>12. ReaderHolds
  BY <1>2, Idle, Bounds DEF ReaderHolds
<1> QED
  BY <1>4, <1>5, <1>7, <1>8, <1>9, <1>10, <1>11, <1>12 DEF Inv

LEMMA InvStep == Inv /\ [Next]_vars => Inv'
<1> SUFFICES ASSUME Inv, [Next]_vars PROVE Inv'
  OBVIOUS
<1>1. DbTypes' /\ LogHolds' /\ LeaseHolds' /\ OneOwner'
  BY DbStep DEF Inv
<1>2. Browsing'
  BY PageStep
<1>3. ReaderHolds' /\ CountTypes'
  BY ReaderStep, CountStep DEF Inv
<1> QED
  BY <1>1, <1>2, <1>3 DEF Inv, Browsing

LEMMA InvHolds == Spec => []Inv
BY InvInit, InvStep, PTL DEF Spec

(* The page of a Run never reports a gap, a step back or a reused number,   *)
(* shows the newest part of the Run's own history, and reads the Run again  *)
(* after every event that changes it: append_runtime_event,                 *)
(* runtime_event_stream and RunDashboardPage agree, whatever rolls back,    *)
(* breaks, reconnects or reloads.                                           *)
THEOREM PageTheorem == Spec => []PageTruthful
<1>1. Inv => PageTruthful
  <2> SUFFICES ASSUME Inv PROVE PageTruthful
    OBVIOUS
  <2>1. NoFalseAlarm /\ ViewFresh
    BY DEF Inv, StreamHolds, QueryHolds, NoFalseAlarm, ViewFresh
  <2>2. DOMAIN page.timeline = 1..Len(page.timeline)
    BY Shapes DEF Inv
  <2>3. TimelineFaithful
    BY <2>2 DEF Inv, TimelineHolds, TimelineFaithful
  <2> QED
    BY <2>1, <2>3 DEF PageTruthful
<1> QED
  BY <1>1, InvHolds, PTL

(* The metrics scan and the causal trace, which read a moving Run in        *)
(* several steps, see every event committed before they began, are          *)
(* unavailable only beyond their scan bound, and report no contradiction    *)
(* between evidence, events and dispatch ledger while the Run exists.       *)
THEOREM ReadersTheorem == Spec => []ReadersTruthful
<1>1. Inv => ReadersTruthful
  <2> SUFFICES ASSUME Inv PROVE ReadersTruthful
    OBVIOUS
  <2>0. DbTypes /\ PageTypes /\ CountTypes /\ LogHolds /\ StreamHolds /\ TimelineHolds /\ ReaderHolds
    BY DEF Inv
  <2>1. ASSUME NEW s \in Seq(Events), NEW n, Len(s) <= n
        PROVE  IsEvents(s, n)
    BY <2>1 DEF IsEvents
  <2>2. IsEvents(log, MaxEvents) /\ IsEvents(wire, MaxWire) /\ IsEvents(conn.pending, BatchLimit)
    BY <2>0, <2>1, Shapes DEF DbTypes, LogHolds, StreamHolds
  <2>3. IsEvents(page.timeline, MaxTimeline) /\ IsEvents(reader.events, MaxScan)
    <3>1. Len(page.timeline) <= MaxTimeline
      <4>1. page.last \in Nat
        BY <2>0, Shapes, Bounds
      <4> QED
        BY <2>0, <4>1, Bounds DEF TimelineHolds, Least
    <3> QED
      BY <2>0, <2>1, <3>1, Shapes, ReaderShape DEF ReaderHolds
  <2>4. /\ run.status \in {"RUNNING", "FINISHED", "DELETED"} /\ run.sequence \in 1..MaxEvents
        /\ attempts \in 0..MaxAttempts
        /\ lease \in [state : {"NONE", "ACTIVE", "EXPIRED", "RELEASED"}, dispatch : 0..MaxAttempts,
                      generation : 0..MaxAttempts]
    BY <2>0 DEF DbTypes, Statuses, LeaseSet
  <2>5. Len(evidence) <= MaxEvents /\ \A i \in DOMAIN evidence : evidence[i] \in Rows
    BY <2>0, Bounds DEF DbTypes, LogHolds
  <2>6. tx.open => tx.event \in Events
    BY <2>0, OpenTx
  <2>7. TypeOK
    BY <2>0, <2>2, <2>3, <2>4, <2>5, <2>6, Shapes, ReaderShape DEF TypeOK, CountTypes, Rows, PageTypes, Queries
  <2>8. ScanComplete /\ NeverCorrupt
    BY <2>0 DEF ReaderHolds, ScanComplete, NeverCorrupt
  <2> QED
    BY <2>7, <2>8 DEF ReadersTruthful
<1> QED
  BY <1>1, InvHolds, PTL

-----------------------------------------------------------------------------
(***************************************************************************)
(* AgentContext: the proofs of ConversationSound and HiddenIsKnown, for    *)
(* any files, contents, budgets and number of slices.                      *)
(*                                                                         *)
(* The argument: a turn changes no more files than it has calls, and the   *)
(* working state learns of each when it happens (Turned), so a read kept   *)
(* in the conversation shows the file as it is or the file is among those  *)
(* listed (Talk), of which there are never more than the list takes.  A    *)
(* packet reuses only what the state handed to it holds (Reusing), and     *)
(* that state holds only what packets of the task selected (Handed).       *)
(***************************************************************************)
(* The working state after a turn of one or two calls.                     *)

LEMMA MaxOne == ASSUME NEW n \in Int PROVE Max({n}) = n
  BY DEF Max

LEMMA MaxTwo == Max({1, 2}) = 2
<1>1. \A x \in {1, 2} : 2 >= x
  OBVIOUS
<1>2. PICK m \in {1, 2} : m = Max({1, 2}) /\ \A x \in {1, 2} : m >= x
  BY <1>1 DEF Max
<1> QED
  BY <1>2

\* The fold of _observe over the calls of a turn.
Watched(m, s) == FoldLeft(Observe, m, s)

Watch(D, m, s, f) == [x \in D |-> IF x = {} THEN m ELSE Observe(f[x \ {Max(x)}], s[Max(x)])]

LEMMA WatchIs ==
  ASSUME NEW m, NEW s, NEW D, D = SUBSET DOMAIN s, \E f : f = Watch(D, m, s, f)
  PROVE  \E f : f = Watch(D, m, s, f) /\ Watched(m, s) = f[DOMAIN s]
<1> DEFINE g == CHOOSE f : f = Watch(D, m, s, f)
<1>1. g = Watch(D, m, s, g)
  OBVIOUS
<1>2. Watched(m, s) = g[DOMAIN s]
  BY DEF Watched, FoldLeft, MapThenFoldSet, Watch
<1> QED
  BY <1>1, <1>2

LEMMA WatchOne ==
  ASSUME NEW m, NEW a
  PROVE  Watched(m, <<a>>) = Observe(m, a)
<1> DEFINE s == <<a>>
           D == SUBSET DOMAIN s
           h == [x \in D |-> IF x = {} THEN m ELSE Observe(m, a)]
<1>1. DOMAIN s = {1} /\ s[1] = a
  OBVIOUS
<1>2. \A x \in D : x = {} \/ x = {1}
  BY <1>1
<1>3. Max({1}) = 1 /\ {1} \ {1} = {} /\ {} \in D /\ {1} \in D
  BY <1>1, MaxOne
<1> HIDE DEF s, D
<1>4. \A f : f = Watch(D, m, s, f) => f[{}] = m /\ f[{1}] = Observe(f[{}], a)
  BY <1>1, <1>3 DEF Watch
<1>5. h = Watch(D, m, s, h)
  BY <1>1, <1>2, <1>3 DEF Watch
<1>6. PICK f : f = Watch(D, m, s, f) /\ Watched(m, s) = f[DOMAIN s]
  BY <1>5, WatchIs DEF D
<1> QED
  BY <1>1, <1>4, <1>6 DEF s

LEMMA WatchTwo ==
  ASSUME NEW m, NEW a, NEW b
  PROVE  Watched(m, <<a, b>>) = Observe(Observe(m, a), b)
<1> DEFINE s == <<a, b>>
           D == SUBSET DOMAIN s
           h == [x \in D |-> IF x = {} THEN m ELSE IF x = {1} THEN Observe(m, a)
                             ELSE IF x = {2} THEN Observe(m, b) ELSE Observe(Observe(m, a), b)]
<1>1. DOMAIN s = {1, 2} /\ s[1] = a /\ s[2] = b
  OBVIOUS
<1>2. \A x \in D : x = {} \/ x = {1} \/ x = {2} \/ x = {1, 2}
  BY <1>1
<1>3. /\ Max({1}) = 1 /\ Max({2}) = 2 /\ Max({1, 2}) = 2
      /\ {1} \ {1} = {} /\ {2} \ {2} = {} /\ {1, 2} \ {2} = {1}
      /\ {} \in D /\ {1} \in D /\ {2} \in D /\ {1, 2} \in D
      /\ {1} # {} /\ {2} # {} /\ {1, 2} # {} /\ {1} # {2} /\ {1, 2} # {1} /\ {1, 2} # {2}
  BY <1>1, MaxOne, MaxTwo
<1> HIDE DEF s, D
<1>4. \A f : f = Watch(D, m, s, f) =>
               f[{}] = m /\ f[{1}] = Observe(f[{}], a) /\ f[{1, 2}] = Observe(f[{1}], b)
  BY <1>1, <1>3 DEF Watch
<1>5. h = Watch(D, m, s, h)
  <2>1. /\ h[{}] = m /\ h[{1}] = Observe(m, a) /\ h[{2}] = Observe(m, b) /\ h[{1, 2}] = Observe(Observe(m, a), b)
    BY <1>3
  <2>2. ASSUME NEW x \in D
        PROVE  h[x] = IF x = {} THEN m ELSE Observe(h[x \ {Max(x)}], s[Max(x)])
    <3> HIDE DEF h
    <3>1. CASE x = {}
      BY <2>1, <3>1
    <3>2. CASE x = {1}
      BY <1>1, <1>3, <2>1, <3>2
    <3>3. CASE x = {2}
      BY <1>1, <1>3, <2>1, <3>3
    <3>4. CASE x = {1, 2}
      BY <1>1, <1>3, <2>1, <3>4
    <3> QED
      BY <1>2, <3>1, <3>2, <3>3, <3>4
  <2> QED
    BY <2>2 DEF Watch
<1>6. PICK f : f = Watch(D, m, s, f) /\ Watched(m, s) = f[DOMAIN s]
  BY <1>5, WatchIs DEF D
<1> QED
  BY <1>1, <1>4, <1>6 DEF s

-----------------------------------------------------------------------------
(* The conversation.                                                       *)

Trees == {t \in [Paths -> UNION {Versions[p] : p \in Paths}] : \A p \in Paths : t[p] \in Versions[p]}
Possible == UNION {CallsOn(t) : t \in Trees}

Wrote(call) == call.tool = "write_file" /\ call.ok

LEMMA CallFields ==
  ASSUME NEW t, NEW p, NEW o, NEW c, NEW z, NEW e
  PROVE  /\ Call(t, p, o, c, z, e).tool = t /\ Call(t, p, o, c, z, e).path = p
         /\ Call(t, p, o, c, z, e).ok = o /\ Call(t, p, o, c, z, e).content = c
  BY DEF Call

\* What a call on worktree t can be.
LEMMA CallFacts ==
  ASSUME NEW t \in Trees, NEW a \in CallsOn(t)
  PROVE  /\ a \in Possible
         /\ a.tool = "read_file" => a.path \in Paths /\ a.content = t[a.path]
         /\ a.tool = "write_file" => a.path \in Paths /\ a.content \in Versions[a.path]
         /\ a.path = 0 \/ a.path \in Paths
<1>0. a \in Possible
  BY DEF Possible
<1>1. CASE \E z \in Sizes, e \in {0, 1} : a = Call("search_code", 0, TRUE, <<>>, z, e)
  <2>1. PICK z \in Sizes, e \in {0, 1} : a = Call("search_code", 0, TRUE, <<>>, z, e)
    BY <1>1
  <2>2. a.tool = "search_code" /\ a.path = 0
    BY <2>1 DEF Call
  <2> QED
    BY <1>0, <2>2
<1>2. CASE \E p \in Paths : a = Call("read_file", p, t[p].state \notin Failures, t[p], Units(t[p].lines), 0)
  <2>1. PICK p \in Paths : a = Call("read_file", p, t[p].state \notin Failures, t[p], Units(t[p].lines), 0)
    BY <1>2
  <2>2. a.tool = "read_file" /\ a.path = p /\ a.content = t[p]
    <3> DEFINE o == t[p].state \notin Failures
               z == Units(t[p].lines)
    <3>1. a = Call("read_file", p, o, t[p], z, 0)
      BY <2>1
    <3> HIDE DEF o, z
    <3> QED
      BY <3>1, CallFields
  <2> QED
    BY <1>0, <2>2
<1>3. CASE \E p \in Paths : \E c \in Versions[p] : a = Call("write_file", p, "WRITABLE" \in Scope[p], c, 1, 0)
  <2>1. PICK p \in Paths : \E c \in Versions[p] : a = Call("write_file", p, "WRITABLE" \in Scope[p], c, 1, 0)
    BY <1>3
  <2>2. PICK c \in Versions[p] : a = Call("write_file", p, "WRITABLE" \in Scope[p], c, 1, 0)
    BY <2>1
  <2>3. a.tool = "write_file" /\ a.path = p /\ a.content = c
    <3> DEFINE o == "WRITABLE" \in Scope[p]
    <3>1. a = Call("write_file", p, o, c, 1, 0)
      BY <2>2
    <3> HIDE DEF o
    <3> QED
      BY <3>1, CallFields
  <2> QED
    BY <1>0, <2>3
<1>4. CASE a \in Searches
  BY <1>1, <1>4 DEF Searches
<1>5. CASE a \in Reads(t)
  BY <1>2, <1>5 DEF Reads
<1>6. CASE a \in Writes(t)
  BY <1>3, <1>6 DEF Writes
<1> QED
  BY <1>4, <1>5, <1>6 DEF CallsOn

\* A call on a worktree leaves a worktree, and touches only what it wrote.
LEMMA AfterFacts ==
  ASSUME NEW t \in Trees, NEW a \in CallsOn(t)
  PROVE  /\ After(t, a) \in Trees
         /\ Wrote(a) \/ After(t, a) = t
         /\ \A p \in Paths : After(t, a)[p] = t[p] \/ (Wrote(a) /\ p = a.path)
<1>1. CASE ~Wrote(a)
  BY <1>1 DEF After, Wrote
<1>2. CASE Wrote(a)
  <2>1. a.path \in Paths /\ a.content \in Versions[a.path]
    BY <1>2, CallFacts DEF Wrote
  <2>2. After(t, a) = [t EXCEPT ![a.path] = a.content]
    BY <1>2 DEF After, Wrote
  <2>3. t \in [Paths -> UNION {Versions[p] : p \in Paths}] /\ \A p \in Paths : t[p] \in Versions[p]
    BY DEF Trees
  <2>4. a.content \in UNION {Versions[p] : p \in Paths}
    BY <2>1
  <2> HIDE DEF Wrote
  <2>5. After(t, a) \in [Paths -> UNION {Versions[p] : p \in Paths}]
    BY <2>1, <2>2, <2>3, <2>4
  <2>6. \A p \in Paths : After(t, a)[p] = IF p = a.path THEN a.content ELSE t[p]
    BY <2>2, <2>3
  <2> QED
    BY <1>2, <2>1, <2>3, <2>5, <2>6 DEF Trees
<1> QED
  BY <1>1, <1>2

\* What a working state may be after n calls.
Remembered(m, n) ==
  /\ m = [inspected |-> m.inspected, changed |-> m.changed]
  /\ m.inspected \subseteq Paths /\ m.changed \subseteq m.inspected
  /\ IsFiniteSet(m.changed) /\ Cardinality(m.changed) <= n

\* One observed call: at most the path written joins those changed.
LEMMA ObserveFacts ==
  ASSUME NEW m, NEW n \in Nat, Remembered(m, n), NEW a, a.path = 0 \/ a.path \in Paths,
         a.tool = "write_file" => a.path \in Paths
  PROVE  /\ Remembered(Observe(m, a), n + 1)
         /\ m.changed \subseteq Observe(m, a).changed
         /\ ~Wrote(a) => Observe(m, a).changed = m.changed
         /\ Wrote(a) => a.path \in Observe(m, a).changed
<1>0. 0 \notin Paths
  BY PathAssumption
<1>1. CASE ~a.ok \/ a.path = 0
  <2>1. Observe(m, a) = m
    BY <1>1 DEF Observe
  <2>2. ~Wrote(a)
    BY <1>0, <1>1 DEF Wrote
  <2>3. Cardinality(m.changed) \in Nat
    BY FS_CardinalityType DEF Remembered
  <2>4. Remembered(m, n + 1)
    BY <2>3 DEF Remembered
  <2> QED
    BY <2>1, <2>2, <2>4
<1>2. CASE a.ok /\ a.path # 0
  <2> DEFINE r == Observe(m, a)
  <2>1. r = [inspected |-> m.inspected \cup {a.path},
             changed |-> m.changed \cup (IF a.tool = "write_file" THEN {a.path} ELSE {})]
    BY <1>2 DEF Observe
  <2>2. /\ r = [inspected |-> r.inspected, changed |-> r.changed]
        /\ r.inspected = m.inspected \cup {a.path}
        /\ r.changed = m.changed \cup (IF a.tool = "write_file" THEN {a.path} ELSE {})
    BY <2>1
  <2>3. r.changed = m.changed \/ r.changed = m.changed \cup {a.path}
    BY <2>2
  <2>4. /\ Cardinality(m.changed) \in Nat
        /\ IsFiniteSet(m.changed \cup {a.path})
        /\ Cardinality(m.changed \cup {a.path}) \in {Cardinality(m.changed), Cardinality(m.changed) + 1}
    BY FS_CardinalityType, FS_AddElement DEF Remembered
  <2> HIDE DEF r
  <2>5. IsFiniteSet(r.changed) /\ Cardinality(r.changed) <= n + 1
    <3>1. IsFiniteSet(m.changed) /\ Cardinality(m.changed) <= n
      BY DEF Remembered
    <3>2. CASE r.changed = m.changed
      BY <2>4, <3>1, <3>2
    <3>3. CASE r.changed = m.changed \cup {a.path}
      <4> DEFINE k == Cardinality(m.changed)
      <4>1. k <= n /\ k \in Nat /\ (Cardinality(r.changed) = k \/ Cardinality(r.changed) = k + 1)
        BY <2>4, <3>1, <3>3
      <4> HIDE DEF k
      <4>2. Cardinality(r.changed) <= n + 1
        BY <4>1
      <4> QED
        BY <2>4, <3>3, <4>2
    <3> QED
      BY <2>3, <3>2, <3>3
  <2>6. Remembered(r, n + 1)
    <3>1. r.inspected \subseteq Paths /\ r.changed \subseteq r.inspected
      BY <1>2, <2>2 DEF Remembered
    <3> QED
      BY <2>2, <2>5, <3>1 DEF Remembered
  <2>7. /\ m.changed \subseteq r.changed
        /\ ~Wrote(a) => r.changed = m.changed
        /\ Wrote(a) => a.path \in r.changed
    BY <1>2, <2>2 DEF Wrote
  <2> QED
    BY <2>6, <2>7 DEF r
<1> QED
  BY <1>1, <1>2

\* A read that is still in the conversation shows the file as it is, or the
\* working state lists the file as changed.
Flagged(t, m, call) ==
  call.tool = "read_file" /\ call.ok => call.content = t[call.path] \/ call.path \in m.changed

\* A conversation of n calls on worktree t: its groups g, the number c of those
\* left out, and its working state m.
Talk(t, g, c, m, n) ==
  /\ t \in Trees /\ g \in Seq(Seq(Possible)) /\ c \in Nat /\ n \in Nat /\ Len(g) + c <= n
  /\ Remembered(m, n)
  /\ m.changed # {} => c > 0
  /\ \A i \in 1..Len(g) : ~(TurnTokens(g[i]) > MaxTurn)
  /\ \A i \in 1..Len(g) : \A j \in 1..Len(g[i]) : Flagged(t, m, g[i][j])

LEMMA ReadsVisible ==
  ASSUME NEW a \in Possible, a.tool = "read_file"
  PROVE  a.path \in Paths
<1>1. PICK t \in Trees : a \in CallsOn(t)
  BY DEF Possible
<1> QED
  BY <1>1, CallFacts

\* What the calls of one turn do to the worktree and to the working state.
Turned(results, t, m, n, t2, m2, k) ==
  /\ results \in Seq(Possible) /\ k \in Nat \ {0}
  /\ t2 \in Trees /\ Remembered(m2, n + k)
  /\ m.changed \subseteq m2.changed
  /\ \A p \in Paths : t2[p] = t[p] \/ p \in m2.changed
  /\ (\A i \in 1..Len(results) : ~Wrote(results[i])) =>
       t2 = t /\ m2.changed = m.changed /\ \A i \in 1..Len(results) : Flagged(t, m, results[i])

LEMMA OneTurned ==
  ASSUME NEW t \in Trees, NEW m, NEW n \in Nat, Remembered(m, n), NEW a \in CallsOn(t)
  PROVE  Turned(<<a>>, t, m, n, After(t, a), Observe(m, a), 1)
<1> DEFINE r == <<a>>
<1>1. /\ a \in Possible
      /\ a.tool = "read_file" => a.path \in Paths /\ a.content = t[a.path]
      /\ a.tool = "write_file" => a.path \in Paths
      /\ a.path = 0 \/ a.path \in Paths
  BY CallFacts
<1>2. /\ Remembered(Observe(m, a), n + 1)
      /\ m.changed \subseteq Observe(m, a).changed
      /\ ~Wrote(a) => Observe(m, a).changed = m.changed
      /\ Wrote(a) => a.path \in Observe(m, a).changed
  BY <1>1, ObserveFacts
<1>3. /\ After(t, a) \in Trees
      /\ Wrote(a) \/ After(t, a) = t
      /\ \A p \in Paths : After(t, a)[p] = t[p] \/ (Wrote(a) /\ p = a.path)
  BY AfterFacts
<1>4. r \in Seq(Possible) /\ Len(r) = 1 /\ r[1] = a
  BY <1>1
<1>5. Flagged(t, m, a)
  BY <1>1 DEF Flagged
<1>6. \A p \in Paths : After(t, a)[p] = t[p] \/ p \in Observe(m, a).changed
  BY <1>2, <1>3
<1> HIDE DEF r
<1>7. (\A i \in 1..Len(r) : ~Wrote(r[i])) => ~Wrote(a)
  BY <1>4
<1>8. \A i \in 1..Len(r) : Flagged(t, m, r[i])
  BY <1>4, <1>5
<1>9. Turned(r, t, m, n, After(t, a), Observe(m, a), 1)
  BY <1>2, <1>3, <1>4, <1>6, <1>7, <1>8 DEF Turned
<1> QED
  BY <1>9 DEF r

LEMMA TwoTurned ==
  ASSUME NEW t \in Trees, NEW m, NEW n \in Nat, Remembered(m, n), NEW a \in CallsOn(t),
         NEW b \in CallsOn(After(t, a))
  PROVE  Turned(<<a, b>>, t, m, n, After(After(t, a), b), Observe(Observe(m, a), b), 2)
<1> DEFINE r == <<a, b>>
           t1 == After(t, a)
           m1 == Observe(m, a)
           t2 == After(t1, b)
           m2 == Observe(m1, b)
<1>1. /\ a \in Possible
      /\ a.tool = "read_file" => a.path \in Paths /\ a.content = t[a.path]
      /\ a.tool = "write_file" => a.path \in Paths
      /\ a.path = 0 \/ a.path \in Paths
  BY CallFacts
<1>2. /\ Remembered(m1, n + 1)
      /\ m.changed \subseteq m1.changed
      /\ ~Wrote(a) => m1.changed = m.changed
      /\ Wrote(a) => a.path \in m1.changed
  BY <1>1, ObserveFacts
<1>3. /\ t1 \in Trees
      /\ Wrote(a) \/ t1 = t
      /\ \A p \in Paths : t1[p] = t[p] \/ (Wrote(a) /\ p = a.path)
  BY AfterFacts
<1> HIDE DEF t1, m1
<1>4. b \in CallsOn(t1)
  BY DEF t1
<1>5. /\ b \in Possible
      /\ b.tool = "read_file" => b.path \in Paths /\ b.content = t1[b.path]
      /\ b.tool = "write_file" => b.path \in Paths
      /\ b.path = 0 \/ b.path \in Paths
  BY <1>3, <1>4, CallFacts
<1>6. /\ Remembered(m2, n + 1 + 1)
      /\ m1.changed \subseteq m2.changed
      /\ ~Wrote(b) => m2.changed = m1.changed
      /\ Wrote(b) => b.path \in m2.changed
  BY <1>2, <1>5, ObserveFacts
<1>7. /\ t2 \in Trees
      /\ Wrote(b) \/ t2 = t1
      /\ \A p \in Paths : t2[p] = t1[p] \/ (Wrote(b) /\ p = b.path)
  BY <1>3, <1>4, AfterFacts
<1> HIDE DEF t2, m2
<1>8. r \in Seq(Possible) /\ Len(r) = 2 /\ r[1] = a /\ r[2] = b
  BY <1>1, <1>5
<1> HIDE DEF r
<1>9. ASSUME ~Wrote(a), ~Wrote(b)
      PROVE  t2 = t /\ m2.changed = m.changed /\ Flagged(t, m, a) /\ Flagged(t, m, b)
  <2>1. t1 = t /\ t2 = t /\ m2.changed = m.changed
    BY <1>2, <1>3, <1>6, <1>7, <1>9
  <2> QED
    BY <1>1, <1>5, <2>1 DEF Flagged
<1>10. (\A i \in 1..Len(r) : ~Wrote(r[i])) => ~Wrote(a) /\ ~Wrote(b)
  BY <1>8
<1>11. (\A i \in 1..Len(r) : ~Wrote(r[i])) =>
          t2 = t /\ m2.changed = m.changed /\ \A i \in 1..Len(r) : Flagged(t, m, r[i])
  BY <1>8, <1>9, <1>10
<1>12. \A p \in Paths : t2[p] = t[p] \/ p \in m2.changed
  BY <1>2, <1>3, <1>6, <1>7
<1>13. Remembered(m2, n + 2)
  <2>1. n + 1 + 1 = n + 2
    OBVIOUS
  <2> QED
    BY <1>6, <2>1
<1>14. m.changed \subseteq m2.changed
  BY <1>2, <1>6
<1>15. Turned(r, t, m, n, t2, m2, 2)
  BY <1>7, <1>8, <1>11, <1>12, <1>13, <1>14 DEF Turned
<1> QED
  BY <1>15 DEF r, t2, m2, t1, m1

\* The conversation after a turn: the turn is left out, or kept.
LEMMA LeftOut ==
  ASSUME NEW t, NEW g, NEW c, NEW m, NEW n, Talk(t, g, c, m, n),
         NEW r, NEW t2, NEW m2, NEW k, Turned(r, t, m, n, t2, m2, k)
  PROVE  Talk(t2, g, c + 1, m2, n + k)
<1>1. Len(g) \in Nat /\ Len(g) + (c + 1) <= n + k /\ c + 1 \in Nat /\ c + 1 > 0 /\ n + k \in Nat
  <2>1. Len(g) \in Nat /\ c \in Nat /\ n \in Nat /\ k \in Nat \ {0} /\ Len(g) + c <= n
    BY LenProperties DEF Talk, Turned
  <2> QED
    BY <2>1
<1>2. ASSUME NEW i \in 1..Len(g), NEW j \in 1..Len(g[i]) PROVE Flagged(t2, m2, g[i][j])
  <2>1. Flagged(t, m, g[i][j])
    BY DEF Talk
  <2>2. g[i][j] \in Possible
    <3>1. g[i] \in Seq(Possible)
      BY ElementOfSeq DEF Talk
    <3> QED
      BY <3>1, ElementOfSeq
  <2>3. g[i][j].tool = "read_file" => g[i][j].path \in Paths
    BY <2>2, ReadsVisible
  <2> QED
    BY <2>1, <2>3 DEF Flagged, Turned
<1> QED
  BY <1>1, <1>2 DEF Talk, Turned

LEMMA Kept ==
  ASSUME NEW t, NEW g, NEW c, NEW m, NEW n, Talk(t, g, c, m, n),
         NEW r, NEW t2, NEW m2, NEW k, Turned(r, t, m, n, t2, m2, k),
         \A i \in 1..Len(r) : ~Wrote(r[i]), ~(TurnTokens(r) > MaxTurn)
  PROVE  Talk(t2, Append(g, r), c, m2, n + k)
<1> DEFINE g2 == Append(g, r)
<1>1. g \in Seq(Seq(Possible)) /\ r \in Seq(Possible)
  BY DEF Talk, Turned
<1>2. /\ g2 \in Seq(Seq(Possible)) /\ Len(g2) = Len(g) + 1 /\ Len(g) \in Nat
      /\ \A i \in 1..Len(g) : g2[i] = g[i]
      /\ g2[Len(g) + 1] = r
  BY <1>1, AppendProperties, LenProperties
<1> HIDE DEF g2
<1>3. Len(g2) + c <= n + k /\ n + k \in Nat
  <2>1. c \in Nat /\ n \in Nat /\ k \in Nat \ {0} /\ Len(g) + c <= n
    BY DEF Talk, Turned
  <2> QED
    BY <1>2, <2>1
<1>4. t2 = t /\ m2.changed = m.changed /\ \A i \in 1..Len(r) : Flagged(t, m, r[i])
  BY DEF Turned
<1>5. ASSUME NEW i \in 1..Len(g2)
      PROVE  ~(TurnTokens(g2[i]) > MaxTurn) /\ \A j \in 1..Len(g2[i]) : Flagged(t2, m2, g2[i][j])
  <2>1. i \in 1..Len(g) \/ i = Len(g) + 1
    BY <1>2
  <2>2. CASE i \in 1..Len(g)
    BY <1>2, <1>4, <2>2 DEF Talk, Flagged
  <2>3. CASE i = Len(g) + 1
    BY <1>2, <1>4, <2>3 DEF Flagged
  <2> QED
    BY <2>1, <2>2, <2>3
<1>6. Talk(t2, g2, c, m2, n + k)
  BY <1>2, <1>3, <1>4, <1>5 DEF Talk, Turned
<1> QED
  BY <1>6 DEF g2

-----------------------------------------------------------------------------
(* The packet: its loop over the ranked candidates.                        *)

LEMMA LeastNat ==
  ASSUME NEW S \in SUBSET Nat, S # {}
  PROVE  \E n \in S : \A k \in S : n <= k
<1> DEFINE R == {ss \in Nat \X Nat : ss[1] < ss[2]}
<1>1. IsWellFoundedOn(R, Nat)
  BY NatLessThanWellFounded DEF OpToRel
<1> HIDE DEF R
<1>2. PICK n \in S : \A k \in S : ~(<<k, n>> \in R)
  BY <1>1, WFMin
<1>3. ASSUME NEW k \in S PROVE n <= k
  <2>1. k \in Nat /\ n \in Nat /\ ~(<<k, n>> \in R)
    BY <1>2
  <2>2. ~(k < n)
    BY <2>1 DEF R
  <2> QED
    BY <2>1, <2>2
<1> QED
  BY <1>2, <1>3

LEMMA MaxOf ==
  ASSUME NEW n \in Nat, NEW S \in SUBSET (1..n), S # {}
  PROVE  Max(S) \in S /\ \A x \in S : x <= Max(S)
<1> DEFINE D == {n - x : x \in S}
<1>1. D \in SUBSET Nat /\ D # {}
  <2>1. \A x \in S : n - x \in Nat
    OBVIOUS
  <2>2. PICK x \in S : TRUE
    OBVIOUS
  <2> QED
    BY <2>1, <2>2
<1>2. PICK d \in D : \A k \in D : d <= k
  BY <1>1, LeastNat
<1>3. PICK m \in S : d = n - m
  BY <1>2
<1>4. ASSUME NEW x \in S PROVE m >= x
  <2>1. d <= n - x
    BY <1>2
  <2> QED
    BY <1>3, <2>1
<1>5. \E x \in S : \A y \in S : x >= y
  BY <1>4
<1>6. Max(S) \in S /\ \A x \in S : Max(S) >= x
  BY <1>5 DEF Max
<1> QED
  BY <1>6

LEMMA WithoutMax ==
  ASSUME NEW n \in Nat, NEW s \in SUBSET (1..(n + 1)), s # {}
  PROVE  s \ {Max(s)} \in SUBSET (1..n)
<1>1. Max(s) \in s /\ \A x \in s : x <= Max(s)
  <2>1. n + 1 \in Nat
    OBVIOUS
  <2> QED
    BY <2>1, MaxOf
<1> SUFFICES ASSUME NEW x \in s, x # Max(s) PROVE x \in 1..n
  OBVIOUS
<1>2. x \in 1..(n + 1) /\ Max(s) \in 1..(n + 1) /\ x <= Max(s)
  BY <1>1
<1> QED
  BY <1>2

\* The loop of the builder over the places of the ranking, for the sets of
\* places within D.
Opening == [selected |-> <<>>, truncations |-> {}, omitted |-> 0, reused |-> {},
            chars |-> MaxTotalChars, units |-> MaxUnits, done |-> FALSE]
Places(n) == [i \in 1..n |-> i]
Offer(acc, i, res, changed, ranking) ==
  Consider(acc, ranking.order[i], Len(ranking.order) - i + 1, ranking.regions[ranking.order[i]], res, changed)
Loop(D, res, changed, ranking, f) ==
  [s \in D |-> IF s = {} THEN Opening
               ELSE Offer(f[s \ {Max(s)}], Places(Len(ranking.order))[Max(s)], res, changed, ranking)]

LEMMA LoopExtends ==
  ASSUME NEW n \in Nat, NEW res, NEW changed, NEW ranking, NEW f, f = Loop(SUBSET (1..n), res, changed, ranking, f)
  PROVE  \E g : g = Loop(SUBSET (1..(n + 1)), res, changed, ranking, g)
<1> DEFINE g == Loop(SUBSET (1..(n + 1)), res, changed, ranking, f)
<1>1. ASSUME NEW s \in SUBSET (1..n) PROVE g[s] = f[s]
  <2>1. s \in SUBSET (1..(n + 1))
    OBVIOUS
  <2>2. f[s] = IF s = {} THEN Opening
               ELSE Offer(f[s \ {Max(s)}], Places(Len(ranking.order))[Max(s)], res, changed, ranking)
    BY DEF Loop
  <2> QED
    BY <2>1, <2>2 DEF Loop
<1>2. ASSUME NEW s \in SUBSET (1..(n + 1)), s # {} PROVE g[s \ {Max(s)}] = f[s \ {Max(s)}]
  BY <1>1, <1>2, WithoutMax
<1>3. g = Loop(SUBSET (1..(n + 1)), res, changed, ranking, g)
  BY <1>2 DEF Loop
<1> QED
  BY <1>3

LEMMA LoopExists ==
  ASSUME NEW n0 \in Nat, NEW res, NEW changed, NEW ranking
  PROVE  \E f : f = Loop(SUBSET (1..n0), res, changed, ranking, f)
<1> DEFINE Bad == {n \in Nat : ~(\E f : f = Loop(SUBSET (1..n), res, changed, ranking, f))}
<1>1. \E f : f = Loop(SUBSET (1..0), res, changed, ranking, f)
  <2> DEFINE f == [s \in SUBSET (1..0) |-> Opening]
  <2>1. f = Loop(SUBSET (1..0), res, changed, ranking, f)
    BY DEF Loop
  <2> QED
    BY <2>1
<1>2. Bad = {}
  <2> SUFFICES ASSUME Bad # {} PROVE FALSE
    OBVIOUS
  <2>1. PICK n \in Bad : \A k \in Bad : n <= k
    BY LeastNat
  <2>2. n # 0
    BY <1>1, <2>1
  <2>3. n - 1 \in Nat /\ n - 1 \notin Bad /\ n \in Nat /\ (n - 1) + 1 = n
    <3>1. n \in Nat /\ n - 1 \in Nat /\ ~(n <= n - 1) /\ (n - 1) + 1 = n
      BY <2>1, <2>2
    <3> QED
      BY <2>1, <3>1
  <2>4. PICK f : f = Loop(SUBSET (1..(n - 1)), res, changed, ranking, f)
    BY <2>3
  <2>5. \E g : g = Loop(SUBSET (1..((n - 1) + 1)), res, changed, ranking, g)
    <3> DEFINE k == n - 1
    <3>1. k \in Nat /\ f = Loop(SUBSET (1..k), res, changed, ranking, f)
      BY <2>3, <2>4
    <3> HIDE DEF k
    <3>2. \E g : g = Loop(SUBSET (1..(k + 1)), res, changed, ranking, g)
      BY <3>1, LoopExtends
    <3> QED
      BY <3>2 DEF k
  <2> QED
    BY <2>1, <2>3, <2>5
<1> QED
  BY <1>2

\* What the loop has reused so far may be reused.
Reusing(acc, res, changed) ==
  "reused" \in DOMAIN acc /\ \A p \in acc["reused"] : CanReuse(p, res, changed)

LEMMA GiveUpKeeps ==
  ASSUME NEW acc, NEW reason, NEW rest, NEW res, NEW changed, Reusing(acc, res, changed)
  PROVE  Reusing(GiveUp(acc, reason, rest), res, changed)
<1>1. "reused" \in DOMAIN GiveUp(acc, reason, rest) /\ GiveUp(acc, reason, rest)["reused"] = acc["reused"]
  BY DEF GiveUp, Reusing
<1> QED
  BY <1>1 DEF Reusing

LEMMA OfferKeeps ==
  ASSUME NEW acc, NEW i, NEW res, NEW changed, NEW ranking, Reusing(acc, res, changed)
  PROVE  Reusing(Offer(acc, i, res, changed, ranking), res, changed)
<1> DEFINE p == ranking.order[i]
           rest == Len(ranking.order) - i + 1
           regions == ranking.regions[p]
           r == Consider(acc, p, rest, regions, res, changed)
           file == LoadCandidate(p, regions, acc.chars, acc.units)
           cuts == {[path |-> p, reason |-> q, files |-> IF file.path = 0 THEN 1 ELSE 0] : q \in file.reasons}
           a1 == [acc EXCEPT !.reused = @ \cup {p}]
           a2 == [acc EXCEPT !.omitted = @ + 1, !.truncations = @ \cup cuts]
           a3 == [acc EXCEPT !.selected = Append(@, file), !.truncations = @ \cup cuts,
                             !.chars = @ - Chars(file), !.units = @ - Bytes(file)]
<1>1. \/ r = acc
      \/ \E reason : r = GiveUp(acc, reason, rest)
      \/ CanReuse(p, res, changed) /\ r = a1
      \/ r = a2 \/ r = a3
  BY DEF Consider
<1>2. CanReuse(p, res, changed) => Reusing(a1, res, changed)
  <2> HIDE DEF p
  <2>1. "reused" \in DOMAIN a1 /\ a1["reused"] = acc["reused"] \cup {p}
    BY DEF Reusing
  <2> QED
    BY <2>1 DEF Reusing
<1>3. Reusing(a2, res, changed)
  <2> HIDE DEF p, cuts
  <2>1. "reused" \in DOMAIN a2 /\ a2["reused"] = acc["reused"]
    BY DEF Reusing
  <2> QED
    BY <2>1 DEF Reusing
<1>4. Reusing(a3, res, changed)
  <2> HIDE DEF p, cuts, file
  <2>1. "reused" \in DOMAIN a3 /\ a3["reused"] = acc["reused"]
    BY DEF Reusing
  <2> QED
    BY <2>1 DEF Reusing
<1> HIDE DEF a1, a2, a3, p, rest
<1>5. Reusing(r, res, changed)
  BY <1>1, <1>2, <1>3, <1>4, GiveUpKeeps
<1> QED
  BY <1>5 DEF Offer, r, p, rest

LEMMA LoopKeeps ==
  ASSUME NEW n \in Nat, NEW res, NEW changed, NEW ranking, NEW f, f = Loop(SUBSET (1..n), res, changed, ranking, f)
  PROVE  Reusing(f[1..n], res, changed)
<1> DEFINE Bad == {k \in 0..n : \E s \in SUBSET (1..k) : ~Reusing(f[s], res, changed)}
<1>1. Bad = {}
  <2> SUFFICES ASSUME Bad # {} PROVE FALSE
    OBVIOUS
  <2>0. Bad \in SUBSET Nat
    OBVIOUS
  <2>1. PICK k \in Bad : \A j \in Bad : k <= j
    BY <2>0, LeastNat
  <2>2. PICK s \in SUBSET (1..k) : ~Reusing(f[s], res, changed)
    BY <2>1
  <2>3. s \in SUBSET (1..n)
    BY <2>1, <2>2
  <2>4. f[s] = IF s = {} THEN Opening
               ELSE Offer(f[s \ {Max(s)}], Places(Len(ranking.order))[Max(s)], res, changed, ranking)
    BY <2>3 DEF Loop
  <2>5. Reusing(Opening, res, changed)
    <3>1. "reused" \in DOMAIN Opening /\ Opening["reused"] = {}
      BY DEF Opening
    <3> QED
      BY <3>1 DEF Reusing
  <2>6. s # {}
    BY <2>2, <2>4, <2>5
  <2>7. k - 1 \in Nat /\ k - 1 \in 0..n /\ (k - 1) + 1 = k /\ ~(k <= k - 1)
    <3>1. k \in Nat /\ k \in 0..n
      BY <2>1
    <3>2. k # 0
      <4>1. 1..0 = {}
        OBVIOUS
      <4> QED
        BY <2>2, <2>6, <4>1
    <3> QED
      BY <3>1, <3>2
  <2>8. s \ {Max(s)} \in SUBSET (1..(k - 1))
    <3>1. s \in SUBSET (1..((k - 1) + 1))
      BY <2>2, <2>7
    <3> QED
      BY <2>6, <2>7, <3>1, WithoutMax
  <2>9. Reusing(f[s \ {Max(s)}], res, changed)
    BY <2>1, <2>7, <2>8
  <2>10. f[s] = Offer(f[s \ {Max(s)}], Places(Len(ranking.order))[Max(s)], res, changed, ranking)
    BY <2>4, <2>6
  <2>11. \A acc, i : Reusing(acc, res, changed) => Reusing(Offer(acc, i, res, changed, ranking), res, changed)
    BY OfferKeeps
  <2> QED
    BY <2>2, <2>9, <2>10, <2>11
<1>2. n \in 0..n /\ 1..n \in SUBSET (1..n)
  OBVIOUS
<1> QED
  BY <1>1, <1>2

LEMMA PackIs ==
  ASSUME NEW res, NEW changed, NEW ranking, Len(ranking.order) \in Nat
  PROVE  \E f : /\ f = Loop(SUBSET (1..Len(ranking.order)), res, changed, ranking, f)
                /\ Pack(res, changed, ranking) = f[1..Len(ranking.order)]
<1> DEFINE n == Len(ranking.order)
           D == SUBSET DOMAIN Places(n)
           g == CHOOSE f : f = Loop(D, res, changed, ranking, f)
<1>1. DOMAIN Places(n) = 1..n
  BY DEF Places
<1>2. \E f : f = Loop(D, res, changed, ranking, f)
  BY <1>1, LoopExists
<1>3. g = Loop(D, res, changed, ranking, g)
  BY <1>2
<1>4. Pack(res, changed, ranking) = g[DOMAIN Places(n)]
  BY DEF Pack, FoldLeft, MapThenFoldSet, Loop, Offer, Opening, Places
<1> HIDE DEF g
<1> QED
  BY <1>1, <1>3, <1>4

\* The ranking names as many candidates as there are visible files.
LEMMA RankingLength ==
  ASSUME NEW changed
  PROVE  Len(RankCandidates(changed).order) \in Nat
<1>1. Cardinality(Paths) \in Nat
  BY PathAssumption, FS_CardinalityType
<1>2. ASSUME NEW scores, NEW regions PROVE Len(Candidates(scores, regions).order) \in Nat
  <2>1. Candidates(scores, regions).order = CandidateOrder(scores, regions)
    BY DEF Candidates
  <2>2. Len(CandidateOrder(scores, regions)) = Cardinality(Paths)
    BY <1>1 DEF CandidateOrder, Ranked, Sorted
  <2> QED
    BY <1>1, <2>1, <2>2
<1> QED
  BY <1>2 DEF RankCandidates, Select

\* What a packet leaves out as known may be reused; what it calls changed is
\* what differs from the commit or was changed before.
LEMMA BuildFacts ==
  ASSUME NEW res
  PROVE  /\ Build(res).changed = {p \in Paths : tree[p] # head[p]} \cup res.changed
         /\ \A p \in Build(res).reused : CanReuse(p, res, Build(res).changed)
<1> DEFINE changed == {p \in Paths : tree[p] # head[p]} \cup res.changed
           packed == Pack(res, changed, RankCandidates(changed))
<1>1. Build(res) = PacketOf(changed, packed)
  BY DEF Build
<1> HIDE DEF packed
<1>2. Build(res).changed = changed /\ Build(res).reused = packed.reused
  BY <1>1 DEF PacketOf
<1> HIDE DEF changed
<1> DEFINE ranking == RankCandidates(changed)
<1>3. Len(ranking.order) \in Nat
  BY RankingLength
<1>4. packed = Pack(res, changed, ranking)
  BY DEF packed
<1> HIDE DEF ranking
<1>5. PICK f : /\ f = Loop(SUBSET (1..Len(ranking.order)), res, changed, ranking, f)
               /\ Pack(res, changed, ranking) = f[1..Len(ranking.order)]
  BY <1>3, PackIs
<1>6. Reusing(f[1..Len(ranking.order)], res, changed)
  BY <1>3, <1>5, LoopKeeps
<1>7. \A p \in packed.reused : CanReuse(p, res, changed)
  BY <1>4, <1>5, <1>6 DEF Reusing
<1> QED
  BY <1>2, <1>7 DEF changed

-----------------------------------------------------------------------------
(* The inductive invariant.                                                *)

Quiet == groups = <<>> /\ compacted = 0 /\ memory = NoMemory /\ calls = 0

Plain ==
  /\ pc \in {"ready", "working", "ended", "stopped"} /\ slice \in 1..MaxSlices /\ late \in 0..MaxLateWrites
  /\ head \in Trees
  /\ resume.changed \subseteq Paths /\ state.changed \subseteq Paths /\ packet.changed \subseteq Paths

Conversing ==
  /\ Talk(tree, groups, compacted, memory, calls) /\ calls <= MaxCalls
  /\ pc # "working" => Quiet

\* What a slice hands on was selected by a packet, and what the packet leaves
\* out it calls changed, or some packet held it as committed.
Handed == resume.read \subseteq known /\ state.read \subseteq known /\ Selected(packet) \subseteq known

Covered(k, h, seen) ==
  \A p \in Paths \cap k.reused : p \in k.changed \/ [path |-> p, hash |-> h[p]] \in seen

ContextInv == Plain /\ Conversing /\ Handed /\ Covered(packet, head, known)

LEMMA StartsQuiet ==
  ASSUME NEW t \in Trees
  PROVE  Talk(t, <<>>, 0, NoMemory, 0)
<1>1. <<>> \in Seq(Seq(Possible)) /\ Len(<<>>) = 0 /\ 1..0 = {}
  OBVIOUS
<1>2. Remembered(NoMemory, 0)
  <2>1. NoMemory.inspected = {} /\ NoMemory.changed = {} /\ NoMemory = [inspected |-> {}, changed |-> {}]
    BY DEF NoMemory
  <2> QED
    BY <2>1, FS_EmptySet DEF Remembered
<1>3. NoMemory.changed = {}
  BY DEF NoMemory
<1> QED
  BY <1>1, <1>2, <1>3 DEF Talk

LEMMA InitInv ==
  ASSUME ContextInit
  PROVE  ContextInv
<1>1. tree \in Trees /\ head \in Trees
  BY DEF ContextInit, Trees
<1>2. Plain
  BY <1>1, PathAssumption DEF ContextInit, Plain, NoState, NoPacket
<1>3. Conversing
  <2>1. Talk(tree, <<>>, 0, NoMemory, 0)
    BY <1>1, StartsQuiet
  <2>2. groups = <<>> /\ compacted = 0 /\ memory = NoMemory /\ calls = 0 /\ 0 <= MaxCalls
    BY ListAssumption DEF ContextInit
  <2> QED
    BY <2>1, <2>2 DEF Conversing, Quiet
<1>4. Handed
  <2>1. NoState.read = {} /\ Selected(NoPacket) = {}
    BY DEF NoState, NoPacket, Selected
  <2> QED
    BY <2>1 DEF Handed, ContextInit
<1>5. Covered(packet, head, known)
  <2>1. NoPacket.reused = {}
    BY DEF NoPacket
  <2> QED
    BY <2>1 DEF Covered, ContextInit
<1> QED
  BY <1>2, <1>3, <1>4, <1>5 DEF ContextInv

\* A packet built with what a slice was handed.
LEMMA PacketStep ==
  ASSUME ContextInv, NEW res, res.changed \subseteq Paths, res.read \subseteq known,
         pc' = "working", packet' = Build(res), known' = known \cup Selected(packet'),
         UNCHANGED <<slice, tree, head, resume, state, session, late>>
  PROVE  ContextInv'
<1>1. /\ packet'.changed = {p \in Paths : tree[p] # head[p]} \cup res.changed
      /\ \A p \in packet'.reused : CanReuse(p, res, packet'.changed)
  BY BuildFacts
<1>2. Plain'
  <2>1. packet'.changed \subseteq Paths
    BY <1>1
  <2> QED
    BY <2>1 DEF ContextInv, Plain
<1>3. Conversing'
  BY DEF ContextInv, Conversing, session
<1>4. Handed'
  BY DEF ContextInv, Handed
<1>5. Covered(packet', head, known')
  <2> SUFFICES ASSUME NEW p \in Paths, p \in packet'.reused, p \notin packet'.changed
               PROVE  [path |-> p, hash |-> head[p]] \in known'
    BY DEF Covered
  <2>1. CanReuse(p, res, packet'.changed) /\ p \notin res.changed /\ tree[p] = head[p]
    BY <1>1
  <2>2. [path |-> p, hash |-> tree[p]] \in res.read
    BY <2>1 DEF CanReuse
  <2> QED
    BY <2>1, <2>2
<1> QED
  BY <1>2, <1>3, <1>4, <1>5 DEF ContextInv

LEMMA BuildContextStep ==
  ASSUME ContextInv, BuildContext
  PROVE  ContextInv'
<1>1. resume.changed \subseteq Paths /\ resume.read \subseteq known
  BY DEF ContextInv, Plain, Handed
<1> QED
  BY <1>1, PacketStep DEF BuildContext

LEMMA BuildReviewStep ==
  ASSUME ContextInv, BuildReview
  PROVE  ContextInv'
<1>1. NoState.changed \subseteq Paths /\ NoState.read \subseteq known
  BY DEF NoState
<1> QED
  BY <1>1, PacketStep DEF BuildReview

\* A turn adds its calls to the conversation and leaves the rest alone.
LEMMA TurnStep ==
  ASSUME ContextInv, NEW r, NEW t2, NEW k, Turn(r, t2), Len(r) = k, DOMAIN r = 1..k,
         NEW m2, m2 = Watched(memory, r), Turned(r, tree, memory, calls, t2, m2, k)
  PROVE  ContextInv'
<1>1. Talk(tree, groups, compacted, memory, calls)
  BY DEF ContextInv, Conversing
<1>2. Talk(tree, groups, compacted, memory, calls)'
  <2> DEFINE big == TurnTokens(r) > MaxTurn
  <2>0. /\ memory' = m2 /\ tree' = t2 /\ calls' = calls + k
        /\ IF big \/ \E i \in DOMAIN r : r[i].tool = "write_file" /\ r[i].ok
           THEN compacted' = compacted + 1 /\ groups' = groups
           ELSE groups' = Append(groups, r) /\ compacted' = compacted
    BY DEF Turn, AddGroup, Watched
  <2>1. CASE big \/ \E i \in 1..k : Wrote(r[i])
    <3>1. compacted' = compacted + 1 /\ groups' = groups
      BY <2>0, <2>1 DEF Wrote
    <3>2. Talk(t2, groups, compacted + 1, m2, calls + k)
      BY <1>1, LeftOut
    <3> QED
      BY <2>0, <3>1, <3>2
  <2>2. CASE ~big /\ \A i \in 1..k : ~Wrote(r[i])
    <3>1. groups' = Append(groups, r) /\ compacted' = compacted
      BY <2>0, <2>2 DEF Wrote
    <3>2. Talk(t2, Append(groups, r), compacted, m2, calls + k)
      BY <1>1, <2>2, Kept
    <3> QED
      BY <2>0, <3>1, <3>2
  <2> QED
    BY <2>1, <2>2
<1>3. Conversing'
  <2>1. calls' <= MaxCalls /\ pc' = "working"
    BY DEF Turn
  <2> QED
    BY <1>2, <2>1 DEF Conversing
<1>4. Plain' /\ Handed' /\ Covered(packet', head', known')
  <2>1. UNCHANGED <<pc, slice, head, resume, state, packet, known, late>>
    BY DEF Turn
  <2> QED
    BY <2>1 DEF ContextInv, Plain, Handed
<1> QED
  BY <1>3, <1>4 DEF ContextInv

LEMMA OneCallStep ==
  ASSUME ContextInv, OneCall
  PROVE  ContextInv'
<1>1. PICK a \in CallsOn(tree) : Turn(<<a>>, After(tree, a))
  BY DEF OneCall
<1>2. tree \in Trees /\ calls \in Nat /\ Remembered(memory, calls)
  BY DEF ContextInv, Conversing, Talk
<1>3. Turned(<<a>>, tree, memory, calls, After(tree, a), Observe(memory, a), 1)
  BY <1>2, OneTurned
<1>4. Observe(memory, a) = Watched(memory, <<a>>)
  BY WatchOne
<1> DEFINE r == <<a>>
<1>5. Len(r) = 1 /\ DOMAIN r = 1..1
  OBVIOUS
<1> HIDE DEF r
<1>6. Turn(r, After(tree, a)) /\ Observe(memory, a) = Watched(memory, r)
      /\ Turned(r, tree, memory, calls, After(tree, a), Observe(memory, a), 1)
  BY <1>1, <1>3, <1>4 DEF r
<1> QED
  BY <1>5, <1>6, TurnStep

LEMMA TwoCallsStep ==
  ASSUME ContextInv, TwoCalls
  PROVE  ContextInv'
<1>1. PICK a \in CallsOn(tree) : \E b \in CallsOn(After(tree, a)) : Turn(<<a, b>>, After(After(tree, a), b))
  BY DEF TwoCalls
<1>2. PICK b \in CallsOn(After(tree, a)) : Turn(<<a, b>>, After(After(tree, a), b))
  BY <1>1
<1>3. tree \in Trees /\ calls \in Nat /\ Remembered(memory, calls)
  BY DEF ContextInv, Conversing, Talk
<1>8. Watched(memory, <<a, b>>) = Observe(Observe(memory, a), b)
  BY WatchTwo
<1> DEFINE r == <<a, b>>
           t2 == After(After(tree, a), b)
           m2 == Observe(Observe(memory, a), b)
<1>4. Turned(r, tree, memory, calls, t2, m2, 2)
  BY <1>3, TwoTurned
<1>6. Len(r) = 2 /\ DOMAIN r = 1..2
  OBVIOUS
<1>7. Turn(r, t2)
  BY <1>2
<1> HIDE DEF r
<1>5. m2 = Watched(memory, r)
  BY <1>8 DEF r
<1> HIDE DEF t2, m2
<1> QED
  BY <1>4, <1>5, <1>6, <1>7, TurnStep

LEMMA EndSessionStep ==
  ASSUME ContextInv, EndSession
  PROVE  ContextInv'
<1>1. tree \in Trees /\ tree' = tree /\ 0 <= MaxCalls
  BY ListAssumption DEF ContextInv, Conversing, Talk, EndSession
<1>2. Talk(tree, <<>>, 0, NoMemory, 0)
  BY <1>1, StartsQuiet
<1>3. groups' = <<>> /\ compacted' = 0 /\ memory' = NoMemory /\ calls' = 0
  BY DEF EndSession
<1>4. Conversing'
  BY <1>1, <1>2, <1>3 DEF Conversing, Quiet
<1>5. Plain' /\ Handed' /\ Covered(packet', head', known')
  BY DEF ContextInv, Plain, Handed, EndSession
<1> QED
  BY <1>4, <1>5 DEF ContextInv

LEMMA StopSliceStep ==
  ASSUME ContextInv, StopSlice
  PROVE  ContextInv'
<1>1. state'.read = Selected(packet) /\ state'.changed = {p \in Paths : tree[p] # head[p]}
  BY DEF StopSlice
<1>2. Plain'
  <2>1. state'.changed \subseteq Paths
    BY <1>1
  <2> QED
    BY <2>1 DEF ContextInv, Plain, StopSlice
<1>3. Conversing'
  BY DEF ContextInv, Conversing, Quiet, StopSlice, session
<1>4. Handed' /\ Covered(packet', head', known')
  BY <1>1 DEF ContextInv, Handed, StopSlice
<1> QED
  BY <1>2, <1>3, <1>4 DEF ContextInv

LEMMA LateWriteStep ==
  ASSUME ContextInv, NEW p \in Paths, LateWrite(p)
  PROVE  ContextInv'
<1>1. PICK c \in Versions[p] : tree' = [tree EXCEPT ![p] = c]
  BY DEF LateWrite
<1>2. tree' \in Trees
  <2>1. tree \in [Paths -> UNION {Versions[q] : q \in Paths}] /\ \A q \in Paths : tree[q] \in Versions[q]
    BY DEF ContextInv, Conversing, Talk, Trees
  <2>2. c \in UNION {Versions[q] : q \in Paths}
    BY <1>1
  <2>3. tree' \in [Paths -> UNION {Versions[q] : q \in Paths}]
    BY <1>1, <2>1, <2>2
  <2>4. \A q \in Paths : tree'[q] = IF q = p THEN c ELSE tree[q]
    BY <1>1, <2>1
  <2>5. \A q \in Paths : tree'[q] \in Versions[q]
    BY <1>1, <2>1, <2>4
  <2> QED
    BY <2>3, <2>5 DEF Trees
<1>3. Quiet /\ pc' = pc /\ UNCHANGED session
  BY DEF ContextInv, Conversing, LateWrite
<1>4. Conversing'
  <2>1. Talk(tree', <<>>, 0, NoMemory, 0)
    BY <1>2, StartsQuiet
  <2>2. groups' = <<>> /\ compacted' = 0 /\ memory' = NoMemory /\ calls' = 0 /\ 0 <= MaxCalls
    BY <1>3, ListAssumption DEF Quiet, session
  <2> QED
    BY <2>1, <2>2 DEF Conversing, Quiet
<1>5. Plain'
  BY PathAssumption DEF ContextInv, Plain, LateWrite
<1>6. Handed' /\ Covered(packet', head', known')
  BY DEF ContextInv, Handed, LateWrite
<1> QED
  BY <1>4, <1>5, <1>6 DEF ContextInv

LEMMA ContinueStep ==
  ASSUME ContextInv, Continue
  PROVE  ContextInv'
<1>1. tree \in Trees /\ head' = tree /\ tree' = tree /\ resume' = state /\ packet' = NoPacket /\ state' = NoState
  BY DEF ContextInv, Conversing, Talk, Continue
<1>2. /\ NoState.read = {} /\ NoState.changed = {}
      /\ NoPacket.changed = {} /\ NoPacket.reused = {} /\ Selected(NoPacket) = {}
  BY DEF NoState, NoPacket, Selected
<1>3. Plain'
  BY <1>1, <1>2, PathAssumption DEF ContextInv, Plain, Continue
<1>4. Conversing'
  BY DEF ContextInv, Conversing, Quiet, Continue, session
<1>5. Handed'
  BY <1>1, <1>2 DEF ContextInv, Handed, Continue
<1>6. Covered(packet', head', known')
  BY <1>1, <1>2 DEF Covered
<1> QED
  BY <1>3, <1>4, <1>5, <1>6 DEF ContextInv

LEMMA StepInv ==
  ASSUME ContextInv, [ContextNext]_contextVars
  PROVE  ContextInv'
<1>1. CASE UNCHANGED contextVars
  BY <1>1 DEF ContextInv, Plain, Conversing, Quiet, Handed, contextVars, session
<1> QED
  BY <1>1, BuildContextStep, BuildReviewStep, OneCallStep, TwoCallsStep, EndSessionStep, StopSliceStep,
     ContinueStep, LateWriteStep DEF ContextNext

LEMMA MaxAtLeast ==
  ASSUME NEW x \in Int
  PROVE  Max({0, x}) \in Nat
<1>1. CASE x <= 0
  <2>1. \A y \in {0, x} : 0 >= y
    BY <1>1
  <2>2. PICK m \in {0, x} : m = Max({0, x}) /\ \A y \in {0, x} : m >= y
    BY <2>1 DEF Max
  <2> QED
    BY <2>2
<1>2. CASE x > 0
  <2>1. \A y \in {0, x} : x >= y
    BY <1>2
  <2>2. PICK m \in {0, x} : m = Max({0, x}) /\ \A y \in {0, x} : m >= y
    BY <2>1 DEF Max
  <2> QED
    BY <2>2
<1> QED
  BY <1>1, <1>2

\* The working state lists every changed file: there are never too many.
LEMMA AllListed ==
  ASSUME ContextInv, NEW p \in memory.changed
  PROVE  Cardinality({q \in memory.changed : q < p}) < MaxListed
<1> DEFINE C == memory.changed
           S == {q \in C : q < p}
<1>1. /\ IsFiniteSet(C) /\ Cardinality(C) <= calls /\ calls <= MaxCalls /\ calls \in Nat
      /\ C \subseteq Paths
  BY DEF ContextInv, Conversing, Talk, Remembered
<1>2. p \in Nat /\ p \notin S /\ p \in C
  <2>1. p \in C /\ p \in Nat
    <3>1. p \in C
      OBVIOUS
    <3>2. p \in Paths
      BY <1>1
    <3> QED
      BY <3>1, <3>2, PathAssumption
  <2>2. ~(p < p)
    BY <2>1
  <2> QED
    BY <2>1, <2>2
<1>3. S \subseteq C \ {p}
  BY <1>2
<1>4. IsFiniteSet(C \ {p}) /\ Cardinality(C \ {p}) = Cardinality(C) - 1
  BY <1>1, <1>2, FS_RemoveElement
<1>5. IsFiniteSet(S) /\ Cardinality(S) <= Cardinality(C \ {p})
  BY <1>3, <1>4, FS_Subset
<1>6. Cardinality(S) \in Nat /\ Cardinality(C) \in Nat
  BY <1>1, <1>5, FS_CardinalityType
<1>7. MaxCalls \in Nat /\ MaxListed \in Nat /\ MaxCalls <= MaxListed
  BY ListAssumption
<1> HIDE DEF C, S
<1>8. Cardinality(S) < MaxListed
  BY <1>1, <1>4, <1>5, <1>6, <1>7
<1> QED
  BY <1>8 DEF S, C

\* What stays of the conversation is the end of it.
LEMMA Recent ==
  ASSUME NEW T, NEW s \in Seq(T), NEW n \in Nat, NEW i \in DOMAIN LastOf(s, n)
  PROVE  \E k \in 1..Len(s) : LastOf(s, n)[i] = s[k]
<1> DEFINE b == IF Len(s) > n THEN Len(s) - n + 1 ELSE 1
<1>1. Len(s) \in Nat /\ b \in Nat \ {0} /\ b <= Len(s) + 1
  BY LenProperties
<1>2. LastOf(s, n) = SubSeq(s, b, Len(s))
  BY DEF LastOf
<1> HIDE DEF b
<1>3. LastOf(s, n) = [j \in 1..(Len(s) - b + 1) |-> s[b + j - 1]]
  BY <1>1, <1>2
<1>4. i \in 1..(Len(s) - b + 1) /\ LastOf(s, n)[i] = s[b + i - 1]
  BY <1>3
<1>5. b + i - 1 \in 1..Len(s)
  BY <1>1, <1>4
<1> QED
  BY <1>4, <1>5

LEMMA FlaggedHolds ==
  ASSUME ContextInv
  PROVE  StaleReadFlagged
<1> DEFINE kept == LastOf(groups, MaxGroups)
           listed == IF CompactedGroupCount > 0
                     THEN {p \in memory.changed : Cardinality({q \in memory.changed : q < p}) < MaxListed}
                     ELSE {}
<1>1. Messages = [memory |-> listed, groups |-> kept]
  BY DEF Messages
<1> HIDE DEF kept, listed
<1>2. Messages.groups = kept /\ Messages.memory = listed
  BY <1>1
<1>3. /\ groups \in Seq(Seq(Possible)) /\ compacted \in Nat
      /\ memory.changed # {} => compacted > 0
      /\ \A i \in 1..Len(groups) : \A j \in 1..Len(groups[i]) : Flagged(tree, memory, groups[i][j])
  BY DEF ContextInv, Conversing, Talk
<1>4. ASSUME NEW p \in memory.changed PROVE p \in listed
  <2>1. compacted > 0 /\ compacted \in Nat
    BY <1>3
  <2>2. Max({0, Len(groups) - MaxGroups}) \in Nat
    <3>1. Len(groups) - MaxGroups \in Int
      <4>1. Len(groups) \in Nat /\ MaxGroups \in Nat
        BY <1>3, LenProperties, BudgetAssumption
      <4> QED
        BY <4>1
    <3> QED
      BY <3>1, MaxAtLeast
  <2>3. CompactedGroupCount > 0
    BY <2>1, <2>2 DEF CompactedGroupCount
  <2> QED
    BY <2>3, AllListed DEF listed
<1>5. ASSUME NEW i \in DOMAIN kept, NEW j \in DOMAIN kept[i],
             kept[i][j].tool = "read_file", kept[i][j].ok, kept[i][j].content # tree[kept[i][j].path]
      PROVE  kept[i][j].path \in listed
  <2>1. PICK k \in 1..Len(groups) : kept[i] = groups[k]
    BY <1>3, Recent, BudgetAssumption DEF kept
  <2>2. groups[k] \in Seq(Possible)
    BY <1>3, <2>1, ElementOfSeq
  <2>3. j \in 1..Len(groups[k])
    BY <2>1, <2>2, LenProperties
  <2>4. Flagged(tree, memory, kept[i][j])
    BY <1>3, <2>1, <2>3
  <2> QED
    BY <1>4, <1>5, <2>4 DEF Flagged
<1> QED
  BY <1>2, <1>5 DEF StaleReadFlagged

LEMMA InvConversation ==
  ASSUME ContextInv
  PROVE  ConversationSound
<1>1. ContextTypeOK
  <2>1. \A p \in Paths : tree[p] \in Versions[p] /\ head[p] \in Versions[p]
    BY DEF ContextInv, Plain, Conversing, Talk, Trees
  <2>2. memory.inspected \subseteq Paths /\ memory.changed \subseteq memory.inspected
    BY DEF ContextInv, Conversing, Talk, Remembered
  <2>3. calls \in 0..MaxCalls /\ Len(groups) + compacted <= calls
    <3>1. calls \in Nat /\ calls <= MaxCalls /\ MaxCalls \in Nat
      BY ListAssumption DEF ContextInv, Conversing, Talk
    <3>2. Len(groups) + compacted <= calls
      BY DEF ContextInv, Conversing, Talk
    <3> QED
      BY <3>1, <3>2
  <2> QED
    BY <2>1, <2>2, <2>3 DEF ContextTypeOK, ContextInv, Plain
<1>2. TurnWithinBudget
  <2>1. groups \in Seq(Seq(Possible)) /\ \A i \in 1..Len(groups) : ~(TurnTokens(groups[i]) > MaxTurn)
    BY DEF ContextInv, Conversing, Talk
  <2>2. DOMAIN groups = 1..Len(groups)
    BY <2>1, LenProperties
  <2> QED
    BY <2>1, <2>2 DEF TurnWithinBudget
<1> QED
  BY <1>1, <1>2, FlaggedHolds DEF ConversationSound

LEMMA InvHidden ==
  ASSUME ContextInv
  PROVE  HiddenIsKnown
<1> SUFFICES ASSUME NEW p \in Paths \cap packet.reused, p \notin packet.changed, tree[p] = head[p]
             PROVE  [path |-> p, hash |-> tree[p]] \in known
  BY DEF HiddenIsKnown
<1> QED
  BY DEF ContextInv, Covered

LEMMA AlwaysInv == ContextSpec => []ContextInv
<1>1. ContextInit => ContextInv
  BY InitInv
<1>2. ContextInv /\ [ContextNext]_contextVars => ContextInv'
  BY StepInv
<1> QED
  BY <1>1, <1>2, PTL DEF ContextSpec

(* A conversation never passes an old file off as the present one, and its  *)
(* turns stay within their budget: whatever the model calls in a session,   *)
(* a read that a later write superseded is flagged by the working state.    *)
THEOREM ConversationTheorem == ContextSpec => []ConversationSound
<1>1. ContextInv => ConversationSound
  BY InvConversation
<1> QED
  BY <1>1, AlwaysInv, PTL

(* A file that a packet leaves out as already known was shown with exactly  *)
(* its present content, or is named as changed, however many slices, reviews *)
(* and late writes of abandoned tool threads came between.                  *)
THEOREM HiddenTheorem == ContextSpec => []HiddenIsKnown
<1>1. ContextInv => HiddenIsKnown
  BY InvHidden
<1> QED
  BY <1>1, AlwaysInv, PTL

=============================================================================
