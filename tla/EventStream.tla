---------------------------- MODULE EventStream ----------------------------
(***************************************************************************)
(* The resident that carries host events into the durable outbox           *)
(* (plugins/cmux/yatagarasu_cmux/resident.py, event_outbox.py,             *)
(* stream_protocol.py).                                                    *)
(*                                                                         *)
(* The daemon of the host numbers its events from 1 in every boot and      *)
(* keeps the last Retain of them.  A resident resumes after the sequence   *)
(* number of its durable cursor, hands each event to the receipt producer, *)
(* then commits the event and the cursor in one transaction.  A replay     *)
(* that does not start where the cursor stands is a gap, and after it the  *)
(* resident takes snapshots and records them.                              *)
(*                                                                         *)
(* An event is << boot, seq >>: its name and payload do not matter here    *)
(* and its source_event_id is unique to it.  Heartbeats change nothing.    *)
(* The stream_audit rows of kind reconnect_replay are a log that nothing   *)
(* reads; the rows of kind gap_resnapshot are in resnapshots.              *)
(***************************************************************************)
EXTENDS Naturals, Sequences

CONSTANTS
    Retain,        \* how many events the daemon keeps for replay
    MaxSeq,        \* bound: events of one boot
    MaxFaults,     \* bound: crashes, disconnects, sink failures, daemon
                   \* restarts and replays from before the cursor
    None

ASSUME BoundsAssumption ==
    Retain \in Nat /\ MaxSeq \in Nat /\ MaxFaults \in Nat

ASSUME NoneAssumption == None \notin Nat /\ None \notin Nat \X Nat

VARIABLES
    daemon,        \* for each of its boots, the latest sequence number
    cursor,        \* stream_cursor: << boot, seq >> or None
    outbox,        \* source_event_outbox in rowid order
    resnapshots,   \* stream_audit rows of kind gap_resnapshot
    resident,      \* what the resident process holds
    producer,      \* the events the receipt producer's memory is built from
    observed,      \* the events whose receipts observe() has made durable
    faults

durable == << cursor, outbox, resnapshots >>

vars == << daemon, durable, resident, producer, observed, faults >>

\* Positions are ordered by boot, then by sequence number.
Before(p, q) == p[1] < q[1] \/ (p[1] = q[1] /\ p[2] < q[2])

AtOrBefore(p, q) == p = q \/ Before(p, q)

\* The daemon's boot and its latest event in that boot.
Boot == Len(daemon)
Latest == daemon[Boot]

Emitted(e) == e[2] \in 1..daemon[e[1]]

Down == [pc |-> "down"]

\* A connection acknowledged for boot b: the cursor when it was opened, the
\* gap, the replay events left, the next sequence number on the wire.
Connection(pc, opened, b, gap, left, next) ==
    [pc |-> pc, opened |-> opened, boot |-> b, gap |-> gap, left |-> left,
     next |-> next]

Positions == (1..(MaxFaults + 1)) \X (0..MaxSeq)

Connections ==
    [pc : {"stream", "commit", "snapshot"},
     opened : Positions \cup {None},
     boot : 1..(MaxFaults + 1),
     gap : BOOLEAN,
     left : 0..MaxSeq,
     next : 0..(MaxSeq + 1)]

TypeOK ==
    /\ daemon \in Seq(0..MaxSeq)
    /\ Len(daemon) \in 1..(MaxFaults + 1)
    /\ cursor \in Positions \cup {None}
    /\ outbox \in Seq(Positions)
    /\ resnapshots \subseteq Positions
    /\ resident \in {Down, [pc |-> "connect"]} \cup Connections
    /\ producer \in Seq(Positions)
    /\ observed \subseteq Positions
    /\ faults \in 0..MaxFaults

Init ==
    /\ daemon = << 0 >>
    /\ cursor = None
    /\ outbox = <<>>
    /\ resnapshots = {}
    /\ resident = Down
    /\ producer = <<>>
    /\ observed = {}
    /\ faults = 0

Fault == faults < MaxFaults /\ faults' = faults + 1

Stored(e) == \E i \in DOMAIN outbox : outbox[i] = e
-----------------------------------------------------------------------------
(***************************************************************************)
(* The daemon                                                              *)
(***************************************************************************)
Emit ==
    /\ Latest < MaxSeq
    /\ daemon' = [daemon EXCEPT ![Boot] = @ + 1]
    /\ UNCHANGED << durable, resident, producer, observed, faults >>

\* It comes back with a new boot id and numbers its events anew.
DaemonRestart ==
    /\ Fault
    /\ daemon' = Append(daemon, 0)
    /\ UNCHANGED << durable, resident, producer, observed >>

Oldest == IF Latest > Retain THEN Latest - Retain + 1 ELSE 1

\* The first event replayed to a subscriber that asks for what follows
\* after, and whether the daemon declares a gap: it only has the number, not
\* the boot, and an event it no longer or not yet has is a gap to it.
ReplayFrom(after) ==
    IF after = None THEN Latest + 1
    ELSE IF after > Latest \/ after + 1 < Oldest THEN Oldest
    ELSE after + 1

DeclaresGap(after) ==
    after # None /\ (after > Latest \/ after + 1 < Oldest)
-----------------------------------------------------------------------------
(***************************************************************************)
(* EventStreamResident.run                                                 *)
(***************************************************************************)
\* Mutant: the producer is not rebuilt.
StartEmpty ==
    /\ resident = Down
    /\ resident' = [pc |-> "connect"]
    /\ producer' = <<>>
    /\ UNCHANGED << daemon, durable, observed, faults >>

\* A process starts, and recover() rebuilds the producer from the outbox.
Start ==
    /\ resident = Down
    /\ resident' = [pc |-> "connect"]
    /\ producer' = outbox
    /\ UNCHANGED << daemon, durable, observed, faults >>

\* after_seq: the cursor's number; its boot is not sent.
AfterSeq == IF cursor = None THEN None ELSE cursor[2]

\* Mutant: only the daemon's word is taken for a gap.
GapAsDeclared == DeclaresGap(AfterSeq)

Gap ==
    \/ DeclaresGap(AfterSeq)
    \/ cursor # None /\ cursor[1] # Boot

\* The stream is opened after the cursor and acknowledged.  A gap with an
\* empty replay goes to the snapshot at the daemon's latest event at once.
Connect(first) ==
    LET left == Latest + 1 - first
    IN  /\ resident.pc = "connect"
        /\ resident' =
              IF Gap /\ left = 0
              THEN Connection("snapshot", cursor, Boot, Gap, 0, Latest)
              ELSE Connection("stream", cursor, Boot, Gap, left, first)
        /\ UNCHANGED << daemon, durable, producer, observed >>

Resume == Connect(ReplayFrom(AfterSeq)) /\ UNCHANGED faults

\* The daemon replays an event the resident already has once more.
ResumeEarlier ==
    /\ Fault
    /\ cursor # None
    /\ cursor[2] \in Oldest..Latest
    /\ Connect(cursor[2])

\* The event that project() makes of the next frame: one of another boot than
\* the acknowledged one, or one that is malformed, ends the run.
Projected == << resident.boot, resident.next >>

\* Mutant: a failure of the receipt sink is swallowed.
ObserveUnacknowledged ==
    LET e == Projected
    IN  /\ resident.pc = "stream"
        /\ resident.boot = Boot
        /\ resident.next =< Latest
        /\ producer' = Append(producer, e)
        /\ observed' \in {observed, observed \cup {e}}
        /\ resident' = [resident EXCEPT !.pc = "commit"]
        /\ UNCHANGED << daemon, durable, faults >>

\* An event arrives and the producer observes it before it is committed.
Observe ==
    LET e == Projected
    IN  /\ resident.pc = "stream"
        /\ resident.boot = Boot
        /\ resident.next =< Latest
        /\ producer' = Append(producer, e)
        /\ observed' = observed \cup {e}
        /\ resident' = [resident EXCEPT !.pc = "commit"]
        /\ UNCHANGED << daemon, durable, faults >>

\* commit_event refuses an event that is new but not past the cursor, or
\* that is of another boot although no gap was declared.
CommitRefused(e) ==
    /\ ~ Stored(e)
    /\ cursor # None
    /\ \/ cursor[1] # e[1] /\ ~ resident.gap
       \/ cursor[1] = e[1] /\ e[2] =< cursor[2]

\* Mutants: live events count as replay events too, and a replay with a gap
\* goes on to the live stream.
AfterCommitUnderflow ==
    IF resident.left = 1 /\ resident.gap
    THEN [resident EXCEPT !.pc = "snapshot", !.left = 0]
    ELSE [resident EXCEPT !.pc = "stream", !.left = @ - 1, !.next = @ + 1]

AfterCommitNoSnapshot ==
    [resident EXCEPT !.pc = "stream", !.next = @ + 1,
                     !.left = IF @ > 0 THEN @ - 1 ELSE 0]

\* The replay accounting after a commit: the last event of a replay with a
\* gap leads to the snapshot, which is taken at that event.
AfterCommit ==
    LET left == IF resident.left > 0 THEN resident.left - 1 ELSE 0
    IN  IF resident.left = 1 /\ resident.gap
        THEN [resident EXCEPT !.pc = "snapshot", !.left = 0]
        ELSE [resident EXCEPT !.pc = "stream", !.left = left, !.next = @ + 1]

\* Mutant: the outbox row is durable before the cursor is.
CommitEventTorn ==
    LET e == Projected
    IN  /\ resident.pc = "commit"
        /\ ~ Stored(e) /\ ~ CommitRefused(e)
        /\ outbox' = Append(outbox, e)
        /\ resident' \in {AfterCommit, Down}
        /\ cursor' = IF resident' = Down THEN cursor ELSE e
        /\ UNCHANGED << daemon, resnapshots, producer, observed, faults >>

CommitEvent ==
    LET e == Projected
    IN  /\ resident.pc = "commit"
        /\ \/ /\ CommitRefused(e)                \* OutboxError ends the run
              /\ resident' = Down
              /\ UNCHANGED durable
           \/ /\ Stored(e)                       \* DUPLICATE
              /\ resident' = AfterCommit
              /\ UNCHANGED durable
           \/ /\ ~ Stored(e) /\ ~ CommitRefused(e)
              /\ outbox' = Append(outbox, e)
              /\ cursor' = e
              /\ resident' = AfterCommit
              /\ UNCHANGED resnapshots
        /\ UNCHANGED << daemon, producer, observed, faults >>

\* record_resnapshot refuses a position before the cursor.
Regresses(at) == cursor # None /\ cursor[1] = at[1] /\ at[2] < cursor[2]

\* _resnapshot: the commands run on connections of their own, then
\* record_resnapshot stores baseline, audit row and cursor in one
\* transaction.  The stream goes on after the event it was taken at.
Resnapshot ==
    LET at == Projected
    IN  /\ resident.pc = "snapshot"
        /\ resnapshots' = IF Regresses(at) THEN resnapshots
                          ELSE resnapshots \cup {at}
        /\ cursor' = IF Regresses(at) THEN cursor ELSE at
        /\ resident' = IF Regresses(at) THEN Down  \* OutboxError
                       ELSE [resident EXCEPT !.pc = "stream", !.next = @ + 1]
        /\ UNCHANGED << daemon, outbox, producer, observed, faults >>

\* The stream ends: by a restart of the daemon, or by a lost connection or
\* slow_consumer.  If the replay was not complete the run fails; otherwise
\* the resident connects again or its run is over.
StreamEnds ==
    /\ resident.pc = "stream"
    /\ \/ resident.left > 0 /\ resident' = Down
       \/ resident.left = 0 /\ resident' \in {Down, [pc |-> "connect"]}
    /\ \/ resident.boot # Boot /\ UNCHANGED faults
       \/ resident.boot = Boot /\ Fault
    /\ UNCHANGED << daemon, durable, producer, observed >>

\* The process dies, or the sink or a snapshot command fails, which ends the
\* run before the step that would have followed.
Crash ==
    /\ resident # Down
    /\ Fault
    /\ resident' = Down
    /\ UNCHANGED << daemon, durable, producer, observed >>

ResidentStep ==
    \/ Start
    \/ Resume
    \/ Observe
    \/ CommitEvent
    \/ Resnapshot
    \/ StreamEnds

Next == Emit \/ DaemonRestart \/ ResidentStep \/ ResumeEarlier \/ Crash

Spec == Init /\ [][Next]_vars

\* The supervisor starts a resident that is down and a running resident goes
\* on.  That the stream ends is an event of the host, so it is fair only
\* when it is all the resident can do.
FairSpec ==
    Spec /\ WF_vars(Start \/ Resume \/ Observe \/ CommitEvent \/ Resnapshot
                    \/ (StreamEnds /\ resident.boot # Boot))
-----------------------------------------------------------------------------
(***************************************************************************)
(* Properties                                                              *)
(***************************************************************************)
\* An event is durable only after its receipts are: a crash, a failing sink
\* or a lost connection between observe and commit_event loses no evidence.
EvidencePrecedesCursor == \A i \in DOMAIN outbox : outbox[i] \in observed

\* The outbox keeps the host's order across reconnects, restarts and
\* duplicates, and holds nothing past the cursor.
OutboxInHostOrder ==
    /\ \A i, j \in DOMAIN outbox : i < j => Before(outbox[i], outbox[j])
    /\ \A i \in DOMAIN outbox :
          cursor # None /\ AtOrBefore(outbox[i], cursor)

\* In a run between two events the producer remembers what recover() would
\* rebuild from the outbox, in the host's order: whether a chain of events
\* is complete does not depend on when the process last restarted.
MemoryIsOutbox ==
    LET first(e) == CHOOSE i \in DOMAIN producer :
                       /\ producer[i] = e
                       /\ \A j \in 1..(i - 1) : producer[j] # e
        events   == {outbox[i] : i \in DOMAIN outbox}
    IN  resident.pc \in {"connect", "stream", "snapshot"} =>
          /\ {producer[i] : i \in DOMAIN producer} = events
          /\ \A e, f \in events : Before(e, f) => first(e) < first(f)

\* The events between two positions that the outbox does not have.
Missing(from, to) ==
    {e \in (1..Boot) \X (1..MaxSeq) :
        Emitted(e) /\ Before(from, e) /\ AtOrBefore(e, to) /\ ~ Stored(e)}

Snapshotted(e) == \E s \in resnapshots : AtOrBefore(e, s)

Live == resident.pc = "stream" /\ resident.left = 0

\* A connection that skipped events has recorded a snapshot at or after them
\* by the time its replay is over and it follows the live stream, whichever
\* of the two noticed the gap: the daemon by its retention, the resident by
\* the boot.
GapIsSnapshotted ==
    Live /\ resident.opened # None =>
        \A e \in Missing(resident.opened, cursor) : Snapshotted(e)

\* "Record a completed gap snapshot and its new resume position atomically."
\* (event_outbox.py:196): no durable resume position lies past skipped events
\* without their snapshot.  The replay of a connection with a gap moves the
\* cursor event by event before the snapshot is taken.
ResumePositionHasSnapshot ==
    Live /\ outbox # <<>> =>
        \A e \in Missing(outbox[1], cursor) : Snapshotted(e)

\* Once the host is quiet the resident holds everything it was sent: no
\* refused commit, duplicate or gap makes it fail and replay forever.
CatchesUp ==
    <>[](/\ resident.pc = "stream"
         /\ resident.boot = Boot
         /\ resident.next = Latest + 1
         /\ cursor # None => cursor = << Boot, Latest >>)
=============================================================================
