-------------------------- MODULE EventStreamProofs --------------------------
(***************************************************************************)
(* Theorems about EventStream, for every retention and every bound on      *)
(* events and faults.                                                      *)
(***************************************************************************)
EXTENDS EventStream, TLAPS

Connected == resident.pc \in {"stream", "commit", "snapshot"}

\* Every boot of the daemon but the first was a fault.
BootsAreFaults == Len(daemon) =< faults + 1

\* The cursor is at an event the daemon emitted, or before its first.
CursorReal ==
    cursor # None => cursor[1] =< Boot /\ cursor[2] =< daemon[cursor[1]]

\* A connection is to a boot not before the cursor's, its next frame is at
\* most the one after the boot's latest, and what it is committing or
\* snapshotting at was emitted.
ConnectionSound ==
    Connected =>
        /\ resident.boot =< Boot
        /\ cursor # None => cursor[1] =< resident.boot
        /\ resident.pc = "stream" =>
              resident.next \in 1..(daemon[resident.boot] + 1)
        /\ resident.pc = "commit" =>
              /\ resident.next \in 1..daemon[resident.boot]
              /\ Projected \in observed
        /\ resident.pc = "snapshot" =>
              resident.next =< daemon[resident.boot] /\ resident.left = 0

\* How much of the producer's memory is about committed events: at pc
\* "commit" the last event it observed is not.
Remembered == IF resident.pc = "commit" THEN Len(producer) - 1 ELSE Len(producer)

\* The producer first heard of its i-th event then.
News(i) == \A j \in 1..(i - 1) : producer[j] # producer[i]

\* Each event the producer remembers was news once, each is in the outbox
\* and the other way round, and news came in the host's order.
MemorySound ==
    resident.pc # "down" =>
        /\ resident.pc = "commit" =>
              Len(producer) > 0 /\ producer[Len(producer)] = Projected
        /\ \A i \in 1..Remembered : Stored(producer[i])
        /\ \A k \in DOMAIN outbox :
              \E i \in 1..Remembered : producer[i] = outbox[k] /\ News(i)
        /\ \A i, j \in 1..Remembered :
              News(i) /\ News(j) /\ Before(producer[i], producer[j]) => i < j

\* Whatever lies between the cursor a connection was opened with and the
\* present one is stored or snapshotted, except while a replay with a gap is
\* under way; and the stream has not gone past the cursor by more than one.
GapCovered ==
    Connected /\ resident.opened # None
    /\ (resident.gap => resident.left = 0 /\ resident.pc # "snapshot") =>
        /\ cursor # None
        /\ cursor[1] = resident.boot
        /\ resident.next =< cursor[2] + 1
        /\ \A e \in Missing(resident.opened, cursor) : Snapshotted(e)

IInv ==
    /\ TypeOK
    /\ BootsAreFaults
    /\ CursorReal
    /\ ConnectionSound
    /\ EvidencePrecedesCursor
    /\ OutboxInHostOrder
    /\ MemorySound
    /\ GapCovered
-----------------------------------------------------------------------------
(***************************************************************************)
(* Positions and connections                                               *)
(***************************************************************************)
\* The order of positions is strict and total.
LEMMA PositionsOrdered ==
    ASSUME NEW p \in Positions, NEW q \in Positions
    PROVE  /\ ~ Before(p, p)
           /\ Before(p, q) => ~ AtOrBefore(q, p)
           /\ p = q \/ Before(p, q) \/ Before(q, p)
<1>1. p = << p[1], p[2] >> /\ q = << q[1], q[2] >>
  BY DEF Positions
<1>2. p[1] \in Nat /\ p[2] \in Nat /\ q[1] \in Nat /\ q[2] \in Nat
  BY BoundsAssumption DEF Positions
<1> QED
  BY <1>1, <1>2 DEF Before, AtOrBefore

\* It is transitive.
LEMMA PositionsTransitive ==
    ASSUME NEW p \in Positions, NEW q \in Positions, NEW r \in Positions,
           AtOrBefore(p, q), AtOrBefore(q, r)
    PROVE  AtOrBefore(p, r) /\ (Before(p, q) \/ Before(q, r) => Before(p, r))
<1>1. /\ p[1] \in Nat /\ p[2] \in Nat /\ q[1] \in Nat /\ q[2] \in Nat
      /\ r[1] \in Nat /\ r[2] \in Nat
  BY BoundsAssumption DEF Positions
<1> QED
  BY <1>1 DEF Before, AtOrBefore

\* The elements of a sequence.
LEMMA SeqElements ==
    ASSUME NEW S, NEW s \in Seq(S)
    PROVE  /\ Len(s) \in Nat /\ DOMAIN s = 1..Len(s)
           /\ \A i \in 1..Len(s) : s[i] \in S
    OBVIOUS

\* The fields of a connection are typed.
LEMMA ConnectionFields ==
    ASSUME NEW r \in Connections
    PROVE  /\ r.pc \in {"stream", "commit", "snapshot"}
           /\ r.opened \in Positions \cup {None}
           /\ r.boot \in 1..(MaxFaults + 1) /\ r.gap \in BOOLEAN
           /\ r.left \in 0..MaxSeq /\ r.next \in 0..(MaxSeq + 1)
    BY DEF Connections

\* Connection builds a connection of typed parts.
LEMMA ConnectionBuilds ==
    ASSUME NEW pc \in {"stream", "commit", "snapshot"},
           NEW opened \in Positions \cup {None}, NEW b \in 1..(MaxFaults + 1),
           NEW gap \in BOOLEAN, NEW left \in 0..MaxSeq,
           NEW next \in 0..(MaxSeq + 1)
    PROVE  LET r == Connection(pc, opened, b, gap, left, next)
           IN  /\ r \in Connections
               /\ r.pc = pc /\ r.opened = opened /\ r.boot = b
               /\ r.gap = gap /\ r.left = left /\ r.next = next
    BY DEF Connection, Connections

\* Only a connection has the program counter of one.
LEMMA ConnectedTypes ==
    ASSUME TypeOK
    PROVE  /\ Connected => resident \in Connections
           /\ ~ Connected => resident \in {Down, [pc |-> "connect"]}
           /\ Down.pc = "down"
<1>1. \A r \in {Down, [pc |-> "connect"]} :
         r.pc \notin {"stream", "commit", "snapshot"}
  BY DEF Down
<1>2. \A r \in Connections : r.pc \in {"stream", "commit", "snapshot"}
  BY ConnectionFields
<1>3. Down.pc = "down"
  BY DEF Down
<1> QED
  BY <1>1, <1>2, <1>3 DEF TypeOK, Connected

\* Every number of the daemon is a natural one.
LEMMA DaemonTypes ==
    ASSUME TypeOK
    PROVE  /\ Boot \in 1..(MaxFaults + 1) /\ Latest \in 0..MaxSeq
           /\ DOMAIN daemon = 1..Boot
           /\ \A b \in 1..Boot : daemon[b] \in 0..MaxSeq
<1>0. daemon \in Seq(0..MaxSeq) /\ Len(daemon) \in 1..(MaxFaults + 1)
  BY DEF TypeOK
<1>1. Boot \in 1..(MaxFaults + 1) /\ DOMAIN daemon = 1..Boot
  BY <1>0 DEF Boot
<1>2. \A b \in 1..Boot : daemon[b] \in 0..MaxSeq
  BY <1>0, SeqElements DEF Boot
<1>3. Boot \in 1..Boot
  BY <1>1, BoundsAssumption
<1> QED
  BY <1>1, <1>2, <1>3 DEF Latest

\* What a connection looks at is a position.
LEMMA ProjectedTypes ==
    ASSUME TypeOK, ConnectionSound, Connected, resident.pc # "stream"
    PROVE  /\ Projected \in Positions
           /\ Projected[1] = resident.boot /\ Projected[2] = resident.next
           /\ resident.boot \in 1..Boot
           /\ resident.next =< daemon[resident.boot]
<1>1. /\ resident.boot \in 1..(MaxFaults + 1)
      /\ resident.next \in 0..(MaxSeq + 1)
      /\ resident.pc \in {"commit", "snapshot"}
  BY ConnectedTypes, ConnectionFields
<1>2. resident.boot \in 1..Boot
  BY <1>1, DaemonTypes DEF ConnectionSound
<1>3. daemon[resident.boot] \in 0..MaxSeq
  BY <1>2, DaemonTypes
<1>4. resident.next =< daemon[resident.boot]
  BY <1>1, <1>3 DEF ConnectionSound
<1>5. resident.next \in 0..MaxSeq
  BY <1>1, <1>3, <1>4, BoundsAssumption
<1> QED
  BY <1>1, <1>2, <1>4, <1>5 DEF Projected, Positions

\* A stored event is a position at or before the cursor.
LEMMA StoredTypes ==
    ASSUME TypeOK, OutboxInHostOrder, NEW e, Stored(e)
    PROVE  /\ e \in Positions /\ cursor \in Positions
           /\ AtOrBefore(e, cursor)
    BY DEF TypeOK, OutboxInHostOrder, Stored
-----------------------------------------------------------------------------
(***************************************************************************)
(* Steps of the daemon                                                     *)
(***************************************************************************)
\* What the invariant says of the daemon, for a daemon that has gone on: the
\* resident and the store are as they were, and nothing that was not emitted
\* before lies at or before the cursor.
LEMMA DaemonGoesOn ==
    ASSUME IInv, UNCHANGED << durable, resident, producer, observed >>,
           daemon' \in Seq(0..MaxSeq),
           Len(daemon') \in Boot..(MaxFaults + 1),
           faults' \in 0..MaxFaults, Len(daemon') =< faults' + 1,
           \A b \in 1..Boot : daemon'[b] >= daemon[b],
           \A e \in (1..Len(daemon')) \X (1..MaxSeq) :
              Emitted(e)' => \/ e[1] \in 1..Boot /\ Emitted(e)
                             \/ e = << Len(daemon'), daemon'[Len(daemon')] >>
                                /\ (e[1] > Boot \/ e[2] > Latest)
    PROVE  IInv'
<1> USE DEF IInv
<1>1. /\ cursor' = cursor /\ outbox' = outbox /\ resnapshots' = resnapshots
      /\ resident' = resident /\ producer' = producer /\ observed' = observed
  BY DEF durable
<1>2. TypeOK'
  <2>1. Len(daemon') \in 1..(MaxFaults + 1)
    BY DaemonTypes, BoundsAssumption
  <2> QED
    BY <1>1, <2>1 DEF TypeOK
<1>3. BootsAreFaults'
  BY DEF BootsAreFaults
<1>4. /\ Boot \in Nat /\ Boot' \in Nat /\ Boot =< Boot'
      /\ \A b \in 1..Boot : /\ b \in 1..Boot'
                            /\ daemon[b] \in Nat /\ daemon'[b] \in Nat
                            /\ daemon[b] =< daemon'[b]
  <2>1. Boot' = Len(daemon') /\ Boot \in 1..(MaxFaults + 1)
    BY DaemonTypes DEF Boot
  <2>2. \A b \in 1..Boot' : daemon'[b] \in 0..MaxSeq
    BY <2>1, SeqElements
  <2> QED
    BY <2>1, <2>2, DaemonTypes, BoundsAssumption
<1>5. CursorReal'
  <2>1. SUFFICES ASSUME cursor # None
                 PROVE  cursor[1] =< Boot' /\ cursor[2] =< daemon'[cursor[1]]
    BY <1>1 DEF CursorReal
  <2>2. cursor[1] \in Nat \ {0} /\ cursor[2] \in Nat
    BY <2>1, BoundsAssumption DEF TypeOK, Positions
  <2>3. cursor[1] \in 1..Boot /\ cursor[2] =< daemon[cursor[1]]
    BY <1>4, <2>1, <2>2 DEF CursorReal
  <2> QED
    BY <1>4, <2>2, <2>3
<1>6. ConnectionSound'
  <2>1. SUFFICES ASSUME Connected PROVE ConnectionSound'
    BY <1>1 DEF ConnectionSound, Connected
  <2>2. resident.boot \in Nat \ {0} /\ resident.next \in Nat
    BY <2>1, ConnectedTypes, ConnectionFields, BoundsAssumption
  <2>3. resident.boot \in 1..Boot
    BY <1>4, <2>1, <2>2 DEF ConnectionSound
  <2>4. resident.boot =< Boot' /\ daemon[resident.boot] =< daemon'[resident.boot]
        /\ daemon[resident.boot] \in Nat /\ daemon'[resident.boot] \in Nat
    BY <1>4, <2>2, <2>3
  <2>5. resident.pc = "stream" =>
           resident.next \in 1..(daemon'[resident.boot] + 1)
    BY <2>1, <2>2, <2>4 DEF ConnectionSound
  <2>6. resident.pc = "commit" => resident.next \in 1..daemon'[resident.boot]
    BY <2>1, <2>2, <2>4 DEF ConnectionSound
  <2>7. resident.pc = "snapshot" => resident.next =< daemon'[resident.boot]
    BY <2>1, <2>2, <2>4 DEF ConnectionSound
  <2>8. Projected' = Projected
    BY <1>1 DEF Projected
  <2> QED
    BY <1>1, <2>1, <2>4, <2>5, <2>6, <2>7, <2>8 DEF ConnectionSound
<1>7. EvidencePrecedesCursor' /\ OutboxInHostOrder'
  BY <1>1 DEF EvidencePrecedesCursor, OutboxInHostOrder
<1>8. MemorySound'
  BY <1>1 DEF MemorySound, Remembered, News, Stored, Projected
<1>9. \A from : cursor # None => Missing(from, cursor)' \subseteq Missing(from, cursor)
  <2>1. SUFFICES ASSUME cursor # None, NEW from,
                        NEW e \in (1..Boot') \X (1..MaxSeq),
                        Emitted(e)', Before(from, e), AtOrBefore(e, cursor),
                        ~ Stored(e)
                 PROVE  e \in (1..Boot) \X (1..MaxSeq) /\ Emitted(e)
    BY <1>1 DEF Missing, Stored
  <2>2. /\ cursor[1] \in Nat \ {0} /\ cursor[2] \in Nat
        /\ e[1] \in Nat \ {0} /\ e[2] \in Nat
    BY <2>1, BoundsAssumption DEF TypeOK, Positions
  <2>3. cursor[1] \in 1..Boot /\ cursor[2] =< daemon[cursor[1]]
    BY <1>4, <2>1, <2>2 DEF CursorReal
  <2>4. e[1] =< cursor[1] /\ (e[1] = cursor[1] => e[2] =< cursor[2])
    BY <2>1, <2>2 DEF AtOrBefore, Before
  <2>5. e[1] \in 1..Boot
    BY <1>4, <2>2, <2>3, <2>4
  <2>6. ~ Emitted(e) => e[1] = Boot' /\ e[2] > Latest
    BY <2>1, <2>2, <2>5, <1>4 DEF Boot
  <2>7. ~ Emitted(e) => FALSE
    BY <2>6, <2>5, <2>4, <2>3, <2>2, <1>4, DaemonTypes DEF Latest
  <2> QED
    BY <2>1, <2>5, <2>7
<1>10. GapCovered'
  BY <1>1, <1>9 DEF GapCovered, Connected, Snapshotted
<1> QED
  BY <1>2, <1>3, <1>5, <1>6, <1>7, <1>8, <1>10

\* The daemon emits an event.
LEMMA EmitPreserves == IInv /\ Emit => IInv'
<1> SUFFICES ASSUME IInv, Emit PROVE IInv'
  OBVIOUS
<1>1. TypeOK /\ BootsAreFaults
  BY DEF IInv
<1>2. /\ Boot \in 1..(MaxFaults + 1) /\ Latest \in 0..MaxSeq
      /\ DOMAIN daemon = 1..Boot /\ \A b \in 1..Boot : daemon[b] \in 0..MaxSeq
  BY <1>1, DaemonTypes
<1>3. /\ daemon' = [daemon EXCEPT ![Boot] = Latest + 1]
      /\ Latest + 1 \in 0..MaxSeq
  BY <1>2, BoundsAssumption DEF Emit, Latest
<1>4. daemon' \in Seq(0..MaxSeq) /\ Len(daemon') = Boot
  BY <1>1, <1>2, <1>3 DEF TypeOK, Boot
<1>5. \A b \in 1..Boot : daemon'[b] = IF b = Boot THEN Latest + 1 ELSE daemon[b]
  BY <1>2, <1>3
<1>6. \A b \in 1..Boot : daemon'[b] >= daemon[b]
  BY <1>2, <1>5, BoundsAssumption DEF Latest
<1>7. ASSUME NEW e \in (1..Len(daemon')) \X (1..MaxSeq), Emitted(e)'
      PROVE  \/ e[1] \in 1..Boot /\ Emitted(e)
             \/ e = << Len(daemon'), daemon'[Len(daemon')] >>
                /\ (e[1] > Boot \/ e[2] > Latest)
  <2>1. e = << e[1], e[2] >> /\ e[1] \in 1..Boot /\ e[2] \in 1..daemon'[e[1]]
    BY <1>4, <1>7 DEF Emitted
  <2>2. CASE e[1] # Boot
    BY <1>5, <2>1, <2>2 DEF Emitted
  <2>3. CASE e[1] = Boot
    <3>1. daemon'[e[1]] = Latest + 1 /\ daemon[e[1]] = Latest
      BY <1>5, <2>1, <2>3 DEF Latest
    <3>2. e[2] \in 1..Latest \/ e[2] = Latest + 1
      BY <2>1, <3>1, <1>2, BoundsAssumption
    <3> QED
      BY <2>1, <2>3, <3>1, <3>2, <1>2, <1>4 DEF Emitted
  <2> QED
    BY <2>2, <2>3
<1>8. faults' \in 0..MaxFaults /\ Len(daemon') =< faults' + 1
  BY <1>1, <1>4 DEF Emit, TypeOK, BootsAreFaults, Boot
<1>9. Len(daemon') \in Boot..(MaxFaults + 1)
  BY <1>2, <1>4, BoundsAssumption
<1> QED
  BY <1>4, <1>6, <1>7, <1>8, <1>9, DaemonGoesOn DEF Emit

\* The daemon restarts.
LEMMA RestartPreserves == IInv /\ DaemonRestart => IInv'
<1> SUFFICES ASSUME IInv, DaemonRestart PROVE IInv'
  OBVIOUS
<1>1. TypeOK /\ BootsAreFaults
  BY DEF IInv
<1>2. /\ Boot \in 1..(MaxFaults + 1) /\ Latest \in 0..MaxSeq
      /\ DOMAIN daemon = 1..Boot /\ \A b \in 1..Boot : daemon[b] \in 0..MaxSeq
  BY <1>1, DaemonTypes
<1>3. daemon' = Append(daemon, 0) /\ 0 \in 0..MaxSeq /\ daemon \in Seq(0..MaxSeq)
  BY <1>1, BoundsAssumption DEF DaemonRestart, TypeOK
<1>4. /\ daemon' \in Seq(0..MaxSeq) /\ Len(daemon') = Boot + 1
      /\ \A b \in 1..Boot : daemon'[b] = daemon[b]
      /\ daemon'[Boot + 1] = 0
  BY <1>3 DEF Boot
<1>5. /\ faults \in 0..MaxFaults /\ faults < MaxFaults /\ faults' = faults + 1
      /\ Boot =< faults + 1
  BY <1>1 DEF DaemonRestart, Fault, TypeOK, BootsAreFaults, Boot
<1>6. /\ faults' \in 0..MaxFaults /\ Len(daemon') =< faults' + 1
      /\ Len(daemon') \in Boot..(MaxFaults + 1)
  BY <1>2, <1>4, <1>5, BoundsAssumption
<1>7. \A b \in 1..Boot : daemon'[b] >= daemon[b]
  BY <1>2, <1>4, BoundsAssumption
<1>8. ASSUME NEW e \in (1..Len(daemon')) \X (1..MaxSeq), Emitted(e)'
      PROVE  e[1] \in 1..Boot /\ Emitted(e)
  <2>1. e[1] \in 1..(Boot + 1) /\ e[2] \in 1..daemon'[e[1]]
    BY <1>4, <1>8 DEF Emitted
  <2>2. e[1] # Boot + 1
    BY <1>4, <2>1
  <2>3. e[1] \in 1..Boot
    BY <1>2, <2>1, <2>2, BoundsAssumption
  <2> QED
    BY <1>4, <2>1, <2>3 DEF Emitted
<1> QED
  BY <1>4, <1>6, <1>7, <1>8, DaemonGoesOn DEF DaemonRestart
-----------------------------------------------------------------------------
(***************************************************************************)
(* Steps of the resident that commit nothing                               *)
(***************************************************************************)
\* A resident that goes down takes nothing with it.
LEMMA DownPreserves ==
    ASSUME IInv, resident' = Down, faults' \in faults..MaxFaults,
           UNCHANGED << daemon, durable, producer, observed >>
    PROVE  IInv'
<1> USE DEF IInv
<1>1. /\ cursor' = cursor /\ outbox' = outbox /\ resnapshots' = resnapshots
      /\ daemon' = daemon /\ producer' = producer /\ observed' = observed
  BY DEF durable
<1>2. resident'.pc = "down"
  BY ConnectedTypes
<1>3. faults \in Nat /\ Len(daemon) \in Nat
  BY BoundsAssumption DEF TypeOK
<1>4. faults' \in 0..MaxFaults /\ Len(daemon') =< faults' + 1
  BY <1>1, <1>3, BoundsAssumption DEF BootsAreFaults
<1>5. TypeOK'
  BY <1>1, <1>4 DEF TypeOK
<1>6. BootsAreFaults' /\ CursorReal' /\ EvidencePrecedesCursor' /\ OutboxInHostOrder'
  BY <1>1, <1>4 DEF BootsAreFaults, CursorReal, Boot, EvidencePrecedesCursor,
                    OutboxInHostOrder
<1>7. ConnectionSound' /\ MemorySound' /\ GapCovered'
  BY <1>2 DEF ConnectionSound, MemorySound, GapCovered, Connected
<1> QED
  BY <1>5, <1>6, <1>7

\* What a resident remembers stays sound when only its program counter
\* changes and not between an observation and its commit.
LEMMA MemoryKept ==
    ASSUME MemorySound, resident.pc # "down", resident.pc # "commit",
           resident'.pc # "commit",
           producer' = producer, outbox' = outbox
    PROVE  MemorySound'
    BY DEF MemorySound, Remembered, News, Stored

\* recover() rebuilds the producer from the outbox, where every event is
\* news.
LEMMA StartPreserves == IInv /\ Start => IInv'
<1> SUFFICES ASSUME IInv, Start PROVE IInv'
  OBVIOUS
<1> USE DEF IInv
<1>1. /\ cursor' = cursor /\ outbox' = outbox /\ resnapshots' = resnapshots
      /\ daemon' = daemon /\ observed' = observed /\ faults' = faults
      /\ producer' = outbox
      /\ resident' = [pc |-> "connect"]
  BY DEF Start, durable
<1>2. resident'.pc = "connect"
  BY <1>1
<1>3. TypeOK'
  BY <1>1 DEF TypeOK
<1>4. BootsAreFaults' /\ CursorReal' /\ EvidencePrecedesCursor' /\ OutboxInHostOrder'
  BY <1>1 DEF BootsAreFaults, CursorReal, Boot, EvidencePrecedesCursor,
              OutboxInHostOrder
<1>5. ConnectionSound' /\ GapCovered'
  BY <1>2 DEF ConnectionSound, GapCovered, Connected
<1>6. MemorySound'
  <2>1. /\ Len(outbox) \in Nat /\ DOMAIN outbox = 1..Len(outbox)
        /\ \A i \in DOMAIN outbox : outbox[i] \in Positions
    BY SeqElements DEF TypeOK
  <2>2. Remembered' = Len(outbox)
    BY <1>1, <1>2 DEF Remembered
  <2>3. \A i, j \in DOMAIN outbox : i < j => Before(outbox[i], outbox[j])
    BY DEF OutboxInHostOrder
  <2>4. \A i \in DOMAIN outbox : News(i)'
    <3>1. SUFFICES ASSUME NEW i \in DOMAIN outbox, NEW j \in 1..(i - 1)
                   PROVE  outbox[j] # outbox[i]
      BY <1>1 DEF News
    <3>2. j \in DOMAIN outbox /\ j < i
      BY <2>1
    <3> QED
      BY <2>1, <2>3, <3>2, PositionsOrdered
  <2>5. \A i, j \in DOMAIN outbox : Before(outbox[i], outbox[j]) => i < j
    <3>1. SUFFICES ASSUME NEW i \in DOMAIN outbox, NEW j \in DOMAIN outbox,
                          Before(outbox[i], outbox[j]), ~ (i < j)
                   PROVE  FALSE
      OBVIOUS
    <3>2. i = j \/ j < i
      BY <2>1, <3>1
    <3> QED
      BY <2>1, <2>3, <3>1, <3>2, PositionsOrdered DEF AtOrBefore
  <2> QED
    BY <1>1, <1>2, <2>1, <2>2, <2>4, <2>5 DEF MemorySound, Stored
<1> QED
  BY <1>3, <1>4, <1>5, <1>6

\* Whatever event a replay starts with, if it is one the daemon has and none
\* before it is skipped unless a gap is noticed.
LEMMA ConnectPreserves ==
    ASSUME IInv, NEW first \in 1..(Latest + 1), Connect(first),
           cursor # None /\ ~ Gap => first =< cursor[2] + 1,
           faults' \in faults..MaxFaults
    PROVE  IInv'
<1> USE DEF IInv
<1> DEFINE left == Latest + 1 - first
<1>1. /\ cursor' = cursor /\ outbox' = outbox /\ resnapshots' = resnapshots
      /\ daemon' = daemon /\ producer' = producer /\ observed' = observed
      /\ resident.pc = "connect"
      /\ resident' = IF Gap /\ left = 0
                     THEN Connection("snapshot", cursor, Boot, Gap, 0, Latest)
                     ELSE Connection("stream", cursor, Boot, Gap, left, first)
  BY DEF Connect, durable
<1>0. PICK gap \in BOOLEAN : gap = Gap
  <2>1. Gap = TRUE \/ Gap = FALSE
    BY DEF Gap, DeclaresGap
  <2> QED
    BY <2>1
<1>2. /\ Boot \in 1..(MaxFaults + 1) /\ Latest \in 0..MaxSeq
      /\ cursor \in Positions \cup {None} /\ daemon[Boot] = Latest
  BY DaemonTypes DEF TypeOK, Latest
<1>3. left \in 0..MaxSeq /\ first \in 0..(MaxSeq + 1) /\ Latest \in 0..(MaxSeq + 1)
      /\ 0 \in 0..MaxSeq
  BY <1>2, BoundsAssumption
<1>4. LET r == resident'
      IN  /\ r \in Connections
          /\ r.opened = cursor /\ r.boot = Boot /\ r.gap = Gap
          /\ \/ r.pc = "snapshot" /\ r.next = Latest /\ r.left = 0 /\ Gap
             \/ /\ r.pc = "stream" /\ r.next = first
                /\ ~ (Gap /\ r.left = 0)
  <2> HIDE DEF left
  <2>1. CASE Gap /\ left = 0
    <3> DEFINE r == Connection("snapshot", cursor, Boot, gap, 0, Latest)
    <3>1. resident' = r
      BY <1>0, <1>1, <2>1
    <3>2. /\ r \in Connections
          /\ r.pc = "snapshot" /\ r.opened = cursor /\ r.boot = Boot
          /\ r.gap = gap /\ r.left = 0 /\ r.next = Latest
      BY <1>0, <1>2, <1>3, ConnectionBuilds
    <3> HIDE DEF r
    <3> QED
      BY <1>0, <2>1, <3>1, <3>2
  <2>2. CASE ~ (Gap /\ left = 0)
    <3> DEFINE r == Connection("stream", cursor, Boot, gap, left, first)
    <3>1. resident' = r
      BY <1>0, <1>1, <2>2
    <3>2. /\ r \in Connections
          /\ r.pc = "stream" /\ r.opened = cursor /\ r.boot = Boot
          /\ r.gap = gap /\ r.left = left /\ r.next = first
      BY <1>0, <1>2, <1>3, ConnectionBuilds
    <3> HIDE DEF r
    <3> QED
      BY <1>0, <2>2, <3>1, <3>2
  <2> QED
    BY <2>1, <2>2
<1>5. faults' \in 0..MaxFaults /\ Len(daemon') =< faults' + 1
  <2>1. faults \in Nat /\ Len(daemon) \in Nat
    BY BoundsAssumption DEF TypeOK
  <2> QED
    BY <1>1, <2>1, BoundsAssumption DEF BootsAreFaults
<1>6. TypeOK'
  BY <1>1, <1>4, <1>5 DEF TypeOK
<1>7. BootsAreFaults' /\ CursorReal' /\ EvidencePrecedesCursor' /\ OutboxInHostOrder'
  BY <1>1, <1>5 DEF BootsAreFaults, CursorReal, Boot, EvidencePrecedesCursor,
                    OutboxInHostOrder
<1>8. ConnectionSound'
  <2>1. Boot' = Boot /\ daemon'[Boot] = Latest
    BY <1>1, <1>2 DEF Boot
  <2>2. cursor # None => cursor[1] =< Boot
    BY DEF CursorReal
  <2>3. resident'.pc = "stream" => resident'.next \in 1..(daemon'[Boot] + 1)
    BY <1>4, <2>1
  <2>4. resident'.pc = "snapshot" => resident'.next =< daemon'[Boot]
                                     /\ resident'.left = 0
    BY <1>2, <1>4, <2>1
  <2>5. resident'.pc # "commit" /\ resident'.boot = Boot /\ Boot =< Boot
    BY <1>2, <1>4
  <2> QED
    BY <1>1, <2>1, <2>2, <2>3, <2>4, <2>5 DEF ConnectionSound
<1>9. MemorySound'
  BY <1>1, <1>4, MemoryKept
<1>10. GapCovered'
  <2>1. SUFFICES ASSUME cursor # None, ~ Gap, resident'.pc = "stream"
                 PROVE  /\ cursor[1] = Boot
                        /\ first =< cursor[2] + 1
                        /\ \A e \in Missing(cursor, cursor)' : Snapshotted(e)'
    BY <1>1, <1>4 DEF GapCovered
  <2>2. cursor[1] = Boot
    BY <2>1 DEF Gap
  <2>3. Missing(cursor, cursor)' = {}
    <3>1. cursor \in Positions
      BY <1>2, <2>1
    <3>2. ASSUME NEW e \in (1..Boot') \X (1..MaxSeq),
                 Before(cursor, e), AtOrBefore(e, cursor)
          PROVE  FALSE
      <4>1. e \in Positions
        BY <1>1, <1>2, BoundsAssumption DEF Boot, Positions
      <4> QED
        BY <3>1, <3>2, <4>1, PositionsOrdered
    <3> QED
      BY <1>1, <3>2 DEF Missing
  <2> QED
    BY <2>1, <2>2, <2>3
<1> QED
  BY <1>6, <1>7, <1>8, <1>9, <1>10

\* The oldest event the daemon has is not past the next it will emit.
LEMMA OldestTypes ==
    ASSUME TypeOK
    PROVE  Oldest \in 1..(Latest + 1)
    BY DaemonTypes, BoundsAssumption DEF Oldest

\* The number the cursor is resumed after.
LEMMA AfterSeqTypes ==
    ASSUME TypeOK
    PROVE  IF cursor = None THEN AfterSeq = None
           ELSE AfterSeq = cursor[2] /\ AfterSeq \in Nat /\ AfterSeq # None
<1>1. cursor # None => cursor[2] \in Nat
  BY BoundsAssumption DEF TypeOK, Positions
<1> QED
  BY <1>1, NoneAssumption DEF AfterSeq

\* The resident connects after its cursor.
LEMMA ResumePreserves == IInv /\ Resume => IInv'
<1> SUFFICES ASSUME IInv, Resume PROVE IInv'
  OBVIOUS
<1>1. TypeOK
  BY DEF IInv
<1>2. Latest \in Nat /\ Oldest \in 1..(Latest + 1)
  BY <1>1, DaemonTypes, OldestTypes, BoundsAssumption
<1> DEFINE first == ReplayFrom(AfterSeq)
<1>3. first \in 1..(Latest + 1)
  BY <1>1, <1>2, AfterSeqTypes DEF ReplayFrom
<1>4. cursor # None /\ ~ Gap => first =< cursor[2] + 1
  <2>1. SUFFICES ASSUME cursor # None, ~ Gap PROVE first = cursor[2] + 1
    BY <1>1, <1>2, AfterSeqTypes
  <2>2. AfterSeq = cursor[2] /\ AfterSeq # None /\ ~ DeclaresGap(AfterSeq)
    BY <1>1, <2>1, AfterSeqTypes DEF Gap
  <2> QED
    BY <2>2 DEF ReplayFrom, DeclaresGap
<1>5. faults' \in faults..MaxFaults
  BY <1>1, BoundsAssumption DEF Resume, TypeOK
<1>6. Connect(first)
  BY DEF Resume
<1> HIDE DEF first
<1> QED
  BY <1>3, <1>4, <1>5, <1>6, ConnectPreserves

\* The daemon replays the cursor's event as well.
LEMMA ResumeEarlierPreserves == IInv /\ ResumeEarlier => IInv'
<1> SUFFICES ASSUME IInv, ResumeEarlier PROVE IInv'
  OBVIOUS
<1>1. TypeOK
  BY DEF IInv
<1>2. Latest \in Nat /\ Oldest \in 1..(Latest + 1)
  BY <1>1, DaemonTypes, OldestTypes, BoundsAssumption
<1>3. cursor[2] \in Oldest..Latest /\ Connect(cursor[2])
  BY DEF ResumeEarlier
<1>4. cursor[2] \in 1..(Latest + 1) /\ cursor[2] =< cursor[2] + 1
  BY <1>2, <1>3
<1>5. faults' \in faults..MaxFaults
  BY <1>1, BoundsAssumption DEF ResumeEarlier, Fault, TypeOK
<1> QED
  BY <1>3, <1>4, <1>5, ConnectPreserves

\* The producer observes an event, which is then the last it remembers.
LEMMA ObservePreserves == IInv /\ Observe => IInv'
<1> SUFFICES ASSUME IInv, Observe PROVE IInv'
  OBVIOUS
<1> USE DEF IInv
<1> DEFINE e == Projected
<1>1. /\ cursor' = cursor /\ outbox' = outbox /\ resnapshots' = resnapshots
      /\ daemon' = daemon /\ faults' = faults
      /\ resident.pc = "stream" /\ resident.boot = Boot /\ resident.next =< Latest
      /\ producer' = Append(producer, e)
      /\ observed' = observed \cup {e}
      /\ resident' = [resident EXCEPT !.pc = "commit"]
  BY DEF Observe, durable
<1>2. resident \in Connections /\ Connected
  BY <1>1, ConnectedTypes DEF Connected
<1>3. /\ resident' \in Connections
      /\ resident'.pc = "commit" /\ resident'.opened = resident.opened
      /\ resident'.boot = resident.boot /\ resident'.gap = resident.gap
      /\ resident'.left = resident.left /\ resident'.next = resident.next
  BY <1>1, <1>2 DEF Connections
<1>4. /\ Boot \in 1..(MaxFaults + 1) /\ Latest \in 0..MaxSeq
      /\ resident.next \in 1..Latest
  <2>1. Boot \in 1..(MaxFaults + 1) /\ Latest \in 0..MaxSeq
    BY DaemonTypes
  <2>2. resident.next \in 1..(daemon[Boot] + 1)
    BY <1>1, <1>2 DEF ConnectionSound
  <2> QED
    BY <1>1, <2>1, <2>2, BoundsAssumption DEF Latest
<1>5. e \in Positions /\ Projected' = e
  BY <1>1, <1>3, <1>4, BoundsAssumption DEF Projected, Positions
<1>6. /\ producer \in Seq(Positions) /\ producer' \in Seq(Positions)
      /\ Len(producer') = Len(producer) + 1
      /\ \A i \in 1..Len(producer) : producer'[i] = producer[i]
      /\ producer'[Len(producer) + 1] = e
      /\ Len(producer) \in Nat
  <2>1. producer \in Seq(Positions)
    BY DEF TypeOK
  <2> HIDE DEF e
  <2> QED
    BY <1>1, <1>5, <2>1
<1> HIDE DEF e
<1>7. TypeOK'
  BY <1>1, <1>3, <1>5, <1>6 DEF TypeOK
<1>8. BootsAreFaults' /\ CursorReal' /\ EvidencePrecedesCursor' /\ OutboxInHostOrder'
  BY <1>1 DEF BootsAreFaults, CursorReal, Boot, EvidencePrecedesCursor,
              OutboxInHostOrder
<1>9. ConnectionSound'
  <2>1. daemon'[resident.boot] = Latest /\ Boot' = Boot /\ e \in observed'
    BY <1>1 DEF Latest, Boot
  <2> QED
    BY <1>1, <1>2, <1>3, <1>4, <1>5, <2>1 DEF ConnectionSound
<1>10. MemorySound'
  <2>1. Remembered' = Len(producer) /\ Remembered = Len(producer)
    BY <1>1, <1>3, <1>6 DEF Remembered
  <2>2. \A i \in 1..Len(producer) : News(i)' <=> News(i)
    <3>1. SUFFICES ASSUME NEW i \in 1..Len(producer) PROVE News(i)' <=> News(i)
      OBVIOUS
    <3>2. \A j \in 1..(i - 1) : j \in 1..Len(producer)
      BY <1>6
    <3> QED
      BY <1>6, <3>2 DEF News
  <2>3. \A x : Stored(x)' <=> Stored(x)
    BY <1>1 DEF Stored
  <2>4. Len(producer') > 0 /\ producer'[Len(producer')] = e
    BY <1>6
  <2>5. resident.pc # "down"
    BY <1>1
  <2> QED
    BY <1>1, <1>5, <1>6, <2>1, <2>2, <2>3, <2>4, <2>5 DEF MemorySound
<1>11. GapCovered'
  BY <1>1, <1>2, <1>3 DEF GapCovered, Connected, Missing, Snapshotted, Stored,
                          Emitted, Boot
<1> QED
  BY <1>7, <1>8, <1>9, <1>10, <1>11

\* The stream ends, and the resident keeps its memory if it connects again.
LEMMA StreamEndsPreserves == IInv /\ StreamEnds => IInv'
<1> SUFFICES ASSUME IInv, StreamEnds PROVE IInv'
  OBVIOUS
<1> USE DEF IInv
<1>1. /\ cursor' = cursor /\ outbox' = outbox /\ resnapshots' = resnapshots
      /\ daemon' = daemon /\ producer' = producer /\ observed' = observed
      /\ resident.pc = "stream" /\ resident' \in {Down, [pc |-> "connect"]}
  BY DEF StreamEnds, durable
<1>2. faults' \in faults..MaxFaults
  BY BoundsAssumption DEF StreamEnds, Fault, TypeOK
<1>3. CASE resident' = Down
  BY <1>1, <1>2, <1>3, DownPreserves DEF durable
<1>4. CASE resident' = [pc |-> "connect"]
  <2>1. resident'.pc = "connect"
    BY <1>4
  <2>2. faults' \in 0..MaxFaults /\ Len(daemon') =< faults' + 1
    <3>1. faults \in Nat /\ Len(daemon) \in Nat
      BY BoundsAssumption DEF TypeOK
    <3> QED
      BY <1>1, <1>2, <3>1, BoundsAssumption DEF BootsAreFaults
  <2>3. TypeOK'
    BY <1>1, <1>4, <2>2 DEF TypeOK
  <2>4. /\ BootsAreFaults' /\ CursorReal' /\ EvidencePrecedesCursor'
        /\ OutboxInHostOrder'
    BY <1>1, <2>2 DEF BootsAreFaults, CursorReal, Boot, EvidencePrecedesCursor,
                      OutboxInHostOrder
  <2>5. ConnectionSound' /\ GapCovered'
    BY <2>1 DEF ConnectionSound, GapCovered, Connected
  <2>6. MemorySound'
    BY <1>1, <2>1, MemoryKept
  <2> QED
    BY <2>3, <2>4, <2>5, <2>6
<1> QED
  BY <1>1, <1>3, <1>4

\* The process dies.
LEMMA CrashPreserves == IInv /\ Crash => IInv'
<1> SUFFICES ASSUME IInv, Crash PROVE IInv'
  OBVIOUS
<1>1. faults' \in faults..MaxFaults
  BY BoundsAssumption DEF Crash, Fault, IInv, TypeOK
<1> QED
  BY <1>1, DownPreserves DEF Crash
-----------------------------------------------------------------------------
(***************************************************************************)
(* Commits and snapshots                                                   *)
(***************************************************************************)
\* After a commit the resident takes its snapshot or waits for the next
\* frame, and a gap whose replay has not ended is not forgotten.
LEMMA AfterCommitTypes ==
    ASSUME TypeOK, ConnectionSound, resident.pc = "commit"
    PROVE  LET r == AfterCommit
           IN  /\ r \in Connections
               /\ r.opened = resident.opened /\ r.boot = resident.boot
               /\ r.gap = resident.gap
               /\ \/ r.pc = "snapshot" /\ r.next = resident.next /\ r.left = 0
                     /\ r.gap
                  \/ /\ r.pc = "stream" /\ r.next = resident.next + 1
                     /\ r.gap /\ r.left = 0 => resident.left = 0
<1> DEFINE left == IF resident.left > 0 THEN resident.left - 1 ELSE 0
<1>1. resident \in Connections /\ Connected
  BY ConnectedTypes DEF Connected
<1>2. /\ resident.next \in 0..MaxSeq
      /\ resident.next \in 0..(MaxSeq + 1)
      /\ resident.left \in 0..MaxSeq
  BY <1>1, ConnectionFields, ProjectedTypes, DaemonTypes, BoundsAssumption
<1>3. /\ left \in 0..MaxSeq /\ 0 \in 0..MaxSeq
      /\ left = 0 => resident.left \in {0, 1}
      /\ resident.next + 1 \in 0..(MaxSeq + 1)
  BY <1>2, BoundsAssumption
<1> HIDE DEF left
<1>4. CASE resident.left = 1 /\ resident.gap
  <2>1. AfterCommit = [resident EXCEPT !.pc = "snapshot", !.left = 0]
    BY <1>4 DEF AfterCommit
  <2> QED
    BY <1>1, <1>3, <1>4, <2>1 DEF Connections
<1>5. CASE ~ (resident.left = 1 /\ resident.gap)
  <2>1. AfterCommit = [resident EXCEPT !.pc = "stream", !.left = left,
                                       !.next = resident.next + 1]
    BY <1>1, <1>5 DEF AfterCommit, left, Connections
  <2> QED
    BY <1>1, <1>3, <1>5, <2>1 DEF Connections
<1> QED
  BY <1>4, <1>5

\* The connection is sound after a commit, for the cursor as it is then.
LEMMA AfterCommitSound ==
    ASSUME TypeOK, ConnectionSound, resident.pc = "commit",
           resident' = AfterCommit, daemon' = daemon,
           cursor' \in {cursor, Projected}
    PROVE  ConnectionSound'
<1>1. Connected
  BY DEF Connected
<1>2. /\ resident.boot \in 1..Boot /\ resident.boot \in Nat
      /\ resident.next \in 1..daemon[resident.boot]
      /\ daemon[resident.boot] \in Nat
  BY <1>1, ProjectedTypes, DaemonTypes, BoundsAssumption DEF ConnectionSound
<1>3. cursor' # None => cursor'[1] =< resident.boot
  <2>1. CASE cursor' = cursor
    BY <1>1, <2>1 DEF ConnectionSound
  <2>2. CASE cursor' = Projected
    BY <1>2, <2>2 DEF Projected
  <2> QED
    BY <2>1, <2>2
<1>4. Boot' = Boot /\ resident'.boot = resident.boot /\ resident'.pc # "commit"
  BY AfterCommitTypes DEF Boot
<1>5. resident.boot =< Boot
  BY <1>1 DEF ConnectionSound
<1>6. resident'.pc = "stream" => resident'.next \in 1..(daemon[resident.boot] + 1)
  <2>1. resident'.pc = "stream" => resident'.next = resident.next + 1
    BY AfterCommitTypes
  <2> QED
    BY <1>2, <2>1
<1>7. resident'.pc = "snapshot" =>
         resident'.next =< daemon[resident.boot] /\ resident'.left = 0
  <2>1. resident'.pc = "snapshot" =>
           resident'.next = resident.next /\ resident'.left = 0
    BY AfterCommitTypes
  <2> QED
    BY <1>2, <2>1
<1> QED
  BY <1>3, <1>4, <1>5, <1>6, <1>7 DEF ConnectionSound

\* An event the outbox already has leaves the store as it is.
LEMMA DuplicatePreserves ==
    ASSUME IInv, resident.pc = "commit", Stored(Projected),
           resident' = AfterCommit,
           UNCHANGED << daemon, durable, producer, observed, faults >>
    PROVE  IInv'
<1> USE DEF IInv
<1>1. /\ cursor' = cursor /\ outbox' = outbox /\ resnapshots' = resnapshots
      /\ daemon' = daemon /\ producer' = producer /\ observed' = observed
      /\ faults' = faults
  BY DEF durable
<1>2. TypeOK'
  <2>1. resident' \in Connections
    BY AfterCommitTypes
  <2> QED
    BY <1>1, <2>1 DEF TypeOK
<1>3. BootsAreFaults' /\ CursorReal' /\ EvidencePrecedesCursor' /\ OutboxInHostOrder'
  BY <1>1 DEF BootsAreFaults, CursorReal, Boot, EvidencePrecedesCursor,
              OutboxInHostOrder
<1>4. ConnectionSound'
  BY <1>1, AfterCommitSound
<1>5. MemorySound'
  <2> DEFINE n == Len(producer)
  <2>1. n \in Nat /\ n > 0 /\ producer[n] = Projected
    BY SeqElements DEF MemorySound, TypeOK
  <2>2. Remembered = n - 1 /\ Remembered' = n
    BY <1>1, AfterCommitTypes DEF Remembered
  <2> HIDE DEF n
  <2>3. resident'.pc # "commit"
    BY AfterCommitTypes
  <2>4. \A i \in 1..n : i = n \/ i \in 1..(n - 1)
    BY <2>1
  <2>5. \A i \in 1..n : Stored(producer[i])
    BY <2>1, <2>2, <2>4 DEF MemorySound
  <2>6. ~ News(n)
    <3>1. PICK k \in DOMAIN outbox : outbox[k] = Projected
      BY DEF Stored
    <3>2. PICK i \in 1..(n - 1) : producer[i] = outbox[k]
      BY <2>2, <3>1 DEF MemorySound
    <3> QED
      BY <2>1, <3>1, <3>2 DEF News
  <2>7. \A k \in DOMAIN outbox : \E i \in 1..n : producer[i] = outbox[k] /\ News(i)
    <3>1. \A i \in 1..(n - 1) : i \in 1..n
      BY <2>1
    <3> QED
      BY <2>2, <3>1 DEF MemorySound
  <2>8. \A i, j \in 1..n :
           News(i) /\ News(j) /\ Before(producer[i], producer[j]) => i < j
    BY <2>2, <2>4, <2>6 DEF MemorySound
  <2>9. /\ \A i : News(i)' <=> News(i)
        /\ \A x : Stored(x)' <=> Stored(x)
    BY <1>1 DEF News, Stored
  <2> QED
    BY <1>1, <2>2, <2>3, <2>5, <2>7, <2>8, <2>9 DEF MemorySound
<1>6. GapCovered'
  <2>1. SUFFICES ASSUME resident'.pc = "stream", resident'.opened # None,
                        resident'.gap => resident'.left = 0
                 PROVE  /\ cursor # None
                        /\ cursor[1] = resident.boot
                        /\ resident.next + 1 =< cursor[2] + 1
                        /\ \A e \in Missing(resident.opened, cursor) : Snapshotted(e)
    BY <1>1, AfterCommitTypes DEF GapCovered, Connected, Missing, Snapshotted,
                                  Stored, Emitted, Boot
  <2>2. /\ cursor # None /\ cursor[1] = resident.boot
        /\ \A e \in Missing(resident.opened, cursor) : Snapshotted(e)
    BY <2>1, AfterCommitTypes DEF GapCovered, Connected
  <2>3. AtOrBefore(Projected, cursor) /\ Projected \in Positions /\ cursor \in Positions
    BY StoredTypes
  <2>4. /\ Projected[1] = resident.boot /\ Projected[2] = resident.next
        /\ Projected[1] \in Nat /\ Projected[2] \in Nat
        /\ cursor[1] \in Nat /\ cursor[2] \in Nat
    BY <2>3, BoundsAssumption DEF Projected, Positions
  <2>5. Projected[2] =< cursor[2]
    BY <2>2, <2>3, <2>4 DEF AtOrBefore, Before
  <2> QED
    BY <2>2, <2>4, <2>5
<1> QED
  BY <1>2, <1>3, <1>4, <1>5, <1>6

\* A new event is past the cursor and so past everything in the outbox.
LEMMA NewIsLater ==
    ASSUME IInv, resident.pc = "commit", ~ Stored(Projected),
           ~ CommitRefused(Projected)
    PROVE  /\ cursor # None => Before(cursor, Projected)
           /\ \A i \in DOMAIN outbox : Before(outbox[i], Projected)
<1> USE DEF IInv
<1>1. Connected
  BY DEF Connected
<1>2. /\ Projected \in Positions
      /\ Projected[1] = resident.boot /\ Projected[2] = resident.next
  BY <1>1, ProjectedTypes
<1>3. ASSUME cursor # None
      PROVE  cursor \in Positions /\ Before(cursor, Projected)
  <2>1. cursor \in Positions
    BY <1>3 DEF TypeOK
  <2>2. /\ cursor[1] \in Nat /\ cursor[2] \in Nat
        /\ Projected[1] \in Nat /\ Projected[2] \in Nat
    BY <1>2, <2>1, BoundsAssumption DEF Positions
  <2>3. cursor[1] =< Projected[1]
    BY <1>1, <1>2, <1>3 DEF ConnectionSound
  <2>4. cursor[1] = Projected[1] => ~ (Projected[2] =< cursor[2])
    BY <1>3 DEF CommitRefused
  <2> QED
    BY <2>1, <2>2, <2>3, <2>4 DEF Before
<1>4. ASSUME NEW i \in DOMAIN outbox
      PROVE  Before(outbox[i], Projected)
  <2>1. cursor # None /\ AtOrBefore(outbox[i], cursor) /\ outbox[i] \in Positions
    BY <1>4 DEF OutboxInHostOrder, TypeOK
  <2> QED
    BY <1>2, <1>3, <2>1, PositionsTransitive DEF AtOrBefore
<1> QED
  BY <1>3, <1>4

\* A new event is committed together with the cursor.
LEMMA NewPreserves ==
    ASSUME IInv, resident.pc = "commit", ~ Stored(Projected),
           ~ CommitRefused(Projected),
           outbox' = Append(outbox, Projected), cursor' = Projected,
           resident' = AfterCommit,
           UNCHANGED << daemon, resnapshots, producer, observed, faults >>
    PROVE  IInv'
<1> USE DEF IInv
<1> DEFINE e == Projected
           m == Len(outbox)
<1>1. Connected
  BY DEF Connected
<1>2. /\ e \in Positions /\ e[1] = resident.boot /\ e[2] = resident.next
      /\ resident.boot \in 1..Boot /\ resident.next =< daemon[resident.boot]
      /\ e \in observed
  BY <1>1, ProjectedTypes DEF ConnectionSound
<1>3. /\ outbox' \in Seq(Positions) /\ m \in Nat
      /\ DOMAIN outbox = 1..m /\ DOMAIN outbox' = 1..(m + 1)
      /\ \A i \in 1..m : outbox'[i] = outbox[i]
      /\ outbox'[m + 1] = e
  <2>1. outbox \in Seq(Positions)
    BY DEF TypeOK
  <2> HIDE DEF e
  <2> QED
    BY <1>2, <2>1 DEF e
<1>4. /\ cursor # None => Before(cursor, e)
      /\ \A i \in 1..m : Before(outbox[i], e)
  BY <1>3, NewIsLater
<1>5. cursor' # None
  BY <1>2, NoneAssumption, BoundsAssumption DEF Positions
<1>6. cursor' = e
  OBVIOUS
<1>7. ConnectionSound'
  BY AfterCommitSound
<1>8. \A x : Stored(x)' <=> Stored(x) \/ x = e
  <2> HIDE DEF e, m
  <2>1. \A i \in 1..(m + 1) : i = m + 1 \/ i \in 1..m
    BY <1>3
  <2>2. m + 1 \in 1..(m + 1) /\ \A i \in 1..m : i \in 1..(m + 1)
    BY <1>3
  <2> QED
    BY <1>3, <2>1, <2>2 DEF Stored
<1> HIDE DEF e, m
<1>9. TypeOK'
  <2>1. resident' \in Connections
    BY AfterCommitTypes
  <2> QED
    BY <1>2, <1>3, <1>6, <2>1 DEF TypeOK
<1>10. BootsAreFaults' /\ CursorReal'
  <2>1. Boot' = Boot /\ e[1] =< Boot
    BY <1>2, DaemonTypes DEF Boot
  <2> QED
    BY <1>2, <1>6, <2>1 DEF BootsAreFaults, CursorReal
<1>11. EvidencePrecedesCursor'
  <2>1. ASSUME NEW i \in 1..(m + 1) PROVE outbox'[i] \in observed
    <3>1. i = m + 1 \/ i \in 1..m
      BY <1>3
    <3> QED
      BY <1>2, <1>3, <3>1 DEF EvidencePrecedesCursor
  <2> QED
    BY <1>3, <2>1 DEF EvidencePrecedesCursor
<1>12. OutboxInHostOrder'
  <2>1. ASSUME NEW i \in 1..(m + 1), NEW j \in 1..(m + 1), i < j
        PROVE  Before(outbox'[i], outbox'[j])
    <3>1. i \in 1..m /\ (j = m + 1 \/ j \in 1..m)
      BY <1>3, <2>1
    <3> QED
      BY <1>3, <1>4, <2>1, <3>1 DEF OutboxInHostOrder
  <2>2. ASSUME NEW i \in 1..(m + 1) PROVE AtOrBefore(outbox'[i], e)
    <3>1. i = m + 1 \/ i \in 1..m
      BY <1>3
    <3> QED
      BY <1>3, <1>4, <3>1 DEF AtOrBefore
  <2> QED
    BY <1>3, <1>5, <1>6, <2>1, <2>2 DEF OutboxInHostOrder
<1>13. MemorySound'
  <2> DEFINE n == Len(producer)
  <2>1. n \in Nat /\ n > 0 /\ producer[n] = e
    BY SeqElements DEF MemorySound, TypeOK, e
  <2>2. Remembered = n - 1 /\ Remembered' = n
    BY AfterCommitTypes DEF Remembered
  <2> HIDE DEF n
  <2>3. resident'.pc # "commit"
    BY AfterCommitTypes
  <2>4. /\ \A i \in 1..n : i = n \/ i \in 1..(n - 1)
        /\ n \in 1..n /\ \A i \in 1..(n - 1) : i \in 1..n /\ i < n
    BY <2>1
  <2>5. \A i \in 1..(n - 1) : Stored(producer[i])
    BY <2>2 DEF MemorySound
  <2>6. \A i \in 1..n : Stored(producer[i])'
    BY <1>8, <2>1, <2>4, <2>5
  <2>7. News(n)
    BY <2>1, <2>5 DEF News, e
  <2>8. \A k \in 1..(m + 1) : \E i \in 1..n : producer[i] = outbox'[k] /\ News(i)
    <3>1. TAKE k \in 1..(m + 1)
    <3>2. CASE k = m + 1
      BY <1>3, <2>1, <2>4, <2>7, <3>2
    <3>3. CASE k \in 1..m
      BY <1>3, <2>2, <2>4, <3>3 DEF MemorySound
    <3> QED
      BY <1>3, <3>2, <3>3
  <2>9. ASSUME NEW i \in 1..n, NEW j \in 1..n, News(i), News(j),
               Before(producer[i], producer[j])
        PROVE  i < j
    <3>1. \A k \in 1..(n - 1) : producer[k] \in Positions /\ Before(producer[k], e)
      <4>1. TAKE k \in 1..(n - 1)
      <4>2. Stored(producer[k])
        BY <2>5
      <4> QED
        BY <1>3, <1>4, <4>2, StoredTypes DEF Stored
    <3>2. CASE i = n
      <4>1. j = n \/ j \in 1..(n - 1)
        BY <2>4
      <4> QED
        BY <1>2, <2>1, <2>9, <3>1, <3>2, <4>1, PositionsOrdered DEF AtOrBefore
    <3>3. CASE i \in 1..(n - 1)
      <4>1. j = n \/ j \in 1..(n - 1)
        BY <2>4
      <4> QED
        BY <2>2, <2>4, <2>9, <3>3, <4>1 DEF MemorySound
    <3> QED
      BY <2>4, <3>2, <3>3
  <2>10. \A i : News(i)' <=> News(i)
    BY DEF News
  <2>11. producer' = producer
    OBVIOUS
  <2> QED
    BY <1>3, <2>2, <2>3, <2>6, <2>8, <2>9, <2>10, <2>11 DEF MemorySound
<1>14. GapCovered'
  <2>1. /\ resident'.opened = resident.opened /\ resident'.boot = resident.boot
        /\ resident'.gap = resident.gap
        /\ \/ resident'.pc = "snapshot" /\ resident'.gap
           \/ /\ resident'.pc = "stream" /\ resident'.next = resident.next + 1
              /\ resident'.gap /\ resident'.left = 0 => resident.left = 0
    BY AfterCommitTypes
  <2>2. SUFFICES ASSUME resident'.pc = "stream", resident.opened # None,
                        resident'.gap => resident'.left = 0
                 PROVE  /\ e[1] = resident.boot
                        /\ resident.next + 1 =< e[2] + 1
                        /\ \A x \in Missing(resident.opened, cursor)' :
                              Snapshotted(x)'
    BY <1>5, <1>6, <2>1 DEF GapCovered
  <2>3. /\ cursor # None /\ cursor[1] = resident.boot
        /\ resident.next =< cursor[2] + 1
        /\ \A x \in Missing(resident.opened, cursor) : Snapshotted(x)
    BY <2>1, <2>2 DEF GapCovered, Connected
  <2>4. /\ cursor[1] \in Nat /\ cursor[2] \in Nat /\ e[1] \in Nat /\ e[2] \in Nat
    BY <1>2, <2>3, BoundsAssumption DEF TypeOK, Positions
  <2>5. ASSUME NEW x \in Missing(resident.opened, cursor)'
        PROVE  Snapshotted(x)'
    <3>1. /\ x \in (1..Boot) \X (1..MaxSeq)
          /\ Emitted(x) /\ Before(resident.opened, x) /\ AtOrBefore(x, e)
          /\ ~ Stored(x) /\ x # e
      <4>1. /\ x \in (1..Boot') \X (1..MaxSeq)
            /\ Emitted(x)' /\ Before(resident.opened, x) /\ AtOrBefore(x, e)
            /\ ~ Stored(x)'
        BY <1>6, <2>1, <2>5 DEF Missing
      <4> QED
        BY <1>8, <4>1 DEF Boot, Emitted
    <3>2. x[1] \in Nat /\ x[2] \in Nat /\ x = << x[1], x[2] >>
          /\ cursor = << cursor[1], cursor[2] >>
      BY <3>1, <2>3 DEF Boot, TypeOK, Positions
    <3>3. AtOrBefore(x, cursor)
      BY <1>2, <2>3, <2>4, <3>1, <3>2 DEF AtOrBefore, Before
    <3>4. x \in Missing(resident.opened, cursor)
      BY <3>1, <3>3 DEF Missing
    <3> QED
      BY <2>3, <3>4 DEF Snapshotted
  <2> QED
    BY <1>2, <2>4, <2>5
<1> QED
  BY <1>7, <1>9, <1>10, <1>11, <1>12, <1>13, <1>14

\* An event arrives at the outbox: it is refused, known or new.
LEMMA CommitPreserves == IInv /\ CommitEvent => IInv'
<1> SUFFICES ASSUME IInv, CommitEvent PROVE IInv'
  OBVIOUS
<1>1. resident.pc = "commit" /\ UNCHANGED << daemon, producer, observed, faults >>
  BY DEF CommitEvent
<1>2. CASE resident' = Down /\ UNCHANGED durable
  <2>1. faults' \in faults..MaxFaults
    BY <1>1, BoundsAssumption DEF IInv, TypeOK
  <2> QED
    BY <1>1, <1>2, <2>1, DownPreserves
<1>3. CASE Stored(Projected) /\ resident' = AfterCommit /\ UNCHANGED durable
  BY <1>1, <1>3, DuplicatePreserves
<1>4. CASE /\ ~ Stored(Projected) /\ ~ CommitRefused(Projected)
           /\ outbox' = Append(outbox, Projected) /\ cursor' = Projected
           /\ resident' = AfterCommit /\ UNCHANGED resnapshots
  BY <1>1, <1>4, NewPreserves
<1> QED
  BY <1>2, <1>3, <1>4 DEF CommitEvent

\* A snapshot covers all that lies before the position it is recorded at.
LEMMA ResnapshotPreserves == IInv /\ Resnapshot => IInv'
<1> SUFFICES ASSUME IInv, Resnapshot PROVE IInv'
  OBVIOUS
<1> USE DEF IInv
<1>1. /\ resident.pc = "snapshot"
      /\ UNCHANGED << daemon, outbox, producer, observed, faults >>
  BY DEF Resnapshot
<1>2. CASE Regresses(Projected)
  <2>1. resident' = Down /\ UNCHANGED durable
    BY <1>2 DEF Resnapshot, durable
  <2>2. faults' \in faults..MaxFaults
    BY <1>1, BoundsAssumption DEF TypeOK
  <2> QED
    BY <1>1, <2>1, <2>2, DownPreserves
<1>3. CASE ~ Regresses(Projected)
  <2> DEFINE at == Projected
  <2>1. /\ resnapshots' = resnapshots \cup {at} /\ cursor' = at
        /\ resident' = [resident EXCEPT !.pc = "stream", !.next = @ + 1]
    BY <1>3 DEF Resnapshot
  <2>2. resident \in Connections /\ Connected
    BY <1>1, ConnectedTypes DEF Connected
  <2>3. /\ at \in Positions /\ at[1] = resident.boot /\ at[2] = resident.next
        /\ resident.boot \in 1..Boot /\ resident.next =< daemon[resident.boot]
    BY <1>1, <2>2, ProjectedTypes
  <2>4. /\ resident.boot \in Nat /\ resident.next \in Nat
        /\ daemon[resident.boot] \in 0..MaxSeq
        /\ resident.next + 1 \in 0..(MaxSeq + 1)
        /\ resident.next + 1 \in 1..(daemon[resident.boot] + 1)
        /\ resident.boot =< Boot /\ Boot \in Nat
    BY <2>2, <2>3, ConnectionFields, DaemonTypes, BoundsAssumption
  <2>5. /\ resident' \in Connections
        /\ resident'.pc = "stream" /\ resident'.opened = resident.opened
        /\ resident'.boot = resident.boot /\ resident'.gap = resident.gap
        /\ resident'.left = resident.left /\ resident'.next = resident.next + 1
    <3>1. resident' = [resident EXCEPT !.pc = "stream", !.next = resident.next + 1]
      BY <2>1, <2>2 DEF Connections
    <3> QED
      BY <2>2, <2>4, <3>1 DEF Connections
  <2>6. cursor' # None
    BY <2>1, <2>3, NoneAssumption, BoundsAssumption DEF Positions
  <2> HIDE DEF at
  <2>7. cursor # None => AtOrBefore(cursor, at) /\ cursor \in Positions
    <3>1. SUFFICES ASSUME cursor # None
                   PROVE  AtOrBefore(cursor, at) /\ cursor \in Positions
      OBVIOUS
    <3>2. cursor \in Positions
      BY <3>1 DEF TypeOK
    <3>3. /\ cursor[1] \in Nat /\ cursor[2] \in Nat
          /\ cursor = << cursor[1], cursor[2] >> /\ at = << at[1], at[2] >>
      BY <2>3, <3>2, BoundsAssumption DEF Positions
    <3>4. cursor[1] =< at[1]
      BY <2>2, <2>3, <3>1 DEF ConnectionSound
    <3>5. ~ (cursor[1] = at[1] /\ at[2] < cursor[2])
      BY <1>3, <3>1 DEF Regresses, at
    <3> QED
      BY <2>3, <2>4, <3>2, <3>3, <3>4, <3>5 DEF AtOrBefore, Before
  <2>8. TypeOK'
    BY <1>1, <2>1, <2>3, <2>5 DEF TypeOK
  <2>9. BootsAreFaults' /\ CursorReal' /\ EvidencePrecedesCursor'
    BY <1>1, <2>1, <2>3, <2>4 DEF BootsAreFaults, CursorReal, Boot,
                                  EvidencePrecedesCursor
  <2>10. ConnectionSound'
    <3>1. at[1] =< resident.boot /\ Boot' = Boot
      BY <1>1, <2>3, <2>4 DEF Boot
    <3> QED
      BY <1>1, <2>1, <2>4, <2>5, <3>1 DEF ConnectionSound
  <2>11. OutboxInHostOrder'
    <3>1. ASSUME NEW i \in DOMAIN outbox PROVE AtOrBefore(outbox[i], at)
      <4>1. cursor # None /\ AtOrBefore(outbox[i], cursor) /\ outbox[i] \in Positions
        BY <3>1 DEF OutboxInHostOrder, TypeOK
      <4> QED
        BY <2>3, <2>7, <4>1, PositionsTransitive
    <3> QED
      BY <1>1, <2>1, <2>6, <3>1 DEF OutboxInHostOrder
  <2>12. MemorySound'
    BY <1>1, <2>5, MemoryKept
  <2>13. GapCovered'
    <3>1. \A e \in Missing(resident.opened, cursor)' : Snapshotted(e)'
      BY <2>1 DEF Missing, Snapshotted
    <3>2. cursor'[1] = resident.boot /\ resident.next + 1 =< cursor'[2] + 1
      BY <2>1, <2>3, <2>4
    <3> QED
      BY <2>5, <2>6, <3>1, <3>2 DEF GapCovered
  <2> QED
    BY <2>8, <2>9, <2>10, <2>11, <2>12, <2>13
<1> QED
  BY <1>2, <1>3
-----------------------------------------------------------------------------
(***************************************************************************)
(* The invariant and its consequences                                      *)
(***************************************************************************)
LEMMA InitInvariant == Init => IInv
<1> SUFFICES ASSUME Init PROVE IInv
  OBVIOUS
<1>1. /\ daemon = << 0 >> /\ cursor = None /\ outbox = <<>> /\ resnapshots = {}
      /\ resident = Down /\ producer = <<>> /\ observed = {} /\ faults = 0
  BY DEF Init
<1>2. resident.pc = "down"
  BY <1>1 DEF Down
<1>3. daemon \in Seq(0..MaxSeq) /\ Len(daemon) = 1
  <2>1. 0 \in 0..MaxSeq
    BY BoundsAssumption
  <2> QED
    BY <1>1, <2>1
<1>4. 1 \in 1..(MaxFaults + 1) /\ 0 \in 0..MaxFaults
  BY BoundsAssumption
<1>5. outbox \in Seq(Positions) /\ producer \in Seq(Positions) /\ DOMAIN outbox = {}
  BY <1>1
<1>6. TypeOK
  BY <1>1, <1>3, <1>4, <1>5 DEF TypeOK
<1>7. BootsAreFaults /\ CursorReal /\ EvidencePrecedesCursor /\ OutboxInHostOrder
  BY <1>1, <1>3, <1>5 DEF BootsAreFaults, CursorReal, EvidencePrecedesCursor,
                          OutboxInHostOrder
<1>8. ConnectionSound /\ MemorySound /\ GapCovered
  BY <1>2 DEF ConnectionSound, MemorySound, GapCovered, Connected
<1> QED
  BY <1>6, <1>7, <1>8 DEF IInv

\* Every step keeps the invariant.
LEMMA NextInvariant == IInv /\ [Next]_vars => IInv'
<1> SUFFICES ASSUME IInv, [Next]_vars PROVE IInv'
  OBVIOUS
<1>1. CASE UNCHANGED vars
  <2>1. /\ UNCHANGED << durable, resident, producer, observed >>
        /\ daemon' = daemon /\ faults' = faults
    BY <1>1 DEF vars
  <2>2. /\ daemon \in Seq(0..MaxSeq) /\ faults \in 0..MaxFaults
        /\ Boot \in 1..(MaxFaults + 1) /\ Boot =< faults + 1 /\ Len(daemon) = Boot
        /\ \A b \in 1..Boot : daemon[b] \in 0..MaxSeq
    BY DaemonTypes DEF IInv, TypeOK, BootsAreFaults, Boot
  <2>3. /\ Len(daemon') \in Boot..(MaxFaults + 1)
        /\ \A b \in 1..Boot : daemon'[b] >= daemon[b]
    BY <2>1, <2>2, BoundsAssumption
  <2>4. \A e \in (1..Len(daemon')) \X (1..MaxSeq) :
           Emitted(e)' => e[1] \in 1..Boot /\ Emitted(e)
    BY <2>1, <2>2 DEF Emitted
  <2> QED
    BY <2>1, <2>2, <2>3, <2>4, DaemonGoesOn
<1>2. CASE Emit
  BY <1>2, EmitPreserves
<1>3. CASE DaemonRestart
  BY <1>3, RestartPreserves
<1>4. CASE ResidentStep
  BY <1>4, StartPreserves, ResumePreserves, ObservePreserves, CommitPreserves,
     ResnapshotPreserves, StreamEndsPreserves DEF ResidentStep
<1>5. CASE ResumeEarlier
  BY <1>5, ResumeEarlierPreserves
<1>6. CASE Crash
  BY <1>6, CrashPreserves
<1> QED
  BY <1>1, <1>2, <1>3, <1>4, <1>5, <1>6 DEF Next

\* The inductive invariant holds of every run of the resident, whatever the
\* daemon keeps and however often the two restart.
THEOREM InvariantHolds == Spec => []IInv
  BY InitInvariant, NextInvariant, PTL DEF Spec

\* Types: sequence numbers, boots and replay counts stay within their range;
\* in particular the number of replay events left is never below zero.
THEOREM TypeCorrect == Spec => []TypeOK
<1>1. IInv => TypeOK
  BY DEF IInv
<1> QED
  BY <1>1, InvariantHolds, PTL

\* run() hands an event to the receipt producer before commit_event: whatever
\* the outbox has, the receipts for it are durable.
THEOREM EvidenceFirst == Spec => []EvidencePrecedesCursor
<1>1. IInv => EvidencePrecedesCursor
  BY DEF IInv
<1> QED
  BY <1>1, InvariantHolds, PTL

\* commit_event keeps the outbox in the host's order and behind the cursor.
THEOREM HostOrderKept == Spec => []OutboxInHostOrder
<1>1. IInv => OutboxInHostOrder
  BY DEF IInv
<1> QED
  BY <1>1, InvariantHolds, PTL

\* What the producer remembers is what recover() would rebuild.
LEMMA MemoryFollows == IInv => MemoryIsOutbox
<1> DEFINE first(e) == CHOOSE i \in DOMAIN producer :
                          /\ producer[i] = e
                          /\ \A j \in 1..(i - 1) : producer[j] # e
           events == {outbox[i] : i \in DOMAIN outbox}
<1> SUFFICES ASSUME IInv, resident.pc \in {"connect", "stream", "snapshot"}
             PROVE  /\ {producer[i] : i \in DOMAIN producer} = events
                    /\ \A e, f \in events : Before(e, f) => first(e) < first(f)
  BY DEF MemoryIsOutbox
<1>1. /\ Len(producer) \in Nat /\ DOMAIN producer = 1..Len(producer)
      /\ Remembered = Len(producer)
  BY SeqElements DEF IInv, TypeOK, Remembered
<1>2. /\ \A i \in DOMAIN producer : Stored(producer[i])
      /\ \A k \in DOMAIN outbox :
            \E i \in DOMAIN producer : producer[i] = outbox[k] /\ News(i)
      /\ \A i, j \in DOMAIN producer :
            News(i) /\ News(j) /\ Before(producer[i], producer[j]) => i < j
  BY <1>1 DEF IInv, MemorySound
<1>3. {producer[i] : i \in DOMAIN producer} = events
  BY <1>2 DEF Stored
<1>4. ASSUME NEW e \in events
      PROVE  first(e) \in DOMAIN producer /\ producer[first(e)] = e /\ News(first(e))
  <2>1. PICK i \in DOMAIN producer : producer[i] = e /\ News(i)
    BY <1>2
  <2>2. \E k \in DOMAIN producer :
           /\ producer[k] = e
           /\ \A j \in 1..(k - 1) : producer[j] # e
    BY <2>1 DEF News
  <2>3. /\ first(e) \in DOMAIN producer
        /\ producer[first(e)] = e
        /\ \A j \in 1..(first(e) - 1) : producer[j] # e
    BY <2>2
  <2> HIDE DEF first
  <2> QED
    BY <2>3 DEF News
<1> HIDE DEF first
<1>5. \A e, f \in events : Before(e, f) => first(e) < first(f)
  BY <1>2, <1>4
<1> QED
  BY <1>3, <1>5

\* The producer's memory does not depend on when the process last restarted:
\* it is what recover() would rebuild from the outbox, in the host's order.
THEOREM MemoryCorrect == Spec => []MemoryIsOutbox
  BY MemoryFollows, InvariantHolds, PTL

\* A connection that follows the live stream has recorded a snapshot for
\* every event it skipped (_resnapshot), however the gap was noticed.
THEOREM GapsSnapshotted == Spec => []GapIsSnapshotted
<1>1. IInv => GapIsSnapshotted
  BY DEF IInv, GapIsSnapshotted, GapCovered, Live, Connected
<1> QED
  BY <1>1, InvariantHolds, PTL
=============================================================================
