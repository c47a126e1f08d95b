--------------------------- MODULE ReceiptEmitter ---------------------------
(***************************************************************************)
(* From the events of the host's bus to receipts: the receipt producer and *)
(* its emitter (plugins/cmux/yatagarasu_cmux/receipt_producer.py,          *)
(* receipt_emitter.py), inside the resident that feeds them.               *)
(*                                                                         *)
(* A turn of a harness shows on the bus as surface.input_sent (when its    *)
(* prompt was injected), workspace.prompt.submitted, the UserPromptSubmit  *)
(* hook and the Stop hook.  The emitter correlates them by workspace and   *)
(* session only; what a prompt quotes is the one trace of the delivery.    *)
(* The host is external.  It runs one turn at a time in a workspace,       *)
(* reports a hook also in its received phase, and gives no Stop for a turn *)
(* the user interrupts.  It may relay a callback again: those of a turn    *)
(* that is not over while it runs, and the Stop of one that is over at any *)
(* later time, after the next turn has begun too, as the captures of       *)
(* test_receipt_producer_seam.py:767 do.  That a prompt or its hook is not *)
(* relayed after its turn is an assumption about the host.                 *)
(*                                                                         *)
(* The bus stays in one boot and is durable.  cursor is how much of it is  *)
(* in the outbox; gaps and daemon restarts are the subject of EventStream. *)
(* The producer is sequential and never looks at how far behind it is, so  *)
(* the host waits for it here.  An event without a workspace is one of the *)
(* workspace "<unscoped>".  Other event names pass through and change      *)
(* nothing.  A marker on the wire is the pair that ShortMarker and         *)
(* DeliveryMarker have in common, with the delivery it names.              *)
(***************************************************************************)
EXTENDS SessionProofs, SequencesExt

CONSTANTS
    Turns,
    Turn,           \* the workspace, the session or None, the marker its
                    \* prompt quotes or None, and whether it is injected
    Deliveries,     \* the deliveries that delivery_lookup knows
    Context,        \* what it returns for them: keys, binding or None, and
                    \* the authoritative marker
    Provider,
    MaxTurns,       \* bound: turns that begin
    MaxRelays,      \* bound: relays and received-phase hooks
    MaxFaults,      \* bound: crashes, sink failures and events sent again
    None

ASSUME TurnAssumption ==
    \A t \in Turns :
        /\ DOMAIN Turn[t] = {"workspace", "session", "marker", "injected"}
        /\ Turn[t].injected \in BOOLEAN
        /\ Turn[t].marker # None => Turn[t].marker.signature # None

ASSUME BoundsAssumption == MaxRelays \in Nat /\ MaxFaults \in Nat

Workspaces == {Turn[t].workspace : t \in Turns}
Sessions == {Turn[t].session : t \in Turns} \ {None}

InputSent == "surface.input_sent"
PromptSubmitted == "workspace.prompt.submitted"
UserPromptSubmit == "agent.hook.UserPromptSubmit"
StopHook == "agent.hook.Stop"

Hooks == {UserPromptSubmit, StopHook}

\* None is neither a reference to an event nor a chain of three.
ASSUME NoneAssumption ==
    LET markers == {Turn[t].marker : t \in Turns} \ {None}
        refs == [name : {InputSent, PromptSubmitted} \cup Hooks,
                 id : Nat, seq : Nat, boot : {"boot"}, instance : {"bus"},
                 session : Sessions \cup {None},
                 binding : {m.binding : m \in markers} \cup {None},
                 signature : {m.signature : m \in markers} \cup {None}]
    IN  /\ None \notin refs
        /\ None \notin [delivery : Deliveries, events : refs \X refs \X refs]

VARIABLES
    bus,            \* the events of the host, in order
    stage,          \* how far each turn is
    relays,
    pc,             \* of the resident
    cursor,         \* how many events are in the durable outbox
    memory,         \* the producer's and the emitter's memory
    steady,         \* history: the memory of a producer that saw each event
                    \* of the outbox once and never died
    sent,           \* the receipts core_client has taken
    faults

host == << bus, stage, relays >>

resident == << pc, cursor, memory, steady, sent, faults >>

vars == << host, resident >>
-----------------------------------------------------------------------------
(***************************************************************************)
(* The producer: _accept_for_emission                                      *)
(***************************************************************************)
\* _translate_derived_event: only a prompt carries what its marker claims.
Ref(e) ==
    [name |-> e.name, id |-> e.seq, seq |-> e.seq, boot |-> "boot",
     instance |-> "bus", session |-> e.session,
     binding |-> IF e.marker = None THEN None ELSE e.marker.binding,
     signature |-> IF e.marker = None THEN None ELSE e.marker.signature]

NewChain == [signature |-> None, accepted |-> {}]

\* Mutant: the accepted names of the last turn are never forgotten.
CollapsedKept(chain, e) ==
    [emit |-> e.name = InputSent \/ e.name \notin chain.accepted,
     chain |-> [chain EXCEPT !.accepted = @ \cup {e.name}]]

\* Whether e goes on to the emitter, and the workspace's chain after it.
Collapsed(chain, e) ==
    LET signature == IF e.name = PromptSubmitted
                     THEN Ref(e).signature ELSE chain.signature
        kept      == IF chain.signature \in {None, signature}
                     THEN chain.accepted ELSE {}
        key       == << e.name, signature >>
    IN  IF e.name \in Hooks /\ e.phase # "completed"
        THEN [emit |-> FALSE, chain |-> chain]
        ELSE IF e.name = InputSent
        THEN [emit |-> TRUE, chain |-> NewChain]
        ELSE [emit |-> key \notin kept,
              chain |-> [signature |-> signature, accepted |-> kept \cup {key}]]
-----------------------------------------------------------------------------
(***************************************************************************)
(* The emitter: observe                                                    *)
(***************************************************************************)
NoPending == [input |-> None, prompt |-> None, marker |-> None]

\* Mutant: pending chains of all workspaces are one.
PendingKeyShared(e) == CHOOSE w \in Workspaces : TRUE

PendingKey(e) == e.workspace

\* Mutant: session ids are taken to be unique on the host.
ActiveKeySession(e) == << CHOOSE w \in Workspaces : TRUE, e.session >>

ActiveKey(e) == << e.workspace, e.session >>

\* Mutant: observed_at is when the producer runs.
ReceiptStamped(d, events, e, class) ==
    [id |-> e.seq, event |-> Context[d].event, delivery |-> d,
     attempt |-> Context[d].attempt, binding |-> Context[d].binding,
     provider |-> Provider, class |-> class, method |-> "hook",
     observed |-> cursor, source |-> e.seq, disposition |-> None,
     proof |-> [session |-> e.session, marker |-> Context[d].marker,
                events |-> events]]

\* Mutant: the prompt's claims are taken from the lookup.
ReceiptTrusting(d, events, e, class) ==
    [id |-> e.seq, event |-> Context[d].event, delivery |-> d,
     attempt |-> Context[d].attempt, binding |-> Context[d].binding,
     provider |-> Provider, class |-> class, method |-> "hook",
     observed |-> e.seq, source |-> e.seq, disposition |-> None,
     proof |-> [session |-> e.session, marker |-> Context[d].marker,
                events |-> [events EXCEPT
                    ![2].signature = Context[d].marker.signature]]]

\* The receipt that event e gives rise to.  All of it but the events is what
\* the lookup says of the delivery that the prompt names.
Receipt(d, events, e, class) ==
    [id |-> e.seq, event |-> Context[d].event, delivery |-> d,
     attempt |-> Context[d].attempt, binding |-> Context[d].binding,
     provider |-> Provider, class |-> class, method |-> "hook",
     observed |-> e.seq, source |-> e.seq,
     disposition |-> IF class = "harness.turn_completed"
                     THEN "completed" ELSE None,
     proof |-> [session |-> e.session, marker |-> Context[d].marker,
                events |-> events]]

OnInput(m, e) ==
    [m EXCEPT !.pending[PendingKey(e)] = [NoPending EXCEPT !.input = Ref(e)]]

OnPrompt(m, e) ==
    [m EXCEPT !.pending[PendingKey(e)] =
        [@ EXCEPT !.prompt = Ref(e), !.marker = e.marker]]

\* The pending chain is popped whatever comes of it.
OnUserPromptSubmit(m, e) ==
    LET p      == m.pending[PendingKey(e)]
        popped == [m EXCEPT !.pending[PendingKey(e)] = NoPending]
        d      == p.marker.delivery
        events == << p.input, p.prompt, Ref(e) >>
        correlated == /\ e.session # None
                      /\ None \notin {p.input, p.prompt, p.marker}
                      /\ d \in Deliveries
                      /\ Context[d].binding # None
    IN  IF correlated
        THEN [popped EXCEPT
                 !.emitted = @ \cup {Receipt(d, events, e,
                                             "harness.prompt_accepted")},
                 !.active[ActiveKey(e)] = [delivery |-> d, events |-> events]]
        ELSE popped

OnStop(m, e) ==
    IF e.session = None THEN m
    ELSE LET chain == m.active[ActiveKey(e)]
         IN  IF chain = None THEN m
             ELSE [m EXCEPT
                      !.active[ActiveKey(e)] = None,
                      !.emitted = @ \cup {Receipt(chain.delivery,
                                                  Append(chain.events, Ref(e)),
                                                  e, "harness.turn_completed")}]

\* DerivedEventReceiptProducer.observe: the memory after event e.  emitted
\* is what core_client has been called with.
Observed(m, e) ==
    LET c    == Collapsed(m.chains[e.workspace], e)
        kept == [m EXCEPT !.chains[e.workspace] = c.chain]
    IN  CASE ~c.emit -> kept
          [] c.emit /\ e.name = InputSent -> OnInput(kept, e)
          [] c.emit /\ e.name = PromptSubmitted -> OnPrompt(kept, e)
          [] c.emit /\ e.name = UserPromptSubmit -> OnUserPromptSubmit(kept, e)
          [] c.emit /\ e.name = StopHook -> OnStop(kept, e)

NewMemory ==
    [chains |-> [w \in Workspaces |-> NewChain],
     pending |-> [w \in Workspaces |-> NoPending],
     active |-> [k \in Workspaces \X Sessions |-> None],
     emitted |-> {}]

-----------------------------------------------------------------------------
(***************************************************************************)
(* The host                                                                *)
(***************************************************************************)
Init ==
    /\ bus = <<>>
    /\ stage = [t \in Turns |-> "waiting"]
    /\ relays = 0
    /\ pc = "down"
    /\ cursor = 0
    /\ memory = NewMemory
    /\ steady = NewMemory
    /\ sent = {}
    /\ faults = 0

Event(t, name, phase) ==
    [name |-> name, seq |-> Len(bus) + 1, workspace |-> Turn[t].workspace,
     session |-> IF name \in Hooks THEN Turn[t].session ELSE None,
     marker |-> IF name = PromptSubmitted THEN Turn[t].marker ELSE None,
     phase |-> phase, turn |-> t]

CaughtUp == pc = "up" /\ cursor = Len(bus)

Emit(t, name, phase) ==
    /\ CaughtUp
    /\ bus' = Append(bus, Event(t, name, phase))
    /\ UNCHANGED resident

MayBegin(t) ==
    /\ stage[t] = "waiting"
    /\ Cardinality({u \in Turns : stage[u] # "waiting"}) < MaxTurns

Running(t) == stage[t] \in {"prompted", "running"}

\* The injector types the prompt, whatever the harness is doing.
Inject(t) ==
    /\ Turn[t].injected
    /\ MayBegin(t)
    /\ stage' = [stage EXCEPT ![t] = "injected"]
    /\ Emit(t, InputSent, "completed")
    /\ UNCHANGED relays

Prompt(t) ==
    /\ IF Turn[t].injected THEN stage[t] = "injected" ELSE MayBegin(t)
    /\ \A u \in Turns : Turn[u].workspace = Turn[t].workspace => ~Running(u)
    /\ stage' = [stage EXCEPT ![t] = "prompted"]
    /\ Emit(t, PromptSubmitted, "completed")
    /\ UNCHANGED relays

Accept(t) ==
    /\ stage[t] = "prompted"
    /\ stage' = [stage EXCEPT ![t] = "running"]
    /\ Emit(t, UserPromptSubmit, "completed")
    /\ UNCHANGED relays

Stop(t) ==
    /\ stage[t] = "running"
    /\ stage' = [stage EXCEPT ![t] = "stopped"]
    /\ Emit(t, StopHook, "completed")
    /\ UNCHANGED relays

Interrupt(t) ==
    /\ CaughtUp
    /\ stage[t] = "running"
    /\ stage' = [stage EXCEPT ![t] = "interrupted"]
    /\ UNCHANGED << bus, relays, resident >>

\* A callback of the turn that runs comes again, or a hook comes in its
\* received phase, or the Stop of a turn that is over comes again.
Relay(t) ==
    /\ relays < MaxRelays
    /\ relays' = relays + 1
    /\ \/ /\ Running(t)
          /\ \E e \in ToSet(bus) :
                /\ e.turn = t /\ e.name # InputSent
                /\ Emit(t, e.name, e.phase)
       \/ /\ Running(t)
          /\ Emit(t, UserPromptSubmit, "received")
       \/ /\ stage[t] = "stopped"
          /\ Emit(t, StopHook, "completed")
    /\ UNCHANGED stage
-----------------------------------------------------------------------------
(***************************************************************************)
(* The resident                                                            *)
(***************************************************************************)
Fault == faults < MaxFaults /\ faults' = faults + 1

\* The producer observes e, and what it emits is with core.
Feed(e) ==
    /\ memory' = Observed(memory, e)
    /\ sent' = sent \cup memory'.emitted

\* The memories of a producer that has seen n events: there is one.
Replay(n) ==
    LET after[i \in 0..n] ==
            IF i = 0 THEN {NewMemory}
            ELSE {Observed(m, bus[i]) : m \in after[i - 1]}
    IN  after[n]

\* Mutant: the producer of a new run is not rebuilt.
StartEmpty ==
    /\ pc = "down"
    /\ pc' = "up"
    /\ UNCHANGED << host, cursor, memory, steady, sent, faults >>

\* A run begins: recover clears the producer, observes the outbox in order
\* and sends again what it emits.  The replay is one step: core takes a
\* receipt that it has for a duplicate, so one that dies half-way and is
\* followed by a whole one leaves what the whole one leaves.
Start ==
    /\ pc = "down"
    /\ pc' = "up"
    /\ memory' \in Replay(cursor)
    /\ sent' = sent \cup memory'.emitted
    /\ UNCHANGED << host, cursor, steady, faults >>

\* The producer sees the next event before the cursor moves.
Observe ==
    /\ pc = "up"
    /\ cursor < Len(bus)
    /\ Feed(bus[cursor + 1])
    /\ pc' = "commit"
    /\ UNCHANGED << host, cursor, steady, faults >>

Commit ==
    /\ pc = "commit"
    /\ cursor' = cursor + 1
    /\ steady' = Observed(steady, bus[cursor + 1])
    /\ pc' = "up"
    /\ UNCHANGED << host, memory, sent, faults >>

\* The stream delivers the last event of the outbox once more: it is
\* observed, and its commit is a duplicate.
Again ==
    /\ Fault
    /\ pc = "up"
    /\ cursor > 0
    /\ Feed(bus[cursor])
    /\ UNCHANGED << host, pc, cursor, steady >>

\* core_client raises for a receipt, or the process dies.
Crash ==
    /\ Fault
    /\ pc # "down"
    /\ pc' = "down"
    /\ memory' = NewMemory
    /\ UNCHANGED << host, cursor, steady, sent >>
-----------------------------------------------------------------------------
Next ==
    \/ \E t \in Turns :
          \/ Inject(t) \/ Prompt(t) \/ Accept(t) \/ Stop(t)
          \/ Interrupt(t) \/ Relay(t)
    \/ Start \/ Observe \/ Commit \/ Again \/ Crash

Spec == Init /\ [][Next]_vars

\* Start, Observe or Commit, as far as pc shows them.
ResidentMoves ==
    \/ pc = "down" /\ pc' = "up"
    \/ pc = "up" /\ cursor < Len(bus) /\ pc' = "commit"
    \/ pc = "commit" /\ pc' = "up"

\* The supervisor restarts the resident, the stream delivers what follows
\* the cursor, and the producer waits for no one.  The host owes nothing.
Fairness == WF_pc(ResidentMoves)
-----------------------------------------------------------------------------
(***************************************************************************)
(* Properties                                                              *)
(***************************************************************************)
Refs == {Ref(bus[i]) : i \in DOMAIN bus}

TypeOK ==
    /\ \A i \in DOMAIN bus : bus[i].seq = i /\ bus[i].turn \in Turns
    /\ stage \in [Turns -> {"waiting", "injected", "prompted", "running",
                            "stopped", "interrupted"}]
    /\ relays \in 0..MaxRelays
    /\ pc \in {"down", "up", "commit"}
    /\ cursor \in 0..Len(bus)
    /\ \A w \in Workspaces :
          LET p == memory.pending[w]
          IN  p.input \in Refs \cup {None} /\ p.prompt \in Refs \cup {None}
    /\ \A r \in sent : r.source \in DOMAIN bus /\ r.delivery \in Deliveries
    /\ faults \in 0..MaxFaults

Entries == {r \in sent : r.class = "harness.prompt_accepted"}
Completions == {r \in sent : r.class = "harness.turn_completed"}

\* The turn that the i-th event of r's proof belongs to.
TurnOf(r, i) == bus[r.proof.events[i].seq].turn

\* The chains of a producer are those it would rebuild from the outbox,
\* whatever crashes, sink failures and repeated events lie behind it
\* (receipt_producer.py recover: "Rebuild ephemeral chain state from the
\* durable source outbox"), so a restart never changes what is reported.
MemoryIsReplay ==
    /\ pc = "up" => memory = steady
    /\ pc = "commit" => memory = Observed(steady, bus[cursor + 1])

\* A receipt id never names two claims, although recover sends receipts
\* again and a crashed observe is repeated: core answers "duplicate" and not
\* "contradiction", which would degrade the provider (receipt_producer.py:67).
ReceiptIdsAreStable ==
    \A r, q \in sent : r.id = q.id => r = q

\* What the prompt of turn t quotes.
Signature(t) ==
    IF Turn[t].marker = None THEN None ELSE Turn[t].marker.signature

\* t and u are turns of one workspace with one marker, as when the user
\* sends a prompt of the history again: the collapse of relays takes the
\* later prompt for a relay of the earlier.
SameQuote(t, u) ==
    /\ Turn[t].workspace = Turn[u].workspace
    /\ Signature(t) = Signature(u)

\* The prompt and the hook of an accepted prompt are of one turn or at least
\* of turns that the bus cannot tell apart, and the delivery reported is the
\* one that this prompt quotes, however the turns of other workspaces and
\* injections into this one interleave (receipt_emitter.py:53).
EntryIsOwnTurn ==
    \A r \in Entries :
        /\ SameQuote(TurnOf(r, 2), TurnOf(r, 3))
        /\ Turn[TurnOf(r, 2)].marker.delivery = r.delivery

\* A Stop that was on the bus before event p came again after it, up to q:
\* the collapse of relays has forgotten it by then.
LateStop(p, q) ==
    \E i, j \in DOMAIN bus :
        /\ i < p /\ p < j /\ j =< q
        /\ bus[i].name = StopHook /\ bus[j].name = StopHook
        /\ bus[i].turn = bus[j].turn
        /\ bus[j].workspace = bus[p].workspace

\* A completed turn extends a chain that was reported as accepted, and is
\* closed by the Stop of that very turn (receipt_emitter.py:31-34).  The
\* emitter looks only at workspace and session, so there are three ways to
\* miss it, and no others: the user interrupted the turn, which leaves its
\* chain for the next Stop; the Stop of an earlier turn was relayed after the
\* prompt; or the chain is of two turns with one marker.
CompletionIsOwnTurn ==
    \A r \in Completions :
        /\ \E q \in Entries : /\ q.delivery = r.delivery
                              /\ q.proof.events = ChainBeforeLast(r.proof)
        /\ \/ TurnOf(r, 4) = TurnOf(r, 3)
           \/ stage[TurnOf(r, 3)] = "interrupted"
           \/ LateStop(r.proof.events[2].seq, r.proof.events[4].seq)
           \/ /\ TurnOf(r, 2) # TurnOf(r, 3)
              /\ SameQuote(TurnOf(r, 2), TurnOf(r, 3))

Registration ==
    [kind |-> "event-bus", instance |-> "bus",
     classes |-> {"harness.prompt_accepted", "harness.turn_completed"}]

\* Core judges what was on the wire and not what the lookup returned
\* (receipt_producer.py:3, receipt_emitter.py:95): its validator accepts the
\* proof of a receipt iff the prompt quoted the authoritative marker of the
\* delivery and that marker is genuine and in force.  So every honest chain
\* passes, and the Stop of a turn that outlives its marker does not.
WireMarkerIsJudged ==
    \A r \in sent :
        LET quoted == Turn[TurnOf(r, 2)].marker
            marker == Context[r.delivery].marker
        IN  SessionProofValid(r.proof, r, r.class, Registration, r.observed)
            <=> /\ quoted.binding = r.binding
                /\ quoted.signature = marker.signature
                /\ MarkerValid(marker, r, r.observed)

\* Turn t has a marker that the lookup knows, and everything that the host
\* reported in its workspace from its input to its Stop was its own.
Reportable(t) ==
    /\ Turn[t].injected /\ Turn[t].session # None /\ Turn[t].marker # None
    /\ Turn[t].marker.delivery \in Deliveries
    /\ Context[Turn[t].marker.delivery].binding # None

Undisturbed(t) ==
    \E i, k \in DOMAIN bus :
        /\ bus[i].turn = t /\ bus[i].name = InputSent
        /\ bus[k].turn = t /\ bus[k].name = StopHook
        /\ \A j \in i..k : bus[j].workspace = Turn[t].workspace
                              => bus[j].turn = t

\* Both stages of turn t are with core, proved by its first event of each
\* kind.
Reported(t) ==
    \E r \in Completions : \A i \in 1..4 :
        /\ TurnOf(r, i) = t
        /\ \A j \in 1..(r.proof.events[i].seq - 1) :
              ~ /\ bus[j].turn = t
                /\ bus[j].name = CompletedChain[i]
                /\ bus[j].phase = "completed"

TurnsAreReported ==
    \A t \in Turns : Reportable(t) /\ Undisturbed(t) => Reported(t)

\* A turn that no other turn of its workspace disturbs is reported, its
\* relays collapsed to the first observation, whatever happened before it
\* and however often the resident dies (receipt_producer.py:89-96).  What
\* precedes the arrow stays true once it is.
UndisturbedTurnIsReported == []<>TurnsAreReported

\* What receipt_emitter.py:31-34 says of every completion.
StopIsOfTheTurn ==
    \A r \in Completions : TurnOf(r, 4) = TurnOf(r, 3)
=============================================================================
