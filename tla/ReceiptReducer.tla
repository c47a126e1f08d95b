--------------------------- MODULE ReceiptReducer ---------------------------
(***************************************************************************)
(* ReceiptReducer.submit (core/yatagarasu_core/receipts.py) run by several *)
(* reducers over one store.                                                *)
(*                                                                         *)
(* submit validates with reads that no transaction covers and then commits *)
(* with store.accept_receipt.  A reducer therefore takes these steps, and  *)
(* any other connection may commit between two of them:                    *)
(*                                                                         *)
(*   Submit         the receipt id is looked up                            *)
(*   ReadDelivery   the delivery row is read and the keys compared         *)
(*   Validate       provider, participant, transition and session checks   *)
(*   Commit         accept_receipt                                         *)
(*   RecoverIntegrityCollision   the winner is re-read after a collision   *)
(*                                                                         *)
(* Validate is one step although the code reads several tables in it: all  *)
(* but session_bindings are append-only and a positive read stays true, a  *)
(* binding is read once, and the negative read source_seen comes last.     *)
(*                                                                         *)
(* The reason of a refusal is kept only where the code's behaviour differs *)
(* by it; the other reasons are "rejected".  The row that _reject adds to  *)
(* receipt_rejections is a log that no operation reads and is left out.    *)
(***************************************************************************)
EXTENDS CoreStore

CONSTANT Reducers    \* the processes that call submit

VARIABLE reducer     \* what each reducer has in memory

vars == << storeVars, reducer >>

Verdicts ==
    {"accepted", "duplicate", "rejected", "receipt_id_contradiction",
     "delivery_state_changed", "source_event_replayed",
     "storage_integrity_error"}

ASSUME VerdictsAssumption == None \notin Verdicts

Result(state, disposition) == [state |-> state, disposition |-> disposition]

\* What _transition may answer.
Outcome ==
    {Result("transport-submitted", None), Result("in-session", None)}
    \cup {Result("processed", disposition) : disposition \in Dispositions}

\* A reducer between two calls, the last of which returned v.
Idle(v) == [pc |-> "idle", receipt |-> None, row |-> None,
            outcome |-> None, verdict |-> v]

ReducerState ==
    [pc : {"idle", "read", "validate", "commit", "recover"},
     receipt : Receipts \cup {None},
     row : DeliveryRow \cup {None},
     outcome : Outcome \cup {None},
     verdict : Verdicts \cup {None}]

ReducerTypeOK ==
    /\ reducer \in [Reducers -> ReducerState]
    /\ \A w \in Reducers :
          /\ reducer[w].pc # "idle" => reducer[w].receipt \in Receipts
          /\ reducer[w].pc \in {"validate", "commit"} =>
                reducer[w].row \in DeliveryRow
          /\ reducer[w].pc = "commit" => reducer[w].outcome \in Outcome

TypeOK == StoreTypeOK /\ ReducerTypeOK

Init ==
    /\ StoreInit
    /\ reducer = [w \in Reducers |-> Idle(None)]
-----------------------------------------------------------------------------
(***************************************************************************)
(* Validation                                                              *)
(***************************************************************************)
ParticipantEvidence ==
    {"participant.reply_authored", "participant.reaction_authored"}

SessionProofEvidence == EntryEvidence \cup {"harness.turn_completed"}

KeysMatch(r, row) ==
    /\ r.event = Key[r.delivery].event
    /\ r.attempt = Key[r.delivery].attempt
    /\ r.binding = row.binding

ModeOf(r) == Key[r.delivery].mode

KindOf(r) == Provider[r.provider].kind

\* _validate_participant, but for the replay of its source event.
ParticipantAuthentic(r, row) ==
    /\ ModeOf(r) = "channel-native"
    /\ KindOf(r) = "comms-view"
    /\ row.state = "transport-submitted"
    /\ ~ r.echo
    /\ Given(r.source)
    /\ PrincipalMatches(r)
    /\ MessageBindingMatches(r)

SessionTransport(r) ==
    ModeOf(r) = "session-bound" /\ KindOf(r) = "session-transport"

\* _transition: o is the outcome that evidence r yields for the row.  For the
\* participant classes the state is checked in ParticipantAuthentic.
Yields(r, row, o) ==
    \/ /\ r.class = "transport.submit_ack"
       /\ row.state = "dispatching"
       /\ r.disposition = None
       /\ \/ SessionTransport(r)
          \/ /\ ModeOf(r) = "channel-native"
             /\ KindOf(r) = "comms-view"
             /\ MessageBindingMatches(r)
       /\ o = Result("transport-submitted", None)
    \/ /\ r.class \in EntryEvidence
       /\ SessionTransport(r)
       /\ row.state = "transport-submitted"
       /\ r.disposition = None
       /\ o = Result("in-session", None)
    \/ /\ r.class = "harness.turn_completed"
       /\ SessionTransport(r)
       /\ row.state = "in-session"
       /\ r.disposition \in {None, "completed"}
       /\ o = Result("processed", "completed")
    \/ /\ r.class = "participant.reply_authored"
       /\ r.disposition \in {None, "answered"}
       /\ o = Result("processed", "answered")
    \/ /\ r.class = "participant.reaction_authored"
       /\ r.disposition \in {"acknowledged", "held"}
       /\ o = Result("processed", r.disposition)

\* Mutants: any accepted prompt will do, and any with the same marker.
ClosesAnyPrompt(r) == EntryRows(r.delivery) # {}

ClosesSameMarker(r) ==
    /\ EntryRows(r.delivery) # {}
    /\ SessionEntryChain(r.delivery)[2].signature = r.proof.marker.signature

\* The Stop of a turn must close the prompt chain accepted for it.
ClosesAcceptedPrompt(r) ==
    /\ EntryRows(r.delivery) # {}
    /\ SessionEntryChain(r.delivery) = ChainBeforeLast(r.proof)

\* _validate_session_receipt, but for what it reads of the store.
SessionReceiptAuthentic(r, row) ==
    LET info == Binding[r.binding]
    IN  /\ r.proof # None
        /\ r.binding # None
        /\ info.provider = r.provider
        /\ info.recipient = Key[r.delivery].recipient
        /\ info.established =< r.observed
        /\ r.observed < info.expires
        /\ r.proof.session = info.session
        /\ r.method \in DOMAIN info.methods
        /\ SessionProofValid(r.proof, MarkerKey(r.delivery, row.binding),
                             r.class, info.methods[r.method], r.observed)
        /\ Given(r.source)
        /\ r.source = LastEvent(r.proof).id

\* What submit checks that no later write undoes: providers, principals and
\* message bindings are only ever added.
Authenticates(r, row, o) ==
    /\ Yields(r, row, o)
    /\ ProviderDeclares(r.provider, r.class)
    /\ IF r.class \in ParticipantEvidence
       THEN ParticipantAuthentic(r, row)
       ELSE ModeOf(r) = "channel-native" => r.class = "transport.submit_ack"
    /\ r.class \in SessionProofEvidence => SessionReceiptAuthentic(r, row)

\* Mutant: the binding need not be active.
SessionReceiptUnbound(r) ==
    r.class = "harness.turn_completed" => ClosesAcceptedPrompt(r)

\* The rest of _validate_session_receipt.
SessionReceiptCurrent(r) ==
    /\ bindings[r.binding] = "active"
    /\ r.class = "harness.turn_completed" => ClosesAcceptedPrompt(r)

\* Everything submit checks between reading the row and committing.
Proves(r, row, o) ==
    /\ Authenticates(r, row, o)
    /\ r.class \in SessionProofEvidence => SessionReceiptCurrent(r)
    /\ r.class \in SessionProofEvidence \cup ParticipantEvidence =>
          ~ SourceSeen(r)
-----------------------------------------------------------------------------
(***************************************************************************)
(* Duplicate ids                                                           *)
(***************************************************************************)
CanonicalDisposition(r) ==
    CASE r.disposition # None -> r.disposition
      [] r.disposition = None /\ r.class = "participant.reply_authored" ->
            "answered"
      [] r.disposition = None /\ r.class = "harness.turn_completed" ->
            "completed"
      [] OTHER -> None

\* proof_storage_fields; turn_id, which only this comparison reads, is left
\* out.
StoredProof(p) ==
    IF p = None THEN None
    ELSE [session |-> p.session, signature |-> p.marker.signature,
          events |-> p.events]

Claim(r, disposition) ==
    [r EXCEPT !.disposition = disposition, !.proof = StoredProof(r.proof)]

\* _same_receipt against the stored row of that id
SameReceipt(r) ==
    \E i \in DOMAIN ledger :
        /\ ledger[i].receipt.id = r.id
        /\ Claim(ledger[i].receipt, ledger[i].disposition)
              = Claim(r, CanonicalDisposition(r))
-----------------------------------------------------------------------------
(***************************************************************************)
(* The steps of submit                                                     *)
(***************************************************************************)
Return(w, v) == reducer' = [reducer EXCEPT ![w] = Idle(v)]

Advance(w, state) == reducer' = [reducer EXCEPT ![w] = state]

\* _existing_receipt_result, when there is a row with this receipt's id.
ExistingReceiptResult(w, r) ==
    \/ /\ SameReceipt(r)
       /\ Return(w, "duplicate")
       /\ UNCHANGED storeVars
    \/ /\ ~ SameReceipt(r)
       /\ MarkProviderDegraded(r.provider)
       /\ Return(w, "receipt_id_contradiction")

Submit(w, r) ==
    /\ reducer[w].pc = "idle"
    /\ \/ /\ ~ Given(r.method) \/ r.observed = 0
          /\ Return(w, "rejected")
          /\ UNCHANGED storeVars
       \/ /\ Given(r.method) /\ r.observed # 0
          /\ ReceiptIdTaken(r)
          /\ ExistingReceiptResult(w, r)
       \/ /\ Given(r.method) /\ r.observed # 0
          /\ ~ ReceiptIdTaken(r)
          /\ Advance(w, [Idle(None) EXCEPT !.pc = "read", !.receipt = r])
          /\ UNCHANGED storeVars

ReadDelivery(w) ==
    LET r   == reducer[w].receipt
        row == deliveries[r.delivery]
    IN  /\ reducer[w].pc = "read"
        /\ \/ /\ row.state # "absent" /\ KeysMatch(r, row)
              /\ Advance(w, [reducer[w] EXCEPT !.pc = "validate", !.row = row])
           \/ /\ ~ (row.state # "absent" /\ KeysMatch(r, row))
              /\ Return(w, "rejected")
        /\ UNCHANGED storeVars

Validate(w) ==
    LET r   == reducer[w].receipt
        row == reducer[w].row
    IN  /\ reducer[w].pc = "validate"
        /\ \/ \E o \in Outcome :
                 /\ Proves(r, row, o)
                 /\ Advance(w, [reducer[w] EXCEPT !.pc = "commit",
                                                  !.outcome = o])
           \/ /\ \A o \in Outcome : ~ Proves(r, row, o)
              /\ Return(w, "rejected")
        /\ UNCHANGED storeVars

Commit(w) ==
    LET r   == reducer[w].receipt
        row == reducer[w].row
    IN  /\ reducer[w].pc = "commit"
        /\ \/ /\ AcceptReceipt(r, row, reducer[w].outcome)
              /\ Return(w, "accepted")
           \/ /\ ~ InsertCollides(r, row) /\ ~ RowUnmoved(r, row)
              /\ Return(w, "delivery_state_changed")
              /\ UNCHANGED storeVars
           \/ /\ InsertCollides(r, row)
              /\ Advance(w, [reducer[w] EXCEPT !.pc = "recover"])
              /\ UNCHANGED storeVars

\* Mutant: the winner is looked for by its receipt id only.
RecoverById(w) ==
    LET r == reducer[w].receipt
    IN  /\ reducer[w].pc = "recover"
        /\ \/ /\ ReceiptIdTaken(r)
              /\ ExistingReceiptResult(w, r)
           \/ /\ ~ ReceiptIdTaken(r)
              /\ Return(w, "storage_integrity_error")
              /\ UNCHANGED storeVars

\* Only an id that Python takes for true is looked up; the row and the
\* provider that the code then looks for are never missing.
RecoverIntegrityCollision(w) ==
    LET r == reducer[w].receipt
    IN  /\ reducer[w].pc = "recover"
        /\ \/ /\ ReceiptIdTaken(r)
              /\ ExistingReceiptResult(w, r)
           \/ /\ ~ ReceiptIdTaken(r)
              /\ Return(w, IF r.source # Blank /\ SourceSeen(r)
                           THEN "source_event_replayed"
                           ELSE "storage_integrity_error")
              /\ UNCHANGED storeVars

\* The process dies: what it held in memory is gone, the file is not.
Crash(w) ==
    /\ reducer[w].pc # "idle"
    /\ Return(w, None)
    /\ UNCHANGED storeVars
-----------------------------------------------------------------------------
ReducerStep(w) ==
    \/ ReadDelivery(w)
    \/ Validate(w)
    \/ Commit(w)
    \/ RecoverIntegrityCollision(w)

StoreStep ==
    /\ \/ \E d \in DeliveryIds :
             \/ SetDispatching(d)
             \/ \E b \in NewBindings : AddDelivery(d, b)
       \/ \E p \in ProviderIds : RegisterProvider(p)
       \/ \E b \in BindingIds :
             \/ RegisterSessionBinding(b)
             \/ RevokeSessionBinding(b)
             \/ \E c \in BindingIds : SupersedeRead(b, c) \/ SupersedeWrite(b, c)
       \/ \E row \in PrincipalRows : BindPrincipal(row)
       \/ \E row \in MessageRows : BindPlatformMessage(row)
    /\ UNCHANGED reducer

Next ==
    \/ StoreStep
    \/ \E w \in Reducers :
          \/ \E r \in Receipts : Submit(w, r)
          \/ ReducerStep(w)
          \/ Crash(w)

Spec == Init /\ [][Next]_vars

\* A call that is running goes on running: its steps are local reads and
\* one transaction, and nothing in submit waits for anyone.
FairSpec == Spec /\ \A w \in Reducers : WF_vars(ReducerStep(w))
-----------------------------------------------------------------------------
(***************************************************************************)
(* Properties                                                              *)
(***************************************************************************)
\* The reducers together implement the ladder of module DeliveryLadder:
\* validation against a stale row never shows in what is committed.
Ladder == INSTANCE DeliveryLadder WITH
              Mode <- [d \in DeliveryIds |-> Key[d].mode],
              stage <- [d \in DeliveryIds |-> deliveries[d].state],
              accepted <- {ledger[i].receipt : i \in DOMAIN ledger}

ImplementsLadder == Ladder!LadderSpec

\* What a session receipt shows whatever the store does later: its marker
\* was minted for the delivery and the binding b, and the prompt quotes it.
QuotesOwnMarker(r, b) ==
    /\ Len(r.proof.events) = Len(ExpectedNames(r.class))
    /\ r.proof.events[2].signature = r.proof.marker.signature
    /\ r.proof.marker.delivery = r.delivery
    /\ r.proof.marker.binding = b

\* A reducer in state s has read a row whose binding is its receipt's.
ReadHolds(s) ==
    /\ s.receipt.binding = s.row.binding
    /\ s.row.binding = deliveries[s.receipt.delivery].binding
    /\ deliveries[s.receipt.delivery].state # "absent"

\* The prompt chain that the Stop r closes is recorded.
ClosedChainIsRecorded(r) ==
    \E i \in EntryRows(r.delivery) :
        ledger[i].receipt.proof.events = ChainBeforeLast(r.proof)

\* A reducer in state s has validated a receipt that proves its outcome.
ProofHolds(s) ==
    /\ << s.row.state, s.receipt.class, s.outcome.state >>
          \in Ladder!Rungs(ModeOf(s.receipt))
    /\ s.receipt.class \in SessionProofEvidence =>
          QuotesOwnMarker(s.receipt, s.row.binding)
    /\ s.receipt.class = "harness.turn_completed" =>
          ClosedChainIsRecorded(s.receipt)

\* What a reducer has validated stays true until it commits, although other
\* connections write in between: the row it read still has the binding its
\* receipt names, its outcome is a rung above the state it read, and the
\* prompt chain its Stop closes is still recorded.
ValidationOutlivesRead ==
    \A w \in Reducers :
        /\ reducer[w].pc \in {"validate", "commit"} => ReadHolds(reducer[w])
        /\ reducer[w].pc = "commit" => ProofHolds(reducer[w])

RowsOf(d) == {i \in DOMAIN ledger : ledger[i].receipt.delivery = d}

\* i is the last row of the ledger about delivery d.
IsLatest(d, i) == i \in RowsOf(d) /\ \A j \in RowsOf(d) : j =< i

\* i and j are consecutive rows about one delivery.
Consecutive(i, j) ==
    LET d == ledger[i].receipt.delivery
    IN  /\ j \in RowsOf(d)
        /\ i < j
        /\ \A k \in RowsOf(d) : ~ (i < k /\ k < j)

\* Read in order, the audit rows of a delivery are one unbroken path from
\* dispatching to the state and disposition its row holds now, whichever
\* reducers raced to write them (accept_receipt's guarded UPDATE).
AuditExplainsState ==
    /\ \A d \in DeliveryIds :
          IF deliveries[d].state \in {"absent", "queued", "dispatching"}
          THEN RowsOf(d) = {}
          ELSE \E i \in RowsOf(d) :
                  /\ IsLatest(d, i)
                  /\ ledger[i].to = deliveries[d].state
                  /\ ledger[i].disposition = deliveries[d].disposition
    /\ \A j \in DOMAIN ledger :
          \/ ledger[j].from = "dispatching"
          \/ \E i \in DOMAIN ledger :
                Consecutive(i, j) /\ ledger[j].from = ledger[i].to

\* An accepted receipt stands: judged again at any later time, on its own and
\* by what the store then holds, it has the outcome that its audit row
\* records, although other connections wrote between its reads and its
\* commit.  So evidence that is missing, forged, expired, of another provider, session,
\* attempt or author, out of order, echoed or overclaimed never advances a
\* delivery (core/README, "The reducer rejects ...").
LedgerIsAuditable ==
    \A i \in DOMAIN ledger :
        LET r   == ledger[i].receipt
            row == [deliveries[r.delivery] EXCEPT !.state = ledger[i].from]
        IN  /\ KeysMatch(r, row)
            /\ Authenticates(r, row,
                             Result(ledger[i].to, ledger[i].disposition))

\* However many reducers report it, a delivery enters a session at most once,
\* and only while it has an entry row can it be in a session or past it.
EntersSessionOnce ==
    \A d \in DeliveryIds :
        /\ \A i, j \in EntryRows(d) : i = j
        /\ EntryRows(d) # {} => deliveries[d].state \in {"in-session", "processed"}

\* A session-bound delivery is processed only by a turn that was seen to
\* start: an entry receipt precedes the completing one, the Stop extends
\* exactly the entry's events, and both quote one marker, minted for this
\* delivery and its binding (core/README: "A Stop receipt must close the
\* exact prompt chain previously accepted").
ProcessedTurnWasEntered ==
    \A j \in DOMAIN ledger :
        ledger[j].receipt.class = "harness.turn_completed" =>
            \E i \in DOMAIN ledger :
                LET entry == ledger[i].receipt
                    stop  == ledger[j].receipt
                IN  /\ i < j
                    /\ entry.class \in EntryEvidence
                    /\ entry.delivery = stop.delivery
                    /\ entry.proof.events = ChainBeforeLast(stop.proof)
                    /\ entry.proof.marker.signature
                          = stop.proof.marker.signature
                    /\ entry.proof.marker.delivery = stop.delivery
                    /\ entry.proof.marker.binding
                          = deliveries[stop.delivery].binding

\* One prompt, hook or Stop of the harness never advances two deliveries.
\* A marked prompt belongs to one delivery whoever reports it; for the hooks
\* UNIQUE (provider_id, source_event_id) decides, so that chains a provider
\* had accepted for different deliveries have no event in common but
\* possibly the keystroke event that precedes the marked prompt.
EvidenceIsNotShared ==
    \A i, j \in DOMAIN ledger :
        LET r == ledger[i].receipt
            s == ledger[j].receipt
        IN  /\ r.delivery # s.delivery
            /\ r.class \in SessionProofEvidence
            /\ s.class \in SessionProofEvidence
            => /\ r.proof.events[2] # s.proof.events[2]
               /\ r.provider = s.provider =>
                     \A m \in 2..Len(r.proof.events),
                        n \in 2..Len(s.proof.events) :
                           r.proof.events[m] # s.proof.events[n]

\* However registrations, supersessions and revocations interleave, a
\* recipient has at most one active binding.
OneActiveBinding ==
    \A b, c \in BindingIds :
        /\ bindings[b] = "active"
        /\ bindings[c] = "active"
        /\ Binding[b].recipient = Binding[c].recipient
        => b = c

\* A failed INSERT of evidence from a session or a participant is always
\* explained by a winner that the reducer then finds, whichever connections
\* raced (_recover_integrity_collision).  "storage_integrity_error" is the
\* answer only to a transport.submit_ack, and only when its delivery has no
\* binding (receipts.binding_id is NOT NULL) or its source id is the empty
\* string, which UNIQUE compares and the recovery does not look up: the
\* validators refuse such a source for all other classes, and no delivery
\* without a binding comes to a rung where they are asked.
CollisionIsExplained ==
    [][\A w \in Reducers :
          /\ reducer[w].pc = "recover"
          /\ reducer'[w].verdict = "storage_integrity_error"
          => /\ reducer[w].receipt.class = "transport.submit_ack"
             /\ \/ reducer[w].receipt.binding = None
                \/ reducer[w].receipt.source = Blank]_vars

\* What was accepted for a seat without a binding never counts as submitted:
\* a receipt that names no binding either has the keys of its row, since
\* _validate_keys finds None equal to None, and passes every check of a
\* transport.submit_ack; only the column's NOT NULL (store.py:99) stops it.
UnboundNeverAdvances ==
    \A d \in DeliveryIds :
        deliveries[d].binding = None =>
            deliveries[d].state \in {"absent", "queued", "dispatching"}
-----------------------------------------------------------------------------
(***************************************************************************)
(* A statement of the repository that a race between connections refutes   *)
(***************************************************************************)
\* core/README: the reducer rejects stale-binding evidence without advancing
\* the delivery.  A receipt that enters or ends a session is accepted only
\* while its binding is active.
StaleBindingNeverAdvances ==
    [][\A w \in Reducers :
          /\ reducer[w].pc = "commit"
          /\ reducer'[w].verdict = "accepted"
          /\ reducer[w].receipt.class \in SessionProofEvidence
          => bindings[reducer[w].receipt.binding] = "active"]_vars
=============================================================================
