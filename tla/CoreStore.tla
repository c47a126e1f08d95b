------------------------------ MODULE CoreStore ------------------------------
(***************************************************************************)
(* The durable state of the core (core/yatagarasu_core/store.py) and the   *)
(* store operations that change it outside of receipt reduction.           *)
(*                                                                         *)
(* Every operation that the code runs as one SQLite transaction is one     *)
(* action.  Several connections may share the file, so an operation that   *)
(* reads outside its transaction is split there (supersede, below, and     *)
(* submit, in module ReceiptReducer).                                      *)
(*                                                                         *)
(* A primary key names one row for ever, so what a row never changes is a  *)
(* constant function of its key (Key, Binding, Provider) and the variables *)
(* hold what does change.                                                  *)
(***************************************************************************)
EXTENDS SessionProofs, FiniteSets

CONSTANTS
    DeliveryIds,     \* delivery_id values
    Key,             \* [DeliveryIds -> [event, attempt, recipient, mode]]
    BindingIds,      \* binding_id values
    Binding,         \* [BindingIds -> [recipient, provider, session,
                     \*   established, expires, methods]]
    ProviderIds,     \* provider_id values
    Provider,        \* [ProviderIds -> [kind, classes]]
    NewBindings,     \* the bindings, or None, new deliveries are queued under
    Receipts,        \* the receipts a provider may ever submit
    PrincipalRows,   \* [provider, principal, recipient] rows offered
    MessageRows,     \* [provider, message, event, delivery, attempt] offered
    None,            \* SQL NULL / Python None
    Blank            \* the empty string, which Python takes for false

Modes == {"session-bound", "channel-native"}

\* DeliveryState, and "absent" where the table has no row for the key.
States == {"absent", "queued", "dispatching", "transport-submitted",
           "in-session", "processed"}

Dispositions == {"completed", "answered", "acknowledged", "held", "declined"}

\* BindingState, and "absent" where the table has no row for the key.
BindingStates == {"absent", "active", "revoked", "superseded"}

ASSUME KeyAssumption ==
    \A d \in DeliveryIds : Key[d].mode \in Modes

ASSUME NoneAssumption ==
    /\ None \notin BindingIds
    /\ NewBindings \subseteq BindingIds \cup {None}
    /\ None \notin Dispositions
    /\ Blank # None

ASSUME ReceiptsAssumption ==
    \A r \in Receipts : /\ r.delivery \in DeliveryIds
                        /\ r.binding \in BindingIds \cup {None}
                        /\ r.provider \in ProviderIds
                        /\ r.disposition \in Dispositions \cup {None}

\* The source events of a proof are a tuple.
ASSUME ProofsAssumption ==
    \A r \in Receipts :
        r.proof # None =>
            /\ Len(r.proof.events) \in Nat
            /\ DOMAIN r.proof.events = 1..Len(r.proof.events)

VARIABLES
    deliveries,    \* deliveries: [binding, state, disposition] of each key
    bindings,      \* session_bindings.state of each key
    superseding,   \* supersede calls between their read and their write
    providers,     \* providers: "absent", "healthy" or "degraded"
    principals,    \* principal_bindings
    messages,      \* platform_message_bindings
    ledger         \* row k of receipts and row k of audit_log, which
                   \* accept_receipt inserts in one transaction

storeVars ==
    << deliveries, bindings, superseding, providers, principals, messages,
       ledger >>

DeliveryRow ==
    [binding : BindingIds \cup {None},
     state : States,
     disposition : Dispositions \cup {None}]

LedgerRow ==
    [receipt : Receipts,
     from : States,
     to : States,
     disposition : Dispositions \cup {None}]

StoreTypeOK ==
    /\ deliveries \in [DeliveryIds -> DeliveryRow]
    /\ bindings \in [BindingIds -> BindingStates]
    /\ superseding \subseteq (BindingIds \X BindingIds)
    /\ providers \in [ProviderIds -> {"absent", "healthy", "degraded"}]
    /\ principals \subseteq PrincipalRows
    /\ messages \subseteq MessageRows
    /\ ledger \in Seq(LedgerRow)

StoreInit ==
    /\ deliveries = [d \in DeliveryIds |->
          [binding |-> None, state |-> "absent", disposition |-> None]]
    /\ bindings = [b \in BindingIds |-> "absent"]
    /\ superseding = {}
    /\ providers = [p \in ProviderIds |-> "absent"]
    /\ principals = {}
    /\ messages = {}
    /\ ledger = <<>>
-----------------------------------------------------------------------------
(***************************************************************************)
(* Reads                                                                   *)
(***************************************************************************)
\* An optional string is there and is not empty: the code asks for its truth.
Given(x) == x \notin {None, Blank}

\* The fields a marker for delivery d must carry, its row having binding b.
MarkerKey(d, b) ==
    [event |-> Key[d].event, delivery |-> d, attempt |-> Key[d].attempt,
     binding |-> b]

\* provider() is not None and provider_declares()
ProviderDeclares(p, class) ==
    /\ providers[p] # "absent"
    /\ class \in Provider[p].classes

\* receipt_record() is not None
ReceiptIdTaken(r) ==
    \E i \in DOMAIN ledger : ledger[i].receipt.id = r.id

\* source_seen(): NULL source ids are never equal in SQL, empty ones are.
SourceSeen(r) ==
    /\ r.source # None
    /\ \E i \in DOMAIN ledger :
          /\ ledger[i].receipt.provider = r.provider
          /\ ledger[i].receipt.source = r.source

PrincipalMatches(r) ==
    /\ Given(r.principal)
    /\ [provider |-> r.provider, principal |-> r.principal,
        recipient |-> Key[r.delivery].recipient] \in principals

MessageBindingMatches(r) ==
    /\ Given(r.message)
    /\ [provider |-> r.provider, message |-> r.message,
        event |-> Key[r.delivery].event, delivery |-> r.delivery,
        attempt |-> Key[r.delivery].attempt] \in messages

\* The rows session_entry_chain selects from; it returns the latest.
EntryRows(d) ==
    {i \in DOMAIN ledger : /\ ledger[i].receipt.delivery = d
                           /\ ledger[i].receipt.class \in EntryEvidence}

SessionEntryChain(d) ==
    LET latest == CHOOSE i \in EntryRows(d) : \A j \in EntryRows(d) : j =< i
    IN  ledger[latest].receipt.proof.events
-----------------------------------------------------------------------------
(***************************************************************************)
(* Operations                                                              *)
(***************************************************************************)
AddDelivery(d, b) ==
    /\ deliveries[d].state = "absent"
    /\ deliveries' = [deliveries EXCEPT ![d] =
          [binding |-> b, state |-> "queued", disposition |-> None]]
    /\ UNCHANGED << bindings, superseding, providers, principals, messages,
                    ledger >>

SetDispatching(d) ==
    /\ deliveries[d].state = "queued"
    /\ deliveries' = [deliveries EXCEPT ![d].state = "dispatching"]
    /\ UNCHANGED << bindings, superseding, providers, principals, messages,
                    ledger >>

RegisterProvider(p) ==
    /\ providers[p] = "absent"
    /\ providers' = [providers EXCEPT ![p] = "healthy"]
    /\ UNCHANGED << deliveries, bindings, superseding, principals, messages,
                    ledger >>

\* _validate_session_binding
BindingRegistrable(b) ==
    LET info == Binding[b]
    IN  /\ info.established < info.expires
        /\ providers[info.provider] # "absent"
        /\ Provider[info.provider].kind = "session-transport"
        /\ DOMAIN info.methods # {}
        /\ \A m \in DOMAIN info.methods :
              /\ info.methods[m].classes # {}
              /\ info.methods[m].classes \subseteq
                    Provider[info.provider].classes

\* Mutant: only the primary key is enforced.
InsertAdmitsByKey(bs, b) == bs[b] = "absent"

\* The primary key and idx_one_active_binding_per_recipient admit a new
\* active row b into the table state bs.
InsertAdmits(bs, b) ==
    /\ bs[b] = "absent"
    /\ \A c \in BindingIds :
          Binding[c].recipient = Binding[b].recipient => bs[c] # "active"

\* A conflict raises BindingConflictError and changes nothing.
RegisterSessionBinding(b) ==
    /\ BindingRegistrable(b)
    /\ InsertAdmits(bindings, b)
    /\ bindings' = [bindings EXCEPT ![b] = "active"]
    /\ UNCHANGED << deliveries, superseding, providers, principals, messages,
                    ledger >>

\* supersede_session_binding up to its transaction: the old row is read and
\* checked outside it.
SupersedeRead(old, new) ==
    /\ bindings[old] = "active"
    /\ Binding[old].recipient = Binding[new].recipient
    /\ BindingRegistrable(new)
    /\ superseding' = superseding \cup { << old, new >> }
    /\ UNCHANGED << deliveries, bindings, providers, principals, messages,
                    ledger >>

\* Its transaction: the UPDATE names the binding but not the state that was
\* read; a uniqueness failure of the INSERT rolls both back.
SupersedeWrite(old, new) ==
    LET retired == [bindings EXCEPT ![old] = "superseded"]
    IN  /\ << old, new >> \in superseding
        /\ superseding' = superseding \ { << old, new >> }
        /\ bindings' = IF InsertAdmits(retired, new)
                       THEN [retired EXCEPT ![new] = "active"]
                       ELSE bindings
        /\ UNCHANGED << deliveries, providers, principals, messages, ledger >>

\* Mutant: a revocation writes a state that is no BindingState.
RevokeAsExpired(b) ==
    /\ bindings[b] = "active"
    /\ bindings' = [bindings EXCEPT ![b] = "expired"]
    /\ UNCHANGED << deliveries, superseding, providers, principals, messages,
                    ledger >>

RevokeSessionBinding(b) ==
    /\ bindings[b] = "active"
    /\ bindings' = [bindings EXCEPT ![b] = "revoked"]
    /\ UNCHANGED << deliveries, superseding, providers, principals, messages,
                    ledger >>

BindPrincipal(row) ==
    /\ providers[row.provider] # "absent"
    /\ \A q \in principals :
          ~ (q.provider = row.provider /\ q.principal = row.principal)
    /\ principals' = principals \cup {row}
    /\ UNCHANGED << deliveries, bindings, superseding, providers, messages,
                    ledger >>

BindPlatformMessage(row) ==
    /\ providers[row.provider] # "absent"
    /\ deliveries[row.delivery].state # "absent"
    /\ \A q \in messages :
          ~ (q.provider = row.provider /\ q.message = row.message)
    /\ messages' = messages \cup {row}
    /\ UNCHANGED << deliveries, bindings, superseding, providers, principals,
                    ledger >>
-----------------------------------------------------------------------------
(***************************************************************************)
(* accept_receipt, one transaction: INSERT INTO receipts under its primary *)
(* key, UNIQUE (provider_id, source_event_id) and binding_id NOT NULL;     *)
(* UPDATE deliveries WHERE state is still the one validated; INSERT INTO   *)
(* audit_log.                                                              *)
(***************************************************************************)
\* Mutants: no UNIQUE constraint on the source event, and a binding_id that
\* may be NULL.
InsertCollidesById(r, row) == row.binding = None \/ ReceiptIdTaken(r)

InsertCollidesNullable(r, row) == ReceiptIdTaken(r) \/ SourceSeen(r)

\* The INSERT raises IntegrityError.  Its binding_id is the delivery's.
InsertCollides(r, row) ==
    \/ row.binding = None
    \/ ReceiptIdTaken(r)
    \/ SourceSeen(r)

\* Mutant: the UPDATE does not name the state that was validated.
RowUnmovedUnchecked(r, row) == TRUE

RowUnmoved(r, row) == deliveries[r.delivery].state = row.state

\* Mutant: the disposition recorded is the claimed one.
AcceptReceiptAsClaimed(r, row, outcome) ==
    /\ ~ InsertCollides(r, row)
    /\ RowUnmoved(r, row)
    /\ deliveries' = [deliveries EXCEPT
          ![r.delivery].state = outcome.state,
          ![r.delivery].disposition = r.disposition]
    /\ ledger' = Append(ledger, [receipt |-> r, from |-> row.state,
                                 to |-> outcome.state,
                                 disposition |-> r.disposition])
    /\ UNCHANGED << bindings, superseding, providers, principals, messages >>

AcceptReceipt(r, row, outcome) ==
    /\ ~ InsertCollides(r, row)
    /\ RowUnmoved(r, row)
    /\ deliveries' = [deliveries EXCEPT
          ![r.delivery].state = outcome.state,
          ![r.delivery].disposition = outcome.disposition]
    /\ ledger' = Append(ledger, [receipt |-> r,
                                 from |-> row.state,
                                 to |-> outcome.state,
                                 disposition |-> outcome.disposition])
    /\ UNCHANGED << bindings, superseding, providers, principals, messages >>

MarkProviderDegraded(p) ==
    /\ providers' = [providers EXCEPT ![p] =
          IF providers[p] = "absent" THEN "absent" ELSE "degraded"]
    /\ UNCHANGED << deliveries, bindings, superseding, principals, messages,
                    ledger >>
=============================================================================
