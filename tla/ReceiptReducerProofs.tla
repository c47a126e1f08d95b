------------------------ MODULE ReceiptReducerProofs ------------------------
(***************************************************************************)
(* Theorems about ReceiptReducer, for every set of deliveries, bindings,   *)
(* providers, receipts and reducers.                                       *)
(***************************************************************************)
EXTENDS ReceiptReducer, TLAPS

\* An outcome is one of the values the two columns may hold.
LEMMA OutcomeTypes ==
    ASSUME NEW o \in Outcome
    PROVE  /\ o.state \in {"transport-submitted", "in-session", "processed"}
           /\ o.disposition \in Dispositions \cup {None}
    BY DEF Outcome, Result, Dispositions

\* A reducer that returns is idle and holds nothing.
LEMMA IdleTypes ==
    ASSUME NEW v \in Verdicts \cup {None}
    PROVE  Idle(v) \in ReducerState /\ Idle(v).pc = "idle"
    BY DEF Idle, ReducerState

\* Replacing one reducer's state by a well-typed one keeps the table typed.
LEMMA ReducerUpdate ==
    ASSUME ReducerTypeOK, NEW w \in Reducers, NEW s \in ReducerState,
           reducer' = [reducer EXCEPT ![w] = s],
           s.pc # "idle" => s.receipt \in Receipts,
           s.pc \in {"validate", "commit"} => s.row \in DeliveryRow,
           s.pc = "commit" => s.outcome \in Outcome
    PROVE  ReducerTypeOK'
    BY DEF ReducerTypeOK

\* Returning a verdict keeps the reducers typed.
LEMMA ReturnTypes ==
    ASSUME ReducerTypeOK, NEW w \in Reducers,
           NEW v \in Verdicts \cup {None}, Return(w, v)
    PROVE  ReducerTypeOK'
    BY IdleTypes, ReducerUpdate DEF Return

\* Every operation of the store keeps its tables typed.
LEMMA StoreStepTypes ==
    ASSUME TypeOK, StoreStep
    PROVE  TypeOK'
<1> USE NoneAssumption DEF TypeOK, StoreTypeOK
<1>1. ReducerTypeOK'
  BY DEF StoreStep, ReducerTypeOK
<1>2. ASSUME NEW d \in DeliveryIds, SetDispatching(d)
      PROVE  StoreTypeOK'
  BY <1>2 DEF SetDispatching, DeliveryRow, States
<1>3. ASSUME NEW d \in DeliveryIds, NEW b \in NewBindings, AddDelivery(d, b)
      PROVE  StoreTypeOK'
  BY <1>3 DEF AddDelivery, DeliveryRow, States
<1>4. ASSUME NEW p \in ProviderIds, RegisterProvider(p)
      PROVE  StoreTypeOK'
  BY <1>4 DEF RegisterProvider
<1>5. ASSUME NEW b \in BindingIds, RegisterSessionBinding(b)
      PROVE  StoreTypeOK'
  BY <1>5 DEF RegisterSessionBinding, BindingStates
<1>6. ASSUME NEW b \in BindingIds, RevokeSessionBinding(b)
      PROVE  StoreTypeOK'
  BY <1>6 DEF RevokeSessionBinding, BindingStates
<1>7. ASSUME NEW b \in BindingIds, NEW c \in BindingIds, SupersedeRead(b, c)
      PROVE  StoreTypeOK'
  BY <1>7 DEF SupersedeRead
<1>8. ASSUME NEW b \in BindingIds, NEW c \in BindingIds, SupersedeWrite(b, c)
      PROVE  StoreTypeOK'
  BY <1>8 DEF SupersedeWrite, BindingStates
<1>9. ASSUME NEW row \in PrincipalRows, BindPrincipal(row)
      PROVE  StoreTypeOK'
  BY <1>9 DEF BindPrincipal
<1>10. ASSUME NEW row \in MessageRows, BindPlatformMessage(row)
       PROVE  StoreTypeOK'
  BY <1>10 DEF BindPlatformMessage
<1> QED
  BY <1>1, <1>2, <1>3, <1>4, <1>5, <1>6, <1>7, <1>8, <1>9, <1>10
     DEF StoreStep

\* The one transaction of accept_receipt keeps the store typed.
LEMMA AcceptTypes ==
    ASSUME StoreTypeOK, NEW r \in Receipts, NEW row \in DeliveryRow,
           NEW o \in Outcome, AcceptReceipt(r, row, o)
    PROVE  StoreTypeOK'
<1>1. /\ o.state \in States
      /\ o.disposition \in Dispositions \cup {None}
  BY OutcomeTypes DEF States
<1>2. r.delivery \in DeliveryIds
  BY ReceiptsAssumption
<1>3. deliveries' \in [DeliveryIds -> DeliveryRow]
  BY <1>1, <1>2 DEF AcceptReceipt, StoreTypeOK, DeliveryRow
<1>4. [receipt |-> r, from |-> row.state, to |-> o.state,
       disposition |-> o.disposition] \in LedgerRow
  BY <1>1 DEF LedgerRow, DeliveryRow
<1>5. ledger' \in Seq(LedgerRow)
  BY <1>4 DEF AcceptReceipt, StoreTypeOK
<1> QED
  BY <1>3, <1>5 DEF AcceptReceipt, StoreTypeOK

\* The answer to a receipt whose id is stored keeps the types.
LEMMA ExistingTypes ==
    ASSUME TypeOK, NEW w \in Reducers, NEW r \in Receipts,
           ExistingReceiptResult(w, r)
    PROVE  TypeOK'
<1> USE DEF TypeOK, Verdicts
<1>1. CASE SameReceipt(r)
  BY <1>1, ReturnTypes DEF ExistingReceiptResult, StoreTypeOK, storeVars
<1>2. CASE ~ SameReceipt(r)
  <2>1. ReducerTypeOK'
    BY <1>2, ReturnTypes DEF ExistingReceiptResult
  <2>2. StoreTypeOK'
    BY <1>2, ReceiptsAssumption
       DEF ExistingReceiptResult, MarkProviderDegraded, StoreTypeOK
  <2> QED
    BY <2>1, <2>2
<1> QED
  BY <1>1, <1>2

\* Every step of submit, and the death of its process, keeps the types.
LEMMA SubmitTypes ==
    ASSUME TypeOK, NEW w \in Reducers, NEW r \in Receipts, Submit(w, r)
    PROVE  TypeOK'
<1>1. CASE ~ Given(r.method) \/ r.observed = 0
  BY <1>1, ReturnTypes DEF Submit, TypeOK, StoreTypeOK, storeVars, Verdicts
<1>2. CASE ExistingReceiptResult(w, r)
  BY <1>2, ExistingTypes
<1>3. CASE /\ Advance(w, [Idle(None) EXCEPT !.pc = "read", !.receipt = r])
           /\ UNCHANGED storeVars
  <2> DEFINE s == [Idle(None) EXCEPT !.pc = "read", !.receipt = r]
  <2>1. s \in ReducerState /\ s.pc = "read" /\ s.receipt \in Receipts
    BY DEF Idle, ReducerState
  <2>2. ReducerTypeOK'
    BY <1>3, <2>1, ReducerUpdate DEF Advance, TypeOK
  <2> QED
    BY <1>3, <2>2 DEF TypeOK, StoreTypeOK, storeVars
<1> QED
  BY <1>1, <1>2, <1>3 DEF Submit

\* Reading the delivery row hands the reducer a typed row or ends the call.
LEMMA ReadDeliveryTypes ==
    ASSUME TypeOK, NEW w \in Reducers, ReadDelivery(w)
    PROVE  TypeOK'
<1> DEFINE r == reducer[w].receipt
           row == deliveries[r.delivery]
           s == [reducer[w] EXCEPT !.pc = "validate", !.row = row]
<1>1. r \in Receipts /\ r.delivery \in DeliveryIds
  BY ReceiptsAssumption DEF ReadDelivery, TypeOK, ReducerTypeOK
<1>2. row \in DeliveryRow
  BY <1>1 DEF TypeOK, StoreTypeOK
<1>3. CASE Advance(w, s)
  <2>1. s \in ReducerState /\ s.pc = "validate" /\ s.receipt \in Receipts
        /\ s.row \in DeliveryRow
    BY <1>1, <1>2 DEF TypeOK, ReducerTypeOK, ReducerState
  <2> QED
    BY <1>3, <2>1, ReducerUpdate
       DEF Advance, TypeOK, ReadDelivery, StoreTypeOK, storeVars
<1>4. CASE Return(w, "rejected")
  BY <1>4, ReturnTypes
     DEF TypeOK, ReadDelivery, StoreTypeOK, storeVars, Verdicts
<1> QED
  BY <1>3, <1>4 DEF ReadDelivery

\* Validation hands the reducer an outcome of _transition or ends the call.
LEMMA ValidateTypes ==
    ASSUME TypeOK, NEW w \in Reducers, Validate(w)
    PROVE  TypeOK'
<1>1. ASSUME NEW o \in Outcome,
             Advance(w, [reducer[w] EXCEPT !.pc = "commit", !.outcome = o])
      PROVE  TypeOK'
  <2> DEFINE s == [reducer[w] EXCEPT !.pc = "commit", !.outcome = o]
  <2>1. /\ s \in ReducerState /\ s.pc = "commit"
        /\ s.receipt \in Receipts /\ s.row \in DeliveryRow
        /\ s.outcome \in Outcome
    BY DEF Validate, TypeOK, ReducerTypeOK, ReducerState
  <2> QED
    BY <1>1, <2>1, ReducerUpdate
       DEF Advance, TypeOK, Validate, StoreTypeOK, storeVars
<1>2. CASE Return(w, "rejected")
  BY <1>2, ReturnTypes DEF TypeOK, Validate, StoreTypeOK, storeVars, Verdicts
<1> QED
  BY <1>1, <1>2 DEF Validate

\* accept_receipt and the two ways it can fail keep the types.
LEMMA CommitTypes ==
    ASSUME TypeOK, NEW w \in Reducers, Commit(w)
    PROVE  TypeOK'
<1> DEFINE r == reducer[w].receipt
           row == reducer[w].row
           s == [reducer[w] EXCEPT !.pc = "recover"]
<1>1. /\ r \in Receipts /\ row \in DeliveryRow
      /\ reducer[w].outcome \in Outcome
  BY DEF Commit, TypeOK, ReducerTypeOK
<1>2. CASE /\ AcceptReceipt(r, row, reducer[w].outcome)
           /\ Return(w, "accepted")
  BY <1>1, <1>2, AcceptTypes, ReturnTypes DEF TypeOK, Verdicts
<1>3. CASE Return(w, "delivery_state_changed") /\ UNCHANGED storeVars
  BY <1>3, ReturnTypes DEF TypeOK, StoreTypeOK, storeVars, Verdicts
<1>4. CASE Advance(w, s) /\ UNCHANGED storeVars
  <2>1. s \in ReducerState /\ s.pc = "recover" /\ s.receipt \in Receipts
    BY <1>1 DEF TypeOK, ReducerTypeOK, ReducerState
  <2> QED
    BY <1>4, <2>1, ReducerUpdate DEF Advance, TypeOK, StoreTypeOK, storeVars
<1> QED
  BY <1>2, <1>3, <1>4 DEF Commit

\* _recover_integrity_collision keeps the types.
LEMMA RecoverTypes ==
    ASSUME TypeOK, NEW w \in Reducers, RecoverIntegrityCollision(w)
    PROVE  TypeOK'
<1> DEFINE r == reducer[w].receipt
<1>1. r \in Receipts
  BY DEF RecoverIntegrityCollision, TypeOK, ReducerTypeOK
<1>2. CASE ExistingReceiptResult(w, r)
  BY <1>1, <1>2, ExistingTypes
<1>3. ASSUME NEW v \in Verdicts, Return(w, v), UNCHANGED storeVars
      PROVE  TypeOK'
  BY <1>3, ReturnTypes DEF TypeOK, StoreTypeOK, storeVars
<1> QED
  BY <1>2, <1>3 DEF RecoverIntegrityCollision, Verdicts

\* Every step keeps the types.
LEMMA NextTypes == TypeOK /\ [Next]_vars => TypeOK'
<1> SUFFICES ASSUME TypeOK, [Next]_vars PROVE TypeOK'
  OBVIOUS
<1>1. CASE StoreStep
  BY <1>1, StoreStepTypes
<1>2. ASSUME NEW w \in Reducers, Crash(w)
      PROVE  TypeOK'
  BY <1>2, ReturnTypes DEF Crash, TypeOK, StoreTypeOK, storeVars
<1>3. CASE UNCHANGED vars
  BY <1>3 DEF vars, storeVars, TypeOK, StoreTypeOK, ReducerTypeOK
<1> QED
  BY <1>1, <1>2, <1>3, SubmitTypes, ReadDeliveryTypes, ValidateTypes,
     CommitTypes, RecoverTypes DEF Next, ReducerStep

\* The empty store and the idle reducers are well typed.
LEMMA InitTypes == Init => TypeOK
<1> SUFFICES ASSUME Init PROVE TypeOK
  OBVIOUS
<1>1. StoreTypeOK
  BY DEF Init, StoreInit, StoreTypeOK, DeliveryRow, States, BindingStates
<1>2. ReducerTypeOK
  BY IdleTypes DEF Init, ReducerTypeOK
<1> QED
  BY <1>1, <1>2 DEF TypeOK

\* The store's columns and the reducers' memory stay well typed.
THEOREM TypeCorrect == Spec => []TypeOK
  BY InitTypes, NextTypes, PTL DEF Spec
-----------------------------------------------------------------------------
(***************************************************************************)
(* Which steps touch the deliveries and the ledger                         *)
(***************************************************************************)
\* Reducer w commits: the transaction of accept_receipt goes through.
Accepts(w) ==
    /\ reducer[w].pc = "commit"
    /\ AcceptReceipt(reducer[w].receipt, reducer[w].row, reducer[w].outcome)
    /\ Return(w, "accepted")

\* A step leaves deliveries and ledger alone, inserts a delivery, starts to
\* dispatch one, or is a reducer's accepted commit.
LEMMA StepEffect ==
    ASSUME TypeOK, [Next]_vars
    PROVE  \/ UNCHANGED << deliveries, ledger >>
           \/ /\ \E d \in DeliveryIds, b \in NewBindings : AddDelivery(d, b)
              /\ UNCHANGED reducer
           \/ /\ \E d \in DeliveryIds : SetDispatching(d)
              /\ UNCHANGED reducer
           \/ \E w \in Reducers : Accepts(w)
<1>1. CASE StoreStep
  BY <1>1 DEF StoreStep, RegisterProvider, RegisterSessionBinding,
     RevokeSessionBinding, SupersedeRead, SupersedeWrite, BindPrincipal,
     BindPlatformMessage
<1>2. ASSUME NEW w \in Reducers, NEW r \in Receipts, Submit(w, r)
      PROVE  UNCHANGED << deliveries, ledger >>
  BY <1>2 DEF Submit, ExistingReceiptResult, MarkProviderDegraded, storeVars
<1>3. ASSUME NEW w \in Reducers, ReducerStep(w)
      PROVE  UNCHANGED << deliveries, ledger >> \/ Accepts(w)
  BY <1>3 DEF ReducerStep, ReadDelivery, Validate, Commit,
     RecoverIntegrityCollision, ExistingReceiptResult, MarkProviderDegraded,
     storeVars, Accepts
<1>4. ASSUME NEW w \in Reducers, Crash(w)
      PROVE  UNCHANGED << deliveries, ledger >>
  BY <1>4 DEF Crash, storeVars
<1>5. CASE UNCHANGED vars
  BY <1>5 DEF vars, storeVars
<1> QED
  BY <1>1, <1>2, <1>3, <1>4, <1>5 DEF Next

\* What an accepted commit writes.
LEMMA AcceptEffect ==
    ASSUME TypeOK, NEW w \in Reducers, Accepts(w)
    PROVE  /\ reducer[w].receipt \in Receipts
           /\ reducer[w].receipt.delivery \in DeliveryIds
           /\ Len(ledger) \in Nat
           /\ DOMAIN ledger = 1..Len(ledger)
           /\ DOMAIN ledger' = 1..(Len(ledger) + 1)
           /\ \A i \in 1..Len(ledger) : ledger'[i] = ledger[i]
           /\ ledger'[Len(ledger) + 1] =
                 [receipt |-> reducer[w].receipt,
                  from |-> reducer[w].row.state,
                  to |-> reducer[w].outcome.state,
                  disposition |-> reducer[w].outcome.disposition]
           /\ reducer[w].row.state
                 = deliveries[reducer[w].receipt.delivery].state
           /\ deliveries'[reducer[w].receipt.delivery] =
                 [binding |-> deliveries[reducer[w].receipt.delivery].binding,
                  state |-> reducer[w].outcome.state,
                  disposition |-> reducer[w].outcome.disposition]
           /\ \A d \in DeliveryIds :
                 d # reducer[w].receipt.delivery =>
                     deliveries'[d] = deliveries[d]
<1> DEFINE r == reducer[w].receipt
           new == [receipt |-> r, from |-> reducer[w].row.state,
                   to |-> reducer[w].outcome.state,
                   disposition |-> reducer[w].outcome.disposition]
<1>1. r \in Receipts /\ r.delivery \in DeliveryIds
  BY ReceiptsAssumption DEF Accepts, TypeOK, ReducerTypeOK
<1>2. ledger \in Seq(LedgerRow)
  BY DEF TypeOK, StoreTypeOK
<1>3. ledger' = Append(ledger, new)
  BY DEF Accepts, AcceptReceipt
<1>4. reducer[w].row.state = deliveries[r.delivery].state
  BY DEF Accepts, AcceptReceipt, RowUnmoved
<1>5. /\ Len(ledger) \in Nat
      /\ DOMAIN ledger = 1..Len(ledger)
      /\ DOMAIN ledger' = 1..(Len(ledger) + 1)
      /\ \A i \in 1..Len(ledger) : ledger'[i] = ledger[i]
      /\ ledger'[Len(ledger) + 1] = new
  <2>1. new \in LedgerRow
    BY <1>1, OutcomeTypes
       DEF Accepts, TypeOK, ReducerTypeOK, LedgerRow, DeliveryRow, States
  <2> QED
    BY <1>2, <1>3, <2>1
<1>6. /\ deliveries'[r.delivery] =
           [binding |-> deliveries[r.delivery].binding,
            state |-> reducer[w].outcome.state,
            disposition |-> reducer[w].outcome.disposition]
      /\ \A d \in DeliveryIds :
            d # r.delivery => deliveries'[d] = deliveries[d]
  BY <1>1 DEF Accepts, AcceptReceipt, TypeOK, StoreTypeOK, DeliveryRow
<1> QED
  BY <1>1, <1>4, <1>5, <1>6
-----------------------------------------------------------------------------
(***************************************************************************)
(* Validation                                                              *)
(***************************************************************************)
\* Evidence that validates proves a rung of the ladder from the state read.
LEMMA ProvesRung ==
    ASSUME NEW r \in Receipts, NEW row \in DeliveryRow, NEW o \in Outcome,
           Proves(r, row, o)
    PROVE  << row.state, r.class, o.state >> \in Ladder!Rungs(ModeOf(r))
<1>1. ModeOf(r) \in Modes
  BY KeyAssumption, ReceiptsAssumption DEF ModeOf
<1>2. CASE r.class \in ParticipantEvidence
  <2>1. ParticipantAuthentic(r, row)
    BY <1>2 DEF Proves, Authenticates
  <2>2. /\ ModeOf(r) = "channel-native"
        /\ row.state = "transport-submitted"
    BY <2>1 DEF ParticipantAuthentic
  <2>3. o.state = "processed"
    BY <1>2 DEF Proves, Authenticates, Yields, ParticipantEvidence,
       EntryEvidence, Result
  <2> QED
    BY <1>2, <2>2, <2>3 DEF ParticipantEvidence, Ladder!Rungs
<1>3. CASE r.class \notin ParticipantEvidence
  BY <1>1, <1>3 DEF Proves, Authenticates, Yields, ParticipantEvidence,
     EntryEvidence, Result, SessionTransport, Modes, Ladder!Rungs
<1> QED
  BY <1>2, <1>3

\* A validated session receipt quotes a marker minted for its delivery.
LEMMA ProvesMarker ==
    ASSUME NEW r \in Receipts, NEW row \in DeliveryRow, NEW o \in Outcome,
           Proves(r, row, o), r.class \in SessionProofEvidence
    PROVE  QuotesOwnMarker(r, row.binding)
<1>1. SessionReceiptAuthentic(r, row)
  BY DEF Proves, Authenticates
<1>2. /\ MarkerValid(r.proof.marker, MarkerKey(r.delivery, row.binding),
                     r.observed)
      /\ Len(r.proof.events) = Len(ExpectedNames(r.class))
      /\ r.proof.events[2].signature = r.proof.marker.signature
  BY <1>1 DEF SessionReceiptAuthentic, SessionProofValid, ChainValid,
     ChainCorrelated
<1> QED
  BY <1>2 DEF QuotesOwnMarker, MarkerValid, MarkerKey

\* A validated Stop extends the chain of an entry row of its delivery.
LEMMA ProvesClosing ==
    ASSUME TypeOK, EntersSessionOnce,
           NEW r \in Receipts, NEW row \in DeliveryRow, NEW o \in Outcome,
           Proves(r, row, o), r.class = "harness.turn_completed"
    PROVE  ClosedChainIsRecorded(r)
<1>1. ClosesAcceptedPrompt(r)
  BY DEF Proves, SessionProofEvidence, SessionReceiptCurrent
<1> DEFINE S == EntryRows(r.delivery)
           latest == CHOOSE i \in S : \A j \in S : j =< i
<1>2. \E i \in S : \A j \in S : j =< i
  <2>1. S \subseteq Nat /\ S # {}
    BY <1>1 DEF TypeOK, StoreTypeOK, EntryRows, ClosesAcceptedPrompt
  <2>2. \A i, j \in S : i = j
    BY ReceiptsAssumption DEF EntersSessionOnce
  <2> QED
    BY <2>1, <2>2
<1>3. latest \in S
  BY <1>2
<1> QED
  BY <1>1, <1>3
     DEF ClosesAcceptedPrompt, SessionEntryChain, ClosedChainIsRecorded
-----------------------------------------------------------------------------
(***************************************************************************)
(* The inductive invariant                                                 *)
(***************************************************************************)
\* Every row of the ledger is about a delivery that exists, and a session
\* row quotes a marker minted for that delivery and its binding.
LedgerSound ==
    \A i \in DOMAIN ledger :
        LET r == ledger[i].receipt
        IN  /\ deliveries[r.delivery].state # "absent"
            /\ r.class \in SessionProofEvidence =>
                  QuotesOwnMarker(r, deliveries[r.delivery].binding)

\* A row once inserted keeps its binding and never disappears.
LEMMA DeliveriesPersist ==
    ASSUME TypeOK, [Next]_vars, NEW d \in DeliveryIds,
           deliveries[d].state # "absent"
    PROVE  /\ deliveries'[d].state # "absent"
           /\ deliveries'[d].binding = deliveries[d].binding
<1>1. CASE UNCHANGED << deliveries, ledger >>
  BY <1>1
<1>2. ASSUME NEW e \in DeliveryIds, NEW b \in NewBindings, AddDelivery(e, b)
      PROVE  deliveries'[d] = deliveries[d]
  BY <1>2 DEF AddDelivery, TypeOK, StoreTypeOK
<1>3. ASSUME NEW e \in DeliveryIds, SetDispatching(e)
      PROVE  /\ deliveries'[d].state # "absent"
             /\ deliveries'[d].binding = deliveries[d].binding
  BY <1>3 DEF SetDispatching, TypeOK, StoreTypeOK, DeliveryRow
<1>4. ASSUME NEW w \in Reducers, Accepts(w)
      PROVE  /\ deliveries'[d].state # "absent"
             /\ deliveries'[d].binding = deliveries[d].binding
  <2>1. reducer[w].outcome.state # "absent"
    BY <1>4, OutcomeTypes DEF Accepts, TypeOK, ReducerTypeOK
  <2>2. /\ deliveries'[reducer[w].receipt.delivery] =
              [binding |-> deliveries[reducer[w].receipt.delivery].binding,
               state |-> reducer[w].outcome.state,
               disposition |-> reducer[w].outcome.disposition]
        /\ d # reducer[w].receipt.delivery => deliveries'[d] = deliveries[d]
    BY <1>4, AcceptEffect
  <2> QED
    BY <2>1, <2>2
<1> QED
  BY <1>1, <1>2, <1>3, <1>4, StepEffect

\* Rows of the ledger are never lost or rewritten.
LEMMA LedgerGrows ==
    ASSUME TypeOK, [Next]_vars
    PROVE  \A i \in DOMAIN ledger : i \in DOMAIN ledger' /\ ledger'[i] = ledger[i]
<1>1. ASSUME NEW w \in Reducers, Accepts(w), NEW i \in DOMAIN ledger
      PROVE  i \in DOMAIN ledger' /\ ledger'[i] = ledger[i]
  <2>1. /\ Len(ledger) \in Nat
        /\ DOMAIN ledger = 1..Len(ledger)
        /\ DOMAIN ledger' = 1..(Len(ledger) + 1)
    BY <1>1, AcceptEffect
  <2>2. \A j \in 1..Len(ledger) : ledger'[j] = ledger[j]
    BY <1>1, AcceptEffect
  <2> QED
    BY <1>1, <2>1, <2>2
<1> QED
  BY <1>1, StepEffect DEF AddDelivery, SetDispatching

\* A reducer's memory is its own: a step that is not w's own leaves it alone.
LEMMA ReducerChange ==
    ASSUME TypeOK, [Next]_vars, NEW w \in Reducers,
           reducer'[w].pc \in {"validate", "commit"}
    PROVE  reducer'[w] = reducer[w] \/ ReadDelivery(w) \/ Validate(w)
<1> USE DEF TypeOK, ReducerTypeOK
<1>1. ASSUME NEW v \in Reducers, NEW x, Return(v, x)
      PROVE  reducer'[w] = reducer[w]
  BY <1>1 DEF Return, Idle
<1>2. ASSUME NEW v \in Reducers, NEW r \in Receipts, Submit(v, r)
      PROVE  reducer'[w] = reducer[w]
  BY <1>1, <1>2 DEF Submit, ExistingReceiptResult, Advance, Idle
<1>3. ASSUME NEW v \in Reducers, ReadDelivery(v)
      PROVE  reducer'[w] = reducer[w] \/ ReadDelivery(w)
  BY <1>1, <1>3 DEF ReadDelivery, Advance
<1>4. ASSUME NEW v \in Reducers, Validate(v)
      PROVE  reducer'[w] = reducer[w] \/ Validate(w)
  BY <1>1, <1>4 DEF Validate, Advance
<1>5. ASSUME NEW v \in Reducers, Commit(v)
      PROVE  reducer'[w] = reducer[w]
  <2>1. CASE \E x : Return(v, x)
    BY <1>1, <2>1
  <2>2. CASE Advance(v, [reducer[v] EXCEPT !.pc = "recover"])
    BY <2>2 DEF Advance, ReducerState
  <2> QED
    BY <1>5, <2>1, <2>2 DEF Commit
<1>6. ASSUME NEW v \in Reducers, RecoverIntegrityCollision(v)
      PROVE  reducer'[w] = reducer[w]
  BY <1>1, <1>6 DEF RecoverIntegrityCollision, ExistingReceiptResult
<1>7. ASSUME NEW v \in Reducers, Crash(v)
      PROVE  reducer'[w] = reducer[w]
  BY <1>1, <1>7 DEF Crash
<1>8. CASE StoreStep \/ UNCHANGED vars
  BY <1>8 DEF StoreStep, vars
<1> QED
  BY <1>2, <1>3, <1>4, <1>5, <1>6, <1>7, <1>8 DEF Next, ReducerStep

\* Rows of the entry chains stay where they are.
LEMMA EntryRowsGrow ==
    ASSUME TypeOK, [Next]_vars, NEW d, NEW i \in EntryRows(d)
    PROVE  i \in EntryRows(d)' /\ ledger'[i] = ledger[i]
<1>1. \A j \in DOMAIN ledger : j \in DOMAIN ledger' /\ ledger'[j] = ledger[j]
  BY LedgerGrows
<1> QED
  BY <1>1 DEF EntryRows

\* What a reducer validated is not undone by a step that leaves it alone.
LEMMA HoldsPersist ==
    ASSUME TypeOK, [Next]_vars, NEW w \in Reducers, reducer'[w] = reducer[w],
           reducer[w].pc \in {"validate", "commit"}
    PROVE  /\ ReadHolds(reducer[w]) => ReadHolds(reducer[w])'
           /\ ProofHolds(reducer[w]) => ProofHolds(reducer[w])'
<1> DEFINE r == reducer[w].receipt
<1>1. r \in Receipts /\ r.delivery \in DeliveryIds
  BY ReceiptsAssumption DEF TypeOK, ReducerTypeOK
<1>2. deliveries[r.delivery].state # "absent" =>
         /\ deliveries'[r.delivery].state # "absent"
         /\ deliveries'[r.delivery].binding = deliveries[r.delivery].binding
  BY <1>1, DeliveriesPersist
<1>3. ReadHolds(reducer[w]) => ReadHolds(reducer[w])'
  BY <1>2 DEF ReadHolds
<1>4. ClosedChainIsRecorded(r) => ClosedChainIsRecorded(r)'
  BY EntryRowsGrow DEF ClosedChainIsRecorded
<1>5. ProofHolds(reducer[w]) => ProofHolds(reducer[w])'
  BY <1>4 DEF ProofHolds
<1> QED
  BY <1>3, <1>5

\* The row a reducer has just read has the binding its receipt names.
LEMMA ReadDeliveryHolds ==
    ASSUME TypeOK, NEW w \in Reducers, ReadDelivery(w),
           reducer'[w].pc \in {"validate", "commit"}
    PROVE  reducer'[w].pc = "validate" /\ ReadHolds(reducer[w])'
<1> DEFINE r == reducer[w].receipt
           row == deliveries[r.delivery]
<1>1. /\ row.state # "absent" /\ KeysMatch(r, row)
      /\ reducer'[w] = [reducer[w] EXCEPT !.pc = "validate", !.row = row]
      /\ UNCHANGED deliveries
  BY DEF ReadDelivery, Return, Advance, Idle, TypeOK, ReducerTypeOK, storeVars
<1>2. /\ reducer'[w].receipt = r
      /\ reducer'[w].row = row
      /\ reducer'[w].pc = "validate"
  BY <1>1 DEF TypeOK, ReducerTypeOK, ReducerState
<1> QED
  BY <1>1, <1>2 DEF KeysMatch, ReadHolds

\* A reducer that has just validated holds a proof of its outcome.
LEMMA ValidateHolds ==
    ASSUME TypeOK, EntersSessionOnce, NEW w \in Reducers, Validate(w),
           ReadHolds(reducer[w]), reducer'[w].pc \in {"validate", "commit"}
    PROVE  ReadHolds(reducer[w])' /\ ProofHolds(reducer[w])'
<1> DEFINE r == reducer[w].receipt
           row == reducer[w].row
<1>1. reducer[w].pc = "validate" /\ r \in Receipts /\ row \in DeliveryRow
  BY DEF Validate, TypeOK, ReducerTypeOK
<1>2. PICK o \in Outcome :
        /\ Proves(r, row, o)
        /\ reducer' = [reducer EXCEPT ![w] =
                          [reducer[w] EXCEPT !.pc = "commit", !.outcome = o]]
  <2>1. ~ Return(w, "rejected")
    BY DEF Return, Idle, TypeOK, ReducerTypeOK
  <2> QED
    BY <2>1 DEF Validate, Advance
<1>3. /\ reducer'[w].receipt = r /\ reducer'[w].row = row
      /\ reducer'[w].outcome = o
  BY <1>2 DEF TypeOK, ReducerTypeOK, ReducerState
<1>4. UNCHANGED << deliveries, ledger >>
  BY DEF Validate, storeVars
<1>5. ReadHolds(reducer[w])'
  BY <1>3, <1>4 DEF ReadHolds
<1>6. << row.state, r.class, o.state >> \in Ladder!Rungs(ModeOf(r))
  BY <1>1, <1>2, ProvesRung
<1>7. r.class \in SessionProofEvidence => QuotesOwnMarker(r, row.binding)
  BY <1>1, <1>2, ProvesMarker
<1>8. r.class = "harness.turn_completed" => ClosedChainIsRecorded(r)
  BY <1>1, <1>2, ProvesClosing
<1>9. ClosedChainIsRecorded(r) => ClosedChainIsRecorded(r)'
  BY <1>3, <1>4 DEF ClosedChainIsRecorded, EntryRows
<1>10. ProofHolds(reducer[w])'
  BY <1>3, <1>6, <1>7, <1>8, <1>9 DEF ProofHolds
<1> QED
  BY <1>5, <1>10

\* No step of any connection undoes what a reducer has validated.
LEMMA NextValidation ==
    ASSUME TypeOK, ValidationOutlivesRead, EntersSessionOnce, [Next]_vars
    PROVE  ValidationOutlivesRead'
<1> SUFFICES ASSUME NEW w \in Reducers,
                    reducer'[w].pc \in {"validate", "commit"}
             PROVE  /\ ReadHolds(reducer[w])'
                    /\ reducer'[w].pc = "commit" => ProofHolds(reducer[w])'
  BY DEF ValidationOutlivesRead
<1>1. CASE reducer'[w] = reducer[w]
  BY <1>1, HoldsPersist DEF ValidationOutlivesRead
<1>2. CASE ReadDelivery(w)
  BY <1>2, ReadDeliveryHolds
<1>3. CASE Validate(w)
  <2>1. ReadHolds(reducer[w])
    BY <1>3 DEF Validate, ValidationOutlivesRead
  <2> QED
    BY <1>3, <2>1, ValidateHolds
<1> QED
  BY <1>1, <1>2, <1>3, ReducerChange

\* An accepted commit climbs a rung from the state the row has now.
LEMMA AcceptsRung ==
    ASSUME TypeOK, ValidationOutlivesRead, NEW w \in Reducers, Accepts(w)
    PROVE  LET r  == reducer[w].receipt
               at == deliveries[r.delivery].state
               to == reducer[w].outcome.state
           IN  /\ at \in {"dispatching", "transport-submitted", "in-session"}
               /\ to \in {"transport-submitted", "in-session", "processed"}
               /\ at = "in-session" => to = "processed"
               /\ r.class \in EntryEvidence =>
                     at = "transport-submitted" /\ to = "in-session"
               /\ << at, r.class, to >> \in Ladder!Rungs(ModeOf(r))
<1>1. << deliveries[reducer[w].receipt.delivery].state,
         reducer[w].receipt.class, reducer[w].outcome.state >>
         \in Ladder!Rungs(ModeOf(reducer[w].receipt))
  BY DEF ValidationOutlivesRead, ProofHolds, Accepts, AcceptReceipt, RowUnmoved
<1> QED
  BY <1>1 DEF Ladder!Rungs, EntryEvidence

\* The ledger and the row of the delivery after an accepted commit, field by
\* field.
LEMMA AcceptLedger ==
    ASSUME TypeOK, NEW w \in Reducers, Accepts(w)
    PROVE  LET r == reducer[w].receipt
               n == Len(ledger) + 1
           IN  /\ n \in Nat \ {0}
               /\ r \in Receipts
               /\ r.delivery \in DeliveryIds
               /\ \A i : i \in DOMAIN ledger <=> i \in Nat /\ 1 =< i /\ i < n
               /\ \A i : i \in DOMAIN ledger' <=> i \in DOMAIN ledger \/ i = n
               /\ n \notin DOMAIN ledger
               /\ \A i \in DOMAIN ledger : ledger'[i] = ledger[i]
               /\ ledger'[n].receipt = r
               /\ ledger'[n].from = deliveries[r.delivery].state
               /\ ledger'[n].to = reducer[w].outcome.state
               /\ ledger'[n].disposition = reducer[w].outcome.disposition
               /\ deliveries'[r.delivery].state = reducer[w].outcome.state
               /\ deliveries'[r.delivery].disposition
                     = reducer[w].outcome.disposition
               /\ \A d \in DeliveryIds :
                     d # r.delivery => deliveries'[d] = deliveries[d]
<1> DEFINE r == reducer[w].receipt
           n == Len(ledger) + 1
<1>1. /\ Len(ledger) \in Nat
      /\ DOMAIN ledger = 1..Len(ledger)
      /\ DOMAIN ledger' = 1..(Len(ledger) + 1)
      /\ \A i \in 1..Len(ledger) : ledger'[i] = ledger[i]
  BY AcceptEffect
<1>2. /\ n \in Nat \ {0}
      /\ \A i : i \in DOMAIN ledger <=> i \in Nat /\ 1 =< i /\ i < n
      /\ \A i : i \in DOMAIN ledger' <=> i \in DOMAIN ledger \/ i = n
      /\ n \notin DOMAIN ledger
      /\ \A i \in DOMAIN ledger : ledger'[i] = ledger[i]
  BY <1>1
<1>3. /\ r \in Receipts
      /\ r.delivery \in DeliveryIds
      /\ reducer[w].row.state = deliveries[r.delivery].state
      /\ \A d \in DeliveryIds :
            d # r.delivery => deliveries'[d] = deliveries[d]
  BY AcceptEffect
<1>4. /\ ledger'[Len(ledger) + 1] =
            [receipt |-> reducer[w].receipt,
             from |-> reducer[w].row.state,
             to |-> reducer[w].outcome.state,
             disposition |-> reducer[w].outcome.disposition]
      /\ deliveries'[reducer[w].receipt.delivery] =
            [binding |-> deliveries[reducer[w].receipt.delivery].binding,
             state |-> reducer[w].outcome.state,
             disposition |-> reducer[w].outcome.disposition]
  BY AcceptEffect
<1>5. /\ ledger'[n].receipt = r
      /\ ledger'[n].from = reducer[w].row.state
      /\ ledger'[n].to = reducer[w].outcome.state
      /\ ledger'[n].disposition = reducer[w].outcome.disposition
      /\ deliveries'[r.delivery].state = reducer[w].outcome.state
      /\ deliveries'[r.delivery].disposition = reducer[w].outcome.disposition
  BY <1>4
<1> QED
  BY <1>2, <1>3, <1>5

\* No step gives a delivery a second entry row: the guarded UPDATE of
\* accept_receipt fails for a reducer that read the state before the first.
LEMMA NextEntersOnce ==
    ASSUME TypeOK, ValidationOutlivesRead, EntersSessionOnce, [Next]_vars
    PROVE  EntersSessionOnce'
<1>1. CASE UNCHANGED << deliveries, ledger >>
  BY <1>1 DEF EntersSessionOnce, EntryRows
<1>2. ASSUME NEW e \in DeliveryIds, NEW b \in NewBindings, AddDelivery(e, b)
      PROVE  EntersSessionOnce'
  BY <1>2 DEF AddDelivery, EntersSessionOnce, EntryRows, TypeOK, StoreTypeOK
<1>3. ASSUME NEW e \in DeliveryIds, SetDispatching(e)
      PROVE  EntersSessionOnce'
  BY <1>3 DEF SetDispatching, EntersSessionOnce, EntryRows, TypeOK,
     StoreTypeOK, DeliveryRow
<1>4. ASSUME NEW w \in Reducers, Accepts(w), NEW d \in DeliveryIds
      PROVE  /\ \A i, j \in EntryRows(d)' : i = j
             /\ EntryRows(d)' # {} =>
                   deliveries'[d].state \in {"in-session", "processed"}
  <2> DEFINE r == reducer[w].receipt
             n == Len(ledger) + 1
  <2>1. /\ \A i : i \in DOMAIN ledger' <=> i \in DOMAIN ledger \/ i = n
        /\ n \notin DOMAIN ledger
        /\ \A i \in DOMAIN ledger : ledger'[i] = ledger[i]
        /\ ledger'[n].receipt = r
    BY <1>4, AcceptLedger
  <2>2. /\ deliveries'[r.delivery].state = reducer[w].outcome.state
        /\ d # r.delivery => deliveries'[d] = deliveries[d]
    BY <1>4, AcceptLedger
  <2>3. /\ r.class \in EntryEvidence =>
              /\ deliveries[r.delivery].state = "transport-submitted"
              /\ reducer[w].outcome.state = "in-session"
        /\ deliveries[r.delivery].state \in
              {"dispatching", "transport-submitted", "in-session"}
        /\ deliveries[r.delivery].state = "in-session" =>
              reducer[w].outcome.state = "processed"
    BY <1>4, AcceptsRung
  <2>4. \A i : i \in EntryRows(d)' <=>
                  \/ i \in EntryRows(d)
                  \/ i = n /\ r.delivery = d /\ r.class \in EntryEvidence
    <3> HIDE DEF n, r
    <3> QED
      BY <2>1 DEF EntryRows
  <2>5. /\ \A i, j \in EntryRows(d) : i = j
        /\ EntryRows(d) # {} => deliveries[d].state \in {"in-session", "processed"}
    BY DEF EntersSessionOnce
  <2> HIDE DEF n, r
  <2> QED
    BY <2>2, <2>3, <2>4, <2>5
<1>5. ASSUME NEW w \in Reducers, Accepts(w)
      PROVE  EntersSessionOnce'
  BY <1>4, <1>5 DEF EntersSessionOnce
<1> QED
  BY <1>1, <1>2, <1>3, <1>5, StepEffect

\* The rows about a delivery are positions of the ledger.
LEMMA RowsAreNat ==
    ASSUME TypeOK
    PROVE  /\ DOMAIN ledger \subseteq Nat
           /\ \A i \in DOMAIN ledger : /\ ledger[i].receipt \in Receipts
                                       /\ ledger[i].receipt.delivery \in DeliveryIds
<1>1. ledger \in Seq(LedgerRow)
  BY DEF TypeOK, StoreTypeOK
<1>2. DOMAIN ledger \subseteq Nat
  BY <1>1
<1>3. \A i \in DOMAIN ledger : ledger[i] \in LedgerRow
  BY <1>1
<1>4. \A row \in LedgerRow : row.receipt \in Receipts
  BY DEF LedgerRow
<1> QED
  BY <1>2, <1>3, <1>4, ReceiptsAssumption

\* Every step keeps the rows of the ledger sound.
LEMMA NextLedgerSound ==
    ASSUME TypeOK, ValidationOutlivesRead, LedgerSound, [Next]_vars
    PROVE  LedgerSound'
<1> DEFINE Sound(r) ==
              /\ deliveries[r.delivery].state # "absent"
              /\ r.class \in SessionProofEvidence =>
                    QuotesOwnMarker(r, deliveries[r.delivery].binding)
<1>1. \A i \in DOMAIN ledger : ledger'[i] = ledger[i]
  BY LedgerGrows
<1>2. ASSUME NEW i \in DOMAIN ledger
      PROVE  Sound(ledger[i].receipt)'
  <2> DEFINE r == ledger[i].receipt
  <2>1. r \in Receipts /\ r.delivery \in DeliveryIds
    BY RowsAreNat
  <2>2. Sound(r) /\ ledger'[i].receipt = r
    BY <1>1 DEF LedgerSound
  <2>3. /\ deliveries'[r.delivery].state # "absent"
        /\ deliveries'[r.delivery].binding = deliveries[r.delivery].binding
    BY <2>1, <2>2, DeliveriesPersist
  <2> QED
    BY <2>2, <2>3
<1>3. ASSUME NEW w \in Reducers, Accepts(w)
      PROVE  Sound(reducer[w].receipt)
  BY <1>3 DEF Accepts, ValidationOutlivesRead, ReadHolds, ProofHolds
<1>4. ASSUME NEW w \in Reducers, Accepts(w)
      PROVE  LedgerSound'
  <2>1. PICK n : n = Len(ledger) + 1
    OBVIOUS
  <2>2. /\ \A i : i \in DOMAIN ledger' <=> i \in DOMAIN ledger \/ i = n
        /\ ledger'[n].receipt = reducer[w].receipt
        /\ reducer[w].receipt.delivery \in DeliveryIds
    BY <1>4, <2>1, AcceptLedger
  <2>3. /\ deliveries'[reducer[w].receipt.delivery].state # "absent"
        /\ deliveries'[reducer[w].receipt.delivery].binding
              = deliveries[reducer[w].receipt.delivery].binding
    BY <1>3, <1>4, <2>2, DeliveriesPersist
  <2>4. Sound(ledger[n].receipt)'
    BY <1>3, <1>4, <2>2, <2>3
  <2> QED
    BY <1>2, <2>2, <2>4 DEF LedgerSound
<1>5. CASE ledger' = ledger
  BY <1>2, <1>5 DEF LedgerSound
<1> QED
  BY <1>4, <1>5, StepEffect DEF AddDelivery, SetDispatching

\* The new row of an accepted commit, rigid: the facts about it that the
\* proofs on the audit trail use.
LEMMA AcceptRows ==
    ASSUME TypeOK, NEW w \in Reducers, Accepts(w), NEW n, n = Len(ledger) + 1
    PROVE  /\ n \in Nat /\ n \notin DOMAIN ledger
           /\ \A i \in DOMAIN ledger : i \in Nat /\ i < n
           /\ \A d, i : i \in RowsOf(d)' <=>
                           \/ i \in RowsOf(d)
                           \/ i = n /\ d = reducer[w].receipt.delivery
           /\ \A i \in DOMAIN ledger : ledger'[i] = ledger[i]
<1> DEFINE r == reducer[w].receipt
<1>1. /\ n \in Nat /\ n \notin DOMAIN ledger
      /\ \A i : i \in DOMAIN ledger <=> i \in Nat /\ 1 =< i /\ i < n
      /\ \A i : i \in DOMAIN ledger' <=> i \in DOMAIN ledger \/ i = n
      /\ \A i \in DOMAIN ledger : ledger'[i] = ledger[i]
      /\ ledger'[n].receipt = r
  BY AcceptLedger
<1> HIDE DEF r
<1>2. \A d, i : i \in RowsOf(d)' <=>
                   i \in RowsOf(d) \/ (i = n /\ d = r.delivery)
  BY <1>1 DEF RowsOf
<1> QED
  BY <1>1, <1>2 DEF r

\* A commit extends the path of its delivery and leaves the others alone.
LEMMA AcceptAudit ==
    ASSUME TypeOK, ValidationOutlivesRead, AuditExplainsState,
           NEW w \in Reducers, Accepts(w)
    PROVE  AuditExplainsState'
<1> DEFINE r == reducer[w].receipt
<1>1. PICK n : n = Len(ledger) + 1
  OBVIOUS
<1>2. /\ n \in Nat /\ n \notin DOMAIN ledger
      /\ \A i \in DOMAIN ledger : i \in Nat /\ i < n
      /\ \A d, i : i \in RowsOf(d)' <=>
                      \/ i \in RowsOf(d)
                      \/ i = n /\ d = r.delivery
      /\ \A i \in DOMAIN ledger : ledger'[i] = ledger[i]
  BY <1>1, AcceptRows
<1>3. /\ ledger'[n].receipt = r
      /\ ledger'[n].from = deliveries[r.delivery].state
      /\ ledger'[n].to = deliveries'[r.delivery].state
      /\ ledger'[n].disposition = deliveries'[r.delivery].disposition
      /\ r.delivery \in DeliveryIds
      /\ \A d \in DeliveryIds :
            d # r.delivery => deliveries'[d] = deliveries[d]
      /\ deliveries'[r.delivery].state = reducer[w].outcome.state
      /\ \A i : i \in DOMAIN ledger' <=> i \in DOMAIN ledger \/ i = n
  BY <1>1, AcceptLedger
<1>4. /\ deliveries[r.delivery].state \in
            {"dispatching", "transport-submitted", "in-session"}
      /\ reducer[w].outcome.state \in
            {"transport-submitted", "in-session", "processed"}
  BY AcceptsRung
<1>5. \A d : RowsOf(d) \subseteq DOMAIN ledger
  BY DEF RowsOf
<1> HIDE DEF r
<1>6. ASSUME NEW d \in DeliveryIds
      PROVE  IF deliveries'[d].state \in {"absent", "queued", "dispatching"}
             THEN RowsOf(d)' = {}
             ELSE \E i \in RowsOf(d)' :
                     /\ IsLatest(d, i)'
                     /\ ledger'[i].to = deliveries'[d].state
                     /\ ledger'[i].disposition = deliveries'[d].disposition
  <2>1. CASE d = r.delivery
    <3>1. n \in RowsOf(d)' /\ IsLatest(d, n)'
      BY <1>2, <1>5, <2>1 DEF IsLatest
    <3> QED
      BY <1>3, <1>4, <2>1, <3>1
  <2>2. CASE d # r.delivery
    <3>1. \A i : i \in RowsOf(d)' <=> i \in RowsOf(d)
      BY <1>2, <2>2
    <3>2. \A i : IsLatest(d, i) => IsLatest(d, i)'
      BY <3>1 DEF IsLatest
    <3>3. deliveries'[d] = deliveries[d]
      BY <1>3, <2>2
    <3>4. CASE deliveries[d].state \in {"absent", "queued", "dispatching"}
      <4>1. RowsOf(d) = {}
        BY <3>4 DEF AuditExplainsState
      <4> QED
        BY <3>1, <3>3, <3>4, <4>1
    <3>5. CASE deliveries[d].state \notin {"absent", "queued", "dispatching"}
      <4>1. PICK i \in RowsOf(d) :
                     /\ IsLatest(d, i)
                     /\ ledger[i].to = deliveries[d].state
                     /\ ledger[i].disposition = deliveries[d].disposition
        BY <3>5 DEF AuditExplainsState
      <4>2. ledger'[i] = ledger[i]
        BY <1>2, <1>5
      <4> QED
        BY <3>1, <3>2, <3>3, <3>5, <4>1, <4>2
    <3> QED
      BY <3>4, <3>5
  <2> QED
    BY <2>1, <2>2
<1>7. ASSUME NEW j \in DOMAIN ledger, NEW i \in DOMAIN ledger,
             Consecutive(i, j), ledger[j].from = ledger[i].to
      PROVE  Consecutive(i, j)' /\ ledger'[j].from = ledger'[i].to
  BY <1>2, <1>7 DEF Consecutive
<1>8. \/ ledger'[n].from = "dispatching"
      \/ \E i \in DOMAIN ledger' :
            Consecutive(i, n)' /\ ledger'[n].from = ledger'[i].to
  <2>1. CASE deliveries[r.delivery].state # "dispatching"
    <3>1. PICK e \in DeliveryIds : e = r.delivery
      BY <1>3
    <3>2. PICK i \in RowsOf(e) :
                 IsLatest(e, i) /\ ledger[i].to = deliveries[e].state
      BY <1>3, <1>4, <2>1, <3>1 DEF AuditExplainsState
    <3>3. /\ i \in DOMAIN ledger /\ i \in DOMAIN ledger'
          /\ ledger'[i] = ledger[i]
          /\ ledger'[i].receipt.delivery = e
      BY <1>2, <1>3, <1>5 DEF RowsOf
    <3>4. n \in RowsOf(e)' /\ i < n
      BY <1>2, <3>1, <3>3
    <3>5. \A k \in RowsOf(e)' : ~ (i < k /\ k < n)
      <4>1. \A k \in RowsOf(e) : k =< i
        BY <3>2 DEF IsLatest
      <4>2. \A k \in RowsOf(e) : k \in Nat
        BY <1>2, <1>5
      <4>3. \A k \in RowsOf(e)' : k \in RowsOf(e) \/ k = n
        BY <1>2
      <4>4. i \in Nat /\ n \in Nat
        BY <1>2, <3>3
      <4>5. ASSUME NEW k, k \in RowsOf(e) \/ k = n
            PROVE  ~ (i < k /\ k < n)
        <5>1. CASE k \in RowsOf(e)
          <6>1. k =< i /\ k \in Nat
            BY <4>1, <4>2, <5>1
          <6> QED
            BY <4>4, <6>1
        <5>2. CASE k = n
          BY <4>4, <5>2
        <5> QED
          BY <4>5, <5>1, <5>2
      <4> QED
        BY <4>3, <4>5
    <3>6. Consecutive(i, n)'
      BY <3>3, <3>4, <3>5 DEF Consecutive
    <3> QED
      BY <1>3, <3>1, <3>2, <3>3, <3>6
  <2> QED
    BY <1>3, <2>1
<1>9. ASSUME NEW j \in DOMAIN ledger'
      PROVE  \/ ledger'[j].from = "dispatching"
             \/ \E i \in DOMAIN ledger' :
                   Consecutive(i, j)' /\ ledger'[j].from = ledger'[i].to
  <2>1. CASE j = n
    BY <1>8, <2>1
  <2>2. CASE j \in DOMAIN ledger
    <3>1. \/ ledger[j].from = "dispatching"
          \/ \E i \in DOMAIN ledger :
                Consecutive(i, j) /\ ledger[j].from = ledger[i].to
      BY <2>2 DEF AuditExplainsState
    <3> QED
      BY <1>2, <1>3, <1>7, <2>2, <3>1
  <2> QED
    BY <1>3, <2>1, <2>2
<1> QED
  BY <1>6, <1>9 DEF AuditExplainsState

\* Every step keeps the audit rows one path to the delivery's state.
LEMMA NextAudit ==
    ASSUME TypeOK, ValidationOutlivesRead, AuditExplainsState, [Next]_vars
    PROVE  AuditExplainsState'
<1> USE DEF AuditExplainsState, RowsOf, IsLatest, Consecutive
<1>1. CASE UNCHANGED << deliveries, ledger >>
  BY <1>1
<1>2. ASSUME NEW e \in DeliveryIds, NEW b \in NewBindings, AddDelivery(e, b)
      PROVE  AuditExplainsState'
  BY <1>2 DEF AddDelivery, TypeOK, StoreTypeOK
<1>3. ASSUME NEW e \in DeliveryIds, SetDispatching(e)
      PROVE  AuditExplainsState'
  BY <1>3 DEF SetDispatching, TypeOK, StoreTypeOK, DeliveryRow
<1> QED
  BY <1>1, <1>2, <1>3, AcceptAudit, StepEffect

\* A Stop whose first events are an entry's quotes the entry's marker.
LEMMA ClosingMarker ==
    ASSUME NEW entry, NEW stop, NEW b, NEW c,
           entry.class \in EntryEvidence, QuotesOwnMarker(entry, b),
           stop.class = "harness.turn_completed", QuotesOwnMarker(stop, c),
           entry.proof.events = ChainBeforeLast(stop.proof)
    PROVE  entry.proof.marker.signature = stop.proof.marker.signature
<1>1. Len(stop.proof.events) = 4
  BY DEF QuotesOwnMarker, ExpectedNames, EntryEvidence, CompletedChain,
     PromptChain
<1>2. entry.proof.events[2] = stop.proof.events[2]
  BY <1>1 DEF ChainBeforeLast
<1> QED
  BY <1>2 DEF QuotesOwnMarker

\* The Stop that reducer w commits closes a turn whose entry is recorded.
LEMMA AcceptClosesTurn ==
    ASSUME TypeOK, ValidationOutlivesRead, LedgerSound,
           NEW w \in Reducers, Accepts(w),
           reducer[w].receipt.class = "harness.turn_completed"
    PROVE  \E i \in DOMAIN ledger :
              LET entry == ledger[i].receipt
                  stop  == reducer[w].receipt
              IN  /\ entry.class \in EntryEvidence
                  /\ entry.delivery = stop.delivery
                  /\ entry.proof.events = ChainBeforeLast(stop.proof)
                  /\ entry.proof.marker.signature
                        = stop.proof.marker.signature
                  /\ entry.proof.marker.delivery = stop.delivery
                  /\ entry.proof.marker.binding
                        = deliveries[stop.delivery].binding
<1> DEFINE stop == reducer[w].receipt
<1>1. /\ ClosedChainIsRecorded(stop)
      /\ QuotesOwnMarker(stop, reducer[w].row.binding)
  BY DEF Accepts, ValidationOutlivesRead, ProofHolds, SessionProofEvidence
<1>2. PICK i \in EntryRows(stop.delivery) :
              ledger[i].receipt.proof.events = ChainBeforeLast(stop.proof)
  BY <1>1 DEF ClosedChainIsRecorded
<1> DEFINE entry == ledger[i].receipt
<1>3. /\ i \in DOMAIN ledger
      /\ entry.class \in EntryEvidence
      /\ entry.delivery = stop.delivery
  BY <1>2 DEF EntryRows
<1>4. QuotesOwnMarker(entry, deliveries[stop.delivery].binding)
  BY <1>3 DEF LedgerSound, SessionProofEvidence
<1>5. entry.proof.marker.signature = stop.proof.marker.signature
  BY <1>1, <1>2, <1>3, <1>4, ClosingMarker
<1>6. /\ entry.proof.marker.delivery = stop.delivery
      /\ entry.proof.marker.binding = deliveries[stop.delivery].binding
  BY <1>3, <1>4 DEF QuotesOwnMarker
<1> QED
  BY <1>2, <1>3, <1>5, <1>6

\* Every step keeps each accepted Stop behind the entry it closes.
LEMMA NextEntered ==
    ASSUME TypeOK, ValidationOutlivesRead, LedgerSound,
           ProcessedTurnWasEntered, [Next]_vars
    PROVE  ProcessedTurnWasEntered'
<1> DEFINE Entered(entry, stop, b) ==
              /\ entry.class \in EntryEvidence
              /\ entry.delivery = stop.delivery
              /\ entry.proof.events = ChainBeforeLast(stop.proof)
              /\ entry.proof.marker.signature = stop.proof.marker.signature
              /\ entry.proof.marker.delivery = stop.delivery
              /\ entry.proof.marker.binding = b
           IsStop(r) == r.class = "harness.turn_completed"
<1>1. \A d \in DeliveryIds :
         deliveries[d].state # "absent" =>
            deliveries'[d].binding = deliveries[d].binding
  BY DeliveriesPersist
<1>2. \A i \in DOMAIN ledger :
         i \in Nat /\ i \in DOMAIN ledger' /\ ledger'[i] = ledger[i]
  BY RowsAreNat, LedgerGrows
<1>3. ASSUME NEW j \in DOMAIN ledger, IsStop(ledger[j].receipt)
      PROVE  \E i \in DOMAIN ledger' :
                /\ i < j
                /\ Entered(ledger'[i].receipt, ledger'[j].receipt,
                           deliveries'[ledger'[j].receipt.delivery].binding)
  <2>1. PICK i \in DOMAIN ledger :
               /\ i < j
               /\ Entered(ledger[i].receipt, ledger[j].receipt,
                          deliveries[ledger[j].receipt.delivery].binding)
    BY <1>3 DEF ProcessedTurnWasEntered
  <2>2. /\ ledger[j].receipt.delivery \in DeliveryIds
        /\ deliveries[ledger[j].receipt.delivery].state # "absent"
    BY RowsAreNat DEF LedgerSound
  <2>3. deliveries'[ledger'[j].receipt.delivery].binding
           = deliveries[ledger[j].receipt.delivery].binding
    BY <1>1, <1>2, <2>2
  <2> HIDE DEF Entered
  <2> QED
    BY <1>2, <2>1, <2>3
<1>4. ASSUME NEW w \in Reducers, Accepts(w), IsStop(reducer[w].receipt)
      PROVE  \E i \in DOMAIN ledger :
                Entered(ledger[i].receipt, reducer[w].receipt,
                        deliveries'[reducer[w].receipt.delivery].binding)
  <2>1. \E i \in DOMAIN ledger :
           Entered(ledger[i].receipt, reducer[w].receipt,
                   deliveries[reducer[w].receipt.delivery].binding)
    BY <1>4, AcceptClosesTurn
  <2>2. /\ reducer[w].receipt.delivery \in DeliveryIds
        /\ deliveries[reducer[w].receipt.delivery].state # "absent"
    BY <1>4, ReceiptsAssumption
       DEF TypeOK, ReducerTypeOK, Accepts, ValidationOutlivesRead, ReadHolds
  <2> HIDE DEF Entered
  <2> QED
    BY <1>1, <2>1, <2>2
<1>5. ASSUME NEW w \in Reducers, Accepts(w), NEW j \in DOMAIN ledger',
             j \notin DOMAIN ledger, IsStop(ledger'[j].receipt)
      PROVE  \E i \in DOMAIN ledger' :
                /\ i < j
                /\ Entered(ledger'[i].receipt, ledger'[j].receipt,
                           deliveries'[ledger'[j].receipt.delivery].binding)
  <2>1. PICK n : n = Len(ledger) + 1
    OBVIOUS
  <2>2. /\ \A i : i \in DOMAIN ledger' <=> i \in DOMAIN ledger \/ i = n
        /\ \A i : i \in DOMAIN ledger <=> i \in Nat /\ 1 =< i /\ i < n
        /\ ledger'[n].receipt = reducer[w].receipt
    BY <1>5, <2>1, AcceptLedger
  <2>3. j = n /\ ledger'[j].receipt = reducer[w].receipt
    BY <1>5, <2>2
  <2>4. PICK i \in DOMAIN ledger :
                Entered(ledger[i].receipt, reducer[w].receipt,
                        deliveries'[reducer[w].receipt.delivery].binding)
    BY <1>4, <1>5, <2>3
  <2>5. i < j /\ i \in DOMAIN ledger' /\ ledger'[i] = ledger[i]
    BY <1>2, <2>2, <2>3
  <2> HIDE DEF Entered
  <2> QED
    BY <2>3, <2>4, <2>5
<1>6. ASSUME NEW j \in DOMAIN ledger', IsStop(ledger'[j].receipt)
      PROVE  \E i \in DOMAIN ledger' :
                /\ i < j
                /\ Entered(ledger'[i].receipt, ledger'[j].receipt,
                           deliveries'[ledger'[j].receipt.delivery].binding)
  <2>1. CASE j \in DOMAIN ledger
    BY <1>2, <1>3, <1>6, <2>1
  <2>2. CASE j \notin DOMAIN ledger
    <3>1. \E w \in Reducers : Accepts(w)
      BY <2>2, StepEffect DEF AddDelivery, SetDispatching
    <3> QED
      BY <1>5, <1>6, <2>2, <3>1
  <2> QED
    BY <2>1, <2>2
<1> QED
  BY <1>6 DEF ProcessedTurnWasEntered
-----------------------------------------------------------------------------
(***************************************************************************)
(* Safety                                                                  *)
(***************************************************************************)
\* No part is inductive by itself.  A commit is a rung only because what was
\* validated still holds; a validated Stop finds its chain only because a
\* delivery has one entry row; and that it has one follows from the rungs.
IInv ==
    /\ TypeOK
    /\ ValidationOutlivesRead
    /\ EntersSessionOnce
    /\ LedgerSound
    /\ AuditExplainsState
    /\ ProcessedTurnWasEntered

\* The inductive invariant holds of the empty store.
LEMMA InitIInv == Init => IInv
<1> SUFFICES ASSUME Init PROVE IInv
  OBVIOUS
<1>1. TypeOK
  BY InitTypes
<1>2. /\ DOMAIN ledger = {}
      /\ \A d \in DeliveryIds : deliveries[d].state = "absent"
      /\ \A w \in Reducers : reducer[w].pc = "idle"
  BY DEF Init, StoreInit, Idle
<1>3. ValidationOutlivesRead
  BY <1>2 DEF ValidationOutlivesRead
<1>4. EntersSessionOnce /\ LedgerSound /\ ProcessedTurnWasEntered
  BY <1>2 DEF EntersSessionOnce, EntryRows, LedgerSound,
     ProcessedTurnWasEntered
<1>5. AuditExplainsState
  BY <1>2 DEF AuditExplainsState, RowsOf
<1> QED
  BY <1>1, <1>3, <1>4, <1>5 DEF IInv

\* The inductive invariant is inductive.
LEMMA NextIInv == IInv /\ [Next]_vars => IInv'
  BY NextTypes, NextValidation, NextEntersOnce, NextLedgerSound, NextAudit,
     NextEntered DEF IInv

\* Everything the invariant says holds in every state of every run.
THEOREM InvariantHolds == Spec => []IInv
  BY InitIInv, NextIInv, PTL DEF Spec

\* What submit validated is still true when accept_receipt commits, whatever
\* the other connections wrote in between.
THEOREM ValidationCorrect == Spec => []ValidationOutlivesRead
<1>1. IInv => ValidationOutlivesRead
  BY DEF IInv
<1> QED
  BY <1>1, InvariantHolds, PTL

\* The audit rows of a delivery are one path to the state its row holds.
THEOREM AuditCorrect == Spec => []AuditExplainsState
<1>1. IInv => AuditExplainsState
  BY DEF IInv
<1> QED
  BY <1>1, InvariantHolds, PTL

\* A delivery enters a session at most once.
THEOREM EntryCorrect == Spec => []EntersSessionOnce
<1>1. IInv => EntersSessionOnce
  BY DEF IInv
<1> QED
  BY <1>1, InvariantHolds, PTL

\* A turn completes a delivery only if its exact prompt chain was accepted
\* before, under a marker minted for that delivery and its binding.
THEOREM CompletionCorrect == Spec => []ProcessedTurnWasEntered
<1>1. IInv => ProcessedTurnWasEntered
  BY DEF IInv
<1> QED
  BY <1>1, InvariantHolds, PTL
-----------------------------------------------------------------------------
(***************************************************************************)
(* Refinement of DeliveryLadder                                            *)
(***************************************************************************)
\* The empty store is an initial state of the ladder.
LEMMA LadderInitially == Init => Ladder!LadderInit
  BY DEF Init, StoreInit, Ladder!LadderInit

\* An accepted commit climbs one rung with a receipt that is fresh.
LEMMA AcceptClimbs ==
    ASSUME TypeOK, ValidationOutlivesRead, NEW w \in Reducers, Accepts(w),
           NEW r, r = reducer[w].receipt,
           NEW to, to = reducer[w].outcome.state
    PROVE  Ladder!Climb(r, to)
<1>1. /\ r.delivery \in DeliveryIds
      /\ r \in Receipts
  BY AcceptLedger
<1>2. << deliveries[r.delivery].state, r.class, to >>
         \in Ladder!Rungs(ModeOf(r))
  BY AcceptsRung
<1>3. ~ InsertCollides(r, reducer[w].row)
  BY DEF Accepts, AcceptReceipt
<1>4. Ladder!Fresh(r)
  BY <1>3 DEF InsertCollides, ReceiptIdTaken, SourceSeen, Ladder!Fresh
<1>5. [d \in DeliveryIds |-> deliveries[d].state]'
         = [[d \in DeliveryIds |-> deliveries[d].state]
               EXCEPT ![r.delivery] = to]
  <2>1. /\ deliveries'[r.delivery].state = to
        /\ \A d \in DeliveryIds :
              d # r.delivery => deliveries'[d] = deliveries[d]
    BY AcceptLedger
  <2> QED
    BY <1>1, <2>1
<1>6. {ledger[i].receipt : i \in DOMAIN ledger}'
         = {ledger[i].receipt : i \in DOMAIN ledger} \cup {r}
  <2>1. PICK n : n = Len(ledger) + 1
    OBVIOUS
  <2>2. /\ \A i : i \in DOMAIN ledger' <=> i \in DOMAIN ledger \/ i = n
        /\ \A i \in DOMAIN ledger : ledger'[i] = ledger[i]
        /\ ledger'[n].receipt = r
    BY <2>1, AcceptLedger
  <2> QED
    BY <2>2
<1> QED
  BY <1>1, <1>2, <1>4, <1>5, <1>6 DEF Ladder!Climb, ModeOf

\* Every step climbs a rung, queues or dispatches a delivery in the ladder, or
\* leaves the ladder alone.
LEMMA LadderStep ==
    ASSUME TypeOK, ValidationOutlivesRead, [Next]_vars
    PROVE  [Ladder!LadderNext]_(Ladder!ladderVars)
<1>1. CASE UNCHANGED << deliveries, ledger >>
  BY <1>1 DEF Ladder!ladderVars
<1>2. ASSUME NEW e \in DeliveryIds, NEW b \in NewBindings, AddDelivery(e, b)
      PROVE  Ladder!Queue(e)
  BY <1>2 DEF AddDelivery, Ladder!Queue, TypeOK, StoreTypeOK
<1>3. ASSUME NEW e \in DeliveryIds, SetDispatching(e)
      PROVE  Ladder!Dispatch(e)
  BY <1>3 DEF SetDispatching, Ladder!Dispatch, TypeOK, StoreTypeOK,
     DeliveryRow
<1>4. ASSUME NEW w \in Reducers, Accepts(w)
      PROVE  Ladder!LadderNext
  <2>1. PICK r \in Receipts : r = reducer[w].receipt
    BY <1>4, AcceptLedger
  <2>2. PICK to \in {"transport-submitted", "in-session", "processed"} :
                to = reducer[w].outcome.state
    BY <1>4, AcceptsRung
  <2>3. Ladder!Climb(r, to)
    BY <1>4, <2>1, <2>2, AcceptClimbs
  <2> QED
    BY <2>3 DEF Ladder!LadderNext
<1> QED
  BY <1>1, <1>2, <1>3, <1>4, StepEffect DEF Ladder!LadderNext

\* The reducers over one store implement the ladder of DeliveryLadder.
THEOREM LadderImplemented == Spec => ImplementsLadder
<1>1. IInv /\ [Next]_vars => [Ladder!LadderNext]_(Ladder!ladderVars)
  BY LadderStep DEF IInv
<1> QED
  BY <1>1, LadderInitially, InvariantHolds, PTL
     DEF Spec, ImplementsLadder, Ladder!LadderSpec
-----------------------------------------------------------------------------
(***************************************************************************)
(* Bindings                                                                *)
(***************************************************************************)
\* Only the three operations on session_bindings change a binding's state.
LEMMA BindingEffect ==
    ASSUME [Next]_vars
    PROVE  \/ UNCHANGED bindings
           \/ \E b \in BindingIds : RegisterSessionBinding(b)
           \/ \E b \in BindingIds : RevokeSessionBinding(b)
           \/ \E b, c \in BindingIds : SupersedeWrite(b, c)
<1>1. CASE UNCHANGED vars
  BY <1>1 DEF vars, storeVars
<1>2. CASE StoreStep
  BY <1>2 DEF StoreStep, SetDispatching, AddDelivery, RegisterProvider,
     SupersedeRead, BindPrincipal, BindPlatformMessage
<1>3. ASSUME NEW w \in Reducers,
             (\E r \in Receipts : Submit(w, r)) \/ ReducerStep(w) \/ Crash(w)
      PROVE  UNCHANGED bindings
  BY <1>3 DEF Submit, ExistingReceiptResult, MarkProviderDegraded,
     ReducerStep, ReadDelivery, Validate, Commit, AcceptReceipt,
     RecoverIntegrityCollision, Crash, storeVars
<1> QED
  BY <1>1, <1>2, <1>3 DEF Next

\* A row that the unique index admits is the only active one of its
\* recipient, in a table where active rows were exclusive.
LEMMA AdmittedIsExclusive ==
    ASSUME NEW bs \in [BindingIds -> BindingStates], NEW n \in BindingIds,
           InsertAdmits(bs, n),
           \A b, c \in BindingIds :
              /\ bs[b] = "active"
              /\ bs[c] = "active"
              /\ Binding[b].recipient = Binding[c].recipient
              => b = c,
           NEW b \in BindingIds, NEW c \in BindingIds,
           [bs EXCEPT ![n] = "active"][b] = "active",
           [bs EXCEPT ![n] = "active"][c] = "active",
           Binding[b].recipient = Binding[c].recipient
    PROVE  b = c
BY DEF InsertAdmits

\* Every operation on session_bindings keeps the active ones exclusive.
LEMMA NextOneActive ==
    ASSUME TypeOK, OneActiveBinding, [Next]_vars
    PROVE  OneActiveBinding'
<1>1. bindings \in [BindingIds -> BindingStates]
  BY DEF TypeOK, StoreTypeOK
<1>2. CASE UNCHANGED bindings
  BY <1>2 DEF OneActiveBinding
<1>3. ASSUME NEW n \in BindingIds, RegisterSessionBinding(n)
      PROVE  OneActiveBinding'
  BY <1>1, <1>3, AdmittedIsExclusive
     DEF RegisterSessionBinding, OneActiveBinding
<1>4. ASSUME NEW n \in BindingIds, RevokeSessionBinding(n)
      PROVE  OneActiveBinding'
  BY <1>1, <1>4 DEF RevokeSessionBinding, OneActiveBinding
<1>5. ASSUME NEW old \in BindingIds, NEW n \in BindingIds,
             SupersedeWrite(old, n)
      PROVE  OneActiveBinding'
  <2> DEFINE retired == [bindings EXCEPT ![old] = "superseded"]
  <2>1. retired \in [BindingIds -> BindingStates]
    BY <1>1 DEF BindingStates
  <2>2. \A b \in BindingIds : retired[b] = "active" => bindings[b] = "active"
    BY <1>1
  <2>3. CASE InsertAdmits(retired, n)
    <3>1. bindings' = [retired EXCEPT ![n] = "active"]
      BY <1>5, <2>3 DEF SupersedeWrite
    <3> HIDE DEF retired
    <3> QED
      BY <2>1, <2>2, <2>3, <3>1, AdmittedIsExclusive DEF OneActiveBinding
  <2>4. CASE ~ InsertAdmits(retired, n)
    <3>1. bindings' = bindings
      BY <1>5, <2>4 DEF SupersedeWrite
    <3> QED
      BY <3>1 DEF OneActiveBinding
  <2> QED
    BY <2>3, <2>4
<1> QED
  BY <1>2, <1>3, <1>4, <1>5, BindingEffect

\* A recipient never has two active bindings, however registrations,
\* supersessions and revocations on different connections interleave.
THEOREM BindingsExclusive == Spec => []OneActiveBinding
<1>1. Init => OneActiveBinding
  BY DEF Init, StoreInit, OneActiveBinding
<1>2. TypeOK /\ OneActiveBinding /\ [Next]_vars => OneActiveBinding'
  BY NextOneActive
<1> QED
  BY <1>1, <1>2, TypeCorrect, PTL DEF Spec
-----------------------------------------------------------------------------
(***************************************************************************)
(* Evidence counts once                                                    *)
(***************************************************************************)
\* What submit finds out about a session receipt for a row with binding b
\* and what no later step can change.
Authentic(r, b) ==
    /\ r.proof # None
    /\ Len(r.proof.events) = Len(ExpectedNames(r.class))
    /\ \A k \in DOMAIN r.proof.events :
          r.proof.events[k].name = ExpectedNames(r.class)[k]
    /\ r.proof.events[2].signature = r.proof.marker.signature
    /\ r.proof.marker.signature = Sign(SigningKey, r.proof.marker)
    /\ r.proof.marker.delivery = r.delivery
    /\ r.source = LastEvent(r.proof).id
    /\ r.source # None
    /\ r.provider = Binding[b].provider

IsSession(r) == r.class \in SessionProofEvidence

\* UNIQUE (provider_id, source_event_id)
SourcesUnique ==
    \A i, j \in DOMAIN ledger :
        /\ ledger[i].receipt.source # None
        /\ ledger[i].receipt.source = ledger[j].receipt.source
        /\ ledger[i].receipt.provider = ledger[j].receipt.provider
        => i = j

CommitsAuthentic ==
    \A w \in Reducers :
        reducer[w].pc = "commit" /\ IsSession(reducer[w].receipt) =>
            Authentic(reducer[w].receipt, reducer[w].row.binding)

LedgerAuthentic ==
    \A i \in DOMAIN ledger :
        LET r == ledger[i].receipt
        IN  IsSession(r) => Authentic(r, deliveries[r.delivery].binding)

EvidenceInv == SourcesUnique /\ CommitsAuthentic /\ LedgerAuthentic

\* Validation makes a session receipt authentic.
LEMMA ProvesAuthentic ==
    ASSUME NEW r \in Receipts, NEW row \in DeliveryRow, NEW o \in Outcome,
           Proves(r, row, o), IsSession(r), r.binding = row.binding
    PROVE  Authentic(r, row.binding)
<1>1. SessionReceiptAuthentic(r, row)
  BY DEF Proves, Authenticates, IsSession
<1>2. /\ r.proof # None /\ r.source # None /\ r.source = LastEvent(r.proof).id
      /\ Binding[r.binding].provider = r.provider
      /\ MarkerValid(r.proof.marker, MarkerKey(r.delivery, row.binding),
                     r.observed)
      /\ Len(r.proof.events) = Len(ExpectedNames(r.class))
      /\ \A k \in DOMAIN r.proof.events :
            r.proof.events[k].name = ExpectedNames(r.class)[k]
      /\ r.proof.events[2].signature = r.proof.marker.signature
  BY <1>1 DEF SessionReceiptAuthentic, SessionProofValid, ChainValid,
     ChainCorrelated, Given
<1>3. /\ r.proof.marker.signature = Sign(SigningKey, r.proof.marker)
      /\ r.proof.marker.delivery = r.delivery
  BY <1>2 DEF MarkerValid, MarkerKey
<1> QED
  BY <1>2, <1>3 DEF Authentic

\* A reducer commits only authentic session receipts.
LEMMA NextCommitsAuthentic ==
    ASSUME TypeOK, ValidationOutlivesRead, CommitsAuthentic, [Next]_vars
    PROVE  CommitsAuthentic'
<1> SUFFICES ASSUME NEW w \in Reducers, reducer'[w].pc = "commit",
                    IsSession(reducer'[w].receipt)
             PROVE  Authentic(reducer'[w].receipt, reducer'[w].row.binding)
  BY DEF CommitsAuthentic, Authentic, IsSession
<1>1. CASE reducer'[w] = reducer[w]
  BY <1>1 DEF CommitsAuthentic
<1>2. CASE ReadDelivery(w)
  <2> DEFINE row == deliveries[reducer[w].receipt.delivery]
  <2>1. ~ Return(w, "rejected")
    BY DEF Return, Idle, TypeOK, ReducerTypeOK
  <2>2. Advance(w, [reducer[w] EXCEPT !.pc = "validate", !.row = row])
    BY <1>2, <2>1 DEF ReadDelivery
  <2>3. reducer'[w].pc = "validate"
    BY <2>2 DEF Advance, TypeOK, ReducerTypeOK, ReducerState
  <2> QED
    BY <2>3
<1>3. CASE Validate(w)
  <2> DEFINE r == reducer[w].receipt
             row == reducer[w].row
  <2>1. /\ reducer[w].pc = "validate" /\ r \in Receipts /\ row \in DeliveryRow
        /\ r.binding = row.binding
    BY <1>3 DEF Validate, TypeOK, ReducerTypeOK, ValidationOutlivesRead,
       ReadHolds
  <2>2. ~ Return(w, "rejected")
    BY DEF Return, Idle, TypeOK, ReducerTypeOK
  <2>3. PICK o \in Outcome :
          /\ Proves(r, row, o)
          /\ reducer' = [reducer EXCEPT ![w] =
                            [reducer[w] EXCEPT !.pc = "commit", !.outcome = o]]
    BY <1>3, <2>2 DEF Validate, Advance
  <2>4. reducer'[w].receipt = r /\ reducer'[w].row = row
    BY <2>3 DEF TypeOK, ReducerTypeOK, ReducerState
  <2> QED
    BY <2>1, <2>3, <2>4, ProvesAuthentic
<1> QED
  BY <1>1, <1>2, <1>3, ReducerChange

\* Session rows of the ledger stay authentic, and new ones are.
LEMMA NextLedgerAuthentic ==
    ASSUME IInv, EvidenceInv, [Next]_vars
    PROVE  LedgerAuthentic'
<1> SUFFICES ASSUME NEW i \in DOMAIN ledger', IsSession(ledger'[i].receipt)
             PROVE  Authentic(ledger'[i].receipt,
                              deliveries'[ledger'[i].receipt.delivery].binding)
  BY DEF LedgerAuthentic, Authentic, IsSession
<1>1. CASE i \in DOMAIN ledger
  <2>1. ledger'[i] = ledger[i]
    BY <1>1, LedgerGrows DEF IInv
  <2>2. /\ ledger[i].receipt.delivery \in DeliveryIds
        /\ deliveries[ledger[i].receipt.delivery].state # "absent"
    BY <1>1, RowsAreNat DEF IInv, LedgerSound
  <2>3. deliveries'[ledger[i].receipt.delivery].binding
           = deliveries[ledger[i].receipt.delivery].binding
    BY <2>2, DeliveriesPersist DEF IInv
  <2> QED
    BY <1>1, <2>1, <2>3 DEF EvidenceInv, LedgerAuthentic
<1>2. CASE i \notin DOMAIN ledger
  <2>1. PICK w \in Reducers : Accepts(w)
    BY <1>2, StepEffect DEF AddDelivery, SetDispatching, IInv
  <2> DEFINE r == reducer[w].receipt
  <2>2. r \in Receipts /\ r.delivery \in DeliveryIds /\ ledger'[i].receipt = r
    BY <1>2, <2>1, AcceptLedger DEF IInv
  <2>3. reducer[w].pc = "commit"
    BY <2>1 DEF Accepts
  <2>4. /\ reducer[w].row.binding = deliveries[r.delivery].binding
        /\ deliveries[r.delivery].state # "absent"
    BY <2>3 DEF IInv, ValidationOutlivesRead, ReadHolds
  <2>5. deliveries'[r.delivery].binding = deliveries[r.delivery].binding
    BY <2>2, <2>4, DeliveriesPersist DEF IInv
  <2> QED
    BY <2>2, <2>3, <2>4, <2>5 DEF EvidenceInv, CommitsAuthentic
<1> QED
  BY <1>1, <1>2

\* The UNIQUE constraint keeps a source event from a second row.
LEMMA NextSourcesUnique ==
    ASSUME TypeOK, SourcesUnique, [Next]_vars
    PROVE  SourcesUnique'
<1>1. CASE UNCHANGED ledger
  BY <1>1 DEF SourcesUnique
<1>2. ASSUME NEW w \in Reducers, Accepts(w)
      PROVE  SourcesUnique'
  <2> DEFINE r == reducer[w].receipt
             n == Len(ledger) + 1
  <2>1. /\ \A i : i \in DOMAIN ledger' <=> i \in DOMAIN ledger \/ i = n
        /\ \A i \in DOMAIN ledger : ledger'[i] = ledger[i]
        /\ ledger'[n].receipt = r
    BY <1>2, AcceptLedger
  <2>2. \A i \in DOMAIN ledger :
           ~ /\ r.source # None
             /\ ledger[i].receipt.source = r.source
             /\ ledger[i].receipt.provider = r.provider
    BY <1>2 DEF Accepts, AcceptReceipt, InsertCollides, SourceSeen
  <2> HIDE DEF r, n
  <2> QED
    BY <2>1, <2>2 DEF SourcesUnique
<1> QED
  BY <1>1, <1>2, StepEffect DEF AddDelivery, SetDispatching

\* The invariant about the evidence holds in every state of every run.
LEMMA EvidenceInvariant == Spec => []EvidenceInv
<1>1. Init => EvidenceInv
  <2> SUFFICES ASSUME Init PROVE EvidenceInv
    OBVIOUS
  <2>1. DOMAIN ledger = {} /\ \A w \in Reducers : reducer[w].pc = "idle"
    BY DEF Init, StoreInit, Idle
  <2> QED
    BY <2>1 DEF EvidenceInv, SourcesUnique, CommitsAuthentic, LedgerAuthentic
<1>2. IInv /\ EvidenceInv /\ [Next]_vars => EvidenceInv'
  BY NextCommitsAuthentic, NextLedgerAuthentic, NextSourcesUnique
     DEF EvidenceInv, IInv
<1> QED
  BY <1>1, <1>2, InvariantHolds, PTL DEF Spec

\* The three or four events of an authentic chain.
LEMMA AuthenticChain ==
    ASSUME NEW r \in Receipts, NEW b, IsSession(r), Authentic(r, b)
    PROVE  LET es == r.proof.events
           IN  /\ r.class \in EntryEvidence =>
                     Len(es) = 3 /\ r.source = es[3].id
               /\ r.class \notin EntryEvidence =>
                     /\ Len(es) = 4 /\ r.source = es[4].id
                     /\ es[4].name = "agent.hook.Stop"
               /\ es[2].name = "workspace.prompt.submitted"
               /\ es[3].name = "agent.hook.UserPromptSubmit"
               /\ es[2].signature[3] = r.delivery
<1> DEFINE es == r.proof.events
<1>1. DOMAIN es = 1..Len(es)
  BY ProofsAssumption DEF Authentic
<1>2. es[2].signature[3] = r.delivery
  BY DEF Authentic, Sign
<1>3. CASE r.class \in EntryEvidence
  <2>1. Len(es) = 3
    BY <1>3 DEF Authentic, ExpectedNames, PromptChain
  <2>2. \A k \in 1..3 : es[k].name = PromptChain[k]
    BY <1>1, <1>3, <2>1 DEF Authentic, ExpectedNames
  <2>3. es[2].name = PromptChain[2] /\ es[3].name = PromptChain[3]
    BY <2>2
  <2> QED
    BY <1>2, <1>3, <2>1, <2>3 DEF Authentic, PromptChain, LastEvent
<1>4. CASE r.class \notin EntryEvidence
  <2>1. /\ Len(CompletedChain) = 4
        /\ CompletedChain[2] = "workspace.prompt.submitted"
        /\ CompletedChain[3] = "agent.hook.UserPromptSubmit"
        /\ CompletedChain[4] = "agent.hook.Stop"
    BY DEF CompletedChain, PromptChain
  <2>2. Len(es) = 4
    BY <1>4, <2>1 DEF Authentic, ExpectedNames
  <2>3. \A k \in 1..4 : es[k].name = CompletedChain[k]
    BY <1>1, <1>4, <2>2 DEF Authentic, ExpectedNames
  <2>4. /\ es[2].name = CompletedChain[2] /\ es[3].name = CompletedChain[3]
        /\ es[4].name = CompletedChain[4]
    BY <2>3
  <2> QED
    BY <1>2, <1>4, <2>1, <2>2, <2>4 DEF Authentic, LastEvent
<1> QED
  BY <1>3, <1>4

\* Every session row has the entry row that its hook was accepted with.
LEMMA HookHasEntry ==
    ASSUME IInv, EvidenceInv, NEW i \in DOMAIN ledger,
           IsSession(ledger[i].receipt)
    PROVE  \E k \in DOMAIN ledger :
              LET r == ledger[i].receipt
                  e == ledger[k].receipt
              IN  /\ e.delivery = r.delivery
                  /\ e.provider = r.provider
                  /\ e.source = r.proof.events[3].id
                  /\ e.source # None
<1> DEFINE r == ledger[i].receipt
           b == deliveries[r.delivery].binding
<1>1. r \in Receipts /\ Authentic(r, b)
  BY RowsAreNat DEF IInv, EvidenceInv, LedgerAuthentic
<1>2. CASE r.class \in EntryEvidence
  <2>1. r.source = r.proof.events[3].id
    BY <1>1, <1>2, AuthenticChain
  <2> QED
    BY <1>1, <2>1 DEF Authentic
<1>3. CASE r.class \notin EntryEvidence
  <2>1. r.class = "harness.turn_completed"
    BY <1>3 DEF IsSession, SessionProofEvidence
  <2>2. PICK k \in DOMAIN ledger :
           /\ ledger[k].receipt.class \in EntryEvidence
           /\ ledger[k].receipt.delivery = r.delivery
           /\ ledger[k].receipt.proof.events = ChainBeforeLast(r.proof)
    BY <2>1 DEF IInv, ProcessedTurnWasEntered
  <2> DEFINE e == ledger[k].receipt
  <2>3. e \in Receipts /\ Authentic(e, b) /\ IsSession(e)
    BY <2>2, RowsAreNat
       DEF IInv, EvidenceInv, LedgerAuthentic, IsSession, SessionProofEvidence
  <2>4. e.source = e.proof.events[3].id
    BY <2>2, <2>3, AuthenticChain
  <2>5. Len(r.proof.events) = 4
    BY <1>1, <1>3, AuthenticChain
  <2>6. e.proof.events[3] = r.proof.events[3]
    BY <2>2, <2>5 DEF ChainBeforeLast
  <2>7. e.provider = r.provider /\ e.source # None
    BY <1>1, <2>3 DEF Authentic
  <2> QED
    BY <2>2, <2>4, <2>6, <2>7
<1> QED
  BY <1>2, <1>3

\* Two authentic chains for different deliveries share no event after the
\* first: names tell the positions apart, the signed delivery the prompts,
\* and the UNIQUE constraint the hooks and the Stops.
LEMMA ChainsDisjoint ==
    ASSUME IInv, EvidenceInv, NEW i \in DOMAIN ledger, NEW j \in DOMAIN ledger,
           ledger[i].receipt.delivery # ledger[j].receipt.delivery,
           IsSession(ledger[i].receipt), IsSession(ledger[j].receipt)
    PROVE  LET r == ledger[i].receipt
               s == ledger[j].receipt
           IN  /\ r.proof.events[2] # s.proof.events[2]
               /\ r.provider = s.provider =>
                     \A m \in 2..Len(r.proof.events),
                        n \in 2..Len(s.proof.events) :
                           r.proof.events[m] # s.proof.events[n]
<1> DEFINE r == ledger[i].receipt
           s == ledger[j].receipt
           es == r.proof.events
           fs == s.proof.events
<1>1. /\ r \in Receipts /\ Authentic(r, deliveries[r.delivery].binding)
      /\ s \in Receipts /\ Authentic(s, deliveries[s.delivery].binding)
  BY RowsAreNat DEF IInv, EvidenceInv, LedgerAuthentic
<1>2. /\ Len(es) \in {3, 4}
      /\ es[2].name = "workspace.prompt.submitted"
      /\ es[3].name = "agent.hook.UserPromptSubmit"
      /\ es[2].signature[3] = r.delivery
      /\ Len(es) = 4 => r.source = es[4].id /\ es[4].name = "agent.hook.Stop"
  BY <1>1, AuthenticChain
<1>3. /\ Len(fs) \in {3, 4}
      /\ fs[2].name = "workspace.prompt.submitted"
      /\ fs[3].name = "agent.hook.UserPromptSubmit"
      /\ fs[2].signature[3] = s.delivery
      /\ Len(fs) = 4 => s.source = fs[4].id /\ fs[4].name = "agent.hook.Stop"
  BY <1>1, AuthenticChain
<1>4. es[2] # fs[2]
  BY <1>2, <1>3
<1>5. r.provider = s.provider => es[3] # fs[3]
  <2>1. PICK k \in DOMAIN ledger :
           /\ ledger[k].receipt.delivery = r.delivery
           /\ ledger[k].receipt.provider = r.provider
           /\ ledger[k].receipt.source = es[3].id
           /\ ledger[k].receipt.source # None
    BY HookHasEntry
  <2>2. PICK l \in DOMAIN ledger :
           /\ ledger[l].receipt.delivery = s.delivery
           /\ ledger[l].receipt.provider = s.provider
           /\ ledger[l].receipt.source = fs[3].id
           /\ ledger[l].receipt.source # None
    BY HookHasEntry
  <2> QED
    BY <2>1, <2>2 DEF EvidenceInv, SourcesUnique
<1>6. r.provider = s.provider /\ Len(es) = 4 /\ Len(fs) = 4 => es[4] # fs[4]
  BY <1>1, <1>2, <1>3 DEF EvidenceInv, SourcesUnique, Authentic
<1> HIDE DEF r, s, es, fs
<1>7. ASSUME r.provider = s.provider,
             NEW m \in 2..Len(es), NEW n \in 2..Len(fs)
      PROVE  es[m] # fs[n]
  BY <1>2, <1>3, <1>4, <1>5, <1>6, <1>7
<1> QED
  BY <1>4, <1>7 DEF r, s, es, fs

\* One prompt, hook or Stop of the harness never advances two deliveries,
\* however many reducers validate it at once.
THEOREM EvidenceCorrect == Spec => []EvidenceIsNotShared
<1>1. IInv /\ EvidenceInv => EvidenceIsNotShared
  BY ChainsDisjoint DEF EvidenceIsNotShared, IsSession
<1> QED
  BY <1>1, InvariantHolds, EvidenceInvariant, PTL
-----------------------------------------------------------------------------
(***************************************************************************)
(* Seats without a binding, and collisions                                 *)
(***************************************************************************)
Early == {"absent", "queued", "dispatching"}

\* A commit that goes through is about a delivery that has a binding.
LEMMA AcceptIsBound ==
    ASSUME ValidationOutlivesRead, NEW w \in Reducers, Accepts(w)
    PROVE  deliveries[reducer[w].receipt.delivery].binding # None
<1>1. reducer[w].row.binding # None
  BY DEF Accepts, AcceptReceipt, InsertCollides
<1>2. ReadHolds(reducer[w])
  BY DEF Accepts, ValidationOutlivesRead
<1> QED
  BY <1>1, <1>2 DEF ReadHolds

\* No step moves a delivery without a binding past dispatching.
LEMMA NextUnbound ==
    ASSUME TypeOK, ValidationOutlivesRead, UnboundNeverAdvances, [Next]_vars
    PROVE  UnboundNeverAdvances'
<1>1. CASE UNCHANGED << deliveries, ledger >>
  BY <1>1 DEF UnboundNeverAdvances
<1>2. ASSUME NEW d \in DeliveryIds, NEW b \in NewBindings, AddDelivery(d, b)
      PROVE  UnboundNeverAdvances'
  BY <1>2 DEF AddDelivery, UnboundNeverAdvances, TypeOK, StoreTypeOK
<1>3. ASSUME NEW d \in DeliveryIds, SetDispatching(d)
      PROVE  UnboundNeverAdvances'
  BY <1>3 DEF SetDispatching, UnboundNeverAdvances, TypeOK, StoreTypeOK,
     DeliveryRow
<1>4. ASSUME NEW w \in Reducers, Accepts(w)
      PROVE  UnboundNeverAdvances'
  <2>1. PICK e \in DeliveryIds : e = reducer[w].receipt.delivery
    BY <1>4, AcceptEffect
  <2>2. deliveries[e].binding # None
    BY <1>4, <2>1, AcceptIsBound
  <2>3. /\ deliveries'[e] = [binding |-> deliveries[e].binding,
                            state |-> reducer[w].outcome.state,
                            disposition |-> reducer[w].outcome.disposition]
        /\ \A d \in DeliveryIds : d # e => deliveries'[d] = deliveries[d]
    BY <1>4, <2>1, AcceptEffect
  <2>4. deliveries'[e].binding = deliveries[e].binding
    BY <2>3
  <2> QED
    BY <2>2, <2>3, <2>4 DEF UnboundNeverAdvances
<1> QED
  BY <1>1, <1>2, <1>3, <1>4, StepEffect

\* An unbound delivery is never reported as submitted: only the NOT NULL of
\* receipts.binding_id keeps a receipt without a binding from it.
THEOREM UnboundCorrect == Spec => []UnboundNeverAdvances
<1>1. Init => UnboundNeverAdvances
  BY DEF Init, StoreInit, UnboundNeverAdvances
<1>2. IInv /\ UnboundNeverAdvances /\ [Next]_vars => UnboundNeverAdvances'
  BY NextUnbound DEF IInv
<1> QED
  BY <1>1, <1>2, InvariantHolds, PTL DEF Spec

\* Evidence other than a submit_ack names its binding and its source event.
Named(r) ==
    r.class # "transport.submit_ack" => Given(r.source) /\ r.binding # None

\* What the INSERT of r fell over.
Cause(r) == r.binding = None \/ ReceiptIdTaken(r) \/ SourceSeen(r)

\* What a reducer in state s knows of its receipt: a row without a binding
\* was read on its way out, evidence validated is named, and a collision met
\* still has its cause.
Knows(s) ==
    /\ s.pc # "idle" => s.verdict = None
    /\ s.pc = "validate" /\ s.row.binding = None => s.row.state \in Early
    /\ s.pc \in {"commit", "recover"} => Named(s.receipt)
    /\ s.pc = "recover" => Cause(s.receipt)

CollisionInv == \A w \in Reducers : Knows(reducer[w])

\* Rows are never deleted: what collides now collides for ever.
LEMMA KnowsPersists ==
    ASSUME TypeOK, [Next]_vars, NEW s, Knows(s)
    PROVE  Knows(s)'
<1>1. \A i \in DOMAIN ledger : i \in DOMAIN ledger' /\ ledger'[i] = ledger[i]
  BY LedgerGrows
<1>2. Cause(s.receipt) => Cause(s.receipt)'
  BY <1>1 DEF Cause, ReceiptIdTaken, SourceSeen
<1> QED
  BY <1>2 DEF Knows, Named, Given

\* Validated evidence is named.  For the harness classes the validator asks;
\* for the participant classes it asks for the source event only, but their
\* row was read past dispatching and so has a binding.
LEMMA ProvesNamed ==
    ASSUME NEW r \in Receipts, NEW row \in DeliveryRow, NEW o \in Outcome,
           Proves(r, row, o), r.binding = row.binding,
           row.binding = None => row.state \in Early
    PROVE  Named(r)
<1>1. CASE r.class \in ParticipantEvidence
  <2>1. ParticipantAuthentic(r, row)
    BY <1>1 DEF Proves, Authenticates
  <2> QED
    BY <2>1 DEF ParticipantAuthentic, Named, Early
<1>2. CASE r.class \in SessionProofEvidence
  <2>1. SessionReceiptAuthentic(r, row)
    BY <1>2 DEF Proves, Authenticates
  <2> QED
    BY <2>1 DEF SessionReceiptAuthentic, Named
<1>3. \/ r.class = "transport.submit_ack"
      \/ r.class \in ParticipantEvidence
      \/ r.class \in SessionProofEvidence
  BY DEF Proves, Authenticates, Yields, ParticipantEvidence,
     SessionProofEvidence
<1> QED
  BY <1>1, <1>2, <1>3 DEF Named

\* A step of reducer w that leaves it in a state s it may be in.
LEMMA MoveKnows ==
    ASSUME TypeOK, CollisionInv, [Next]_vars, NEW w \in Reducers, NEW s,
           reducer' = [reducer EXCEPT ![w] = s], Knows(s)
    PROVE  CollisionInv'
<1>1. /\ \A u \in Reducers : u # w => reducer'[u] = reducer[u]
      /\ reducer'[w] = s
  BY DEF TypeOK, ReducerTypeOK
<1>2. ASSUME NEW u \in Reducers
      PROVE  Knows(reducer[u])'
  <2>1. PICK t : t = reducer'[u]
    OBVIOUS
  <2>2. Knows(t)
    BY <1>1, <2>1 DEF CollisionInv
  <2>3. Knows(t)'
    BY <2>2, KnowsPersists
  <2>4. Knows(reducer[u])' <=> Knows(t)'
    BY <2>1 DEF Knows
  <2> QED
    BY <2>3, <2>4
<1> QED
  BY <1>2 DEF CollisionInv

\* A reducer that has returned knows nothing.
LEMMA ReturnKnows ==
    ASSUME TypeOK, CollisionInv, [Next]_vars, NEW w \in Reducers, NEW v,
           Return(w, v)
    PROVE  CollisionInv'
<1>1. Knows(Idle(v))
  BY DEF Knows, Idle
<1> QED
  BY <1>1, MoveKnows DEF Return

\* Every step keeps what the reducers know.
LEMMA NextCollision ==
    ASSUME TypeOK, ValidationOutlivesRead, UnboundNeverAdvances, CollisionInv,
           [Next]_vars
    PROVE  CollisionInv'
<1>1. ASSUME NEW w \in Reducers, NEW r \in Receipts, Submit(w, r)
      PROVE  CollisionInv'
  <2> DEFINE s == [Idle(None) EXCEPT !.pc = "read", !.receipt = r]
  <2>1. CASE Return(w, "rejected") \/ ExistingReceiptResult(w, r)
    BY <2>1, ReturnKnows DEF ExistingReceiptResult
  <2>2. CASE Advance(w, s)
    <3>1. Knows(s)
      BY DEF Knows, Idle
    <3> QED
      BY <2>2, <3>1, MoveKnows DEF Advance
  <2> QED
    BY <1>1, <2>1, <2>2 DEF Submit
<1>2. ASSUME NEW w \in Reducers, ReadDelivery(w)
      PROVE  CollisionInv'
  <2> DEFINE s == [reducer[w] EXCEPT !.pc = "validate",
                       !.row = deliveries[reducer[w].receipt.delivery]]
  <2>1. CASE Return(w, "rejected")
    BY <2>1, ReturnKnows
  <2>2. CASE Advance(w, s)
    <3>1. reducer[w].receipt.delivery \in DeliveryIds
      BY <1>2, ReceiptsAssumption DEF ReadDelivery, TypeOK, ReducerTypeOK
    <3>2. /\ s.pc = "validate" /\ s.verdict = reducer[w].verdict
          /\ s.row = deliveries[reducer[w].receipt.delivery]
      BY DEF TypeOK, ReducerTypeOK, ReducerState
    <3>3. Knows(s)
      BY <1>2, <3>1, <3>2
         DEF Knows, CollisionInv, ReadDelivery, UnboundNeverAdvances, Early
    <3> QED
      BY <2>2, <3>3, MoveKnows DEF Advance
  <2> QED
    BY <1>2, <2>1, <2>2 DEF ReadDelivery
<1>3. ASSUME NEW w \in Reducers, Validate(w)
      PROVE  CollisionInv'
  <2>1. CASE Return(w, "rejected")
    BY <2>1, ReturnKnows
  <2>2. ASSUME NEW o \in Outcome,
               Proves(reducer[w].receipt, reducer[w].row, o),
               Advance(w, [reducer[w] EXCEPT !.pc = "commit", !.outcome = o])
        PROVE  CollisionInv'
    <3> DEFINE s == [reducer[w] EXCEPT !.pc = "commit", !.outcome = o]
    <3>1. /\ reducer[w].receipt \in Receipts /\ reducer[w].row \in DeliveryRow
          /\ reducer[w].receipt.binding = reducer[w].row.binding
      BY <1>3 DEF Validate, TypeOK, ReducerTypeOK, ValidationOutlivesRead,
         ReadHolds
    <3>2. Named(reducer[w].receipt)
      BY <1>3, <2>2, <3>1, ProvesNamed DEF Validate, CollisionInv, Knows
    <3>3. /\ s.pc = "commit" /\ s.verdict = reducer[w].verdict
          /\ s.receipt = reducer[w].receipt
      BY DEF TypeOK, ReducerTypeOK, ReducerState
    <3>4. Knows(s)
      BY <1>3, <3>2, <3>3 DEF Knows, CollisionInv, Validate
    <3> QED
      BY <2>2, <3>4, MoveKnows DEF Advance
  <2> QED
    BY <1>3, <2>1, <2>2 DEF Validate
<1>4. ASSUME NEW w \in Reducers, Commit(w)
      PROVE  CollisionInv'
  <2> DEFINE s == [reducer[w] EXCEPT !.pc = "recover"]
  <2>1. CASE Return(w, "accepted") \/ Return(w, "delivery_state_changed")
    BY <2>1, ReturnKnows
  <2>2. CASE /\ InsertCollides(reducer[w].receipt, reducer[w].row)
             /\ Advance(w, s)
    <3>1. reducer[w].receipt.binding = reducer[w].row.binding
      BY <1>4 DEF Commit, ValidationOutlivesRead, ReadHolds
    <3>2. /\ s.pc = "recover" /\ s.verdict = reducer[w].verdict
          /\ s.receipt = reducer[w].receipt
      BY DEF TypeOK, ReducerTypeOK, ReducerState
    <3>3. Cause(reducer[w].receipt)
      BY <2>2, <3>1 DEF InsertCollides, Cause
    <3>4. Knows(s)
      BY <1>4, <3>2, <3>3 DEF Knows, CollisionInv, Commit
    <3> QED
      BY <2>2, <3>4, MoveKnows DEF Advance
  <2> QED
    BY <1>4, <2>1, <2>2 DEF Commit
<1>5. ASSUME NEW w \in Reducers, RecoverIntegrityCollision(w) \/ Crash(w)
      PROVE  CollisionInv'
  BY <1>5, ReturnKnows
     DEF RecoverIntegrityCollision, ExistingReceiptResult, Crash
<1>6. CASE StoreStep \/ UNCHANGED vars
  <2>1. UNCHANGED reducer
    BY <1>6 DEF StoreStep, vars
  <2>2. ASSUME NEW u \in Reducers
        PROVE  Knows(reducer[u])'
    <3>1. PICK t : t = reducer[u]
      OBVIOUS
    <3>2. Knows(t)'
      BY <3>1, KnowsPersists DEF CollisionInv
    <3> QED
      BY <2>1, <3>1, <3>2 DEF Knows
  <2> QED
    BY <2>2 DEF CollisionInv
<1> QED
  BY <1>1, <1>2, <1>3, <1>4, <1>5, <1>6 DEF Next, ReducerStep

\* The storage is blamed only by a recovery that found neither winner.
LEMMA BlameIsRecovery ==
    ASSUME TypeOK, CollisionInv, [Next]_vars, NEW w \in Reducers,
           reducer[w].pc = "recover",
           reducer'[w].verdict = "storage_integrity_error"
    PROVE  LET r == reducer[w].receipt
           IN  ~ ReceiptIdTaken(r) /\ ~ (r.source # Blank /\ SourceSeen(r))
<1> USE VerdictsAssumption DEF Verdicts
<1>1. reducer[w].verdict # "storage_integrity_error"
  BY DEF CollisionInv, Knows
<1>2. ASSUME NEW v, Return(w, v)
      PROVE  v = "storage_integrity_error"
  BY <1>2 DEF Return, Idle, TypeOK, ReducerTypeOK
<1>3. ASSUME NEW u \in Reducers,
             \E v : Return(u, v)
      PROVE  u = w
  BY <1>1, <1>3 DEF Return, TypeOK, ReducerTypeOK
<1>4. ASSUME NEW u \in Reducers, NEW r \in Receipts, Submit(u, r)
      PROVE  FALSE
  BY <1>1, <1>4 DEF Submit, Return, Advance, ExistingReceiptResult, TypeOK,
     ReducerTypeOK
<1>5. ASSUME NEW u \in Reducers, ReadDelivery(u) \/ Validate(u) \/ Commit(u)
      PROVE  FALSE
  BY <1>1, <1>5 DEF ReadDelivery, Validate, Commit, Return, Advance, TypeOK,
     ReducerTypeOK
<1>6. ASSUME NEW u \in Reducers, Crash(u)
      PROVE  FALSE
  BY <1>2, <1>3, <1>6 DEF Crash
<1>7. ~ (StoreStep \/ UNCHANGED vars)
  BY <1>1 DEF StoreStep, vars
<1>8. PICK u \in Reducers : RecoverIntegrityCollision(u)
  BY <1>4, <1>5, <1>6, <1>7 DEF Next, ReducerStep
<1>9. u = w
  BY <1>3, <1>8 DEF RecoverIntegrityCollision, ExistingReceiptResult
<1> QED
  BY <1>2, <1>8, <1>9 DEF RecoverIntegrityCollision, ExistingReceiptResult

\* Evidence of a session or a participant that falls over the INSERT is
\* always answered by the winner it lost to; the storage is blamed only for
\* a submit_ack without a binding or with an empty source id.
THEOREM CollisionCorrect == Spec => CollisionIsExplained
<1>1. Init => CollisionInv
  BY DEF Init, Idle, CollisionInv, Knows
<1>2. /\ IInv /\ UnboundNeverAdvances /\ CollisionInv /\ [Next]_vars
      => CollisionInv'
  BY NextCollision DEF IInv
<1>3. ASSUME TypeOK, CollisionInv, [Next]_vars, NEW w \in Reducers,
             reducer[w].pc = "recover",
             reducer'[w].verdict = "storage_integrity_error"
      PROVE  /\ reducer[w].receipt.class = "transport.submit_ack"
             /\ \/ reducer[w].receipt.binding = None
                \/ reducer[w].receipt.source = Blank
  <2>1. Knows(reducer[w])
    BY <1>3 DEF CollisionInv
  <2>2. /\ ~ ReceiptIdTaken(reducer[w].receipt)
        /\ ~ /\ reducer[w].receipt.source # Blank
             /\ SourceSeen(reducer[w].receipt)
    BY <1>3, BlameIsRecovery
  <2> QED
    BY <1>3, <2>1, <2>2 DEF Knows, Cause, Named, Given
<1>4. /\ IInv /\ CollisionInv /\ [Next]_vars
      => [\A w \in Reducers :
             /\ reducer[w].pc = "recover"
             /\ reducer'[w].verdict = "storage_integrity_error"
             => /\ reducer[w].receipt.class = "transport.submit_ack"
                /\ \/ reducer[w].receipt.binding = None
                   \/ reducer[w].receipt.source = Blank]_vars
  BY <1>3 DEF IInv
<1> QED
  BY <1>1, <1>2, <1>4, InvariantHolds, UnboundCorrect, PTL
     DEF Spec, CollisionIsExplained
-----------------------------------------------------------------------------
(***************************************************************************)
(* An accepted receipt stands                                              *)
(***************************************************************************)
\* Of the row that was read, a receipt is judged by binding and state.
Judged(b, state) == [binding |-> b, state |-> state]

\* r is about a row with binding b and proves outcome o from this state.
Stands(r, b, state, o) ==
    KeysMatch(r, Judged(b, state)) /\ Authenticates(r, Judged(b, state), o)

CommitsStand ==
    \A w \in Reducers :
        LET r   == reducer[w].receipt
            row == reducer[w].row
        IN  /\ reducer[w].pc \in {"validate", "commit"} => KeysMatch(r, row)
            /\ reducer[w].pc = "commit" =>
                  Stands(r, row.binding, row.state, reducer[w].outcome)

LedgerStands ==
    \A i \in DOMAIN ledger :
        LET r == ledger[i].receipt
        IN  Stands(r, deliveries[r.delivery].binding, ledger[i].from,
                   Result(ledger[i].to, ledger[i].disposition))

LEMMA JudgedRow ==
    ASSUME NEW r, NEW row, NEW o, NEW b, NEW state,
           b = row.binding, state = row.state
    PROVE  /\ KeysMatch(r, row) <=> KeysMatch(r, Judged(b, state))
           /\ Authenticates(r, row, o) <=>
                 Authenticates(r, Judged(b, state), o)
<1> DEFINE j == Judged(b, state)
<1>1. j.binding = row.binding /\ j.state = row.state
  BY DEF Judged
<1> HIDE DEF j
<1>2. KeysMatch(r, row) <=> KeysMatch(r, j)
  BY <1>1 DEF KeysMatch
<1>3. Yields(r, row, o) <=> Yields(r, j, o)
  BY <1>1 DEF Yields
<1>4. ParticipantAuthentic(r, row) <=> ParticipantAuthentic(r, j)
  BY <1>1 DEF ParticipantAuthentic
<1>5. SessionReceiptAuthentic(r, row) <=> SessionReceiptAuthentic(r, j)
  BY <1>1 DEF SessionReceiptAuthentic
<1> QED
  BY <1>2, <1>3, <1>4, <1>5 DEF Authenticates, j

\* Providers, principals and message bindings are only ever added.
LEMMA TablesGrow ==
    ASSUME TypeOK, [Next]_vars
    PROVE  /\ principals \subseteq principals'
           /\ messages \subseteq messages'
           /\ \A p \in ProviderIds :
                 providers[p] # "absent" => providers'[p] # "absent"
<1> USE DEF TypeOK, StoreTypeOK
<1>1. CASE StoreStep
  BY <1>1 DEF StoreStep, RegisterProvider, RegisterSessionBinding,
     RevokeSessionBinding, SupersedeRead, SupersedeWrite, BindPrincipal,
     BindPlatformMessage, AddDelivery, SetDispatching
<1>2. ASSUME NEW r \in Receipts, MarkProviderDegraded(r.provider)
      PROVE  /\ principals' = principals /\ messages' = messages
             /\ \A p \in ProviderIds :
                   providers[p] # "absent" => providers'[p] # "absent"
  BY <1>2 DEF MarkProviderDegraded
<1>3. ASSUME NEW w \in Reducers, NEW r \in Receipts,
             ExistingReceiptResult(w, r)
      PROVE  \/ UNCHANGED << principals, messages, providers >>
             \/ MarkProviderDegraded(r.provider)
  BY <1>3 DEF ExistingReceiptResult, storeVars
<1>4. ASSUME NEW w \in Reducers, NEW r \in Receipts, Submit(w, r)
      PROVE  \/ UNCHANGED << principals, messages, providers >>
             \/ MarkProviderDegraded(r.provider)
  BY <1>3, <1>4 DEF Submit, storeVars
<1>5. ASSUME NEW w \in Reducers, ReducerStep(w)
      PROVE  \/ UNCHANGED << principals, messages, providers >>
             \/ \E r \in Receipts : MarkProviderDegraded(r.provider)
  <2>1. CASE RecoverIntegrityCollision(w)
    <3>1. reducer[w].receipt \in Receipts
      BY <2>1 DEF RecoverIntegrityCollision, ReducerTypeOK
    <3> QED
      BY <1>3, <2>1, <3>1 DEF RecoverIntegrityCollision, storeVars
  <2>2. CASE ReadDelivery(w) \/ Validate(w) \/ Commit(w)
    BY <2>2 DEF ReadDelivery, Validate, Commit, AcceptReceipt, storeVars
  <2> QED
    BY <1>5, <2>1, <2>2 DEF ReducerStep
<1>6. ASSUME NEW w \in Reducers, Crash(w)
      PROVE  UNCHANGED << principals, messages, providers >>
  BY <1>6 DEF Crash, storeVars
<1>7. CASE UNCHANGED vars
  BY <1>7 DEF vars, storeVars
<1> QED
  BY <1>1, <1>2, <1>4, <1>5, <1>6, <1>7 DEF Next

\* So what stands goes on standing.
LEMMA StandsPersists ==
    ASSUME TypeOK, [Next]_vars, NEW r \in Receipts, NEW b, NEW state, NEW o,
           Stands(r, b, state, o)
    PROVE  Stands(r, b, state, o)'
<1> DEFINE j == Judged(b, state)
<1>1. ProviderDeclares(r.provider, r.class) =>
         ProviderDeclares(r.provider, r.class)'
  BY TablesGrow, ReceiptsAssumption DEF ProviderDeclares
<1>2. PrincipalMatches(r) => PrincipalMatches(r)'
  BY TablesGrow DEF PrincipalMatches
<1>3. MessageBindingMatches(r) => MessageBindingMatches(r)'
  BY TablesGrow DEF MessageBindingMatches
<1>4. Yields(r, j, o) => Yields(r, j, o)'
  BY <1>3 DEF Yields
<1>5. ParticipantAuthentic(r, j) => ParticipantAuthentic(r, j)'
  BY <1>2, <1>3 DEF ParticipantAuthentic
<1>6. Authenticates(r, j, o) => Authenticates(r, j, o)'
  BY <1>1, <1>4, <1>5 DEF Authenticates
<1> QED
  BY <1>6 DEF Stands

\* What a reducer is about to commit stands.
LEMMA NextCommitsStand ==
    ASSUME TypeOK, CommitsStand, [Next]_vars
    PROVE  CommitsStand'
<1> SUFFICES ASSUME NEW w \in Reducers,
                    reducer'[w].pc \in {"validate", "commit"}
             PROVE  /\ KeysMatch(reducer'[w].receipt, reducer'[w].row)
                    /\ reducer'[w].pc = "commit" =>
                          Stands(reducer[w].receipt, reducer[w].row.binding,
                                 reducer[w].row.state, reducer[w].outcome)'
  BY DEF CommitsStand, KeysMatch
<1> DEFINE r == reducer[w].receipt
           row == reducer[w].row
<1>1. CASE reducer'[w] = reducer[w]
  <2>1. r \in Receipts
    BY <1>1 DEF TypeOK, ReducerTypeOK
  <2>2. PICK q, b, state, o :
           /\ q \in Receipts
           /\ q = r /\ b = row.binding /\ state = row.state
           /\ o = reducer[w].outcome
    BY <2>1
  <2>3. reducer[w].pc = "commit" => Stands(q, b, state, o)
    BY <2>2 DEF CommitsStand
  <2>4. reducer[w].pc = "commit" => Stands(q, b, state, o)'
    BY <2>2, <2>3, StandsPersists
  <2>5. /\ reducer'[w].receipt = q /\ reducer'[w].row.binding = b
        /\ reducer'[w].row.state = state /\ reducer'[w].outcome = o
        /\ reducer'[w].pc = reducer[w].pc
    BY <1>1, <2>2
  <2>6. KeysMatch(reducer'[w].receipt, reducer'[w].row)
    BY <1>1 DEF CommitsStand
  <2> QED
    BY <2>4, <2>5, <2>6
<1>2. CASE ReadDelivery(w)
  <2> DEFINE new == deliveries[r.delivery]
  <2>1. ~ Return(w, "rejected")
    BY DEF Return, Idle, TypeOK, ReducerTypeOK
  <2>2. /\ KeysMatch(r, new)
        /\ Advance(w, [reducer[w] EXCEPT !.pc = "validate", !.row = new])
    BY <1>2, <2>1 DEF ReadDelivery
  <2>3. /\ reducer'[w].pc = "validate" /\ reducer'[w].receipt = r
        /\ reducer'[w].row = new
    BY <2>2 DEF Advance, TypeOK, ReducerTypeOK, ReducerState
  <2> QED
    BY <2>2, <2>3
<1>3. CASE Validate(w)
  <2>1. /\ reducer[w].pc = "validate" /\ r \in Receipts /\ row \in DeliveryRow
        /\ KeysMatch(r, row)
    BY <1>3 DEF Validate, TypeOK, ReducerTypeOK, CommitsStand
  <2>2. ~ Return(w, "rejected")
    BY DEF Return, Idle, TypeOK, ReducerTypeOK
  <2>3. PICK o \in Outcome :
          /\ Proves(r, row, o)
          /\ reducer' = [reducer EXCEPT ![w] =
                            [reducer[w] EXCEPT !.pc = "commit", !.outcome = o]]
    BY <1>3, <2>2 DEF Validate, Advance
  <2>4. /\ reducer'[w].receipt = r /\ reducer'[w].row = row
        /\ reducer'[w].outcome = o
    BY <2>3 DEF TypeOK, ReducerTypeOK, ReducerState
  <2>5. PICK q, old, b, state :
           /\ q \in Receipts
           /\ q = r /\ old = row /\ b = old.binding /\ state = old.state
    BY <2>1
  <2>6. Stands(q, b, state, o)
    BY <2>1, <2>3, <2>5, JudgedRow DEF Proves, Stands
  <2>7. Stands(q, b, state, o)'
    BY <2>5, <2>6, StandsPersists
  <2> QED
    BY <2>1, <2>4, <2>5, <2>7
<1> QED
  BY <1>1, <1>2, <1>3, ReducerChange

\* The rows of the ledger stand, and so do new ones.
LEMMA NextLedgerStands ==
    ASSUME IInv, CommitsStand, LedgerStands, [Next]_vars
    PROVE  LedgerStands'
<1> SUFFICES ASSUME NEW i \in DOMAIN ledger'
             PROVE  Stands(ledger[i].receipt,
                           deliveries[ledger[i].receipt.delivery].binding,
                           ledger[i].from,
                           Result(ledger[i].to, ledger[i].disposition))'
  BY DEF LedgerStands
<1>1. CASE i \in DOMAIN ledger
  <2>1. ledger'[i] = ledger[i]
    BY <1>1, LedgerGrows DEF IInv
  <2>2. /\ ledger[i].receipt \in Receipts
        /\ ledger[i].receipt.delivery \in DeliveryIds
        /\ deliveries[ledger[i].receipt.delivery].state # "absent"
    BY <1>1, RowsAreNat DEF IInv, LedgerSound
  <2>3. PICK q, b, state, o :
           /\ q \in Receipts
           /\ q = ledger[i].receipt /\ b = deliveries[q.delivery].binding
           /\ state = ledger[i].from
           /\ o = Result(ledger[i].to, ledger[i].disposition)
    BY <2>2
  <2>4. Stands(q, b, state, o)
    BY <1>1, <2>3 DEF LedgerStands
  <2>5. Stands(q, b, state, o)'
    BY <2>3, <2>4, StandsPersists DEF IInv
  <2>6. deliveries'[q.delivery].binding = b
    BY <2>2, <2>3, DeliveriesPersist DEF IInv
  <2>7. o = Result(ledger'[i].to, ledger'[i].disposition)
    BY <2>1, <2>3
  <2> QED
    BY <2>1, <2>3, <2>5, <2>6, <2>7
<1>2. CASE i \notin DOMAIN ledger
  <2>1. PICK w \in Reducers : Accepts(w)
    BY <1>2, StepEffect DEF AddDelivery, SetDispatching, IInv
  <2> DEFINE r == reducer[w].receipt
  <2>2. /\ r \in Receipts /\ r.delivery \in DeliveryIds
        /\ ledger'[i].receipt = r
        /\ ledger'[i].from = deliveries[r.delivery].state
        /\ ledger'[i].to = reducer[w].outcome.state
        /\ ledger'[i].disposition = reducer[w].outcome.disposition
    BY <1>2, <2>1, AcceptLedger DEF IInv
  <2>3. reducer[w].pc = "commit" /\ reducer[w].outcome \in Outcome
    BY <2>1 DEF Accepts, IInv, TypeOK, ReducerTypeOK
  <2>4. /\ reducer[w].row.binding = deliveries[r.delivery].binding
        /\ deliveries[r.delivery].state # "absent"
    BY <2>3 DEF IInv, ValidationOutlivesRead, ReadHolds
  <2>5. reducer[w].row.state = deliveries[r.delivery].state
    BY <2>1, AcceptEffect DEF IInv
  <2>6. deliveries'[r.delivery].binding = deliveries[r.delivery].binding
    BY <2>2, <2>4, DeliveriesPersist DEF IInv
  <2>7. PICK q, b, state, o :
           /\ q \in Receipts
           /\ q = r /\ b = deliveries[q.delivery].binding
           /\ state = deliveries[q.delivery].state
           /\ o = reducer[w].outcome
    BY <2>2
  <2>8. Stands(q, b, state, o)
    BY <2>3, <2>4, <2>5, <2>7 DEF CommitsStand
  <2>9. Stands(q, b, state, o)'
    BY <2>7, <2>8, StandsPersists DEF IInv
  <2>10. o = Result(ledger'[i].to, ledger'[i].disposition)
    <3>1. \A x \in Outcome : x = Result(x.state, x.disposition)
      BY DEF Outcome, Result
    <3> QED
      BY <2>2, <2>3, <2>7, <3>1
  <2> QED
    BY <2>2, <2>6, <2>7, <2>9, <2>10
<1> QED
  BY <1>1, <1>2

\* An accepted receipt stands: judged again at any later time it has the
\* outcome that its audit row records, whatever reducers raced to commit and
\* whatever was registered, bound or revoked in between, so that no receipt
\* whatsoever advances a delivery without the evidence that submit asks for
\* (core/README, "The reducer rejects ...").
THEOREM LedgerCorrect == Spec => []LedgerIsAuditable
<1>1. Init => CommitsStand /\ LedgerStands
  <2> SUFFICES ASSUME Init PROVE CommitsStand /\ LedgerStands
    OBVIOUS
  <2>1. DOMAIN ledger = {} /\ \A w \in Reducers : reducer[w].pc = "idle"
    BY DEF Init, StoreInit, Idle
  <2> QED
    BY <2>1 DEF CommitsStand, LedgerStands
<1>2. /\ IInv /\ CommitsStand /\ LedgerStands /\ [Next]_vars
      => CommitsStand' /\ LedgerStands'
  BY NextCommitsStand, NextLedgerStands DEF IInv
<1>3. IInv /\ LedgerStands => LedgerIsAuditable
  <2> SUFFICES ASSUME IInv, LedgerStands, NEW i \in DOMAIN ledger
               PROVE  LET r   == ledger[i].receipt
                          row == [deliveries[r.delivery] EXCEPT
                                     !.state = ledger[i].from]
                      IN  /\ KeysMatch(r, row)
                          /\ Authenticates(r, row,
                                Result(ledger[i].to, ledger[i].disposition))
    BY DEF LedgerIsAuditable
  <2> DEFINE r == ledger[i].receipt
             row == [deliveries[r.delivery] EXCEPT !.state = ledger[i].from]
             o == Result(ledger[i].to, ledger[i].disposition)
  <2>1. r.delivery \in DeliveryIds
    BY RowsAreNat DEF IInv
  <2>2. /\ row.state = ledger[i].from
        /\ row.binding = deliveries[r.delivery].binding
    BY <2>1 DEF IInv, TypeOK, StoreTypeOK, DeliveryRow
  <2>3. Stands(r, deliveries[r.delivery].binding, ledger[i].from, o)
    BY DEF LedgerStands
  <2> HIDE DEF r, row, o
  <2>4. KeysMatch(r, row) /\ Authenticates(r, row, o)
    BY <2>2, <2>3, JudgedRow DEF Stands
  <2> QED
    BY <2>4 DEF r, row, o
<1> QED
  BY <1>1, <1>2, <1>3, InvariantHolds, PTL DEF Spec
=============================================================================
