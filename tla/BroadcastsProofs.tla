-------------------------- MODULE BroadcastsProofs --------------------------
(***************************************************************************)
(* Theorems about Broadcasts, for every set of seats, bindings, receipts   *)
(* and reducers: what a broadcast froze, what its rollup says, and that    *)
(* the reducers keep their invariants beside the kernel.                   *)
(***************************************************************************)
EXTENDS Broadcasts, ReceiptReducerProofs

Kernels ==
    {Ready}
    \cup [pc : {"expand"}, id : BroadcastIds, actor : Actors, accepted : Times]
    \cup [pc : {"insert"}, id : BroadcastIds, actor : Actors, accepted : Times,
          rows : Seq(RecipientRow)]

RoomTypeOK ==
    /\ roster \in Seq(Members)
    /\ broadcasts \in [BroadcastIds -> BroadcastRow \cup {None}]
    /\ kernel \in Kernels
    /\ lock \in Connections \cup {None}

\* The kernel has the write lock while it expands a broadcast that is not in
\* the tables yet, so what it has read is still what it would read.
KernelHolds ==
    /\ kernel.pc # "idle" => lock = "kernel" /\ broadcasts[kernel.id] = None
    /\ kernel.pc = "insert" =>
          kernel.rows = Expansion(kernel.id, kernel.actor, kernel.accepted)

\* Nothing is queued for a broadcast that is not in the tables.
NothingQueuedEarly ==
    \A x \in BroadcastIds :
        broadcasts[x] = None =>
            \A s \in Members : deliveries[<< x, s >>].state = "absent"

\* Row i of broadcast x is queued under the binding that was frozen.
RowQueued(x, row) ==
    /\ row.delivery = << x, row.recipient >>
    /\ row.recipient \in Members
    /\ deliveries[row.delivery].state # "absent"
    /\ deliveries[row.delivery].binding = row.binding
    /\ row.binding # None => bindings[row.binding] # "absent"

RowsQueued ==
    \A x \in BroadcastIds :
        broadcasts[x] # None =>
            \A i \in DOMAIN broadcasts[x].rows : RowQueued(x, broadcasts[x].rows[i])

SessionBoundOnly ==
    \A d \in DeliveryIds :
        deliveries[d].state # "absent" => Key[d].mode = "session-bound"

\* Row k is the transport's receipt for delivery d under its binding.
Pays(k, d) ==
    /\ ledger[k].receipt.delivery = d
    /\ ledger[k].receipt.class = "transport.submit_ack"
    /\ ledger[k].receipt.binding = deliveries[d].binding

SubmitRecorded ==
    \A d \in DeliveryIds :
        deliveries[d].state \in DeliveredStates =>
            \E k \in DOMAIN ledger : Pays(k, d)

BInv ==
    /\ IInv
    /\ OneActiveBinding
    /\ RoomTypeOK
    /\ KernelHolds
    /\ NothingQueuedEarly
    /\ RowsQueued
    /\ SessionBoundOnly
    /\ SubmitRecorded
-----------------------------------------------------------------------------
(***************************************************************************)
(* Steps                                                                   *)
(***************************************************************************)
\* Every step but the kernel's INSERTs is a step of the store and its
\* reducers, or leaves them alone.
LEMMA StepOfStore ==
    ASSUME [BroadcastNext]_broadcastVars
    PROVE  [Next]_vars \/ Insert
<1>1. ASSUME NEW c \in Connections, StoreWrite(c)
      PROVE  Next
  BY <1>1 DEF StoreWrite, Next, StoreStep
<1>2. CASE StoreRead
  BY <1>2 DEF StoreRead, Next, StoreStep
<1>3. ASSUME NEW w \in Reducers, ReducerMoves(w)
      PROVE  Next
  BY <1>3 DEF ReducerMoves, Next
<1>4. ASSUME NEW c \in Connections,
             \/ StoreRefusal(c)
             \/ \E members \in Rosters : ReplaceRoomRoster(c, members)
             \/ ConnectionCrash(c)
      PROVE  UNCHANGED vars
  BY <1>4 DEF StoreRefusal, ReplaceRoomRoster, ConnectionCrash
<1>5. ASSUME NEW x \in BroadcastIds, NEW actor \in Actors, NEW at \in Times,
             Begin(x, actor, at)
      PROVE  UNCHANGED vars
  BY <1>5 DEF Begin
<1>6. CASE Expand
  BY <1>6 DEF Expand
<1>7. CASE UNCHANGED broadcastVars
  BY <1>7 DEF broadcastVars
<1> QED
  BY <1>1, <1>2, <1>3, <1>4, <1>5, <1>6, <1>7 DEF BroadcastNext

\* What the steps do to the roster, the broadcasts, the kernel and the lock.
LEMMA RoomEffect ==
    ASSUME [BroadcastNext]_broadcastVars
    PROVE  \/ /\ UNCHANGED roomVars
              /\ \E c \in Connections : MayWrite(c) /\ lock' \in {None, c}
           \/ UNCHANGED << roomVars, lock, bindings >>
           \/ \E c \in Connections, members \in Rosters :
                 ReplaceRoomRoster(c, members)
           \/ \E c \in Connections : ConnectionCrash(c)
           \/ \E x \in BroadcastIds, actor \in Actors, at \in Times :
                 Begin(x, actor, at)
           \/ Expand
           \/ Insert
<1>1. ASSUME NEW c \in Connections, StoreWrite(c) \/ StoreRefusal(c)
      PROVE  UNCHANGED roomVars /\ MayWrite(c) /\ lock' \in {None, c}
  BY <1>1 DEF StoreWrite, StoreRefusal
<1>2. CASE StoreRead
  BY <1>2 DEF StoreRead, SupersedeRead
<1>3. ASSUME NEW w \in Reducers, ReducerMoves(w)
      PROVE  UNCHANGED << roomVars, lock, bindings >>
  BY <1>3 DEF ReducerMoves, Submit, ExistingReceiptResult,
     MarkProviderDegraded, ReducerStep, ReadDelivery, Validate, Commit,
     AcceptReceipt, RecoverIntegrityCollision, Crash, storeVars
<1>4. CASE UNCHANGED broadcastVars
  BY <1>4 DEF broadcastVars, vars, storeVars
<1> QED
  BY <1>1, <1>2, <1>3, <1>4 DEF BroadcastNext
-----------------------------------------------------------------------------
(***************************************************************************)
(* Expansion and the INSERTs                                               *)
(***************************************************************************)
\* A broadcast to a member of a roster has a session-bound delivery.
LEMMA MemberDeliveries ==
    ASSUME NEW x \in BroadcastIds, NEW s \in Members
    PROVE  /\ << x, s >> \in DeliveryIds
           /\ Key[<< x, s >>].mode = "session-bound"
<1>1. PICK rs \in Rosters : s \in {rs[i] : i \in DOMAIN rs}
  BY DEF Members
<1>2. PICK i \in DOMAIN rs : s = rs[i]
  BY <1>1
<1>3. << x, rs[i] >> \in DeliveryIds /\ Key[<< x, rs[i] >>].mode = "session-bound"
  BY RostersAssumption
<1> QED
  BY <1>2, <1>3

\* Removing the actor leaves a sequence of members.
LEMMA RecipientsAreMembers ==
    ASSUME RoomTypeOK, NEW actor
    PROVE  RosterWithout(actor) \in Seq(Members)
<1> DEFINE i == CHOOSE k \in DOMAIN roster : roster[k] = actor
<1>1. roster \in Seq(Members)
  BY DEF RoomTypeOK
<1>2. CASE \E k \in DOMAIN roster : roster[k] = actor
  <2>1. i \in 1..Len(roster)
    BY <1>1, <1>2
  <2> HIDE DEF i
  <2>2. /\ SubSeq(roster, 1, i - 1) \in Seq(Members)
        /\ SubSeq(roster, i + 1, Len(roster)) \in Seq(Members)
    BY <1>1, <2>1
  <2> QED
    BY <1>2, <2>2 DEF RosterWithout, i
<1>3. CASE ~ \E k \in DOMAIN roster : roster[k] = actor
  BY <1>1, <1>3 DEF RosterWithout
<1> QED
  BY <1>2, <1>3

\* A binding that is frozen is active at that moment.
LEMMA FrozenIsActive ==
    ASSUME NEW s, NEW at, NEW b, b = ActiveSessionBindingFor(s, at)
    PROVE  /\ b \in BindingIds \cup {None}
           /\ b # None => bindings[b] = "active"
<1> DEFINE inForce == {c \in BindingIds : /\ Binding[c].recipient = s
                                          /\ bindings[c] = "active"
                                          /\ Binding[c].established =< at
                                          /\ at < Binding[c].expires}
<1>1. CASE inForce = {}
  BY <1>1 DEF ActiveSessionBindingFor
<1>2. CASE inForce # {}
  <2>1. b = CHOOSE c \in inForce : TRUE
    BY <1>2 DEF ActiveSessionBindingFor
  <2>2. b \in inForce
    BY <1>2, <2>1
  <2> QED
    BY <2>2
<1> QED
  BY <1>1, <1>2

\* The rows of an expansion.
LEMMA ExpansionRows ==
    ASSUME RoomTypeOK, NEW x \in BroadcastIds, NEW actor, NEW at,
           NEW rows, rows = Expansion(x, actor, at)
    PROVE  /\ rows \in Seq(RecipientRow)
           /\ \A i \in DOMAIN rows :
                 /\ rows[i].recipient \in Members
                 /\ rows[i].delivery = << x, rows[i].recipient >>
                 /\ rows[i].delivery \in DeliveryIds
                 /\ rows[i].binding = ActiveSessionBindingFor(rows[i].recipient, at)
                 /\ rows[i].binding \in BindingIds \cup {None}
                 /\ rows[i].binding # None => bindings[rows[i].binding] = "active"
<1>1. PICK recipients \in Seq(Members) : recipients = RosterWithout(actor)
  BY RecipientsAreMembers
<1>2. rows = [i \in DOMAIN recipients |->
                [recipient |-> recipients[i],
                 binding |-> ActiveSessionBindingFor(recipients[i], at),
                 delivery |-> << x, recipients[i] >>]]
  BY <1>1 DEF Expansion
<1>3. ASSUME NEW i \in DOMAIN recipients
      PROVE  /\ rows[i] \in RecipientRow
             /\ rows[i].recipient \in Members
             /\ rows[i].delivery = << x, rows[i].recipient >>
             /\ rows[i].delivery \in DeliveryIds
             /\ rows[i].binding = ActiveSessionBindingFor(rows[i].recipient, at)
             /\ rows[i].binding \in BindingIds \cup {None}
             /\ rows[i].binding # None => bindings[rows[i].binding] = "active"
  <2>1. PICK s \in Members : s = recipients[i]
    BY <1>1
  <2>2. PICK b : b = ActiveSessionBindingFor(s, at)
    OBVIOUS
  <2>3. rows[i] = [recipient |-> s, binding |-> b, delivery |-> << x, s >>]
    BY <1>2, <2>1, <2>2
  <2>4. /\ b \in BindingIds \cup {None} /\ (b # None => bindings[b] = "active")
        /\ << x, s >> \in DeliveryIds
    BY <2>2, FrozenIsActive, MemberDeliveries
  <2> QED
    BY <2>2, <2>3, <2>4 DEF RecipientRow
<1>4. DOMAIN rows = 1..Len(recipients) /\ Len(recipients) \in Nat
      /\ DOMAIN recipients = 1..Len(recipients)
  BY <1>1, <1>2
<1>5. rows \in [1..Len(recipients) -> RecipientRow]
  BY <1>2, <1>3, <1>4
<1> QED
  BY <1>3, <1>4, <1>5

\* A transaction that only queues deliveries that were absent.
QueuesOnly ==
    /\ deliveries' \in [DeliveryIds -> DeliveryRow]
    /\ \A d \in DeliveryIds :
          \/ deliveries'[d] = deliveries[d]
          \/ deliveries[d].state = "absent" /\ deliveries'[d].state = "queued"
    /\ UNCHANGED << bindings, superseding, providers, principals, messages,
                    ledger, reducer >>

\* The INSERTs of a broadcast, row by row.
LEMMA InsertEffect ==
    ASSUME BInv, Insert
    PROVE  \E x \in BroadcastIds, rows \in Seq(RecipientRow) :
              /\ broadcasts[x] = None
              /\ broadcasts'[x] \in BroadcastRow
              /\ broadcasts'[x].rows = rows
              /\ rows = Expansion(x, broadcasts'[x].actor, broadcasts'[x].accepted)
              /\ \A y \in BroadcastIds \ {x} : broadcasts'[y] = broadcasts[y]
              /\ DOMAIN broadcasts' = BroadcastIds
              /\ \A i \in DOMAIN rows :
                    /\ rows[i].recipient \in Members
                    /\ rows[i].delivery = << x, rows[i].recipient >>
                    /\ rows[i].delivery \in DeliveryIds
                    /\ deliveries'[rows[i].delivery] =
                          [binding |-> rows[i].binding, state |-> "queued",
                           disposition |-> None]
                    /\ rows[i].binding # None =>
                          bindings[rows[i].binding] = "active"
              /\ \A d \in DeliveryIds :
                    \/ deliveries'[d] = deliveries[d]
                    \/ \E i \in DOMAIN rows : rows[i].delivery = d
              /\ QueuesOnly
<1>1. kernel.pc = "insert"
  BY DEF Insert
<1>2. kernel \in [pc : {"insert"}, id : BroadcastIds, actor : Actors,
                  accepted : Times, rows : Seq(RecipientRow)]
  BY <1>1 DEF BInv, RoomTypeOK, Kernels, Ready
<1>3. PICK x \in BroadcastIds : x = kernel.id
  BY <1>2
<1>4. PICK rows \in Seq(RecipientRow) : rows = kernel.rows
  BY <1>2
<1>5. PICK actor \in Actors : actor = kernel.actor
  BY <1>2
<1>6. PICK at \in Times : at = kernel.accepted
  BY <1>2
<1>7. broadcasts[x] = None /\ rows = Expansion(x, actor, at)
  BY <1>1, <1>3, <1>4, <1>5, <1>6 DEF BInv, KernelHolds
<1>8. \A i \in DOMAIN rows :
         /\ rows[i].recipient \in Members
         /\ rows[i].delivery = << x, rows[i].recipient >>
         /\ rows[i].delivery \in DeliveryIds
         /\ rows[i].binding = ActiveSessionBindingFor(rows[i].recipient, at)
         /\ rows[i].binding \in BindingIds \cup {None}
         /\ rows[i].binding # None => bindings[rows[i].binding] = "active"
  BY <1>7, ExpansionRows DEF BInv
<1> DEFINE new == [actor |-> actor, accepted |-> at, size |-> Len(rows),
                   audited |-> Len(rows), rows |-> rows]
<1>9. /\ new \in BroadcastRow /\ new.rows = rows /\ new.actor = actor
      /\ new.accepted = at
  BY DEF BroadcastRow
<1>10. broadcasts' = [broadcasts EXCEPT ![x] = new]
  BY <1>3, <1>4, <1>5, <1>6 DEF Insert
<1> HIDE DEF new
<1>11. /\ broadcasts'[x] = new /\ DOMAIN broadcasts' = BroadcastIds
       /\ \A y \in BroadcastIds \ {x} : broadcasts'[y] = broadcasts[y]
  BY <1>10 DEF BInv, RoomTypeOK
<1>12. \A i, j \in DOMAIN rows :
          rows[i].delivery = rows[j].delivery => rows[i].binding = rows[j].binding
  BY <1>8
<1>13. deliveries' = [d \in DeliveryIds |->
              IF \E i \in DOMAIN rows : rows[i].delivery = d
              THEN [binding |-> rows[CHOOSE i \in DOMAIN rows :
                                        rows[i].delivery = d].binding,
                    state |-> "queued", disposition |-> None]
              ELSE deliveries[d]]
  BY <1>4 DEF Insert
<1>14. ASSUME NEW d \in DeliveryIds, NEW i \in DOMAIN rows, rows[i].delivery = d
       PROVE  /\ deliveries'[d] = [binding |-> rows[i].binding,
                                   state |-> "queued", disposition |-> None]
              /\ deliveries'[d] \in DeliveryRow
              /\ deliveries'[d].state = "queued"
              /\ deliveries[d].state = "absent"
  <2>1. PICK j \in DOMAIN rows :
               j = (CHOOSE k \in DOMAIN rows : rows[k].delivery = d)
               /\ rows[j].delivery = d
    BY <1>14
  <2>2. deliveries'[d] = [binding |-> rows[j].binding, state |-> "queued",
                          disposition |-> None]
    BY <1>13, <1>14, <2>1
  <2>3. rows[i].binding = rows[j].binding /\ rows[i].binding \in BindingIds \cup {None}
    BY <1>8, <1>12, <1>14, <2>1
  <2>4. deliveries[d].state = "absent"
    <3>1. PICK s \in Members : d = << x, s >>
      BY <1>8, <1>14
    <3> QED
      BY <1>7, <3>1 DEF BInv, NothingQueuedEarly
  <2> QED
    BY <2>2, <2>3, <2>4 DEF DeliveryRow, States
<1>15. \A d \in DeliveryIds :
          \/ deliveries'[d] = deliveries[d]
          \/ \E i \in DOMAIN rows : rows[i].delivery = d
  BY <1>13
<1>16. QueuesOnly
  <2>1. \A d \in DeliveryIds : deliveries[d] \in DeliveryRow
    BY DEF BInv, IInv, TypeOK, StoreTypeOK
  <2>2. deliveries' \in [DeliveryIds -> DeliveryRow]
    BY <1>13, <1>14, <1>15, <2>1
  <2>3. UNCHANGED << bindings, superseding, providers, principals, messages,
                     ledger, reducer >>
    BY DEF Insert
  <2> QED
    BY <1>14, <1>15, <2>2, <2>3 DEF QueuesOnly
<1>17. \A i \in DOMAIN rows :
          deliveries'[rows[i].delivery] =
             [binding |-> rows[i].binding, state |-> "queued",
              disposition |-> None]
  BY <1>8, <1>14
<1> QED
  BY <1>7, <1>8, <1>9, <1>11, <1>15, <1>16, <1>17
-----------------------------------------------------------------------------
(***************************************************************************)
(* The reducers keep their invariant                                       *)
(***************************************************************************)
\* Queueing deliveries is nothing to the reducers.
LEMMA QueuesKeepReducers ==
    ASSUME IInv, QueuesOnly
    PROVE  IInv'
<1>1. /\ deliveries' \in [DeliveryIds -> DeliveryRow]
      /\ \A d \in DeliveryIds :
            \/ deliveries'[d] = deliveries[d]
            \/ deliveries[d].state = "absent" /\ deliveries'[d].state = "queued"
      /\ UNCHANGED << bindings, superseding, providers, principals, messages,
                      ledger, reducer >>
  BY DEF QueuesOnly
<1>2. TypeOK /\ TypeOK'
  BY <1>1 DEF IInv, TypeOK, StoreTypeOK, ReducerTypeOK
<1>3. \A d \in DeliveryIds :
         deliveries[d].state # "absent" => deliveries'[d] = deliveries[d]
  BY <1>1
<1>4. \A i \in DOMAIN ledger : ledger[i].receipt.delivery \in DeliveryIds
  BY <1>2, RowsAreNat
<1>5. ValidationOutlivesRead'
  <2>1. SUFFICES ASSUME NEW w \in Reducers, reducer[w].pc \in {"validate", "commit"}
                 PROVE  /\ ReadHolds(reducer[w])'
                        /\ reducer[w].pc = "commit" => ProofHolds(reducer[w])'
    BY <1>1 DEF ValidationOutlivesRead
  <2>2. reducer[w].receipt.delivery \in DeliveryIds
    BY <1>2, <2>1, ReceiptsAssumption DEF TypeOK, ReducerTypeOK
  <2>3. ReadHolds(reducer[w])
    BY <2>1 DEF IInv, ValidationOutlivesRead
  <2>4. ReadHolds(reducer[w])'
    BY <1>1, <1>3, <2>2, <2>3 DEF ReadHolds
  <2>5. reducer[w].pc = "commit" => ProofHolds(reducer[w])
    BY <2>1 DEF IInv, ValidationOutlivesRead
  <2>6. ProofHolds(reducer[w])' = ProofHolds(reducer[w])
    BY <1>1 DEF ProofHolds, ClosedChainIsRecorded, EntryRows
  <2> QED
    BY <2>4, <2>5, <2>6
<1>6. EntersSessionOnce'
  BY <1>1, <1>3 DEF IInv, EntersSessionOnce, EntryRows
<1>7. LedgerSound'
  BY <1>1, <1>3, <1>4 DEF IInv, LedgerSound
<1>8. AuditExplainsState'
  <2>1. \A d \in DeliveryIds :
           IF deliveries'[d].state \in {"absent", "queued", "dispatching"}
           THEN RowsOf(d) = {}
           ELSE \E i \in RowsOf(d) :
                   /\ IsLatest(d, i)
                   /\ ledger[i].to = deliveries'[d].state
                   /\ ledger[i].disposition = deliveries'[d].disposition
    BY <1>1 DEF IInv, AuditExplainsState
  <2>2. \A j \in DOMAIN ledger :
           \/ ledger[j].from = "dispatching"
           \/ \E i \in DOMAIN ledger :
                 Consecutive(i, j) /\ ledger[j].from = ledger[i].to
    BY DEF IInv, AuditExplainsState
  <2> QED
    BY <1>1, <2>1, <2>2 DEF AuditExplainsState, RowsOf, IsLatest, Consecutive
<1>9. ProcessedTurnWasEntered'
  <2>1. \A j \in DOMAIN ledger :
           deliveries'[ledger[j].receipt.delivery].binding
              = deliveries[ledger[j].receipt.delivery].binding
    BY <1>3, <1>4 DEF IInv, LedgerSound
  <2> QED
    BY <1>1, <2>1 DEF IInv, ProcessedTurnWasEntered
<1> QED
  BY <1>2, <1>5, <1>6, <1>7, <1>8, <1>9 DEF IInv

\* The reducers' invariant and the bindings', beside the kernel.
LEMMA BroadcastKeepsReducers ==
    ASSUME BInv, [BroadcastNext]_broadcastVars
    PROVE  IInv' /\ OneActiveBinding'
<1>1. CASE [Next]_vars
  BY <1>1, NextIInv, NextOneActive DEF BInv, IInv
<1>2. CASE Insert
  <2>1. QueuesOnly
    BY <1>2, InsertEffect
  <2>2. IInv'
    BY <2>1, QueuesKeepReducers DEF BInv
  <2>3. OneActiveBinding'
    BY <2>1 DEF BInv, OneActiveBinding, QueuesOnly
  <2> QED
    BY <2>2, <2>3
<1> QED
  BY <1>1, <1>2, StepOfStore

\* A delivery once queued keeps its binding and never disappears.
LEMMA QueuedStays ==
    ASSUME BInv, [BroadcastNext]_broadcastVars, NEW d \in DeliveryIds,
           deliveries[d].state # "absent"
    PROVE  /\ deliveries'[d].state # "absent"
           /\ deliveries'[d].binding = deliveries[d].binding
<1>1. CASE [Next]_vars
  BY <1>1, DeliveriesPersist DEF BInv, IInv
<1>2. CASE Insert
  BY <1>2, InsertEffect DEF QueuesOnly
<1> QED
  BY <1>1, <1>2, StepOfStore

\* Steps that leave no broadcast behind queue nothing.
LEMMA OnlyInsertQueues ==
    ASSUME BInv, [BroadcastNext]_broadcastVars, ~ Insert, NEW d \in DeliveryIds,
           deliveries[d].state = "absent"
    PROVE  deliveries'[d].state = "absent"
<1> TypeOK
  BY DEF BInv, IInv
<1>1. ASSUME NEW c \in Connections, StoreWrite(c)
      PROVE  deliveries'[d] = deliveries[d]
  <2>1. ASSUME NEW e \in DeliveryIds, SetDispatching(e)
        PROVE  deliveries'[d] = deliveries[d]
    BY <2>1 DEF SetDispatching, TypeOK, StoreTypeOK
  <2> QED
    BY <1>1, <2>1 DEF StoreWrite, RegisterProvider, RegisterSessionBinding,
       RevokeSessionBinding, SupersedeWrite
<1>2. ASSUME NEW w \in Reducers, ReducerMoves(w)
      PROVE  deliveries'[d].state = "absent"
  <2>1. CASE UNCHANGED deliveries
    BY <2>1
  <2>2. CASE Accepts(w)
    <3>1. PICK e \in DeliveryIds : e = reducer[w].receipt.delivery
      BY <2>2, AcceptLedger
    <3>2. deliveries[e].state # "absent"
      BY <2>2, <3>1, AcceptsRung DEF BInv, IInv
    <3> QED
      BY <2>2, <3>1, <3>2, AcceptLedger
  <2>3. \/ \E r \in Receipts : Submit(w, r)
        \/ ReducerStep(w)
        \/ Crash(w)
    BY <1>2 DEF ReducerMoves
  <2> QED
    BY <2>1, <2>2, <2>3 DEF Submit, ExistingReceiptResult, MarkProviderDegraded,
       ReducerStep, ReadDelivery, Validate, Commit, RecoverIntegrityCollision,
       Crash, storeVars, Accepts
<1>3. CASE UNCHANGED deliveries
  BY <1>3
<1> QED
  BY <1>1, <1>2, <1>3 DEF BroadcastNext, StoreRead, SupersedeRead, StoreRefusal,
     ReplaceRoomRoster, ConnectionCrash, Begin, Expand, broadcastVars, vars,
     storeVars

\* A binding never disappears, and a retired one stays retired.
LEMMA BindingsStay ==
    ASSUME BInv, [BroadcastNext]_broadcastVars, NEW b \in BindingIds
    PROVE  /\ bindings[b] # "absent" => bindings'[b] # "absent"
           /\ bindings[b] \in {"revoked", "superseded"} =>
                 bindings'[b] \in {"revoked", "superseded"}
<1>1. bindings \in [BindingIds -> BindingStates]
  BY DEF BInv, IInv, TypeOK, StoreTypeOK
<1>2. CASE UNCHANGED bindings
  BY <1>2
<1>3. ASSUME NEW c \in BindingIds,
             RegisterSessionBinding(c) \/ RevokeSessionBinding(c)
      PROVE  /\ bindings[b] # "absent" => bindings'[b] # "absent"
             /\ bindings[b] \in {"revoked", "superseded"} =>
                   bindings'[b] \in {"revoked", "superseded"}
  BY <1>1, <1>3 DEF RegisterSessionBinding, RevokeSessionBinding, InsertAdmits
<1>4. ASSUME NEW old \in BindingIds, NEW new \in BindingIds,
             SupersedeWrite(old, new)
      PROVE  /\ bindings[b] # "absent" => bindings'[b] # "absent"
             /\ bindings[b] \in {"revoked", "superseded"} =>
                   bindings'[b] \in {"revoked", "superseded"}
  BY <1>1, <1>4 DEF SupersedeWrite, InsertAdmits
<1>5. CASE Insert
  BY <1>5 DEF Insert
<1> QED
  BY <1>2, <1>3, <1>4, <1>5, StepOfStore, BindingEffect
-----------------------------------------------------------------------------
(***************************************************************************)
(* The room                                                                *)
(***************************************************************************)
\* A kernel that is expanding is typed.
LEMMA KernelTypes ==
    ASSUME RoomTypeOK, kernel.pc # "idle"
    PROVE  /\ kernel.pc \in {"expand", "insert"}
           /\ kernel.id \in BroadcastIds /\ kernel.actor \in Actors
           /\ kernel.accepted \in Times
    BY DEF RoomTypeOK, Kernels, Ready

\* The kernel's call comes to its end.
LEMMA KernelEnds ==
    ASSUME BInv, kernel' = Ready, lock' \in Connections \cup {None}
    PROVE  /\ kernel' \in Kernels /\ lock' \in Connections \cup {None}
           /\ KernelHolds'
    BY DEF Kernels, Ready, KernelHolds

\* A writer leaves the kernel's reads alone: the kernel has no call.
LEMMA WriterFindsKernelIdle ==
    ASSUME BInv, NEW c \in Connections, MayWrite(c)
    PROVE  kernel.pc = "idle"
    BY AbsenceAssumption DEF BInv, KernelHolds, MayWrite, Connections

\* Types of the room's tables, and what the kernel holds.
LEMMA RoomStep ==
    ASSUME BInv, [BroadcastNext]_broadcastVars
    PROVE  RoomTypeOK' /\ KernelHolds'
<1>1. RoomTypeOK /\ KernelHolds
  BY DEF BInv
<1>2. CASE /\ UNCHANGED roomVars
           /\ \E c \in Connections : MayWrite(c) /\ lock' \in {None, c}
  <2>1. kernel.pc = "idle"
    BY <1>2, WriterFindsKernelIdle
  <2> QED
    BY <1>1, <1>2, <2>1 DEF RoomTypeOK, KernelHolds, roomVars
<1>3. CASE UNCHANGED << roomVars, lock, bindings >>
  <2>1. \A x, a, t : Expansion(x, a, t)' = Expansion(x, a, t)
    BY <1>3 DEF Expansion, RosterWithout, ActiveSessionBindingFor, roomVars
  <2> QED
    BY <1>1, <1>3, <2>1 DEF RoomTypeOK, KernelHolds, roomVars
<1>4. ASSUME NEW c \in Connections, NEW members \in Rosters,
             ReplaceRoomRoster(c, members)
      PROVE  RoomTypeOK' /\ KernelHolds'
  <2>1. kernel.pc = "idle"
    BY <1>4, WriterFindsKernelIdle DEF ReplaceRoomRoster
  <2>2. members \in Seq(Members)
    <3>1. {members[i] : i \in DOMAIN members} \subseteq Members
      BY DEF Members
    <3>2. members \in Seq({members[i] : i \in DOMAIN members})
      BY RostersAssumption
    <3> QED
      BY <3>1, <3>2
  <2> QED
    BY <1>1, <1>4, <2>1, <2>2 DEF RoomTypeOK, KernelHolds, ReplaceRoomRoster
<1>5. ASSUME NEW c \in Connections, ConnectionCrash(c)
      PROVE  RoomTypeOK' /\ KernelHolds'
  <2>1. UNCHANGED << roster, broadcasts >> /\ lock' = None
    BY <1>5 DEF ConnectionCrash
  <2>2. kernel' = Ready
    <3>1. CASE c = "kernel"
      BY <1>5, <3>1 DEF ConnectionCrash
    <3>2. CASE c # "kernel"
      <4>1. lock # "kernel" /\ kernel' = kernel
        BY <1>5, <3>2 DEF ConnectionCrash
      <4>2. kernel.pc = "idle"
        BY <1>1, <4>1 DEF KernelHolds
      <4> QED
        BY <1>1, <4>1, <4>2 DEF RoomTypeOK, Kernels
    <3> QED
      BY <3>1, <3>2
  <2> QED
    BY <1>1, <2>1, <2>2, KernelEnds DEF RoomTypeOK
<1>6. ASSUME NEW x \in BroadcastIds, NEW actor \in Actors, NEW at \in Times,
             Begin(x, actor, at)
      PROVE  RoomTypeOK' /\ KernelHolds'
  <2>1. UNCHANGED << roster, broadcasts >> /\ kernel.pc = "idle"
    BY <1>6 DEF Begin
  <2>2. CASE UNCHANGED kernel /\ lock' = None
    BY <1>1, <2>1, <2>2 DEF RoomTypeOK, KernelHolds
  <2>3. CASE /\ lock' = "kernel"
             /\ kernel' = [pc |-> "expand", id |-> x, actor |-> actor,
                           accepted |-> at]
    <3>1. /\ kernel' \in Kernels /\ kernel'.pc = "expand" /\ kernel'.id = x
      BY <2>3 DEF Kernels
    <3>2. broadcasts'[x] = None
      BY <1>6 DEF Begin
    <3> QED
      BY <1>1, <2>1, <2>3, <3>1, <3>2 DEF RoomTypeOK, KernelHolds, Connections
  <2> QED
    BY <1>6, <2>2, <2>3 DEF Begin
<1>7. CASE Expand
  <2>1. UNCHANGED << roster, broadcasts, bindings >> /\ kernel.pc = "expand"
    BY <1>7 DEF Expand, vars, storeVars
  <2>2. CASE kernel' = Ready /\ lock' = None
    BY <1>1, <2>1, <2>2, KernelEnds DEF RoomTypeOK
  <2>3. CASE kernel' # Ready
    <3>1. PICK x \in BroadcastIds, actor \in Actors, at \in Times :
                 x = kernel.id /\ actor = kernel.actor /\ at = kernel.accepted
      BY <1>1, <2>1, KernelTypes
    <3>2. PICK rows : rows = Expansion(x, actor, at)
      OBVIOUS
    <3>3. /\ kernel' = [pc |-> "insert", id |-> x, actor |-> actor,
                        accepted |-> at, rows |-> rows]
          /\ lock' = lock
      BY <1>7, <2>3, <3>1, <3>2 DEF Expand
    <3>4. rows \in Seq(RecipientRow)
      BY <1>1, <3>2, ExpansionRows
    <3>5. Expansion(x, actor, at)' = rows
      BY <2>1, <3>2 DEF Expansion, RosterWithout, ActiveSessionBindingFor
    <3>6. /\ kernel' \in Kernels /\ kernel'.pc = "insert" /\ kernel'.id = x
          /\ kernel'.actor = actor /\ kernel'.accepted = at /\ kernel'.rows = rows
      BY <3>3, <3>4 DEF Kernels
    <3>7. lock' = "kernel" /\ broadcasts'[x] = None
      BY <1>1, <2>1, <3>1, <3>3 DEF KernelHolds
    <3> QED
      BY <1>1, <2>1, <3>5, <3>6, <3>7 DEF RoomTypeOK, KernelHolds, Connections
  <2>4. kernel' = Ready => lock' = None
    <3>1. Ready.pc = "idle"
      BY DEF Ready
    <3>2. lock' = None \/ kernel'.pc = "insert"
      BY <1>7 DEF Expand
    <3> QED
      BY <3>1, <3>2
  <2> QED
    BY <2>2, <2>3, <2>4
<1>8. CASE Insert
  <2>1. UNCHANGED roster /\ kernel' = Ready /\ lock' = None
    BY <1>8 DEF Insert
  <2>2. broadcasts' \in [BroadcastIds -> BroadcastRow \cup {None}]
    <3>1. PICK x \in BroadcastIds :
                 /\ broadcasts'[x] \in BroadcastRow
                 /\ \A y \in BroadcastIds \ {x} : broadcasts'[y] = broadcasts[y]
                 /\ DOMAIN broadcasts' = BroadcastIds
      BY <1>8, InsertEffect
    <3>2. \A y \in BroadcastIds : broadcasts'[y] \in BroadcastRow \cup {None}
      BY <1>1, <3>1 DEF RoomTypeOK
    <3>3. broadcasts' = [y \in BroadcastIds |-> broadcasts'[y]]
      BY <1>1, <1>8 DEF RoomTypeOK, Insert
    <3> QED
      BY <3>2, <3>3
  <2> QED
    BY <1>1, <2>1, <2>2, KernelEnds DEF RoomTypeOK
<1> QED
  BY <1>2, <1>3, <1>4, <1>5, <1>6, <1>7, <1>8, RoomEffect

\* A broadcast that is in the tables is never changed, and every other step
\* than the INSERTs leaves the tables alone.
LEMMA BroadcastsEffect ==
    ASSUME BInv, [BroadcastNext]_broadcastVars
    PROVE  Insert \/ UNCHANGED broadcasts
<1> QED
  BY RoomEffect DEF roomVars, ReplaceRoomRoster, ConnectionCrash, Begin, Expand

\* A stored broadcast is never rewritten.
LEMMA BroadcastIsFrozen ==
    ASSUME BInv, [BroadcastNext]_broadcastVars, NEW x \in BroadcastIds,
           broadcasts[x] # None
    PROVE  broadcasts'[x] = broadcasts[x]
<1>1. CASE Insert
  BY <1>1, InsertEffect
<1> QED
  BY <1>1, BroadcastsEffect

\* Nothing is queued for a broadcast that is not in the tables.
LEMMA NothingQueuedEarlyStep ==
    ASSUME BInv, [BroadcastNext]_broadcastVars
    PROVE  NothingQueuedEarly'
<1> SUFFICES ASSUME NEW y \in BroadcastIds, broadcasts'[y] = None, NEW s \in Members
             PROVE  deliveries'[<< y, s >>].state = "absent"
  BY DEF NothingQueuedEarly
<1>1. << y, s >> \in DeliveryIds
  BY MemberDeliveries
<1>2. broadcasts[y] = None
  BY BroadcastIsFrozen
<1>3. deliveries[<< y, s >>].state = "absent"
  BY <1>2 DEF BInv, NothingQueuedEarly
<1>4. CASE ~ Insert
  BY <1>1, <1>3, <1>4, OnlyInsertQueues
<1>5. CASE Insert
  <2>1. PICK x \in BroadcastIds, rows \in Seq(RecipientRow) :
               /\ broadcasts'[x] \in BroadcastRow
               /\ \A i \in DOMAIN rows :
                     rows[i].delivery = << x, rows[i].recipient >>
               /\ \A d \in DeliveryIds :
                     \/ deliveries'[d] = deliveries[d]
                     \/ \E i \in DOMAIN rows : rows[i].delivery = d
    BY <1>5, InsertEffect
  <2>2. x # y
    BY <2>1, AbsenceAssumption
  <2>3. \A i \in DOMAIN rows : rows[i].delivery # << y, s >>
    BY <2>1, <2>2
  <2> QED
    BY <1>1, <1>3, <2>1, <2>3
<1> QED
  BY <1>4, <1>5

\* Every row of a stored broadcast stays queued under the binding that was
\* frozen.
LEMMA RowsQueuedStep ==
    ASSUME BInv, [BroadcastNext]_broadcastVars
    PROVE  RowsQueued'
<1>1. ASSUME NEW x \in BroadcastIds, broadcasts[x] # None
      PROVE  \A i \in DOMAIN broadcasts'[x].rows :
                RowQueued(x, broadcasts[x].rows[i])'
  <2>1. broadcasts'[x] = broadcasts[x]
    BY <1>1, BroadcastIsFrozen
  <2>2. PICK b \in BroadcastRow : b = broadcasts[x]
    BY <1>1 DEF BInv, RoomTypeOK
  <2>3. ASSUME NEW i \in DOMAIN b.rows
        PROVE  RowQueued(x, b.rows[i])'
    <3>1. PICK row \in RecipientRow : row = b.rows[i]
      BY <2>2, <2>3 DEF BroadcastRow
    <3>2. RowQueued(x, row)
      BY <1>1, <2>2, <2>3, <3>1 DEF BInv, RowsQueued
    <3>3. row.delivery \in DeliveryIds /\ row.binding \in BindingIds \cup {None}
      BY DEF RecipientRow
    <3>4. /\ deliveries'[row.delivery].state # "absent"
          /\ deliveries'[row.delivery].binding = row.binding
      BY <3>2, <3>3, QueuedStays DEF RowQueued
    <3>5. row.binding # None => bindings'[row.binding] # "absent"
      BY <3>2, <3>3, BindingsStay DEF RowQueued
    <3>6. RowQueued(x, row)'
      BY <3>2, <3>4, <3>5 DEF RowQueued
    <3> QED
      BY <3>1, <3>6
  <2> QED
    BY <2>1, <2>2, <2>3
<1>2. CASE UNCHANGED broadcasts
  BY <1>1, <1>2 DEF RowsQueued
<1>3. CASE Insert
  <2>1. PICK x \in BroadcastIds, rows \in Seq(RecipientRow) :
               /\ broadcasts'[x].rows = rows
               /\ \A y \in BroadcastIds \ {x} : broadcasts'[y] = broadcasts[y]
               /\ \A i \in DOMAIN rows :
                     /\ rows[i].recipient \in Members
                     /\ rows[i].delivery = << x, rows[i].recipient >>
                     /\ rows[i].delivery \in DeliveryIds
                     /\ deliveries'[rows[i].delivery] =
                           [binding |-> rows[i].binding, state |-> "queued",
                            disposition |-> None]
                     /\ rows[i].binding # None =>
                           bindings[rows[i].binding] = "active"
    BY <1>3, InsertEffect
  <2>2. UNCHANGED bindings
    BY <1>3 DEF Insert
  <2>3. ASSUME NEW i \in DOMAIN rows PROVE RowQueued(x, rows[i])'
    <3>1. PICK row : row = rows[i]
      OBVIOUS
    <3>2. /\ row.recipient \in Members /\ row.delivery = << x, row.recipient >>
          /\ row.binding # None => bindings'[row.binding] # "absent"
      BY <2>1, <2>2, <2>3, <3>1
    <3>3. deliveries'[row.delivery] =
             [binding |-> row.binding, state |-> "queued", disposition |-> None]
      BY <2>1, <2>3, <3>1
    <3>4. /\ deliveries'[row.delivery].state # "absent"
          /\ deliveries'[row.delivery].binding = row.binding
      BY <3>3
    <3>5. RowQueued(x, row)'
      BY <3>2, <3>4 DEF RowQueued
    <3> QED
      BY <3>1, <3>5
  <2>4. \A i \in DOMAIN broadcasts'[x].rows : RowQueued(x, broadcasts[x].rows[i])'
    BY <2>1, <2>3
  <2>5. \A y \in BroadcastIds \ {x} : broadcasts'[y] # None => broadcasts[y] # None
    BY <2>1
  <2> QED
    BY <1>1, <2>4, <2>5 DEF RowsQueued
<1> QED
  BY <1>2, <1>3, BroadcastsEffect

\* Every delivery of a broadcast stays session-bound.
LEMMA SessionBoundStep ==
    ASSUME BInv, [BroadcastNext]_broadcastVars
    PROVE  SessionBoundOnly'
<1> SUFFICES ASSUME NEW d \in DeliveryIds, deliveries'[d].state # "absent"
             PROVE  Key[d].mode = "session-bound"
  BY DEF SessionBoundOnly
<1>1. CASE deliveries[d].state # "absent"
  BY <1>1 DEF BInv, SessionBoundOnly
<1>2. CASE deliveries[d].state = "absent"
  <2>1. Insert
    BY <1>2, OnlyInsertQueues
  <2>2. PICK x \in BroadcastIds, rows \in Seq(RecipientRow) :
               /\ \A i \in DOMAIN rows :
                     /\ rows[i].recipient \in Members
                     /\ rows[i].delivery = << x, rows[i].recipient >>
               /\ \A e \in DeliveryIds :
                     \/ deliveries'[e] = deliveries[e]
                     \/ \E i \in DOMAIN rows : rows[i].delivery = e
    BY <2>1, InsertEffect
  <2>3. PICK i \in DOMAIN rows : rows[i].delivery = d
    BY <1>2, <2>2
  <2>4. PICK s \in Members : d = << x, s >>
    BY <2>2, <2>3
  <2> QED
    BY <2>4, MemberDeliveries
<1> QED
  BY <1>1, <1>2

\* The rung a session-bound delivery leaves by the receipt of a reducer.
LEMMA AcceptedRung ==
    ASSUME BInv, NEW w \in Reducers, Accepts(w), NEW d \in DeliveryIds,
           d = reducer[w].receipt.delivery
    PROVE  LET r  == reducer[w].receipt
               at == deliveries[d].state
               to == deliveries'[d].state
           IN  /\ at \in {"dispatching", "transport-submitted", "in-session"}
               /\ at = "dispatching" => /\ r.class = "transport.submit_ack"
                                        /\ to = "transport-submitted"
               /\ at # "dispatching" => r.class \in SessionProofEvidence
<1>1. /\ deliveries[d].state \in {"dispatching", "transport-submitted", "in-session"}
      /\ << deliveries[d].state, reducer[w].receipt.class,
            reducer[w].outcome.state >> \in Ladder!Rungs(ModeOf(reducer[w].receipt))
  BY AcceptsRung DEF BInv, IInv
<1>2. deliveries'[d].state = reducer[w].outcome.state
  BY AcceptLedger DEF BInv, IInv
<1>3. ModeOf(reducer[w].receipt) = "session-bound"
  BY <1>1 DEF BInv, SessionBoundOnly, ModeOf
<1> QED
  BY <1>1, <1>2, <1>3 DEF Ladder!Rungs, SessionProofEvidence, EntryEvidence

\* A delivery that got past submission keeps its submit_ack in the ledger.
LEMMA SubmitRecordedStep ==
    ASSUME BInv, [BroadcastNext]_broadcastVars
    PROVE  SubmitRecorded'
<1> SUFFICES ASSUME NEW d \in DeliveryIds, deliveries'[d].state \in DeliveredStates
             PROVE  \E k \in DOMAIN ledger' : Pays(k, d)'
  BY DEF SubmitRecorded
<1>1. CASE deliveries[d].state \in DeliveredStates
  <2>1. PICK k \in DOMAIN ledger : Pays(k, d)
    BY <1>1 DEF BInv, SubmitRecorded
  <2>2. deliveries'[d].binding = deliveries[d].binding
    BY <1>1, QueuedStays DEF DeliveredStates
  <2>3. k \in DOMAIN ledger' /\ ledger'[k] = ledger[k]
    <3>1. CASE [Next]_vars
      BY <3>1, LedgerGrows DEF BInv, IInv
    <3>2. CASE Insert
      BY <3>2 DEF Insert
    <3> QED
      BY <3>1, <3>2, StepOfStore
  <2> QED
    BY <2>1, <2>2, <2>3 DEF Pays
<1>2. CASE deliveries[d].state \notin DeliveredStates
  <2>1. ~ Insert
    <3>1. Insert => deliveries'[d] = deliveries[d] \/ deliveries'[d].state = "queued"
      BY InsertEffect DEF QueuesOnly
    <3> QED
      BY <1>2, <3>1 DEF DeliveredStates
  <2>2. PICK w \in Reducers : Accepts(w)
    <3>1. [Next]_vars
      BY <2>1, StepOfStore
    <3>2. TypeOK
      BY DEF BInv, IInv
    <3>3. ASSUME NEW e \in DeliveryIds, NEW b \in NewBindings, AddDelivery(e, b)
          PROVE  FALSE
      BY <1>2, <3>2, <3>3 DEF AddDelivery, TypeOK, StoreTypeOK, DeliveredStates
    <3>4. ASSUME NEW e \in DeliveryIds, SetDispatching(e)
          PROVE  FALSE
      BY <1>2, <3>2, <3>4 DEF SetDispatching, TypeOK, StoreTypeOK, DeliveryRow,
         DeliveredStates
    <3> QED
      BY <1>2, <3>1, <3>2, <3>3, <3>4, StepEffect
  <2>3. d = reducer[w].receipt.delivery
    BY <1>2, <2>2, AcceptLedger DEF BInv, IInv
  <2>4. reducer[w].receipt.class = "transport.submit_ack"
    BY <1>2, <2>2, <2>3, AcceptedRung DEF DeliveredStates
  <2>5. PICK n : n = Len(ledger) + 1
    OBVIOUS
  <2>6. n \in DOMAIN ledger' /\ ledger'[n].receipt = reducer[w].receipt
    BY <2>2, <2>5, AcceptLedger DEF BInv, IInv
  <2>7. reducer[w].receipt.binding = deliveries[d].binding
        /\ deliveries[d].state # "absent"
    BY <2>2, <2>3 DEF BInv, IInv, ValidationOutlivesRead, ReadHolds, Accepts
  <2>8. deliveries'[d].binding = deliveries[d].binding
    BY <2>7, QueuedStays
  <2> QED
    BY <2>3, <2>4, <2>6, <2>7, <2>8 DEF Pays
<1> QED
  BY <1>1, <1>2
-----------------------------------------------------------------------------
(***************************************************************************)
(* The invariant and its consequences                                      *)
(***************************************************************************)
LEMMA BroadcastInitially == BroadcastInit => BInv
<1> SUFFICES ASSUME BroadcastInit PROVE BInv
  OBVIOUS
<1>1. /\ Init /\ roster = <<>> /\ kernel = Ready /\ lock = None
      /\ broadcasts = [x \in BroadcastIds |-> None]
  BY DEF BroadcastInit
<1>2. IInv /\ OneActiveBinding
  BY <1>1, InitIInv DEF Init, StoreInit, OneActiveBinding
<1>3. RoomTypeOK /\ KernelHolds
  BY <1>1 DEF RoomTypeOK, KernelHolds, Kernels, Ready
<1>4. \A d \in DeliveryIds : deliveries[d].state = "absent"
  BY <1>1 DEF Init, StoreInit
<1>5. NothingQueuedEarly
  BY <1>4, MemberDeliveries DEF NothingQueuedEarly
<1>6. RowsQueued
  BY <1>1 DEF RowsQueued
<1>7. SessionBoundOnly /\ SubmitRecorded
  BY <1>4 DEF SessionBoundOnly, SubmitRecorded, DeliveredStates
<1> QED
  BY <1>2, <1>3, <1>5, <1>6, <1>7 DEF BInv

\* Every step of the composition keeps the invariant.
LEMMA BroadcastPreserves == BInv /\ [BroadcastNext]_broadcastVars => BInv'
  BY BroadcastKeepsReducers, RoomStep, NothingQueuedEarlyStep, RowsQueuedStep,
     SessionBoundStep, SubmitRecordedStep DEF BInv

\* The inductive invariant of the kernel, the store and the reducers.  It
\* has the reducers' own invariant in it, so that what ReceiptReducerProofs
\* shows of them holds beside the kernel too.
THEOREM BroadcastInvariant == BroadcastSpec => []BInv
  BY BroadcastInitially, BroadcastPreserves, PTL DEF BroadcastSpec

\* A seat never has two active bindings, on whichever of the connections
\* they are registered, superseded and revoked.
THEOREM SeatsExclusive == BroadcastSpec => []OneActiveBinding
<1>1. BInv => OneActiveBinding
  BY DEF BInv
<1> QED
  BY <1>1, BroadcastInvariant, PTL

\* A seat that had no binding when the broadcast was accepted is never
\* reported as submitted, whatever receipts are sent about it.
THEOREM UnboundSeats == BroadcastSpec => []UnboundNeverAdvances
<1>1. BroadcastInit => UnboundNeverAdvances
  BY DEF BroadcastInit, Init, StoreInit, UnboundNeverAdvances
<1>2. ASSUME BInv, UnboundNeverAdvances, [BroadcastNext]_broadcastVars
      PROVE  UnboundNeverAdvances'
  <2>1. CASE [Next]_vars
    BY <1>2, <2>1, NextUnbound DEF BInv, IInv
  <2>2. CASE Insert
    BY <1>2, <2>2, InsertEffect DEF QueuesOnly, UnboundNeverAdvances
  <2> QED
    BY <1>2, <2>1, <2>2, StepOfStore
<1> QED
  BY <1>1, <1>2, BroadcastInvariant, PTL DEF BroadcastSpec

\* all_delivered is paid for by a receipt of the transport for every seat of
\* the frozen roster, under the binding that was frozen with it.
THEOREM RollupCorrect == BroadcastSpec => []RollupIsPaidFor
<1>1. BInv => RollupIsPaidFor
  <2> SUFFICES ASSUME BInv, NEW x \in BroadcastIds, AllDelivered(x),
                      NEW i \in DOMAIN broadcasts[x].rows
               PROVE  \E k \in DOMAIN ledger :
                         /\ ledger[k].receipt.delivery
                               = broadcasts[x].rows[i].delivery
                         /\ ledger[k].receipt.class = "transport.submit_ack"
                         /\ ledger[k].receipt.binding
                               = broadcasts[x].rows[i].binding
    BY DEF RollupIsPaidFor
  <2>1. PICK row : row = broadcasts[x].rows[i]
    OBVIOUS
  <2>2. RowQueued(x, row)
    BY <2>1 DEF BInv, RowsQueued, AllDelivered, SnapshotConsistent
  <2>3. row.delivery \in DeliveryIds
    BY <2>2, MemberDeliveries DEF RowQueued
  <2>4. deliveries[row.delivery].state \in DeliveredStates
    BY <2>1 DEF AllDelivered
  <2>5. PICK k \in DOMAIN ledger : Pays(k, row.delivery)
    BY <2>3, <2>4 DEF BInv, SubmitRecorded
  <2> QED
    BY <2>1, <2>2, <2>5 DEF Pays, RowQueued
<1> QED
  BY <1>1, BroadcastInvariant, PTL

\* The rows a broadcast commits are those that the roster and the bindings
\* of that moment give: BEGIN IMMEDIATE keeps every writer out between the
\* reads and the COMMIT.
THEOREM SnapshotCorrect == BroadcastSpec => SnapshotIsOneMoment
<1> DEFINE OneMoment ==
              \A x \in BroadcastIds :
                  broadcasts[x] = None /\ broadcasts'[x] # None =>
                      broadcasts'[x].rows =
                          Expansion(x, broadcasts'[x].actor,
                                    broadcasts'[x].accepted)
<1>1. BInv /\ [BroadcastNext]_broadcastVars => [OneMoment]_broadcastVars
  <2> SUFFICES ASSUME BInv, [BroadcastNext]_broadcastVars,
                      NEW y \in BroadcastIds,
                      broadcasts[y] = None, broadcasts'[y] # None
               PROVE  broadcasts'[y].rows =
                          Expansion(y, broadcasts'[y].actor,
                                    broadcasts'[y].accepted)
    OBVIOUS
  <2>1. Insert
    BY BroadcastsEffect
  <2>2. PICK x \in BroadcastIds, rows \in Seq(RecipientRow) :
               /\ broadcasts'[x].rows = rows
               /\ rows = Expansion(x, broadcasts'[x].actor,
                                   broadcasts'[x].accepted)
               /\ \A z \in BroadcastIds \ {x} : broadcasts'[z] = broadcasts[z]
    BY <2>1, InsertEffect
  <2> QED
    BY <2>2
<1> QED
  BY <1>1, BroadcastInvariant, PTL DEF BroadcastSpec, SnapshotIsOneMoment

\* Why a seat is unavailable is taken back only by a receipt of the
\* transport.
LEMMA AbsenceStep ==
    ASSUME BInv, [BroadcastNext]_broadcastVars, NEW x \in BroadcastIds,
           broadcasts[x] # None, NEW row, RowQueued(x, row),
           UnavailableReason(row) # None
    PROVE  \/ UnavailableReason(row)' = UnavailableReason(row)
           \/ deliveries'[row.delivery].state = "transport-submitted"
<1>1. PICK d \in DeliveryIds : d = row.delivery
  BY MemberDeliveries DEF RowQueued
<1>2. deliveries[d].state \in {"queued", "dispatching"}
  BY <1>1 DEF UnavailableReason
<1>3. \/ deliveries'[d].state \in {"queued", "dispatching"}
      \/ deliveries'[d].state = "transport-submitted"
  <2>1. CASE Insert
    BY <1>2, <2>1, InsertEffect DEF QueuesOnly
  <2>2. CASE [Next]_vars
    <3>1. TypeOK
      BY DEF BInv, IInv
    <3>2. CASE UNCHANGED << deliveries, ledger >>
      BY <1>2, <3>2
    <3>3. ASSUME NEW e \in DeliveryIds, NEW b \in NewBindings, AddDelivery(e, b)
          PROVE  deliveries'[d] = deliveries[d]
      BY <1>2, <3>1, <3>3 DEF AddDelivery, TypeOK, StoreTypeOK
    <3>4. ASSUME NEW e \in DeliveryIds, SetDispatching(e)
          PROVE  deliveries'[d].state \in {"queued", "dispatching"}
      BY <1>2, <3>1, <3>4 DEF SetDispatching, TypeOK, StoreTypeOK, DeliveryRow
    <3>5. ASSUME NEW w \in Reducers, Accepts(w)
          PROVE  \/ deliveries'[d] = deliveries[d]
                 \/ deliveries'[d].state = "transport-submitted"
      <4>1. CASE d = reducer[w].receipt.delivery
        BY <1>2, <3>5, <4>1, AcceptedRung
      <4>2. CASE d # reducer[w].receipt.delivery
        BY <3>1, <3>5, <4>2, AcceptLedger
      <4> QED
        BY <4>1, <4>2
    <3> QED
      BY <1>2, <2>2, <3>1, <3>2, <3>3, <3>4, <3>5, StepEffect
  <2> QED
    BY <2>1, <2>2, StepOfStore
<1>4. row.binding # None => bindings[row.binding] \in {"revoked", "superseded"}
  <2>1. SUFFICES ASSUME row.binding # None
                 PROVE  bindings[row.binding] \in {"revoked", "superseded"}
    OBVIOUS
  <2>2. bindings[row.binding] # "active" /\ bindings[row.binding] # "absent"
    BY <1>1, <1>2, <2>1 DEF UnavailableReason, RowQueued
  <2>3. row.binding \in BindingIds
    <3>1. deliveries[d] \in DeliveryRow
      BY DEF BInv, IInv, TypeOK, StoreTypeOK
    <3> QED
      BY <1>1, <2>1, <3>1 DEF RowQueued, DeliveryRow
  <2> QED
    BY <2>2, <2>3 DEF BInv, IInv, TypeOK, StoreTypeOK, BindingStates
<1>5. row.binding # None => bindings'[row.binding] \in {"revoked", "superseded"}
  <2>1. row.binding \in BindingIds \cup {None}
    <3>1. deliveries[d] \in DeliveryRow
      BY DEF BInv, IInv, TypeOK, StoreTypeOK
    <3> QED
      BY <1>1, <3>1 DEF RowQueued, DeliveryRow
  <2> QED
    BY <1>4, <2>1, BindingsStay
<1> QED
  BY <1>1, <1>2, <1>3, <1>4, <1>5 DEF UnavailableReason

\* Absence is visible until the transport has reported, whatever becomes of
\* bindings and roster.
THEOREM AbsenceCorrect == BroadcastSpec => AbsenceStaysVisible
<1> DEFINE Visible ==
              \A x \in BroadcastIds :
                  broadcasts[x] # None =>
                      \A i \in DOMAIN broadcasts[x].rows :
                          LET row == broadcasts[x].rows[i]
                          IN  UnavailableReason(row) # None =>
                                 \/ UnavailableReason(row)' = UnavailableReason(row)
                                 \/ deliveries'[row.delivery].state
                                       = "transport-submitted"
<1>1. BInv /\ [BroadcastNext]_broadcastVars => [Visible]_broadcastVars
  <2> SUFFICES ASSUME BInv, [BroadcastNext]_broadcastVars,
                      NEW x \in BroadcastIds, broadcasts[x] # None,
                      NEW i \in DOMAIN broadcasts[x].rows,
                      UnavailableReason(broadcasts[x].rows[i]) # None
               PROVE  \/ UnavailableReason(broadcasts[x].rows[i])'
                           = UnavailableReason(broadcasts[x].rows[i])
                      \/ deliveries'[broadcasts[x].rows[i].delivery].state
                           = "transport-submitted"
    OBVIOUS
  <2>1. PICK row : row = broadcasts[x].rows[i]
    OBVIOUS
  <2>2. RowQueued(x, row)
    BY <2>1 DEF BInv, RowsQueued
  <2>3. \/ UnavailableReason(row)' = UnavailableReason(row)
        \/ deliveries'[row.delivery].state = "transport-submitted"
    BY <2>1, <2>2, AbsenceStep
  <2>4. row = broadcasts'[x].rows[i]
    BY <2>1, BroadcastIsFrozen
  <2>5. UnavailableReason(row)' = UnavailableReason(broadcasts[x].rows[i])'
    BY <2>4 DEF UnavailableReason
  <2> QED
    BY <2>1, <2>3, <2>5
<1> QED
  BY <1>1, BroadcastInvariant, PTL DEF BroadcastSpec, AbsenceStaysVisible

\* No evidence brings a stranded delivery into a session.
LEMMA StrandedStep ==
    ASSUME BInv, [BroadcastNext]_broadcastVars, NEW d \in DeliveryIds, Stranded(d)
    PROVE  Stranded(d)'
<1>1. /\ deliveries[d].binding # None
      /\ bindings[deliveries[d].binding] \in {"revoked", "superseded"}
      /\ deliveries[d].state \in {"queued", "dispatching", "transport-submitted"}
      /\ \A w \in Reducers :
            reducer[w].pc = "commit" =>
                ~ /\ reducer[w].receipt.delivery = d
                  /\ reducer[w].receipt.class \in SessionProofEvidence
  BY DEF Stranded
<1>2. deliveries'[d].binding = deliveries[d].binding
  BY <1>1, QueuedStays
<1>3. bindings'[deliveries'[d].binding] \in {"revoked", "superseded"}
  <2>1. deliveries[d] \in DeliveryRow
    BY DEF BInv, IInv, TypeOK, StoreTypeOK
  <2>2. deliveries[d].binding \in BindingIds
    BY <1>1, <2>1 DEF DeliveryRow
  <2> QED
    BY <1>1, <1>2, <2>2, BindingsStay
<1>4. TypeOK
  BY DEF BInv, IInv
<1>5. deliveries'[d].state \in {"queued", "dispatching", "transport-submitted"}
  <2>1. CASE Insert
    BY <1>1, <2>1, InsertEffect DEF QueuesOnly
  <2>2. CASE [Next]_vars
    <3>1. CASE UNCHANGED << deliveries, ledger >>
      BY <1>1, <3>1
    <3>2. ASSUME NEW e \in DeliveryIds, NEW b \in NewBindings, AddDelivery(e, b)
          PROVE  deliveries'[d] = deliveries[d]
      BY <1>1, <1>4, <3>2 DEF AddDelivery, TypeOK, StoreTypeOK
    <3>3. ASSUME NEW e \in DeliveryIds, SetDispatching(e)
          PROVE  \/ deliveries'[d] = deliveries[d]
                 \/ deliveries'[d].state = "dispatching"
      BY <1>4, <3>3 DEF SetDispatching, TypeOK, StoreTypeOK, DeliveryRow
    <3>4. ASSUME NEW w \in Reducers, Accepts(w)
          PROVE  \/ deliveries'[d] = deliveries[d]
                 \/ deliveries'[d].state = "transport-submitted"
      <4>1. CASE d = reducer[w].receipt.delivery
        BY <1>1, <3>4, <4>1, AcceptedRung DEF Accepts
      <4>2. CASE d # reducer[w].receipt.delivery
        BY <1>4, <3>4, <4>2, AcceptLedger
      <4> QED
        BY <4>1, <4>2
    <3> QED
      BY <1>1, <1>4, <2>2, <3>1, <3>2, <3>3, <3>4, StepEffect
  <2> QED
    BY <2>1, <2>2, StepOfStore
<1>6. ASSUME NEW w \in Reducers, reducer'[w].pc = "commit",
             reducer'[w].receipt.delivery = d,
             reducer'[w].receipt.class \in SessionProofEvidence
      PROVE  FALSE
  <2>1. CASE Insert
    BY <1>1, <1>6, <2>1 DEF Insert
  <2>2. CASE reducer'[w] = reducer[w]
    BY <1>1, <1>6, <2>2
  <2>3. CASE ReadDelivery(w)
    BY <1>4, <1>6, <2>3, ReadDeliveryHolds
  <2>4. CASE Validate(w)
    <3> DEFINE r == reducer[w].receipt
               row == reducer[w].row
    <3>1. reducer[w].pc = "validate" /\ ReadHolds(reducer[w])
      BY <2>4 DEF Validate, BInv, IInv, ValidationOutlivesRead
    <3>2. ~ Return(w, "rejected")
      BY <1>4, <1>6 DEF Return, Idle, TypeOK, ReducerTypeOK
    <3>3. PICK o \in Outcome :
                 /\ Proves(r, row, o)
                 /\ reducer' = [reducer EXCEPT ![w] =
                       [reducer[w] EXCEPT !.pc = "commit", !.outcome = o]]
      BY <2>4, <3>2 DEF Validate, Advance
    <3>4. reducer'[w].receipt = r
      BY <1>4, <3>3 DEF TypeOK, ReducerTypeOK, ReducerState
    <3>5. bindings[r.binding] = "active"
      BY <1>6, <3>3, <3>4 DEF Proves, SessionReceiptCurrent
    <3>6. r.binding = deliveries[d].binding
      BY <1>6, <3>1, <3>4 DEF ReadHolds
    <3> QED
      BY <1>1, <3>5, <3>6
  <2> QED
    BY <1>4, <1>6, <2>1, <2>2, <2>3, <2>4, StepOfStore, ReducerChange
<1> QED
  BY <1>1, <1>2, <1>3, <1>5, <1>6 DEF Stranded

\* A delivery whose binding is retired before it enters the session never
\* enters one, of the old binding or a new.
THEOREM StrandedCorrect == BroadcastSpec => StrandedForGood
<1>1. BInv /\ [BroadcastNext]_broadcastVars =>
        [\A d \in DeliveryIds : Stranded(d) => Stranded(d)']_broadcastVars
  BY StrandedStep
<1> QED
  BY <1>1, BroadcastInvariant, PTL DEF BroadcastSpec, StrandedForGood
=============================================================================
