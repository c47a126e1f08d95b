----------------------------- MODULE Broadcasts -----------------------------
(***************************************************************************)
(* BroadcastKernel (core/yatagarasu_core/broadcasts.py) and the rosters of *)
(* store.py, over the store and the reducers of module ReceiptReducer.     *)
(*                                                                         *)
(* A broadcast is several statements between BEGIN IMMEDIATE and COMMIT,   *)
(* so SQLite's write lock is modelled: lock names the connection whose     *)
(* write transaction is open.  The kernel's process has one connection, on *)
(* which it also calls the store; "other" is the connection of any other   *)
(* process.  A writer that finds the lock taken waits for it, and when its *)
(* busy timeout is over it fails and has changed nothing.                  *)
(*                                                                         *)
(* There is one room.  Ids are fresh uuids: the delivery of broadcast x to *)
(* recipient s is << x, s >>, and the collisions that the code refuses are *)
(* left out, as is the content.                                            *)
(***************************************************************************)
EXTENDS ReceiptReducer

CONSTANTS
    BroadcastIds,
    Actors,          \* actor_id values
    Rosters,         \* the sequences that replace_room_roster is given
    Times            \* accepted_at values

\* A roster has at least one recipient and none twice; what is queued for
\* one is session-bound.
ASSUME RostersAssumption ==
    \A rs \in Rosters :
        /\ rs \in Seq({rs[i] : i \in DOMAIN rs}) /\ rs # <<>>
        /\ \A i, j \in DOMAIN rs : i # j => rs[i] # rs[j]
        /\ \A i \in DOMAIN rs, x \in BroadcastIds :
              /\ << x, rs[i] >> \in DeliveryIds
              /\ Key[<< x, rs[i] >>].mode = "session-bound"

\* The recipient_id values.
Members == UNION {{rs[i] : i \in DOMAIN rs} : rs \in Rosters}

RecipientRow ==
    [recipient : Members, binding : BindingIds \cup {None},
     delivery : DeliveryIds]

BroadcastRow ==
    [actor : Actors, accepted : Times, size : Nat, audited : Nat,
     rows : Seq(RecipientRow)]

Connections == {"kernel", "other"}

ASSUME AbsenceAssumption == None \notin Connections /\ None \notin BroadcastRow

VARIABLES
    roster,          \* room_members in roster_ordinal order
    broadcasts,      \* canonical_events, broadcasts, broadcast_recipients and
                     \* broadcast_audit of each broadcast_id, or None
    kernel,          \* what the running call of broadcast holds
    lock             \* the connection whose write transaction is open

roomVars == << roster, broadcasts, kernel >>

broadcastVars == << vars, roomVars, lock >>

Ready == [pc |-> "idle"]

BroadcastInit ==
    /\ Init
    /\ roster = <<>>
    /\ broadcasts = [x \in BroadcastIds |-> None]
    /\ kernel = Ready
    /\ lock = None
-----------------------------------------------------------------------------
(***************************************************************************)
(* Transactions on a connection                                            *)
(***************************************************************************)
\* Connection c may write: it waits for no one.
MayWrite(c) ==
    /\ lock \in {None, c}
    /\ c = "kernel" => kernel.pc = "idle"

\* A store operation of CoreStore that commits on connection c, and with
\* itself any transaction left open there.
StoreWrite(c) ==
    /\ MayWrite(c)
    /\ \/ \E d \in DeliveryIds : SetDispatching(d)
       \/ \E p \in ProviderIds : RegisterProvider(p)
       \/ \E b \in BindingIds :
             \/ RegisterSessionBinding(b)
             \/ RevokeSessionBinding(b)
             \/ \E old \in BindingIds : SupersedeWrite(old, b)
    /\ lock' = None
    /\ UNCHANGED << reducer, roomVars >>

StoreRead ==
    /\ \E old, b \in BindingIds : SupersedeRead(old, b)
    /\ UNCHANGED << reducer, roomVars, lock >>

\* set_dispatching or revoke_session_binding finds its row in another state:
\* the UPDATE has opened a transaction, nothing has changed, and the
\* exception leaves it open.
StoreRefusal(c) ==
    /\ MayWrite(c)
    /\ \/ \E d \in DeliveryIds : deliveries[d].state # "queued"
       \/ \E b \in BindingIds : bindings[b] # "active"
    /\ lock' = c
    /\ UNCHANGED << vars, roomVars >>

ReplaceRoomRoster(c, members) ==
    /\ MayWrite(c)
    /\ roster' = members
    /\ lock' = None
    /\ UNCHANGED << vars, broadcasts, kernel >>

\* A reducer has a connection of its own and leaves no transaction open.
ReducerMoves(w) ==
    /\ \/ \E r \in Receipts : Submit(w, r)
       \/ ReducerStep(w)
       \/ Crash(w)
    /\ deliveries' # deliveries => lock = None
    /\ UNCHANGED << roomVars, lock >>
-----------------------------------------------------------------------------
(***************************************************************************)
(* BroadcastKernel.broadcast                                               *)
(***************************************************************************)
\* Mutant: no BEGIN, so that what is read before the INSERTs is not locked.
BeginUnlocked(x, actor, at) ==
    /\ kernel.pc = "idle"
    /\ broadcasts[x] = None
    /\ lock = None
    /\ kernel' = [pc |-> "expand", id |-> x, actor |-> actor, accepted |-> at]
    /\ UNCHANGED << vars, roster, broadcasts, lock >>

\* BEGIN IMMEDIATE raises when a refusal has left a transaction open on this
\* connection, and the with statement then rolls that transaction back.
Begin(x, actor, at) ==
    /\ kernel.pc = "idle"
    /\ broadcasts[x] = None
    /\ \/ /\ lock = None
          /\ lock' = "kernel"
          /\ kernel' = [pc |-> "expand", id |-> x, actor |-> actor,
                        accepted |-> at]
       \/ /\ lock = "kernel"
          /\ lock' = None
          /\ UNCHANGED kernel
    /\ UNCHANGED << vars, roster, broadcasts >>

\* active_session_binding_for: the active binding if it is in force at time
\* at, or None.
ActiveSessionBindingFor(s, at) ==
    LET inForce == {b \in BindingIds : /\ Binding[b].recipient = s
                                       /\ bindings[b] = "active"
                                       /\ Binding[b].established =< at
                                       /\ at < Binding[b].expires}
    IN  IF inForce = {} THEN None ELSE CHOOSE b \in inForce : TRUE

\* The roster without the actor, who is in it at most once, in its order.
RosterWithout(actor) ==
    LET i == CHOOSE k \in DOMAIN roster : roster[k] = actor
    IN  IF \E k \in DOMAIN roster : roster[k] = actor
        THEN SubSeq(roster, 1, i - 1) \o SubSeq(roster, i + 1, Len(roster))
        ELSE roster

\* Its recipients with the bindings of the moment.
Expansion(x, actor, at) ==
    LET recipients == RosterWithout(actor)
    IN  [i \in DOMAIN recipients |->
            [recipient |-> recipients[i],
             binding |-> ActiveSessionBindingFor(recipients[i], at),
             delivery |-> << x, recipients[i] >>]]

Expand ==
    LET rows == Expansion(kernel.id, kernel.actor, kernel.accepted)
    IN  /\ kernel.pc = "expand"
        /\ \/ /\ rows = <<>>          \* "broadcast roster is empty"
              /\ kernel' = Ready
              /\ lock' = None
           \/ /\ rows # <<>>
              /\ kernel' = [pc |-> "insert", id |-> kernel.id,
                            actor |-> kernel.actor,
                            accepted |-> kernel.accepted, rows |-> rows]
              /\ UNCHANGED lock
        /\ UNCHANGED << vars, roster, broadcasts >>

\* The INSERTs and the COMMIT.
Insert ==
    LET rows == kernel.rows
    IN  /\ kernel.pc = "insert"
        /\ broadcasts' = [broadcasts EXCEPT ![kernel.id] =
              [actor |-> kernel.actor, accepted |-> kernel.accepted,
               size |-> Len(rows), audited |-> Len(rows), rows |-> rows]]
        /\ deliveries' = [d \in DeliveryIds |->
              IF \E i \in DOMAIN rows : rows[i].delivery = d
              THEN [binding |-> rows[CHOOSE i \in DOMAIN rows :
                                        rows[i].delivery = d].binding,
                    state |-> "queued", disposition |-> None]
              ELSE deliveries[d]]
        /\ kernel' = Ready
        /\ lock' = None
        /\ UNCHANGED << bindings, superseding, providers, principals, messages,
                        ledger, reducer, roster >>

\* The process of connection c dies; SQLite rolls its transaction back.
ConnectionCrash(c) ==
    /\ lock = c
    /\ lock' = None
    /\ kernel' = IF c = "kernel" THEN Ready ELSE kernel
    /\ UNCHANGED << vars, roster, broadcasts >>
-----------------------------------------------------------------------------
(***************************************************************************)
(* BroadcastKernel.result                                                  *)
(***************************************************************************)
DeliveredStates == {"transport-submitted", "in-session", "processed"}

\* Mutant: a seat that was never bound does not count.
AllDeliveredOfBound(x) ==
    /\ broadcasts[x] # None
    /\ \A i \in DOMAIN broadcasts[x].rows :
          LET row == broadcasts[x].rows[i]
          IN  \/ row.binding = None
              \/ deliveries[row.delivery].state \in DeliveredStates

\* What result finds consistent, or else it raises.
SnapshotConsistent(x) ==
    /\ broadcasts[x] # None
    /\ broadcasts[x].size = Len(broadcasts[x].rows)
    /\ broadcasts[x].audited = broadcasts[x].size

AllDelivered(x) ==
    /\ SnapshotConsistent(x)
    /\ broadcasts[x].rows # <<>>
    /\ \A i \in DOMAIN broadcasts[x].rows :
          deliveries[broadcasts[x].rows[i].delivery].state \in DeliveredStates

\* Mutant: the seat's binding of today is asked.
UnavailableReasonNow(row) ==
    IF \/ deliveries[row.delivery].state \notin {"queued", "dispatching"}
       \/ \E b \in BindingIds : /\ Binding[b].recipient = row.recipient
                                /\ bindings[b] = "active"
    THEN None ELSE "binding-absent"

\* _outcome: why a row that is not submitted yet cannot be, or None.
UnavailableReason(row) ==
    IF deliveries[row.delivery].state \notin {"queued", "dispatching"}
    THEN None
    ELSE IF row.binding = None THEN "binding-absent"
    ELSE IF bindings[row.binding] # "active"
         THEN "binding-revoked-or-superseded"
    ELSE None
-----------------------------------------------------------------------------
BroadcastNext ==
    \/ \E c \in Connections :
          \/ StoreWrite(c)
          \/ StoreRefusal(c)
          \/ \E members \in Rosters : ReplaceRoomRoster(c, members)
          \/ ConnectionCrash(c)
    \/ StoreRead
    \/ \E w \in Reducers : ReducerMoves(w)
    \/ \E x \in BroadcastIds, actor \in Actors, at \in Times :
          Begin(x, actor, at)
    \/ Expand
    \/ Insert

BroadcastSpec == BroadcastInit /\ [][BroadcastNext]_broadcastVars
-----------------------------------------------------------------------------
(***************************************************************************)
(* Properties                                                              *)
(***************************************************************************)
\* A broadcast freezes one moment (broadcasts.py:52, BEGIN IMMEDIATE): when
\* its rows are committed they are what the roster and the bindings then
\* say, although both were read some statements earlier and other processes
\* change them.
SnapshotIsOneMoment ==
    [][\A x \in BroadcastIds :
          broadcasts[x] = None /\ broadcasts'[x] # None =>
              broadcasts'[x].rows =
                  Expansion(x, broadcasts'[x].actor, broadcasts'[x].accepted)
      ]_broadcastVars

\* all_delivered is never an overclaim (core/README: "remains false while any
\* row is queued or dispatching"): every seat of the roster that was frozen,
\* an absent one included, has a delivery that a recorded receipt of the
\* transport moved, under the binding the seat had at acceptance.
RollupIsPaidFor ==
    \A x \in BroadcastIds :
        AllDelivered(x) =>
            \A i \in DOMAIN broadcasts[x].rows :
                LET row == broadcasts[x].rows[i]
                IN  \E k \in DOMAIN ledger :
                       /\ ledger[k].receipt.delivery = row.delivery
                       /\ ledger[k].receipt.class = "transport.submit_ack"
                       /\ ledger[k].receipt.binding = row.binding

\* Absence stays visible: the reason a seat is unavailable is taken back only
\* by a proof of transport, never by what later happens to bindings or to
\* the roster.
AbsenceStaysVisible ==
    [][\A x \in BroadcastIds :
          broadcasts[x] # None =>
              \A i \in DOMAIN broadcasts[x].rows :
                  LET row == broadcasts[x].rows[i]
                  IN  UnavailableReason(row) # None =>
                         \/ UnavailableReason(row)' = UnavailableReason(row)
                         \/ deliveries'[row.delivery].state
                               = "transport-submitted"
      ]_broadcastVars

\* The binding delivery d was queued under is retired, d is not in its
\* session, and no reducer holds a receipt that was validated before.
Stranded(d) ==
    /\ deliveries[d].binding # None
    /\ bindings[deliveries[d].binding] \in {"revoked", "superseded"}
    /\ deliveries[d].state \in {"queued", "dispatching", "transport-submitted"}
    /\ \A w \in Reducers :
          reducer[w].pc = "commit" =>
              ~ /\ reducer[w].receipt.delivery = d
                /\ reducer[w].receipt.class \in SessionProofEvidence

\* A delivery whose binding retires before it enters the session is stranded
\* for good (broadcasts.py:68 binds it at acceptance and nothing rebinds it):
\* it may still be reported as submitted, so that all_delivered holds, but no
\* evidence brings it into a session, of the new binding or the old.
StrandedForGood ==
    [][\A d \in DeliveryIds : Stranded(d) => Stranded(d)']_broadcastVars
=============================================================================
