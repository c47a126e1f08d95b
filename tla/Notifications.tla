---------------------------- MODULE Notifications ----------------------------
(***************************************************************************)
(* The lifecycle of the banners that announce deliveries                   *)
(* (plugins/cmux/yatagarasu_cmux/notifications.py).                        *)
(*                                                                         *)
(* The database is in autocommit mode and the host is reached by RPC, so   *)
(* a call is a sequence of statements and RPCs between which other         *)
(* processes act, the process may die, or an RPC may raise.  A create      *)
(* whose caller has given up may still be performed by the host.           *)
(*                                                                         *)
(* The host's banners are external.  A banner is matched by workspace,     *)
(* surface and correlation token, of which the delivery stands for all     *)
(* three.  Every publisher of a delivery makes the same claim, so that     *)
(* _assert_same_claim, whose refusal changes nothing, is left out.         *)
(***************************************************************************)
EXTENDS Naturals, FiniteSets, SequencesExt

CONSTANTS
    DeliveryIds,
    Seat,           \* the seat_id of each delivery
    Processes,      \* each with its connection and at most one call
    Cap,            \* per_seat_cap
    Ttl,            \* mailbox_ttl_s
    MaxTime,        \* bound: the clock
    MaxCreated,     \* bound: banners the host creates
    MaxFaults,      \* bound: calls that die or raise for the host
    None

ASSUME PositiveAssumption == Cap \in Nat \ {0} /\ Ttl \in Nat \ {0}

ASSUME BoundsAssumption ==
    MaxTime \in Nat /\ MaxCreated \in Nat /\ MaxFaults \in Nat

ASSUME DeliveriesAssumption ==
    IsFiniteSet(DeliveryIds) /\ DeliveryIds \subseteq Nat

VARIABLES
    rows,           \* notification_lifecycle by delivery_id, or None
    banners,        \* the host's notifications
    created,        \* how many it has created, the id of the latest
    late,           \* creates that no caller waits for any more
    call,           \* the call of each process
    now,            \* the clock
    faults,
    raced,          \* history: deliveries that two calls worked on at once,
                    \* or for which a create came late
    overdue         \* history: the seats for which a publish ended between
                    \* its activation and its evictions, and no
                    \* _enforce_cap has run since

hostVars == << banners, created, late >>

history == << raced, overdue >>

vars == << rows, hostVars, call, now, faults, history >>

Live == {"prepared", "active"}
Retired == {"dismissed", "expired", "evicted"}

Ids == 1..MaxCreated

Row ==
    [state : Live \cup Retired, id : Ids \cup {None}, created : Nat,
     expires : Nat]

ASSUME NoneAssumption ==
    None \notin Nat /\ None \notin DeliveryIds /\ None \notin Row

Idle == [pc |-> "idle"]

\* A call at pc, in publish about delivery d; then: what follows when the
\* deliveries in todo have been retired to state target.
Call(pc, d) ==
    [pc |-> pc, delivery |-> d, began |-> now, todo |-> <<>>,
     target |-> None, then |-> None, ids |-> {}]

InState(states) ==
    {d \in DeliveryIds : rows[d] # None /\ rows[d].state \in states}

\* ORDER BY created_at, event_id: deliveries are numbered by event_id.
Older(d, e) ==
    \/ rows[d].created < rows[e].created
    \/ rows[d].created = rows[e].created /\ d < e

InOrder(ds) ==
    CHOOSE s \in [1..Cardinality(ds) -> ds] :
        \A i, j \in DOMAIN s : i < j => Older(s[i], s[j])

\* _matching_notifications
Matching(d) == {b \in banners : b.delivery = d}

Involved(c, d) == c.pc # "idle" /\ (c.delivery = d \/ d \in ToSet(c.todo))

Shared(calls) ==
    {d \in DeliveryIds : \E p, q \in Processes :
        p # q /\ Involved(calls[p], d) /\ Involved(calls[q], d)}

\* Process p's call goes on as c.
Go(p, c) ==
    /\ call' = [call EXCEPT ![p] = c]
    /\ raced' = raced \cup Shared(call')

Init ==
    /\ rows = [d \in DeliveryIds |-> None]
    /\ banners = {}
    /\ created = 0
    /\ late = {}
    /\ call = [p \in Processes |-> Idle]
    /\ now = 0
    /\ faults = 0
    /\ raced = {}
    /\ overdue = {}
-----------------------------------------------------------------------------
(***************************************************************************)
(* expire and _retire_delivery                                             *)
(***************************************************************************)
\* c retires the deliveries ds to target, then continues at then.
Retiring(c, ds, target, then) ==
    [c EXCEPT !.pc = "retire", !.todo = ds, !.target = target, !.then = then]

Due == {d \in InState(Live) : rows[d].expires =< now}

Expire(p) ==
    /\ call[p] = Idle
    /\ Go(p, Retiring(Call("retire", None), InOrder(Due), "expired", "return"))
    /\ UNCHANGED << rows, hostVars, now, faults, overdue >>

\* on_receipt, for the receipt that brought d into its session, and
\* on_notification_read, for the banner of d.
Acknowledge(p, d) ==
    /\ call[p] = Idle
    /\ rows[d] # None
    /\ Go(p, Retiring(Call("retire", None), << d >>, "dismissed", "return"))
    /\ UNCHANGED << rows, hostVars, now, faults, overdue >>

\* The row says which banner to dismiss, or that the host must be asked.
RetireRead(p) ==
    LET c == call[p]
        d == Head(c.todo)
    IN  /\ c.pc = "retire"
        /\ \/ /\ c.todo = <<>>
              /\ Go(p, [c EXCEPT !.pc = c.then])
           \/ /\ c.todo # <<>>
              /\ d \notin InState(Live)
              /\ Go(p, [c EXCEPT !.todo = Tail(@)])
           \/ /\ c.todo # <<>>
              /\ d \in InState(Live)
              /\ IF rows[d].id = None
                 THEN Go(p, [c EXCEPT !.pc = "list"])
                 ELSE Go(p, [c EXCEPT !.pc = "dismiss", !.ids = {rows[d].id}])
        /\ UNCHANGED << rows, hostVars, now, faults, overdue >>

RetireList(p) ==
    LET c == call[p]
    IN  /\ c.pc = "list"
        /\ Go(p, [c EXCEPT !.pc = "dismiss",
                           !.ids = {b.id : b \in Matching(Head(c.todo))}])
        /\ UNCHANGED << rows, hostVars, now, faults, overdue >>

\* A banner that is already gone makes the RPC fail, which is ignored.
RetireDismiss(p) ==
    LET c == call[p]
    IN  /\ c.pc = "dismiss"
        /\ \E i \in c.ids :
              /\ banners' = {b \in banners : b.id # i}
              /\ Go(p, [c EXCEPT !.ids = @ \ {i}])
        /\ UNCHANGED << rows, created, late, now, faults, overdue >>

\* Mutant: the row is retired before its banners are dismissed.
RetireUpdateEarly(p) ==
    LET c == call[p]
    IN  /\ c.pc = "dismiss"
        /\ rows' = [rows EXCEPT ![Head(c.todo)].state = c.target]
        /\ Go(p, [c EXCEPT !.pc = "retire", !.todo = Tail(@), !.ids = {}])
        /\ UNCHANGED << hostVars, now, faults, overdue >>

\* The UPDATE does not ask for the state that was read.
RetireUpdate(p) ==
    LET c == call[p]
    IN  /\ c.pc = "dismiss"
        /\ c.ids = {}
        /\ rows' = [rows EXCEPT ![Head(c.todo)].state = c.target]
        /\ Go(p, [c EXCEPT !.pc = "retire", !.todo = Tail(@)])
        /\ UNCHANGED << hostVars, now, faults, overdue >>
-----------------------------------------------------------------------------
(***************************************************************************)
(* publish                                                                 *)
(***************************************************************************)
Publish(p, d) ==
    /\ call[p] = Idle
    /\ Go(p, Retiring(Call("retire", d), InOrder(Due), "expired", "claim"))
    /\ UNCHANGED << rows, hostVars, now, faults, overdue >>

\* A row that is active is returned, a retired one is refused.
Claim(p) ==
    LET c == call[p]
        d == c.delivery
    IN  /\ c.pc = "claim"
        /\ \/ rows[d] = None /\ Go(p, [c EXCEPT !.pc = "insert"])
           \/ d \in InState({"prepared"}) /\ Go(p, [c EXCEPT !.pc = "match"])
           \/ d \in InState(Retired \cup {"active"}) /\ Go(p, Idle)
        /\ UNCHANGED << rows, hostVars, now, faults, overdue >>

\* The one that loses the INSERT goes on with the row of the winner, in
\* whatever state that is.
Insert(p) ==
    LET c == call[p]
        d == c.delivery
    IN  /\ c.pc = "insert"
        /\ rows' = [rows EXCEPT ![d] =
              IF @ # None THEN @
              ELSE [state |-> "prepared", id |-> None, created |-> c.began,
                    expires |-> c.began + Ttl]]
        /\ Go(p, [c EXCEPT !.pc = "match"])
        /\ UNCHANGED << hostVars, now, faults, overdue >>

\* Before the create, at pc "match", and after it, at "rematch": no banner
\* is the reason to create one, and several are an error.
Match(p) ==
    LET c   == call[p]
        ids == {b.id : b \in Matching(c.delivery)}
    IN  /\ c.pc \in {"match", "rematch"}
        /\ \/ Cardinality(ids) = 1
              /\ Go(p, [c EXCEPT !.pc = "activate", !.ids = ids])
           \/ ids = {} /\ c.pc = "match"
              /\ Go(p, [c EXCEPT !.pc = "create"])
           \/ ids = {} /\ c.pc = "rematch" /\ Go(p, Idle)
           \/ Cardinality(ids) > 1 /\ Go(p, Idle)
        /\ UNCHANGED << rows, hostVars, now, faults, overdue >>

NewBanner(d) ==
    /\ created < MaxCreated
    /\ created' = created + 1
    /\ banners' = banners \cup {[id |-> created + 1, delivery |-> d]}

Create(p) ==
    LET c == call[p]
    IN  /\ c.pc = "create"
        /\ NewBanner(c.delivery)
        /\ Go(p, [c EXCEPT !.pc = "rematch"])
        /\ UNCHANGED << rows, late, now, faults, overdue >>

\* Mutant: the UPDATE does not ask for a prepared row.
ActivateAny(p) ==
    LET c == call[p]
    IN  /\ c.pc = "activate"
        /\ rows' = [rows EXCEPT ![c.delivery].state = "active",
                                ![c.delivery].id = CHOOSE i \in c.ids : TRUE]
        /\ Go(p, [c EXCEPT !.pc = "cap", !.ids = {}])
        /\ UNCHANGED << hostVars, now, faults, overdue >>

\* Mutant: the id is not stored.
ActivateUnnamed(p) ==
    LET c == call[p]
    IN  /\ c.pc = "activate"
        /\ rows' = [rows EXCEPT ![c.delivery].state =
              IF @ = "prepared" THEN "active" ELSE @]
        /\ Go(p, [c EXCEPT !.pc = "cap", !.ids = {}])
        /\ UNCHANGED << hostVars, now, faults, overdue >>

\* The id is stored only in a row that is still prepared.
Activate(p) ==
    LET c == call[p]
        d == c.delivery
    IN  /\ c.pc = "activate"
        /\ rows' = IF d \in InState({"prepared"})
                   THEN [rows EXCEPT ![d].state = "active",
                                     ![d].id = CHOOSE i \in c.ids : TRUE]
                   ELSE rows
        /\ Go(p, [c EXCEPT !.pc = "cap", !.ids = {}])
        /\ UNCHANGED << hostVars, now, faults, overdue >>

ActiveOf(seat) == {d \in InState({"active"}) : Seat[d] = seat}

\* Mutant: the delivery just published is not counted.
ExcessOfOthers(d) ==
    LET others == ActiveOf(Seat[d]) \ {d}
        excess == IF Cardinality(others) > Cap
                  THEN Cardinality(others) - Cap ELSE 0
    IN  SubSeq(InOrder(others), 1, excess)

\* _enforce_cap: the oldest active rows of d's seat, but not d itself.
Excess(d) ==
    LET active == ActiveOf(Seat[d])
        excess == IF Cardinality(active) > Cap
                  THEN Cardinality(active) - Cap ELSE 0
        evictable == InOrder(active \ {d})
    IN  SubSeq(evictable, 1,
               IF excess < Len(evictable) THEN excess ELSE Len(evictable))

EnforceCap(p) ==
    LET c == call[p]
    IN  /\ c.pc = "cap"
        /\ Go(p, Retiring(c, Excess(c.delivery), "evicted", "return"))
        /\ overdue' = overdue \ {Seat[c.delivery]}
        /\ UNCHANGED << rows, hostVars, now, faults >>

\* The call returns, with the record or with "notification_not_active".
Return(p) ==
    /\ call[p].pc = "return"
    /\ Go(p, Idle)
    /\ UNCHANGED << rows, hostVars, now, faults, overdue >>
-----------------------------------------------------------------------------
(***************************************************************************)
(* Faults, the user and the clock                                          *)
(***************************************************************************)
\* A publish that has activated its row and not finished its evictions.
MustEvict(c) ==
    c.pc = "cap" \/ (c.delivery # None /\ c.then = "return")

\* The process dies or the host lets an RPC of it fail.  The create it was
\* waiting for may be performed later.
Abort(p) ==
    LET c == call[p]
    IN  /\ faults < MaxFaults
        /\ faults' = faults + 1
        /\ c.pc # "idle"
        /\ call' = [call EXCEPT ![p] = Idle]
        /\ \/ UNCHANGED << late, raced >>
           \/ /\ c.pc = "create"
              /\ late' = late \cup {c.delivery}
              /\ raced' = raced \cup {c.delivery}
        /\ overdue' = IF MustEvict(c) THEN overdue \cup {Seat[c.delivery]}
                      ELSE overdue
        /\ UNCHANGED << rows, banners, created, now >>

LateCreate(d) ==
    /\ d \in late
    /\ late' = late \ {d}
    /\ NewBanner(d)
    /\ UNCHANGED << rows, call, now, faults, history >>

\* The user closes a banner.
UserDismiss(b) ==
    /\ banners' = banners \ {b}
    /\ UNCHANGED << rows, created, late, call, now, faults, history >>

Tick ==
    /\ now < MaxTime
    /\ now' = now + 1
    /\ UNCHANGED << rows, hostVars, call, faults, history >>
-----------------------------------------------------------------------------
Step(p) ==
    \/ RetireRead(p) \/ RetireList(p) \/ RetireDismiss(p) \/ RetireUpdate(p)
    \/ Claim(p) \/ Insert(p) \/ Match(p) \/ Create(p) \/ Activate(p)
    \/ EnforceCap(p) \/ Return(p)

Next ==
    \/ \E p \in Processes :
          \/ \E d \in DeliveryIds : Publish(p, d) \/ Acknowledge(p, d)
          \/ Expire(p)
          \/ Step(p)
          \/ Abort(p)
    \/ \E d \in DeliveryIds : LateCreate(d)
    \/ \E b \in banners : UserDismiss(b)
    \/ Tick

Spec == Init /\ [][Next]_vars
-----------------------------------------------------------------------------
(***************************************************************************)
(* Properties                                                              *)
(***************************************************************************)
TypeOK ==
    /\ rows \in [DeliveryIds -> Row \cup {None}]
    /\ \A d \in InState({"active"}) : rows[d].id # None
    /\ banners \subseteq [id : Ids, delivery : DeliveryIds]
    /\ created \in 0..MaxCreated
    /\ late \subseteq DeliveryIds
    /\ \A p \in Processes : call[p].pc \in
          {"idle", "retire", "list", "dismiss", "claim", "insert", "match",
           "create", "rematch", "activate", "cap", "return"}
    /\ now \in 0..MaxTime
    /\ faults \in 0..MaxFaults
    /\ raced \subseteq DeliveryIds
    /\ overdue \subseteq {Seat[d] : d \in DeliveryIds}

\* A retired announcement is never active again, although publish and the
\* receipt that retires it run concurrently and publish writes last
\* (notifications.py:205).
RetiredForGood ==
    [][\A d \in DeliveryIds :
          d \in InState(Retired) => rows'[d].state \in Retired]_vars

\* A delivery that only one call at a time has worked on has at most one
\* banner, and then it is the banner of a live row, the active one's own:
\* retries after a crash find it by its token (notifications.py:41-43), and
\* no banner outlives its row.
BannerIsReconciled ==
    \A d \in DeliveryIds \ raced : \A b \in Matching(d) :
        /\ Matching(d) = {b}
        /\ d \in InState(Live)
        /\ rows[d].id \in {None, b.id}

Quiet == late = {} /\ \A p \in Processes : call[p] = Idle

\* Between calls a seat has no more active announcements than its cap,
\* however publishers interleave, unless one of them died before its
\* evictions and no other has published to the seat since
\* (notifications.py:208).
CapIsKept ==
    Quiet =>
        \A d \in DeliveryIds :
            Seat[d] \notin overdue => Cardinality(ActiveOf(Seat[d])) =< Cap
=============================================================================
