------------------------- MODULE NotificationsProofs -------------------------
(***************************************************************************)
(* Theorems about Notifications, for every set of deliveries and           *)
(* processes, every cap and every bound.                                   *)
(***************************************************************************)
EXTENDS Notifications, FiniteSetTheorems, TLAPS

Pcs ==
    {"retire", "list", "dismiss", "claim", "insert", "match", "create",
     "rematch", "activate", "cap", "return"}

Calls ==
    [pc : Pcs, delivery : DeliveryIds \cup {None}, began : Nat,
     todo : Seq(DeliveryIds), target : Retired \cup {None},
     then : {"return", "claim", None}, ids : SUBSET Ids]

\* Every row and every call is typed; a row has an id once it was active.
Types ==
    /\ rows \in [DeliveryIds -> Row \cup {None}]
    /\ \A d \in DeliveryIds :
          rows[d] # None /\ rows[d].state = "active" => rows[d].id # None
    /\ \A d \in DeliveryIds :
          rows[d] # None /\ rows[d].state = "prepared" => rows[d].id = None
    /\ call \in [Processes -> Calls \cup {Idle}]
    /\ late \subseteq DeliveryIds
    /\ banners \subseteq [id : Ids, delivery : DeliveryIds]
    /\ created \in 0..MaxCreated
    /\ now \in 0..MaxTime
    /\ faults \in 0..MaxFaults
    /\ raced \subseteq DeliveryIds
    /\ overdue \subseteq {Seat[d] : d \in DeliveryIds}

Publishing == {"claim", "insert", "match", "create", "rematch", "activate", "cap"}

\* What a call holds: the deliveries it retires have rows, the delivery it
\* publishes has one from its INSERT on, and evictions are those of a seat.
CallSound(c) ==
    /\ c.pc \in {"retire", "list", "dismiss"} =>
          /\ c.target \in Retired /\ c.then \in {"return", "claim"}
          /\ \A d \in ToSet(c.todo) : rows[d] # None
          /\ c.then = "claim" => c.delivery # None /\ c.target = "expired"
    /\ c.pc \in {"list", "dismiss"} => c.todo # <<>>
    /\ c.pc \in Publishing => c.delivery # None
    /\ c.pc \in {"match", "create", "rematch", "activate"} =>
          rows[c.delivery] # None
    /\ c.pc = "activate" => \E i \in Ids : c.ids = {i}

\* Deliveries that two calls work on, and those whose create came late, are
\* known.
RacesKnown == Shared(call) \cup late \subseteq raced

\* The ids of the banners of d.
Shown(d) == {b.id : b \in Matching(d)}

\* What the host shows for delivery d goes with its row.
RowShown(d) ==
    /\ \A b, c \in Matching(d) : b = c
    /\ rows[d] = None => Matching(d) = {}
    /\ d \in InState(Retired) => Matching(d) = {}
    /\ d \in InState({"active"}) => Shown(d) \subseteq {rows[d].id}

\* What call c knows of delivery d, which no other call works on.
CallKnows(c, d) ==
    /\ c.pc = "insert" /\ c.delivery = d => rows[d] = None
    /\ c.pc \in {"match", "create", "rematch", "activate"} /\ c.delivery = d =>
          d \in InState({"prepared"})
    /\ c.pc = "create" /\ c.delivery = d => Matching(d) = {}
    /\ c.pc = "dismiss" /\ Head(c.todo) = d => Shown(d) \subseteq c.ids
    /\ c.pc = "activate" /\ c.delivery = d => Shown(d) \subseteq c.ids

Reconciled ==
    \A d \in DeliveryIds \ raced :
        RowShown(d) /\ \A p \in Processes : CallKnows(call[p], d)

\* Call c is evicting deliveries of a seat.
Evicting(c, seat) ==
    /\ c.pc \in {"retire", "list", "dismiss"}
    /\ c.then = "return"
    /\ c.delivery # None
    /\ Seat[c.delivery] = seat

\* The announcements of a seat that no call is about to evict.
Staying(seat) ==
    {d \in ActiveOf(seat) : \A p \in Processes :
        ~ (Evicting(call[p], seat) /\ d \in ToSet(call[p].todo))}

\* Whenever a seat is over its cap somebody is on the way to evict enough,
\* or died on it.
CapInSight ==
    \A d \in DeliveryIds :
        \/ Seat[d] \in overdue
        \/ \E p \in Processes :
              call[p].pc = "cap" /\ Seat[call[p].delivery] = Seat[d]
        \/ Cardinality(Staying(Seat[d])) =< Cap

IInv ==
    /\ Types
    /\ \A p \in Processes : CallSound(call[p])
    /\ RacesKnown
    /\ Reconciled
    /\ CapInSight
-----------------------------------------------------------------------------
(***************************************************************************)
(* Calls                                                                   *)
(***************************************************************************)
\* The first element of a sequence and the others.
LEMMA HeadAndTail ==
    ASSUME NEW S, NEW s \in Seq(S), s # <<>>
    PROVE  /\ Head(s) \in S /\ Tail(s) \in Seq(S)
           /\ Head(s) \in ToSet(s)
           /\ ToSet(Tail(s)) \subseteq ToSet(s)
           /\ ToSet(s) \subseteq ToSet(Tail(s)) \cup {Head(s)}
<1>1. Len(s) \in Nat /\ Len(s) > 0 /\ DOMAIN s = 1..Len(s)
  OBVIOUS
<1>2. Head(s) = s[1] /\ 1 \in DOMAIN s
  BY <1>1
<1>3. /\ Tail(s) \in Seq(S) /\ Len(Tail(s)) = Len(s) - 1
      /\ DOMAIN Tail(s) = 1..(Len(s) - 1)
      /\ \A i \in 1..(Len(s) - 1) : Tail(s)[i] = s[i + 1]
  BY <1>1
<1>4. ToSet(Tail(s)) \subseteq ToSet(s)
  <2>1. SUFFICES ASSUME NEW i \in 1..(Len(s) - 1) PROVE s[i + 1] \in ToSet(s)
    BY <1>3 DEF ToSet
  <2>2. i + 1 \in DOMAIN s
    BY <1>1
  <2> QED
    BY <2>2 DEF ToSet
<1>5. ToSet(s) \subseteq ToSet(Tail(s)) \cup {Head(s)}
  <2>1. SUFFICES ASSUME NEW i \in 1..Len(s), i # 1
                 PROVE  s[i] \in ToSet(Tail(s))
    BY <1>1, <1>2 DEF ToSet
  <2>2. i - 1 \in 1..(Len(s) - 1) /\ (i - 1) + 1 = i
    BY <1>1, <2>1
  <2>3. Tail(s)[i - 1] = s[i]
    BY <1>3, <2>2
  <2> QED
    BY <1>3, <2>2, <2>3 DEF ToSet
<1> QED
  BY <1>1, <1>2, <1>3, <1>4, <1>5 DEF ToSet

\* The fields of a call are typed.
LEMMA CallFields ==
    ASSUME NEW c \in Calls
    PROVE  /\ c.pc \in Pcs /\ c.delivery \in DeliveryIds \cup {None}
           /\ c.began \in Nat /\ c.todo \in Seq(DeliveryIds)
           /\ c.target \in Retired \cup {None}
           /\ c.then \in {"return", "claim", None} /\ c.ids \in SUBSET Ids
           /\ c.pc # "idle"
    BY DEF Calls, Pcs

\* Idle is no call.
LEMMA IdlePc == Idle.pc = "idle" /\ "idle" \notin Pcs
    BY DEF Idle, Pcs

\* A call that is not idle is a call.
LEMMA CallTypes ==
    ASSUME Types, NEW p \in Processes
    PROVE  /\ call[p] \in Calls \cup {Idle}
           /\ call[p].pc # "idle" => call[p] \in Calls
           /\ call[p].pc = "idle" => call[p] = Idle
<1>1. call[p] \in Calls \cup {Idle}
  BY DEF Types
<1> QED
  BY <1>1, IdlePc, CallFields

\* A new call.
LEMMA NewCall ==
    ASSUME Types, NEW d \in DeliveryIds \cup {None}
    PROVE  /\ Call("retire", d) \in Calls
           /\ Call("retire", d).delivery = d
<1>1. now \in Nat
  BY BoundsAssumption DEF Types
<1>2. <<>> \in Seq(DeliveryIds)
  OBVIOUS
<1> QED
  BY <1>1, <1>2 DEF Call, Calls, Pcs

\* A call that starts to retire deliveries.
LEMMA RetiringTypes ==
    ASSUME NEW c \in Calls, NEW ds \in Seq(DeliveryIds), NEW target \in Retired,
           NEW then \in {"return", "claim"}
    PROVE  LET r == Retiring(c, ds, target, then)
           IN  /\ r \in Calls
               /\ r.pc = "retire" /\ r.delivery = c.delivery /\ r.todo = ds
               /\ r.target = target /\ r.then = then /\ r.ids = c.ids
    BY DEF Retiring, Calls, Pcs

\* A call that goes on with other deliveries to retire, or other banners.
LEMMA CallGoesOn ==
    ASSUME NEW c \in Calls, NEW pc \in Pcs, NEW todo \in Seq(DeliveryIds),
           NEW ids \in SUBSET Ids
    PROVE  /\ [c EXCEPT !.pc = pc] \in Calls
           /\ [c EXCEPT !.todo = todo] \in Calls
           /\ [c EXCEPT !.ids = ids] \in Calls
           /\ [c EXCEPT !.pc = pc, !.todo = todo] \in Calls
           /\ [c EXCEPT !.pc = pc, !.ids = ids] \in Calls
    BY DEF Calls

\* The rows.
LEMMA RowTypes ==
    ASSUME Types, NEW d \in DeliveryIds, rows[d] # None
    PROVE  /\ rows[d] \in Row
           /\ rows[d].state \in Live \cup Retired
           /\ rows[d].id \in Ids \cup {None}
           /\ rows[d].created \in Nat /\ rows[d].expires \in Nat
    BY DEF Types, Row
-----------------------------------------------------------------------------
(***************************************************************************)
(* Sorting                                                                 *)
(***************************************************************************)
\* A finite set of rows has an order by created_at and event_id: the place
\* of a row is the number of rows that are not younger.
LEMMA SortExists ==
    ASSUME Types, NEW ds \in SUBSET DeliveryIds, \A d \in ds : rows[d] # None
    PROVE  \E s \in [1..Cardinality(ds) -> ds] :
              \A i, j \in DOMAIN s : i < j => Older(s[i], s[j])
<1> DEFINE upTo(d) == {e \in ds : e = d \/ Older(e, d)}
           n == Cardinality(ds)
           place == [d \in ds |-> Cardinality(upTo(d))]
<1>1. IsFiniteSet(ds) /\ n \in Nat
  BY DeliveriesAssumption, FS_Subset, FS_CardinalityType
<1>2. \A d \in ds : d \in Nat /\ rows[d].created \in Nat
  BY DeliveriesAssumption, RowTypes
<1>3. \A d, e \in ds : d = e \/ Older(d, e) \/ Older(e, d)
  BY <1>2 DEF Older
<1>4. \A d, e, f \in ds : Older(d, e) /\ Older(e, f) => Older(d, f)
  BY <1>2 DEF Older
<1>5. \A d, e \in ds : Older(d, e) => d # e /\ ~ Older(e, d)
  BY <1>2 DEF Older
<1>6. \A d \in ds : /\ upTo(d) \in SUBSET ds /\ IsFiniteSet(upTo(d))
                    /\ Cardinality(upTo(d)) \in 1..n
  <2>1. TAKE d \in ds
  <2>2. upTo(d) \in SUBSET ds /\ d \in upTo(d)
    OBVIOUS
  <2>3. IsFiniteSet(upTo(d)) /\ Cardinality(upTo(d)) =< n
    BY <1>1, <2>2, FS_Subset
  <2>4. Cardinality(upTo(d)) \in Nat /\ Cardinality(upTo(d)) # 0
    BY <2>2, <2>3, FS_EmptySet, FS_CardinalityType
  <2> QED
    BY <1>1, <2>2, <2>3, <2>4
<1>7. \A d, e \in ds : Older(d, e) => Cardinality(upTo(d)) < Cardinality(upTo(e))
  <2>1. SUFFICES ASSUME NEW d \in ds, NEW e \in ds, Older(d, e)
                 PROVE  Cardinality(upTo(d)) < Cardinality(upTo(e))
    OBVIOUS
  <2>2. upTo(d) \in SUBSET upTo(e) /\ e \in upTo(e) /\ e \notin upTo(d)
    BY <1>4, <1>5, <2>1
  <2> HIDE DEF upTo
  <2>3. /\ Cardinality(upTo(d)) =< Cardinality(upTo(e))
        /\ Cardinality(upTo(d)) # Cardinality(upTo(e))
    BY <1>6, <2>2, FS_Subset
  <2> QED
    BY <1>1, <1>6, <2>3
<1>8. place \in Injection(ds, 1..n)
  <2>1. place \in [ds -> 1..n]
    BY <1>6
  <2>2. \A d, e \in ds : d # e => place[d] # place[e]
    <3> HIDE DEF upTo, n
    <3> QED
      BY <1>1, <1>3, <1>6, <1>7
  <2> HIDE DEF place
  <2> QED
    BY <2>1, <2>2 DEF Injection, IsInjective
<1>9. place \in Surjection(ds, 1..n)
  <2>1. IsFiniteSet(1..n) /\ Cardinality(1..n) = n
    BY <1>1, FS_Interval
  <2> HIDE DEF place
  <2> QED
    BY <1>8, <2>1, FS_Injection
<1> DEFINE s == [i \in 1..n |-> CHOOSE d \in ds : place[d] = i]
<1>10. \A i \in 1..n : s[i] \in ds /\ place[s[i]] = i
  <2>1. TAKE i \in 1..n
  <2>2. \E d \in ds : place[d] = i
    BY <1>9 DEF Surjection
  <2> HIDE DEF place
  <2> QED
    BY <2>2
<1>11. s \in [1..n -> ds]
  BY <1>10
<1>12. ASSUME NEW i \in 1..n, NEW j \in 1..n, i < j
       PROVE  Older(s[i], s[j])
  <2>1. /\ s[i] \in ds /\ s[j] \in ds /\ place[s[i]] = i /\ place[s[j]] = j
    BY <1>10
  <2> HIDE DEF s
  <2>2. place[s[i]] = Cardinality(upTo(s[i])) /\ place[s[j]] = Cardinality(upTo(s[j]))
    BY <2>1
  <2> HIDE DEF place, upTo, n
  <2>3. s[i] # s[j] /\ ~ Older(s[j], s[i])
    BY <1>1, <1>7, <1>12, <2>1, <2>2
  <2> QED
    BY <1>3, <2>1, <2>3
<1>13. DOMAIN s = 1..n
  OBVIOUS
<1> HIDE DEF s
<1> QED
  BY <1>11, <1>12, <1>13

\* InOrder lists the rows it is given, each once.
LEMMA InOrderTypes ==
    ASSUME Types, NEW ds \in SUBSET DeliveryIds, \A d \in ds : rows[d] # None
    PROVE  /\ InOrder(ds) \in Seq(DeliveryIds)
           /\ Len(InOrder(ds)) = Cardinality(ds) /\ Cardinality(ds) \in Nat
           /\ ToSet(InOrder(ds)) \subseteq ds
           /\ \A i, j \in 1..Cardinality(ds) :
                 i # j => InOrder(ds)[i] # InOrder(ds)[j]
<1> DEFINE n == Cardinality(ds)
           s == InOrder(ds)
<1>1. n \in Nat
  BY DeliveriesAssumption, FS_Subset, FS_CardinalityType
<1>2. /\ s \in [1..n -> ds]
      /\ \A i, j \in DOMAIN s : i < j => Older(s[i], s[j])
  BY SortExists DEF InOrder
<1> HIDE DEF s
<1>3. s \in Seq(ds) /\ s \in Seq(DeliveryIds) /\ Len(s) = n /\ DOMAIN s = 1..n
  <2> HIDE DEF n
  <2>1. s \in [1..n -> DeliveryIds]
    BY <1>2
  <2> QED
    BY <1>1, <1>2, <2>1
<1>4. \A d \in ds : ~ Older(d, d)
  <2>1. \A d \in ds : d \in Nat /\ rows[d].created \in Nat
    BY DeliveriesAssumption, RowTypes
  <2> QED
    BY <2>1 DEF Older
<1>5. \A i, j \in 1..n : i # j => s[i] # s[j]
  <2>1. SUFFICES ASSUME NEW i \in 1..n, NEW j \in 1..n, i # j, s[i] = s[j]
                 PROVE  FALSE
    OBVIOUS
  <2>2. i < j \/ j < i
    BY <1>1, <2>1
  <2> QED
    BY <1>2, <1>3, <1>4, <2>1, <2>2
<1>6. ToSet(s) \subseteq ds
  BY <1>2 DEF ToSet
<1> QED
  BY <1>1, <1>3, <1>5, <1>6 DEF s
-----------------------------------------------------------------------------
(***************************************************************************)
(* What a step leaves alone                                                *)
(***************************************************************************)
\* A delivery that is not raced has one call at most.
LEMMA Alone ==
    ASSUME RacesKnown, NEW d \in DeliveryIds, d \notin raced,
           NEW p \in Processes, NEW q \in Processes, p # q,
           Involved(call[p], d)
    PROVE  ~ Involved(call[q], d)
    BY DEF RacesKnown, Shared

\* A call knows nothing of a delivery it does not work on.
LEMMA KnowsOnlyOwn ==
    ASSUME NEW c \in Calls \cup {Idle}, NEW d, ~ Involved(c, d),
           c.pc \in {"list", "dismiss"} => c.todo # <<>>
    PROVE  CallKnows(c, d) /\ CallKnows(c, d)'
<1>1. CASE c = Idle
  BY <1>1, IdlePc DEF CallKnows
<1>2. CASE c \in Calls
  <2>1. c.pc # "idle" /\ c.delivery # d /\ d \notin ToSet(c.todo)
    BY <1>2, CallFields DEF Involved
  <2>2. c.pc = "dismiss" => Head(c.todo) # d
    BY <1>2, <2>1, CallFields, HeadAndTail
  <2> QED
    BY <2>1, <2>2 DEF CallKnows
<1> QED
  BY <1>1, <1>2

\* What a call knows of a delivery stays true while nobody writes its row or
\* shows a banner of it.
LEMMA KnowsStill ==
    ASSUME NEW c, NEW d \in DeliveryIds, CallKnows(c, d),
           rows'[d] = rows[d], Matching(d)' \subseteq Matching(d)
    PROVE  CallKnows(c, d)'
<1>1. Shown(d)' \subseteq Shown(d)
  BY DEF Shown
<1>2. d \in InState({"prepared"})' <=> d \in InState({"prepared"})
  BY DEF InState
<1> QED
  BY <1>1, <1>2 DEF CallKnows

\* Neither does what is shown for it become wrong.
LEMMA ShownStill ==
    ASSUME NEW d \in DeliveryIds, RowShown(d),
           rows'[d] = rows[d], Matching(d)' \subseteq Matching(d)
    PROVE  RowShown(d)'
<1>1. Shown(d)' \subseteq Shown(d)
  BY DEF Shown
<1>2. \A S : d \in InState(S)' <=> d \in InState(S)
  BY DEF InState
<1> QED
  BY <1>1, <1>2 DEF RowShown

\* Process p's call goes on as c.
LEMMA GoSound ==
    ASSUME IInv, NEW p \in Processes, NEW c \in Calls \cup {Idle}, Go(p, c)
    PROVE  /\ call' \in [Processes -> Calls \cup {Idle}]
           /\ call'[p] = c
           /\ \A q \in Processes \ {p} : call'[q] = call[q]
           /\ raced' \subseteq DeliveryIds
           /\ raced \subseteq raced'
           /\ late' \subseteq late => RacesKnown'
<1>1. call' = [call EXCEPT ![p] = c] /\ raced' = raced \cup Shared(call')
  BY DEF Go
<1>2. call \in [Processes -> Calls \cup {Idle}] /\ raced \subseteq DeliveryIds
  BY DEF IInv, Types
<1>3. late' \subseteq late => RacesKnown'
  BY <1>1 DEF IInv, RacesKnown
<1> QED
  BY <1>1, <1>2, <1>3 DEF Shared

\* The other calls stay sound while rows are not deleted.
LEMMA SoundStill ==
    ASSUME NEW c \in Calls \cup {Idle}, CallSound(c),
           \A d \in DeliveryIds : rows[d] # None => rows'[d] # None
    PROVE  CallSound(c)'
<1>1. CASE c = Idle
  BY <1>1, IdlePc DEF CallSound, Publishing
<1>2. CASE c \in Calls
  <2>1. /\ \A d \in ToSet(c.todo) : d \in DeliveryIds
        /\ c.delivery \in DeliveryIds \cup {None}
    <3>1. c.todo \in Seq(DeliveryIds) /\ c.delivery \in DeliveryIds \cup {None}
      BY <1>2, CallFields
    <3> QED
      BY <3>1 DEF ToSet
  <2>2. c.pc \in {"match", "create", "rematch", "activate"} => c.pc \in Publishing
    BY DEF Publishing
  <2> QED
    BY <2>1, <2>2 DEF CallSound
<1> QED
  BY <1>1, <1>2

\* Banners and calls agree after a step of p that touches only rows and
\* banners of deliveries it works on.
LEMMA ReconciledStep ==
    ASSUME IInv, NEW p \in Processes, NEW c \in Calls \cup {Idle}, Go(p, c),
           \A d \in DeliveryIds \ raced' :
              /\ RowShown(d)' /\ CallKnows(c, d)'
              /\ \/ rows'[d] = rows[d] /\ Matching(d)' \subseteq Matching(d)
                 \/ Involved(call[p], d)
    PROVE  Reconciled'
<1>1. /\ call'[p] = c /\ raced \subseteq raced'
      /\ \A q \in Processes \ {p} : call'[q] = call[q]
  BY GoSound
<1>2. SUFFICES ASSUME NEW d \in DeliveryIds \ raced', NEW q \in Processes
               PROVE  CallKnows(call[q], d)'
  BY DEF Reconciled
<1>3. CASE q = p
  <2>1. CallKnows(c, d)' /\ call'[q] = c
    BY <1>1, <1>3
  <2> QED
    BY <2>1 DEF CallKnows
<1>4. CASE q # p
  <2>1. PICK k \in Calls \cup {Idle} : k = call[q]
    BY CallTypes DEF IInv
  <2>2. call'[q] = k /\ d \notin raced /\ CallSound(k)
    BY <1>1, <1>4, <2>1 DEF IInv
  <2>3. CallKnows(k, d)'
    <3>1. CASE rows'[d] = rows[d] /\ Matching(d)' \subseteq Matching(d)
      <4>1. CallKnows(k, d)
        BY <2>1, <2>2 DEF IInv, Reconciled
      <4> QED
        BY <3>1, <4>1, KnowsStill
    <3>2. CASE Involved(call[p], d)
      <4>1. ~ Involved(k, d)
        BY <1>4, <2>1, <2>2, <3>2, Alone DEF IInv
      <4>2. k.pc \in {"list", "dismiss"} => k.todo # <<>>
        BY <2>2 DEF CallSound
      <4> QED
        BY <4>1, <4>2, KnowsOnlyOwn
    <3> QED
      BY <3>1, <3>2
  <2> QED
    BY <2>2, <2>3 DEF CallKnows
<1> QED
  BY <1>3, <1>4

\* A seat stays within its cap, or within sight of it, after a step of p that
\* activates nothing, or after which p is about to enforce the cap.
LEMMA CapStep ==
    ASSUME IInv, NEW p \in Processes, NEW c \in Calls \cup {Idle},
           call'[p] = c, \A q \in Processes \ {p} : call'[q] = call[q],
           call[p].pc # "cap", overdue \subseteq overdue',
           \A s : \/ c.pc = "cap" /\ Seat[c.delivery] = s
                  \/ /\ ActiveOf(s)' \subseteq ActiveOf(s)
                     /\ \A d \in ToSet(call[p].todo) :
                           Evicting(call[p], s) =>
                              \/ Evicting(c, s) /\ d \in ToSet(c.todo)
                              \/ d \notin ActiveOf(s)'
    PROVE  CapInSight'
<1>1. SUFFICES ASSUME NEW d \in DeliveryIds,
                      Seat[d] \notin overdue',
                      ~ \E q \in Processes :
                           call'[q].pc = "cap" /\ Seat[call'[q].delivery] = Seat[d]
               PROVE  Cardinality(Staying(Seat[d])') =< Cap
  BY DEF CapInSight
<1> DEFINE s == Seat[d]
<1>2. ~ \E q \in Processes : call[q].pc = "cap" /\ Seat[call[q].delivery] = s
  BY <1>1
<1>3. Cardinality(Staying(s)) =< Cap
  BY <1>1, <1>2 DEF IInv, CapInSight
<1>4. /\ ActiveOf(s)' \subseteq ActiveOf(s)
      /\ \A e \in ToSet(call[p].todo) :
            Evicting(call[p], s) => \/ Evicting(c, s) /\ e \in ToSet(c.todo)
                                    \/ e \notin ActiveOf(s)'
  BY <1>1
<1>5. Staying(s)' \subseteq Staying(s)
  <2>1. SUFFICES ASSUME NEW e \in Staying(s)', NEW q \in Processes,
                        Evicting(call[q], s), e \in ToSet(call[q].todo)
                 PROVE  FALSE
    BY <1>4 DEF Staying
  <2>2. /\ e \in ActiveOf(s)'
        /\ ~ (Evicting(call[q], s)' /\ e \in ToSet(call[q].todo)')
    BY <2>1 DEF Staying
  <2>3. CASE q # p
    <3>1. call'[q] = call[q]
      BY <2>3
    <3> QED
      BY <2>1, <2>2, <3>1 DEF Evicting
  <2>4. CASE q = p
    <3>1. Evicting(c, s) /\ e \in ToSet(c.todo) /\ call'[q] = c
      BY <1>4, <2>1, <2>2, <2>4
    <3> QED
      BY <2>2, <3>1 DEF Evicting
  <2> QED
    BY <2>3, <2>4
<1>6. IsFiniteSet(Staying(s)) /\ Cardinality(Staying(s)) \in Nat
  <2>1. Staying(s) \in SUBSET DeliveryIds
    BY DEF Staying, ActiveOf, InState
  <2> QED
    BY <2>1, DeliveriesAssumption, FS_Subset, FS_CardinalityType
<1>7. Cardinality(Staying(s)') =< Cardinality(Staying(s))
      /\ Cardinality(Staying(s)') \in Nat
  BY <1>5, <1>6, FS_Subset, FS_CardinalityType
<1> QED
  BY <1>3, <1>6, <1>7, PositiveAssumption

\* A step of p that writes no row and shows no banner.
LEMMA CallStep ==
    ASSUME IInv, NEW p \in Processes, NEW c \in Calls \cup {Idle}, Go(p, c),
           UNCHANGED << rows, created, late, now, faults, overdue >>,
           banners' \subseteq banners,
           call[p].pc # "cap", c.pc # "cap",
           CallSound(c),
           \A d \in DeliveryIds \ raced' : CallKnows(c, d)',
           \A s : \A d \in ToSet(call[p].todo) :
              Evicting(call[p], s) => \/ Evicting(c, s) /\ d \in ToSet(c.todo)
                                      \/ d \notin InState({"active"})
    PROVE  IInv'
<1>1. /\ call' \in [Processes -> Calls \cup {Idle}]
      /\ call'[p] = c /\ \A q \in Processes \ {p} : call'[q] = call[q]
      /\ raced' \subseteq DeliveryIds /\ raced \subseteq raced'
      /\ RacesKnown'
  BY GoSound
<1>2. Types'
  BY <1>1 DEF IInv, Types
<1>3. \A q \in Processes : CallSound(call[q])'
  <2>1. TAKE q \in Processes
  <2>2. PICK k \in Calls \cup {Idle} : k = call'[q]
    BY <1>1
  <2>3. CallSound(k)
    BY <1>1, <2>2 DEF IInv
  <2>4. CallSound(k)'
    BY <2>3, SoundStill
  <2> QED
    BY <2>2, <2>4 DEF CallSound
<1>4. Reconciled'
  <2>1. \A d \in DeliveryIds \ raced' : Matching(d)' \subseteq Matching(d)
    BY DEF Matching
  <2>2. \A d \in DeliveryIds \ raced' : RowShown(d)'
    BY <1>1, <2>1, ShownStill DEF IInv, Reconciled
  <2> QED
    BY <2>1, <2>2, ReconciledStep
<1>5. CapInSight'
  <2>1. \A s : ActiveOf(s)' = ActiveOf(s) /\ ActiveOf(s) \subseteq InState({"active"})
    BY DEF ActiveOf, InState
  <2> QED
    BY <1>1, <2>1, CapStep
<1> QED
  BY <1>1, <1>2, <1>3, <1>4, <1>5 DEF IInv
-----------------------------------------------------------------------------
(***************************************************************************)
(* Steps that write no row and show no banner                              *)
(***************************************************************************)
\* An idle process starts to retire deliveries that have rows.
LEMMA StartsRetiring ==
    ASSUME IInv, NEW p \in Processes, call[p] = Idle,
           NEW d \in DeliveryIds \cup {None}, NEW ds \in Seq(DeliveryIds),
           NEW target \in Retired, NEW then \in {"return", "claim"},
           \A e \in ToSet(ds) : rows[e] # None,
           then = "claim" => d # None /\ target = "expired",
           Go(p, Retiring(Call("retire", d), ds, target, then)),
           UNCHANGED << rows, hostVars, now, faults, overdue >>
    PROVE  IInv'
<1>1. PICK c \in Calls : c = Retiring(Call("retire", d), ds, target, then)
  BY NewCall, RetiringTypes DEF IInv
<1>2. /\ c.pc = "retire" /\ c.delivery = d /\ c.todo = ds /\ c.target = target
      /\ c.then = then
  BY <1>1, NewCall, RetiringTypes DEF IInv
<1>3. CallSound(c)
  BY <1>2 DEF CallSound, Publishing
<1>4. \A e : CallKnows(c, e)'
  BY <1>2 DEF CallKnows
<1>5. call[p].pc = "idle" /\ \A s : ~ Evicting(call[p], s)
  BY IdlePc DEF Evicting
<1>6. Go(p, c)
  BY <1>1
<1> QED
  BY <1>2, <1>3, <1>4, <1>5, <1>6, CallStep DEF hostVars

\* The rows that are due are rows.
LEMMA DueTypes ==
    ASSUME IInv
    PROVE  /\ InOrder(Due) \in Seq(DeliveryIds)
           /\ \A e \in ToSet(InOrder(Due)) : rows[e] # None
<1>1. Due \in SUBSET DeliveryIds /\ \A d \in Due : rows[d] # None
  BY DEF Due, InState
<1> QED
  BY <1>1, InOrderTypes DEF IInv

\* The expiry sweep begins.
LEMMA ExpirePreserves ==
    ASSUME IInv, NEW p \in Processes, Expire(p)
    PROVE  IInv'
<1>1. "expired" \in Retired /\ None \in DeliveryIds \cup {None}
  BY DEF Retired
<1> QED
  BY <1>1, DueTypes, StartsRetiring DEF Expire

\* An acknowledgement begins.
LEMMA AcknowledgePreserves ==
    ASSUME IInv, NEW p \in Processes, NEW d \in DeliveryIds, Acknowledge(p, d)
    PROVE  IInv'
<1>1. "dismissed" \in Retired /\ None \in DeliveryIds \cup {None}
  BY DEF Retired
<1>2. << d >> \in Seq(DeliveryIds) /\ ToSet(<< d >>) = {d}
  BY DEF ToSet
<1> QED
  BY <1>1, <1>2, StartsRetiring DEF Acknowledge

\* A publication begins.
LEMMA PublishPreserves ==
    ASSUME IInv, NEW p \in Processes, NEW d \in DeliveryIds, Publish(p, d)
    PROVE  IInv'
<1>1. "expired" \in Retired /\ d \in DeliveryIds \cup {None} /\ d # None
  BY NoneAssumption DEF Retired
<1> QED
  BY <1>1, DueTypes, StartsRetiring DEF Publish

\* A call that ends is idle, and may have been anything but about to evict.
LEMMA EndsQuietly ==
    ASSUME IInv, NEW p \in Processes, Go(p, Idle),
           call[p].pc \notin {"retire", "list", "dismiss", "cap"},
           UNCHANGED << rows, hostVars, now, faults, overdue >>
    PROVE  IInv'
<1>1. PICK c \in Calls \cup {Idle} : c = Idle
  OBVIOUS
<1>2. c.pc = "idle" /\ Go(p, c)
  BY <1>1, IdlePc
<1>3. CallSound(c)
  BY <1>2 DEF CallSound, Publishing
<1>4. \A e : CallKnows(c, e)'
  BY <1>2 DEF CallKnows
<1>5. \A s : ~ Evicting(call[p], s)
  BY DEF Evicting
<1> QED
  BY <1>2, <1>3, <1>4, <1>5, CallStep DEF hostVars

\* A call returns.
LEMMA ReturnPreserves ==
    ASSUME IInv, NEW p \in Processes, Return(p)
    PROVE  IInv'
    BY EndsQuietly DEF Return

\* A retirement reads its row.
LEMMA RetireReadPreserves ==
    ASSUME IInv, NEW p \in Processes, RetireRead(p)
    PROVE  IInv'
<1>1. PICK k \in Calls : k = call[p]
  <2>1. call[p].pc = "retire"
    BY DEF RetireRead
  <2> QED
    BY <2>1, CallTypes DEF IInv
<1> DEFINE d == Head(k.todo)
<1>2. /\ k.pc = "retire" /\ k.pc # "cap" /\ k.todo \in Seq(DeliveryIds)
      /\ k.target \in Retired /\ k.then \in {"return", "claim"}
      /\ k.ids \in SUBSET Ids
      /\ \A e \in ToSet(k.todo) : rows[e] # None
      /\ k.then = "claim" => k.delivery # None /\ k.target = "expired"
  BY <1>1, CallFields DEF RetireRead, IInv, CallSound
<1>3. UNCHANGED << rows, hostVars, now, faults, overdue >>
  BY DEF RetireRead
<1>4. CASE k.todo = <<>> /\ Go(p, [k EXCEPT !.pc = k.then])
  <2>1. PICK c \in Calls : c = [k EXCEPT !.pc = k.then]
    BY <1>2, CallGoesOn DEF Pcs
  <2>2. /\ c.pc = k.then /\ c.todo = <<>> /\ c.delivery = k.delivery
        /\ c.pc \in {"return", "claim"}
    BY <1>2, <1>4, <2>1 DEF Calls
  <2>3. CallSound(c)
    BY <1>2, <2>2 DEF CallSound, Publishing
  <2>4. \A e : CallKnows(c, e)'
    BY <2>2 DEF CallKnows
  <2>5. ToSet(k.todo) = {}
    BY <1>4 DEF ToSet
  <2>6. Go(p, c)
    BY <1>4, <2>1
  <2> QED
    BY <1>1, <1>2, <1>3, <2>2, <2>3, <2>4, <2>5, <2>6, CallStep DEF hostVars
<1>5. CASE /\ k.todo # <<>> /\ d \notin InState(Live)
           /\ Go(p, [k EXCEPT !.todo = Tail(@)])
  <2>1. /\ Tail(k.todo) \in Seq(DeliveryIds)
        /\ ToSet(Tail(k.todo)) \subseteq ToSet(k.todo)
        /\ ToSet(k.todo) \subseteq ToSet(Tail(k.todo)) \cup {d}
    BY <1>2, <1>5, HeadAndTail
  <2>2. PICK c \in Calls : c = [k EXCEPT !.todo = Tail(@)]
    BY <1>2, <2>1, CallGoesOn DEF Pcs
  <2>3. /\ c.pc = "retire" /\ c.todo = Tail(k.todo) /\ c.delivery = k.delivery
        /\ c.target = k.target /\ c.then = k.then
    BY <1>2, <2>2 DEF Calls
  <2>4. CallSound(c)
    BY <1>2, <2>1, <2>3 DEF CallSound, Publishing
  <2>5. \A e : CallKnows(c, e)'
    BY <2>3 DEF CallKnows
  <2>6. d \notin InState({"active"})
    BY <1>5 DEF InState, Live
  <2>7. \A s : Evicting(k, s) => Evicting(c, s)
    BY <1>2, <2>3 DEF Evicting
  <2>8. Go(p, c)
    BY <1>5, <2>2
  <2> QED
    BY <1>1, <1>2, <1>3, <2>1, <2>3, <2>4, <2>5, <2>6, <2>7, <2>8, CallStep
    DEF hostVars
<1>6. CASE /\ k.todo # <<>> /\ d \in InState(Live) /\ rows[d].id = None
           /\ Go(p, [k EXCEPT !.pc = "list"])
  <2>1. PICK c \in Calls : c = [k EXCEPT !.pc = "list"]
    BY <1>2, CallGoesOn DEF Pcs
  <2>2. /\ c.pc = "list" /\ c.todo = k.todo /\ c.delivery = k.delivery
        /\ c.target = k.target /\ c.then = k.then
    BY <2>1 DEF Calls
  <2>3. CallSound(c)
    BY <1>2, <1>6, <2>2 DEF CallSound, Publishing
  <2>4. \A e : CallKnows(c, e)'
    BY <2>2 DEF CallKnows
  <2>5. \A s : Evicting(k, s) => Evicting(c, s)
    BY <1>2, <2>2 DEF Evicting
  <2>6. Go(p, c)
    BY <1>6, <2>1
  <2> QED
    BY <1>1, <1>2, <1>3, <2>2, <2>3, <2>4, <2>5, <2>6, CallStep DEF hostVars
<1>7. CASE /\ k.todo # <<>> /\ d \in InState(Live) /\ rows[d].id # None
           /\ Go(p, [k EXCEPT !.pc = "dismiss", !.ids = {rows[d].id}])
  <2>1. d \in DeliveryIds /\ rows[d] # None /\ rows[d].id \in Ids
        /\ d \in InState({"active"})
    <3>1. d \in DeliveryIds /\ rows[d] # None /\ rows[d].state \in Live
      BY <1>7 DEF InState
    <3>2. rows[d].id \in Ids /\ rows[d].state # "prepared"
      BY <1>7, <3>1, RowTypes DEF IInv, Types
    <3> QED
      BY <3>1, <3>2 DEF InState, Live
  <2>2. PICK c \in Calls : c = [k EXCEPT !.pc = "dismiss", !.ids = {rows[d].id}]
    BY <1>2, <2>1, CallGoesOn DEF Pcs
  <2>3. /\ c.pc = "dismiss" /\ c.todo = k.todo /\ c.delivery = k.delivery
        /\ c.target = k.target /\ c.then = k.then /\ c.ids = {rows[d].id}
    BY <2>2 DEF Calls
  <2>4. CallSound(c)
    BY <1>2, <1>7, <2>3 DEF CallSound, Publishing
  <2>5. Go(p, c)
    BY <1>7, <2>2
  <2>6. \A e \in DeliveryIds \ raced' : CallKnows(c, e)'
    <3>1. SUFFICES ASSUME NEW e \in DeliveryIds \ raced', e = d
                   PROVE  Shown(e)' \subseteq {rows[d].id}
      BY <2>3 DEF CallKnows
    <3>2. e \notin raced
      BY <2>5, GoSound
    <3>3. Shown(e) \subseteq {rows[e].id}
      BY <2>1, <3>1, <3>2 DEF IInv, Reconciled, RowShown
    <3> QED
      BY <1>3, <3>1, <3>3 DEF Shown, Matching, hostVars
  <2>7. \A s : Evicting(k, s) => Evicting(c, s)
    BY <1>2, <2>3 DEF Evicting
  <2> QED
    BY <1>1, <1>2, <1>3, <2>3, <2>4, <2>5, <2>6, <2>7, CallStep DEF hostVars
<1> QED
  BY <1>1, <1>4, <1>5, <1>6, <1>7 DEF RetireRead

\* A retirement lists the banners of the host.
LEMMA RetireListPreserves ==
    ASSUME IInv, NEW p \in Processes, RetireList(p)
    PROVE  IInv'
<1>1. PICK k \in Calls : k = call[p] /\ k.pc = "list"
  <2>1. call[p].pc = "list"
    BY DEF RetireList
  <2> QED
    BY <2>1, CallTypes DEF IInv
<1> DEFINE ids == {b.id : b \in Matching(Head(k.todo))}
<1>2. /\ k.todo \in Seq(DeliveryIds) /\ CallSound(k)
      /\ UNCHANGED << rows, hostVars, now, faults, overdue >>
  BY <1>1, CallFields DEF RetireList, IInv
<1>3. ids \in SUBSET Ids
  BY DEF IInv, Types, Matching
<1>4. PICK c \in Calls : c = [k EXCEPT !.pc = "dismiss", !.ids = ids]
  <2> HIDE DEF ids
  <2> QED
    BY <1>2, <1>3, CallGoesOn DEF Pcs
<1>5. /\ c.pc = "dismiss" /\ c.todo = k.todo /\ c.delivery = k.delivery
      /\ c.target = k.target /\ c.then = k.then /\ c.ids = ids
  <2> HIDE DEF ids
  <2> QED
    BY <1>4 DEF Calls
<1>6. CallSound(c)
  BY <1>1, <1>2, <1>5 DEF CallSound, Publishing
<1>7. Go(p, c)
  BY <1>1, <1>4 DEF RetireList
<1>8. \A e \in DeliveryIds \ raced' : CallKnows(c, e)'
  <2>1. \A e : Shown(e)' = Shown(e)
    BY <1>2 DEF Shown, Matching, hostVars
  <2>2. Shown(Head(k.todo)) = ids
    BY DEF Shown
  <2> HIDE DEF ids
  <2> QED
    BY <1>5, <2>1, <2>2 DEF CallKnows
<1>9. \A s : Evicting(k, s) => Evicting(c, s)
  BY <1>1, <1>5 DEF Evicting
<1> QED
  BY <1>1, <1>2, <1>5, <1>6, <1>7, <1>8, <1>9, CallStep DEF hostVars

\* A retirement dismisses a banner.
LEMMA RetireDismissPreserves ==
    ASSUME IInv, NEW p \in Processes, RetireDismiss(p)
    PROVE  IInv'
<1>1. PICK k \in Calls : k = call[p] /\ k.pc = "dismiss"
  <2>1. call[p].pc = "dismiss"
    BY DEF RetireDismiss
  <2> QED
    BY <2>1, CallTypes DEF IInv
<1>2. /\ k.todo \in Seq(DeliveryIds) /\ k.ids \in SUBSET Ids /\ CallSound(k)
      /\ UNCHANGED << rows, created, late, now, faults, overdue >>
  BY <1>1, CallFields DEF RetireDismiss, IInv
<1>3. PICK i \in k.ids : /\ banners' = {b \in banners : b.id # i}
                         /\ Go(p, [k EXCEPT !.ids = @ \ {i}])
  BY <1>1 DEF RetireDismiss
<1>4. PICK c \in Calls : c = [k EXCEPT !.ids = @ \ {i}]
  BY <1>1, <1>2, CallGoesOn DEF Pcs
<1>5. /\ c.pc = "dismiss" /\ c.todo = k.todo /\ c.delivery = k.delivery
      /\ c.target = k.target /\ c.then = k.then /\ c.ids = k.ids \ {i}
  BY <1>1, <1>4 DEF Calls
<1>6. CallSound(c)
  BY <1>1, <1>2, <1>5 DEF CallSound, Publishing
<1>7. Go(p, c)
  BY <1>3, <1>4
<1>8. \A e \in DeliveryIds \ raced' : CallKnows(c, e)'
  <2>1. \A e : Shown(e)' \subseteq Shown(e) \ {i}
    BY <1>3 DEF Shown, Matching
  <2>2. \A e \in DeliveryIds \ raced' : Head(k.todo) = e => Shown(e) \subseteq k.ids
    BY <1>1, <1>7, GoSound DEF IInv, Reconciled, CallKnows
  <2> QED
    BY <1>5, <2>1, <2>2 DEF CallKnows
<1>9. \A s : Evicting(k, s) => Evicting(c, s)
  BY <1>1, <1>5 DEF Evicting
<1>10. banners' \subseteq banners
  BY <1>3
<1> QED
  BY <1>1, <1>2, <1>5, <1>6, <1>7, <1>8, <1>9, <1>10, CallStep

\* A publication claims its row.
LEMMA ClaimPreserves ==
    ASSUME IInv, NEW p \in Processes, Claim(p)
    PROVE  IInv'
<1>1. PICK k \in Calls : k = call[p] /\ k.pc = "claim"
  <2>1. call[p].pc = "claim"
    BY DEF Claim
  <2> QED
    BY <2>1, CallTypes DEF IInv
<1>2. /\ k.delivery \in DeliveryIds
      /\ UNCHANGED << rows, hostVars, now, faults, overdue >>
      /\ \A s : ~ Evicting(k, s)
      /\ k.todo \in Seq(DeliveryIds) /\ k.ids \in SUBSET Ids
  BY <1>1, CallFields DEF Claim, IInv, CallSound, Publishing, Evicting
<1>3. ASSUME NEW pc \in {"insert", "match"}, Go(p, [k EXCEPT !.pc = pc]),
             pc = "insert" => rows[k.delivery] = None,
             pc = "match" => k.delivery \in InState({"prepared"})
      PROVE  IInv'
  <2>1. PICK c \in Calls : c = [k EXCEPT !.pc = pc]
    BY <1>2, CallGoesOn DEF Pcs
  <2>2. c.pc = pc /\ c.delivery = k.delivery
    BY <2>1 DEF Calls
  <2>3. CallSound(c)
    BY <1>2, <1>3, <2>2, NoneAssumption DEF CallSound, InState
  <2>4. \A e \in DeliveryIds \ raced' : CallKnows(c, e)'
    BY <1>2, <1>3, <2>2 DEF CallKnows, InState
  <2>5. Go(p, c)
    BY <1>3, <2>1
  <2> QED
    BY <1>1, <1>2, <2>2, <2>3, <2>4, <2>5, CallStep DEF hostVars
<1>4. CASE rows[k.delivery] = None /\ Go(p, [k EXCEPT !.pc = "insert"])
  BY <1>3, <1>4
<1>5. CASE k.delivery \in InState({"prepared"}) /\ Go(p, [k EXCEPT !.pc = "match"])
  BY <1>3, <1>5
<1>6. CASE Go(p, Idle)
  BY <1>1, <1>2, <1>6, EndsQuietly
<1> QED
  BY <1>1, <1>4, <1>5, <1>6 DEF Claim

\* A publication looks for the banner of an earlier try.
LEMMA MatchPreserves ==
    ASSUME IInv, NEW p \in Processes, Match(p)
    PROVE  IInv'
<1>1. PICK k \in Calls : k = call[p] /\ k.pc \in {"match", "rematch"}
  <2>1. call[p].pc \in {"match", "rematch"}
    BY DEF Match
  <2> QED
    BY <2>1, CallTypes DEF IInv
<1> DEFINE ids == {b.id : b \in Matching(k.delivery)}
<1>2. /\ k.delivery \in DeliveryIds /\ rows[k.delivery] # None
      /\ UNCHANGED << rows, hostVars, now, faults, overdue >>
      /\ \A s : ~ Evicting(k, s)
      /\ k.todo \in Seq(DeliveryIds) /\ k.ids \in SUBSET Ids
  BY <1>1, CallFields DEF Match, IInv, CallSound, Publishing, Evicting
<1>3. ids \in SUBSET Ids /\ IsFiniteSet(ids)
  <2>1. ids \in SUBSET Ids
    BY DEF IInv, Types, Matching
  <2>2. IsFiniteSet(Ids)
    BY FS_Interval, BoundsAssumption DEF Ids
  <2> HIDE DEF ids
  <2> QED
    BY <2>1, <2>2, FS_Subset
<1>4. \A e : Shown(e)' = Shown(e) /\ Matching(e)' = Matching(e)
  BY <1>2 DEF Shown, Matching, hostVars
<1>5. ids = Shown(k.delivery)
  BY DEF Shown
<1>6. ASSUME NEW d \in DeliveryIds, d = k.delivery, d \notin raced
      PROVE  d \in InState({"prepared"}) /\ d \in InState({"prepared"})'
  <2>1. d \in InState({"prepared"})
    BY <1>1, <1>6 DEF IInv, Reconciled, CallKnows
  <2> QED
    BY <1>2, <2>1 DEF InState
<1> HIDE DEF ids
<1>7. CASE Cardinality(ids) = 1 /\ Go(p, [k EXCEPT !.pc = "activate", !.ids = ids])
  <2>1. \E i \in Ids : ids = {i}
    BY <1>3, <1>7, FS_Singleton
  <2>2. PICK c \in Calls : c = [k EXCEPT !.pc = "activate", !.ids = ids]
    BY <1>2, <1>3, CallGoesOn DEF Pcs
  <2>3. c.pc = "activate" /\ c.delivery = k.delivery /\ c.ids = ids
    BY <2>2 DEF Calls
  <2>4. CallSound(c)
    BY <1>2, <2>1, <2>3, NoneAssumption DEF CallSound
  <2>5. Go(p, c)
    BY <1>7, <2>2
  <2>6. \A e \in DeliveryIds \ raced' : CallKnows(c, e)'
    <3>1. \A e \in DeliveryIds \ raced' : e \notin raced
      BY <2>5, GoSound
    <3> QED
      BY <1>4, <1>5, <1>6, <2>3, <3>1 DEF CallKnows
  <2> QED
    BY <1>1, <1>2, <2>3, <2>4, <2>5, <2>6, CallStep DEF hostVars
<1>8. CASE ids = {} /\ Go(p, [k EXCEPT !.pc = "create"])
  <2>1. PICK c \in Calls : c = [k EXCEPT !.pc = "create"]
    BY <1>2, CallGoesOn DEF Pcs
  <2>2. c.pc = "create" /\ c.delivery = k.delivery
    BY <2>1 DEF Calls
  <2>3. CallSound(c)
    BY <1>2, <2>2, NoneAssumption DEF CallSound
  <2>4. Go(p, c)
    BY <1>8, <2>1
  <2>5. Matching(k.delivery) = {}
    BY <1>8 DEF ids
  <2>6. \A e \in DeliveryIds \ raced' : CallKnows(c, e)'
    <3>1. \A e \in DeliveryIds \ raced' : e \notin raced
      BY <2>4, GoSound
    <3> QED
      BY <1>4, <1>6, <2>2, <2>5, <3>1 DEF CallKnows
  <2> QED
    BY <1>1, <1>2, <2>2, <2>3, <2>4, <2>6, CallStep DEF hostVars
<1>9. CASE Go(p, Idle)
  BY <1>1, <1>2, <1>9, EndsQuietly
<1> QED
  BY <1>1, <1>7, <1>8, <1>9 DEF Match, ids
-----------------------------------------------------------------------------
(***************************************************************************)
(* Steps that write a row or show a banner                                 *)
(***************************************************************************)
\* A step of p that keeps the rows it finds and the calls sound.
LEMMA WriteStep ==
    ASSUME IInv, NEW p \in Processes, NEW c \in Calls \cup {Idle}, Go(p, c),
           Types', UNCHANGED << late, overdue >>,
           \A d \in DeliveryIds : rows[d] # None => rows'[d] # None,
           CallSound(c)', Reconciled', CapInSight'
    PROVE  IInv'
<1>1. /\ call' \in [Processes -> Calls \cup {Idle}]
      /\ call'[p] = c /\ \A q \in Processes \ {p} : call'[q] = call[q]
      /\ RacesKnown'
  BY GoSound
<1>2. \A q \in Processes : CallSound(call[q])'
  <2>1. TAKE q \in Processes
  <2>2. PICK k \in Calls \cup {Idle} : k = call'[q]
    BY <1>1
  <2>3. CallSound(k)'
    <3>1. CASE q = p
      BY <1>1, <2>2, <3>1
    <3>2. CASE q # p
      <4>1. CallSound(k)
        BY <1>1, <2>2, <3>2 DEF IInv
      <4> QED
        BY <4>1, SoundStill
    <3> QED
      BY <3>1, <3>2
  <2> QED
    BY <2>2, <2>3 DEF CallSound
<1> QED
  BY <1>1, <1>2 DEF IInv

\* A retirement marks its row.
LEMMA RetireUpdatePreserves ==
    ASSUME IInv, NEW p \in Processes, RetireUpdate(p)
    PROVE  IInv'
<1>1. PICK k \in Calls : k = call[p] /\ k.pc = "dismiss"
  <2>1. call[p].pc = "dismiss"
    BY DEF RetireUpdate
  <2> QED
    BY <2>1, CallTypes DEF IInv
<1>2. /\ k.todo \in Seq(DeliveryIds) /\ k.todo # <<>> /\ k.ids = {}
      /\ k.target \in Retired /\ k.then \in {"return", "claim"}
      /\ k.then = "claim" => k.delivery # None /\ k.target = "expired"
      /\ \A e \in ToSet(k.todo) : rows[e] # None
      /\ UNCHANGED << hostVars, now, faults, overdue >>
      /\ k.ids \in SUBSET Ids
  BY <1>1, CallFields DEF RetireUpdate, IInv, CallSound
<1>3. PICK d \in DeliveryIds : d = Head(k.todo) /\ d \in ToSet(k.todo)
  BY <1>2, HeadAndTail
<1>4. /\ Tail(k.todo) \in Seq(DeliveryIds)
      /\ ToSet(Tail(k.todo)) \subseteq ToSet(k.todo)
      /\ ToSet(k.todo) \subseteq ToSet(Tail(k.todo)) \cup {d}
  BY <1>2, <1>3, HeadAndTail
<1>5. PICK c \in Calls : c = [k EXCEPT !.pc = "retire", !.todo = Tail(@)]
  BY <1>2, <1>4, CallGoesOn DEF Pcs
<1>6. /\ c.pc = "retire" /\ c.todo = Tail(k.todo) /\ c.delivery = k.delivery
      /\ c.target = k.target /\ c.then = k.then
  BY <1>5 DEF Calls
<1>7. Go(p, c) /\ rows' = [rows EXCEPT ![d].state = k.target]
  BY <1>1, <1>3, <1>5 DEF RetireUpdate
<1>8. /\ rows'[d] \in Row /\ rows'[d].state = k.target /\ rows'[d] # None
      /\ \A e \in DeliveryIds \ {d} : rows'[e] = rows[e]
      /\ rows' \in [DeliveryIds -> Row \cup {None}]
  <2>1. rows[d] \in Row /\ rows \in [DeliveryIds -> Row \cup {None}]
    BY <1>2, <1>3, RowTypes DEF IInv, Types
  <2>2. [rows[d] EXCEPT !.state = k.target] \in Row
        /\ [rows[d] EXCEPT !.state = k.target].state = k.target
    BY <1>2, <2>1 DEF Row
  <2>3. rows' = [rows EXCEPT ![d] = [rows[d] EXCEPT !.state = k.target]]
    BY <1>7, <2>1
  <2> QED
    BY <2>1, <2>2, <2>3, NoneAssumption
<1>9. k.target \notin {"prepared", "active"}
  BY <1>2 DEF Retired
<1>10. Types'
  <2>1. call' \in [Processes -> Calls \cup {Idle}] /\ raced' \subseteq DeliveryIds
    BY <1>7, GoSound
  <2>2. \A e \in DeliveryIds :
           /\ rows'[e] # None /\ rows'[e].state = "active" => rows'[e].id # None
           /\ rows'[e] # None /\ rows'[e].state = "prepared" => rows'[e].id = None
    BY <1>8, <1>9 DEF IInv, Types
  <2> QED
    BY <1>2, <1>8, <2>1, <2>2 DEF IInv, Types, hostVars
<1>11. CallSound(c)'
  <2>1. CallSound(c)
    BY <1>2, <1>4, <1>6 DEF CallSound, Publishing
  <2> QED
    BY <1>8, <2>1, SoundStill
<1>12. Reconciled'
  <2>1. \A e : Matching(e)' = Matching(e)
    BY <1>2 DEF Matching, hostVars
  <2>2. ASSUME NEW e \in DeliveryIds \ raced' PROVE RowShown(e)'
    <3>1. e \notin raced /\ RowShown(e) /\ CallKnows(k, e)
      BY <1>1, <1>7, GoSound DEF IInv, Reconciled
    <3>2. CASE e # d
      BY <1>8, <2>1, <3>1, <3>2, ShownStill
    <3>3. CASE e = d
      <4>1. Matching(e) = {}
        BY <1>1, <1>2, <1>3, <3>1, <3>3 DEF CallKnows, Shown
      <4> QED
        BY <2>1, <4>1 DEF RowShown, Shown
    <3> QED
      BY <3>2, <3>3
  <2>3. \A e : CallKnows(c, e)'
    BY <1>6 DEF CallKnows
  <2>4. Involved(call[p], d)
    BY <1>1, <1>3 DEF Involved
  <2> QED
    BY <1>7, <1>8, <2>1, <2>2, <2>3, <2>4, ReconciledStep
<1>13. CapInSight'
  <2>1. \A s : ActiveOf(s)' \subseteq ActiveOf(s) /\ d \notin ActiveOf(s)'
    BY <1>8, <1>9 DEF ActiveOf, InState
  <2>2. \A s : Evicting(k, s) => Evicting(c, s)
    BY <1>1, <1>6 DEF Evicting
  <2>3. call'[p] = c /\ \A q \in Processes \ {p} : call'[q] = call[q]
    BY <1>7, GoSound
  <2> QED
    BY <1>1, <1>2, <1>4, <1>6, <2>1, <2>2, <2>3, CapStep
<1>14. \A e \in DeliveryIds : rows[e] # None => rows'[e] # None
  BY <1>8
<1>15. UNCHANGED << late, overdue >>
  BY <1>2 DEF hostVars
<1> QED
  BY <1>7, <1>10, <1>11, <1>12, <1>13, <1>14, <1>15, WriteStep

\* A publication inserts its row.
LEMMA InsertPreserves ==
    ASSUME IInv, NEW p \in Processes, Insert(p)
    PROVE  IInv'
<1>1. PICK k \in Calls : k = call[p] /\ k.pc = "insert"
  <2>1. call[p].pc = "insert"
    BY DEF Insert
  <2> QED
    BY <2>1, CallTypes DEF IInv
<1>2. PICK d \in DeliveryIds : d = k.delivery
  BY <1>1, CallFields DEF IInv, CallSound, Publishing
<1> DEFINE new == [state |-> "prepared", id |-> None, created |-> k.began,
                   expires |-> k.began + Ttl]
<1>3. /\ new \in Row /\ new # None /\ new.state = "prepared" /\ new.id = None
  <2>1. k.began \in Nat /\ k.began + Ttl \in Nat
    BY CallFields, PositiveAssumption
  <2> QED
    BY <2>1, NoneAssumption DEF Row, Live
<1>4. rows' = [rows EXCEPT ![d] = IF rows[d] # None THEN rows[d] ELSE new]
  BY <1>1, <1>2 DEF Insert, IInv, Types
<1> HIDE DEF new
<1>5. /\ rows' \in [DeliveryIds -> Row \cup {None}]
      /\ rows'[d] = IF rows[d] # None THEN rows[d] ELSE new
      /\ \A e \in DeliveryIds \ {d} : rows'[e] = rows[e]
      /\ \A e \in DeliveryIds : rows[e] # None => rows'[e] = rows[e]
      /\ rows'[d] # None
  BY <1>3, <1>4 DEF IInv, Types
<1>6. UNCHANGED << hostVars, now, faults, overdue >> /\ k.ids \in SUBSET Ids
      /\ k.todo \in Seq(DeliveryIds)
  BY CallFields DEF Insert
<1>7. PICK c \in Calls : c = [k EXCEPT !.pc = "match"]
  BY <1>6, CallGoesOn DEF Pcs
<1>8. c.pc = "match" /\ c.delivery = d
  BY <1>2, <1>7 DEF Calls
<1>9. Go(p, c)
  BY <1>1, <1>7 DEF Insert
<1>10. Types'
  <2>1. call' \in [Processes -> Calls \cup {Idle}] /\ raced' \subseteq DeliveryIds
    BY <1>9, GoSound
  <2>2. \A e \in DeliveryIds :
           /\ rows'[e] # None /\ rows'[e].state = "active" => rows'[e].id # None
           /\ rows'[e] # None /\ rows'[e].state = "prepared" => rows'[e].id = None
    BY <1>3, <1>5 DEF IInv, Types
  <2> QED
    BY <1>5, <1>6, <2>1, <2>2 DEF IInv, Types, hostVars
<1>11. CallSound(c)'
  BY <1>5, <1>8, NoneAssumption DEF CallSound
<1>12. Reconciled'
  <2>1. \A e : Matching(e)' = Matching(e)
    BY <1>6 DEF Matching, hostVars
  <2>2. ASSUME NEW e \in DeliveryIds \ raced' PROVE RowShown(e)' /\ CallKnows(c, e)'
    <3>1. e \notin raced /\ RowShown(e) /\ CallKnows(k, e)
      BY <1>1, <1>9, GoSound DEF IInv, Reconciled
    <3>2. CASE e # d
      BY <1>5, <1>8, <2>1, <3>1, <3>2, ShownStill DEF CallKnows
    <3>3. CASE e = d
      <4>1. rows[e] = None /\ Matching(e) = {}
        BY <1>1, <1>2, <3>1, <3>3 DEF CallKnows, RowShown
      <4>2. d \in InState({"prepared"})'
        BY <1>3, <1>5, <3>3, <4>1 DEF InState
      <4> QED
        BY <1>8, <2>1, <3>3, <4>1, <4>2 DEF RowShown, Shown, CallKnows
    <3> QED
      BY <3>2, <3>3
  <2>3. Involved(call[p], d)
    BY <1>1, <1>2 DEF Involved
  <2> QED
    BY <1>5, <1>9, <2>1, <2>2, <2>3, ReconciledStep
<1>13. CapInSight'
  <2>1. \A s : ActiveOf(s)' \subseteq ActiveOf(s)
    BY <1>3, <1>5 DEF ActiveOf, InState
  <2>2. \A s : ~ Evicting(k, s)
    BY <1>1 DEF Evicting
  <2>3. call'[p] = c /\ \A q \in Processes \ {p} : call'[q] = call[q]
    BY <1>9, GoSound
  <2> QED
    BY <1>1, <1>6, <2>1, <2>2, <2>3, CapStep
<1>14. UNCHANGED << late, overdue >>
  BY <1>6 DEF hostVars
<1> QED
  BY <1>5, <1>9, <1>10, <1>11, <1>12, <1>13, <1>14, WriteStep

\* The host shows a banner for d.
LEMMA NewBannerTypes ==
    ASSUME Types, NEW d \in DeliveryIds, NewBanner(d)
    PROVE  /\ banners' \subseteq [id : Ids, delivery : DeliveryIds]
           /\ created' \in 0..MaxCreated
           /\ \A e \in DeliveryIds \ {d} : Matching(e)' = Matching(e)
           /\ \E b : Matching(d)' = Matching(d) \cup {b}
<1> DEFINE b == [id |-> created + 1, delivery |-> d]
<1>1. banners' = banners \cup {b} /\ created' = created + 1 /\ created < MaxCreated
  BY DEF NewBanner
<1>2. created + 1 \in Ids /\ created' \in 0..MaxCreated
  BY <1>1, BoundsAssumption DEF Types, Ids
<1>3. b \in [id : Ids, delivery : DeliveryIds] /\ b.delivery = d
  BY <1>2
<1> HIDE DEF b
<1>4. Matching(d)' = Matching(d) \cup {b}
  BY <1>1, <1>3 DEF Matching
<1>5. \A e \in DeliveryIds \ {d} : Matching(e)' = Matching(e)
  BY <1>1, <1>3 DEF Matching
<1> QED
  BY <1>1, <1>2, <1>3, <1>4, <1>5 DEF Types

\* The host creates a banner.
LEMMA CreatePreserves ==
    ASSUME IInv, NEW p \in Processes, Create(p)
    PROVE  IInv'
<1>1. PICK k \in Calls : k = call[p] /\ k.pc = "create"
  <2>1. call[p].pc = "create"
    BY DEF Create
  <2> QED
    BY <2>1, CallTypes DEF IInv
<1>2. PICK d \in DeliveryIds : d = k.delivery /\ rows[d] # None
  BY <1>1, CallFields DEF IInv, CallSound, Publishing
<1>3. UNCHANGED << rows, late, now, faults, overdue >> /\ k.ids \in SUBSET Ids
      /\ k.todo \in Seq(DeliveryIds) /\ NewBanner(d)
  BY <1>1, <1>2, CallFields DEF Create
<1>4. PICK c \in Calls : c = [k EXCEPT !.pc = "rematch"]
  BY <1>3, CallGoesOn DEF Pcs
<1>5. c.pc = "rematch" /\ c.delivery = d
  BY <1>2, <1>4 DEF Calls
<1>6. Go(p, c)
  BY <1>1, <1>4 DEF Create
<1>7. /\ banners' \subseteq [id : Ids, delivery : DeliveryIds]
      /\ created' \in 0..MaxCreated
      /\ \A e \in DeliveryIds \ {d} : Matching(e)' = Matching(e)
  BY <1>3, NewBannerTypes DEF IInv
<1>8. PICK b : Matching(d)' = Matching(d) \cup {b}
  BY <1>3, NewBannerTypes DEF IInv
<1>9. Types'
  <2>1. call' \in [Processes -> Calls \cup {Idle}] /\ raced' \subseteq DeliveryIds
    BY <1>6, GoSound
  <2> QED
    BY <1>3, <1>7, <2>1 DEF IInv, Types
<1>10. CallSound(c)'
  BY <1>2, <1>3, <1>5, NoneAssumption DEF CallSound
<1>11. Reconciled'
  <2>1. ASSUME NEW e \in DeliveryIds \ raced' PROVE RowShown(e)' /\ CallKnows(c, e)'
    <3>1. e \notin raced /\ RowShown(e) /\ CallKnows(k, e)
      BY <1>1, <1>6, GoSound DEF IInv, Reconciled
    <3>2. CASE e # d
      BY <1>3, <1>5, <1>7, <3>1, <3>2, ShownStill DEF CallKnows
    <3>3. CASE e = d
      <4>1. e \in InState({"prepared"}) /\ Matching(e) = {}
        BY <1>1, <1>2, <3>1, <3>3 DEF CallKnows
      <4>2. /\ e \in InState({"prepared"})' /\ Matching(e)' = {b} /\ rows'[e] # None
            /\ e \notin InState(Retired)' /\ e \notin InState({"active"})'
        BY <1>3, <1>8, <3>3, <4>1 DEF InState, Retired
      <4> QED
        BY <1>5, <3>3, <4>2 DEF RowShown, CallKnows
    <3> QED
      BY <3>2, <3>3
  <2>2. Involved(call[p], d)
    BY <1>1, <1>2 DEF Involved
  <2> QED
    BY <1>3, <1>6, <1>7, <2>1, <2>2, ReconciledStep
<1>12. CapInSight'
  <2>1. \A s : ActiveOf(s)' \subseteq ActiveOf(s)
    BY <1>3 DEF ActiveOf, InState
  <2>2. \A s : ~ Evicting(k, s)
    BY <1>1 DEF Evicting
  <2>3. call'[p] = c /\ \A q \in Processes \ {p} : call'[q] = call[q]
    BY <1>6, GoSound
  <2> QED
    BY <1>1, <1>3, <2>1, <2>2, <2>3, CapStep
<1> QED
  BY <1>3, <1>6, <1>9, <1>10, <1>11, <1>12, WriteStep

\* A publication marks its row active.
LEMMA ActivatePreserves ==
    ASSUME IInv, NEW p \in Processes, Activate(p)
    PROVE  IInv'
<1>1. PICK k \in Calls : k = call[p] /\ k.pc = "activate"
  <2>1. call[p].pc = "activate"
    BY DEF Activate
  <2> QED
    BY <2>1, CallTypes DEF IInv
<1>2. PICK d \in DeliveryIds : d = k.delivery /\ rows[d] # None
  BY <1>1, CallFields DEF IInv, CallSound, Publishing
<1>3. PICK i \in Ids : k.ids = {i}
  BY <1>1 DEF IInv, CallSound
<1>4. UNCHANGED << hostVars, now, faults, overdue >> /\ {} \in SUBSET Ids
      /\ k.todo \in Seq(DeliveryIds)
  BY CallFields DEF Activate
<1>5. PICK c \in Calls : c = [k EXCEPT !.pc = "cap", !.ids = {}]
  BY <1>4, CallGoesOn DEF Pcs
<1>6. c.pc = "cap" /\ c.delivery = d
  BY <1>2, <1>5 DEF Calls
<1>7. Go(p, c)
  BY <1>1, <1>5 DEF Activate
<1>8. /\ rows' \in [DeliveryIds -> Row \cup {None}] /\ rows'[d] # None
      /\ \A e \in DeliveryIds \ {d} : rows'[e] = rows[e]
      /\ \/ rows'[d] = rows[d] /\ d \notin InState({"prepared"})
         \/ /\ d \in InState({"prepared"})
            /\ rows'[d].state = "active" /\ rows'[d].id = i
  <2>1. rows[d] \in Row /\ rows \in [DeliveryIds -> Row \cup {None}]
    BY <1>2, RowTypes DEF IInv, Types
  <2>2. CASE d \notin InState({"prepared"})
    BY <1>1, <1>2, <2>1, <2>2 DEF Activate
  <2>3. CASE d \in InState({"prepared"})
    <3> DEFINE r == [rows[d] EXCEPT !.state = "active", !.id = i]
    <3>1. (CHOOSE j \in k.ids : TRUE) = i
      BY <1>3
    <3>2. rows' = [rows EXCEPT ![d].state = "active", ![d].id = i]
      BY <1>1, <1>2, <2>3, <3>1 DEF Activate
    <3>3. r \in Row /\ r.state = "active" /\ r.id = i
      BY <2>1 DEF Row, Live
    <3>4. rows' = [rows EXCEPT ![d] = r]
      BY <2>1, <3>2
    <3> HIDE DEF r
    <3> QED
      BY <2>1, <2>3, <3>3, <3>4, NoneAssumption
  <2> QED
    BY <2>2, <2>3
<1>9. i # None
  BY NoneAssumption DEF Ids
<1>10. Types'
  <2>1. call' \in [Processes -> Calls \cup {Idle}] /\ raced' \subseteq DeliveryIds
    BY <1>7, GoSound
  <2>2. \A e \in DeliveryIds :
           /\ rows'[e] # None /\ rows'[e].state = "active" => rows'[e].id # None
           /\ rows'[e] # None /\ rows'[e].state = "prepared" => rows'[e].id = None
    BY <1>8, <1>9 DEF IInv, Types
  <2> QED
    BY <1>4, <1>8, <2>1, <2>2 DEF IInv, Types, hostVars
<1>11. CallSound(c)'
  BY <1>6, NoneAssumption DEF CallSound
<1>12. Reconciled'
  <2>1. \A e : Matching(e)' = Matching(e) /\ Shown(e)' = Shown(e)
    BY <1>4 DEF Matching, Shown, hostVars
  <2>2. ASSUME NEW e \in DeliveryIds \ raced' PROVE RowShown(e)'
    <3>1. e \notin raced /\ RowShown(e) /\ CallKnows(k, e)
      BY <1>1, <1>7, GoSound DEF IInv, Reconciled
    <3>2. CASE rows'[e] = rows[e]
      BY <2>1, <3>1, <3>2, ShownStill
    <3>3. CASE e = d /\ rows'[d].state = "active" /\ rows'[d].id = i
      <4>1. Shown(e) \subseteq {i}
        BY <1>1, <1>2, <1>3, <3>1, <3>3 DEF CallKnows
      <4>2. e \notin InState(Retired)'
        BY <3>3 DEF InState, Retired
      <4> QED
        BY <1>8, <2>1, <3>1, <3>3, <4>1, <4>2 DEF RowShown
    <3> QED
      BY <1>8, <3>2, <3>3
  <2>3. \A e : CallKnows(c, e)'
    BY <1>6 DEF CallKnows
  <2>4. Involved(call[p], d)
    BY <1>1, <1>2 DEF Involved
  <2> QED
    BY <1>7, <1>8, <2>1, <2>2, <2>3, <2>4, ReconciledStep
<1>13. CapInSight'
  <2>1. \A s : s = Seat[d] \/ ActiveOf(s)' \subseteq ActiveOf(s)
    BY <1>8 DEF ActiveOf, InState
  <2>2. \A s : ~ Evicting(k, s)
    BY <1>1 DEF Evicting
  <2>3. call'[p] = c /\ \A q \in Processes \ {p} : call'[q] = call[q]
    BY <1>7, GoSound
  <2> QED
    BY <1>1, <1>4, <1>6, <2>1, <2>2, <2>3, CapStep
<1>14. \A e \in DeliveryIds : rows[e] # None => rows'[e] # None
  BY <1>8
<1>15. UNCHANGED << late, overdue >>
  BY <1>4 DEF hostVars
<1> QED
  BY <1>7, <1>10, <1>11, <1>12, <1>13, <1>14, <1>15, WriteStep
-----------------------------------------------------------------------------
(***************************************************************************)
(* The cap                                                                 *)
(***************************************************************************)
\* A sequence without repetitions has as many elements as it is long.
LEMMA ElementsCounted ==
    ASSUME NEW S, NEW s \in Seq(S),
           \A i, j \in 1..Len(s) : i # j => s[i] # s[j]
    PROVE  Cardinality(ToSet(s)) = Len(s)
<1>1. Len(s) \in Nat /\ DOMAIN s = 1..Len(s) /\ s = [i \in 1..Len(s) |-> s[i]]
  OBVIOUS
<1>2. s \in [1..Len(s) -> ToSet(s)]
  BY <1>1 DEF ToSet
<1>3. s \in Injection(1..Len(s), ToSet(s))
  BY <1>2 DEF Injection, IsInjective
<1>4. s \in Surjection(1..Len(s), ToSet(s))
  BY <1>1, <1>2 DEF Surjection, ToSet
<1>5. ExistsBijection(1..Len(s), ToSet(s))
  BY <1>3, <1>4 DEF ExistsBijection, Bijection
<1> QED
  BY <1>1, <1>5, FS_CountingElements

\* _enforce_cap picks active rows of the seat, and enough of them: as many as
\* the seat has over its cap.
LEMMA ExcessIsEnough ==
    ASSUME Types, NEW d \in DeliveryIds
    PROVE  /\ Excess(d) \in Seq(DeliveryIds)
           /\ ToSet(Excess(d)) \subseteq ActiveOf(Seat[d])
           /\ Cardinality(ActiveOf(Seat[d]) \ ToSet(Excess(d))) =< Cap
<1> DEFINE active == ActiveOf(Seat[d])
           excess == IF Cardinality(active) > Cap
                     THEN Cardinality(active) - Cap ELSE 0
           others == active \ {d}
           evictable == InOrder(others)
           todo == SubSeq(evictable, 1, excess)
<1>1. /\ active \in SUBSET DeliveryIds /\ others \in SUBSET DeliveryIds
      /\ others \subseteq active
      /\ \A e \in active : rows[e] # None
  BY DEF ActiveOf, InState
<1> HIDE DEF active
<1>2. /\ IsFiniteSet(active) /\ Cardinality(active) \in Nat
      /\ Cardinality(others) \in Nat
      /\ Cardinality(others) >= Cardinality(active) - 1
  <2>1. IsFiniteSet(active) /\ Cardinality(active) \in Nat
    BY <1>1, DeliveriesAssumption, FS_Subset, FS_CardinalityType
  <2>2. /\ IsFiniteSet(others)
        /\ Cardinality(others) = IF d \in active THEN Cardinality(active) - 1
                                 ELSE Cardinality(active)
    BY <2>1, FS_RemoveElement
  <2>3. Cardinality(others) \in Nat
    BY <2>2, FS_CardinalityType
  <2> QED
    BY <2>1, <2>2, <2>3
<1>3. /\ excess \in 0..Cardinality(others)
      /\ Cardinality(active) - excess =< Cap
  BY <1>2, PositiveAssumption
<1>4. /\ evictable \in Seq(DeliveryIds) /\ Len(evictable) = Cardinality(others)
      /\ ToSet(evictable) \subseteq others
      /\ \A i, j \in 1..Cardinality(others) : i # j => evictable[i] # evictable[j]
  BY <1>1, InOrderTypes
<1> HIDE DEF excess, evictable, others
<1>5. Excess(d) = todo
  <2>1. (IF excess < Len(evictable) THEN excess ELSE Len(evictable)) = excess
    BY <1>2, <1>3, <1>4
  <2> QED
    BY <2>1 DEF Excess, active, excess, evictable, others
<1>6. /\ todo \in Seq(DeliveryIds) /\ Len(todo) = excess
      /\ \A i \in 1..excess : todo[i] = evictable[i] /\ i \in 1..Len(evictable)
  <2>1. excess \in Nat /\ excess =< Len(evictable) /\ Len(evictable) \in Nat
    BY <1>2, <1>3, <1>4
  <2>2. \A i \in 1..excess : i \in 1..Len(evictable)
    BY <2>1
  <2> QED
    BY <1>4, <2>1, <2>2
<1> HIDE DEF todo
<1>7. ToSet(todo) \subseteq active
  <2>1. \A i \in 1..excess : evictable[i] \in ToSet(evictable)
    BY <1>4, <1>6 DEF ToSet
  <2>2. DOMAIN todo = 1..excess
    BY <1>6
  <2> QED
    BY <1>1, <1>4, <1>6, <2>1, <2>2 DEF ToSet
<1>8. Cardinality(ToSet(todo)) = excess
  <2>1. \A i, j \in 1..Len(todo) : i # j => todo[i] # todo[j]
    BY <1>4, <1>6
  <2> QED
    BY <1>6, <2>1, ElementsCounted
<1>9. Cardinality(active \ ToSet(todo)) = Cardinality(active) - excess
  <2>1. active \cap ToSet(todo) = ToSet(todo)
    BY <1>7
  <2> QED
    BY <1>2, <1>8, <2>1, FS_Difference
<1> QED
  BY <1>3, <1>5, <1>6, <1>7, <1>9 DEF active

\* The cap picks the oldest rows of the seat for retirement.
LEMMA EnforceCapPreserves ==
    ASSUME IInv, NEW p \in Processes, EnforceCap(p)
    PROVE  IInv'
<1>1. PICK k \in Calls : k = call[p] /\ k.pc = "cap"
  <2>1. call[p].pc = "cap"
    BY DEF EnforceCap
  <2> QED
    BY <2>1, CallTypes DEF IInv
<1>2. PICK d \in DeliveryIds : d = k.delivery
  BY <1>1, CallFields DEF IInv, CallSound, Publishing
<1>3. PICK todo \in Seq(DeliveryIds) : todo = Excess(d)
  BY ExcessIsEnough DEF IInv
<1>4. /\ ToSet(todo) \subseteq ActiveOf(Seat[d])
      /\ Cardinality(ActiveOf(Seat[d]) \ ToSet(todo)) =< Cap
  BY <1>3, ExcessIsEnough DEF IInv
<1>5. PICK c \in Calls : c = Retiring(k, todo, "evicted", "return")
  BY RetiringTypes DEF Retired
<1>6. /\ c.pc = "retire" /\ c.delivery = d /\ c.todo = todo
      /\ c.target = "evicted" /\ c.then = "return"
  <2>1. "evicted" \in Retired
    BY DEF Retired
  <2> QED
    BY <1>2, <1>5, <2>1, RetiringTypes
<1>7. /\ Go(p, c) /\ UNCHANGED << rows, hostVars, now, faults >>
      /\ overdue' = overdue \ {Seat[d]}
  BY <1>1, <1>2, <1>3, <1>5 DEF EnforceCap
<1>8. /\ call' \in [Processes -> Calls \cup {Idle}]
      /\ call'[p] = c /\ \A q \in Processes \ {p} : call'[q] = call[q]
      /\ raced' \subseteq DeliveryIds /\ raced \subseteq raced'
      /\ RacesKnown'
  BY <1>7, GoSound DEF hostVars
<1>9. Types'
  BY <1>7, <1>8 DEF IInv, Types, hostVars
<1>10. \A q \in Processes : CallSound(call[q])'
  <2>1. CallSound(c)
    BY <1>4, <1>6 DEF CallSound, Publishing, Retired, ActiveOf, InState
  <2>2. TAKE q \in Processes
  <2>3. PICK r \in Calls \cup {Idle} : r = call'[q]
    BY <1>8
  <2>4. CallSound(r)
    BY <1>8, <2>1, <2>3 DEF IInv
  <2>5. CallSound(r)'
    BY <1>7, <2>4, SoundStill
  <2> QED
    BY <2>3, <2>5 DEF CallSound
<1>11. Reconciled'
  <2>1. \A e : Matching(e)' = Matching(e)
    BY <1>7 DEF Matching, hostVars
  <2>2. \A e \in DeliveryIds \ raced' : RowShown(e)'
    BY <1>7, <1>8, <2>1, ShownStill DEF IInv, Reconciled
  <2>3. \A e : CallKnows(c, e)'
    BY <1>6 DEF CallKnows
  <2> QED
    BY <1>7, <2>1, <2>2, <2>3, ReconciledStep
<1>12. CapInSight'
  <2>1. SUFFICES ASSUME NEW e \in DeliveryIds,
                        Seat[e] \notin overdue',
                        ~ \E q \in Processes :
                             call'[q].pc = "cap" /\ Seat[call'[q].delivery] = Seat[e]
                 PROVE  Cardinality(Staying(Seat[e])') =< Cap
    BY DEF CapInSight
  <2> DEFINE s == Seat[e]
  <2>2. ActiveOf(s)' = ActiveOf(s) /\ ActiveOf(s) \in SUBSET DeliveryIds
    BY <1>7 DEF ActiveOf, InState
  <2>3. CASE s = Seat[d]
    <3>1. Staying(s)' \subseteq ActiveOf(s) \ ToSet(todo)
      <4>1. Evicting(call[p], s)' /\ ToSet(call[p].todo)' = ToSet(todo)
        BY <1>2, <1>6, <1>8, <2>3, NoneAssumption DEF Evicting
      <4> QED
        BY <2>2, <4>1 DEF Staying
    <3>2. IsFiniteSet(ActiveOf(s) \ ToSet(todo))
          /\ Cardinality(ActiveOf(s) \ ToSet(todo)) \in Nat
      <4>1. ActiveOf(s) \ ToSet(todo) \in SUBSET DeliveryIds
        BY <2>2
      <4> QED
        BY <4>1, DeliveriesAssumption, FS_Subset, FS_CardinalityType
    <3>3. /\ Cardinality(Staying(s)') =< Cardinality(ActiveOf(s) \ ToSet(todo))
          /\ Cardinality(Staying(s)') \in Nat
      BY <3>1, <3>2, FS_Subset, FS_CardinalityType
    <3> QED
      BY <1>4, <2>3, <3>2, <3>3, PositiveAssumption
  <2>4. CASE s # Seat[d]
    <3>1. s \notin overdue
      BY <1>7, <2>1, <2>4
    <3>2. ~ \E q \in Processes : call[q].pc = "cap" /\ Seat[call[q].delivery] = s
      BY <1>1, <1>2, <1>8, <2>1, <2>4
    <3>3. Cardinality(Staying(s)) =< Cap
      BY <3>1, <3>2 DEF IInv, CapInSight
    <3>4. Staying(s)' = Staying(s)
      <4>1. ~ Evicting(call[p], s)
        BY <1>1 DEF Evicting
      <4>2. ~ Evicting(call[p], s)'
        BY <1>6, <1>8, <2>4 DEF Evicting
      <4>3. \A q \in Processes \ {p} : Evicting(call[q], s)' <=> Evicting(call[q], s)
        BY <1>8 DEF Evicting
      <4> QED
        BY <1>8, <2>2, <4>1, <4>2, <4>3 DEF Staying
    <3> QED
      BY <3>3, <3>4
  <2> QED
    BY <2>3, <2>4
<1> QED
  BY <1>8, <1>9, <1>10, <1>11, <1>12 DEF IInv
-----------------------------------------------------------------------------
(***************************************************************************)
(* Faults, the user and the clock                                          *)
(***************************************************************************)
LEMMA AbortPreserves ==
    ASSUME IInv, NEW p \in Processes, Abort(p)
    PROVE  IInv'
<1>1. PICK k \in Calls : k = call[p]
  <2>1. call[p].pc # "idle"
    BY DEF Abort
  <2> QED
    BY <2>1, CallTypes DEF IInv
<1>2. /\ call' = [call EXCEPT ![p] = Idle]
      /\ UNCHANGED << rows, banners, created, now >>
      /\ faults' = faults + 1 /\ faults < MaxFaults
      /\ overdue' = IF MustEvict(k) THEN overdue \cup {Seat[k.delivery]} ELSE overdue
      /\ \/ late' = late /\ raced' = raced
         \/ /\ k.pc = "create" /\ late' = late \cup {k.delivery}
            /\ raced' = raced \cup {k.delivery}
  BY <1>1 DEF Abort
<1>3. /\ call' \in [Processes -> Calls \cup {Idle}]
      /\ call'[p] = Idle /\ \A q \in Processes \ {p} : call'[q] = call[q]
  BY <1>2 DEF IInv, Types
<1>4. MustEvict(k) \/ k.pc = "create" => k.delivery \in DeliveryIds
  <2>1. k.delivery \in DeliveryIds \cup {None} /\ CallSound(k)
    BY <1>1, CallFields DEF IInv
  <2>2. k.pc \in {"cap", "create"} => k.delivery # None
    BY <2>1 DEF CallSound, Publishing
  <2> QED
    BY <2>1, <2>2 DEF MustEvict
<1>5. Types'
  <2>1. overdue' \subseteq {Seat[d] : d \in DeliveryIds}
    BY <1>2, <1>4 DEF IInv, Types
  <2>2. late' \subseteq DeliveryIds /\ raced' \subseteq DeliveryIds
    BY <1>2, <1>4 DEF IInv, Types
  <2>3. faults' \in 0..MaxFaults
    BY <1>2, BoundsAssumption DEF IInv, Types
  <2> QED
    BY <1>2, <1>3, <2>1, <2>2, <2>3 DEF IInv, Types
<1>6. raced \subseteq raced'
  BY <1>2
<1>7. \A q \in Processes : CallSound(call[q])'
  <2>1. TAKE q \in Processes
  <2>2. PICK r \in Calls \cup {Idle} : r = call'[q]
    BY <1>3
  <2>3. CallSound(r)
    <3>1. CallSound(Idle)
      BY IdlePc DEF CallSound, Publishing
    <3> QED
      BY <1>3, <2>2, <3>1 DEF IInv
  <2>4. CallSound(r)'
    BY <1>2, <2>3, SoundStill
  <2> QED
    BY <2>2, <2>4 DEF CallSound
<1>8. RacesKnown'
  <2>1. \A d : ~ Involved(Idle, d)
    BY IdlePc DEF Involved
  <2>2. \A q \in Processes, d \in DeliveryIds :
           Involved(call'[q], d) => q # p /\ Involved(call[q], d)
    BY <1>3, <2>1
  <2>3. Shared(call') \subseteq Shared(call)
    BY <2>2 DEF Shared
  <2>4. Shared(call)' = Shared(call')
    BY DEF Shared
  <2> QED
    BY <1>2, <2>3, <2>4 DEF IInv, RacesKnown
<1>9. Reconciled'
  <2>1. SUFFICES ASSUME NEW d \in DeliveryIds \ raced'
                 PROVE  RowShown(d)' /\ \A q \in Processes : CallKnows(call[q], d)'
    BY DEF Reconciled
  <2>2. rows'[d] = rows[d] /\ Matching(d)' \subseteq Matching(d) /\ d \notin raced
    BY <1>2, <1>6 DEF Matching
  <2>3. RowShown(d)'
    BY <2>2, ShownStill DEF IInv, Reconciled
  <2>4. ASSUME NEW q \in Processes PROVE CallKnows(call[q], d)'
    <3>1. PICK r \in Calls \cup {Idle} : r = call'[q]
      BY <1>3
    <3>2. CallKnows(r, d)
      <4>1. CallKnows(Idle, d)
        BY IdlePc DEF CallKnows
      <4> QED
        BY <1>3, <2>2, <3>1, <4>1 DEF IInv, Reconciled
    <3>3. CallKnows(r, d)'
      BY <2>2, <3>2, KnowsStill
    <3> QED
      BY <3>1, <3>3 DEF CallKnows
  <2> QED
    BY <2>3, <2>4
<1>10. CapInSight'
  <2>1. SUFFICES ASSUME NEW d \in DeliveryIds, Seat[d] \notin overdue'
                 PROVE  \/ \E q \in Processes :
                              call'[q].pc = "cap" /\ Seat[call'[q].delivery] = Seat[d]
                        \/ Cardinality(Staying(Seat[d])') =< Cap
    BY DEF CapInSight
  <2> DEFINE s == Seat[d]
  <2>2. s \notin overdue /\ ~ (MustEvict(k) /\ Seat[k.delivery] = s)
    BY <1>2, <2>1
  <2>3. CASE \E q \in Processes : call[q].pc = "cap" /\ Seat[call[q].delivery] = s
    <3>1. PICK q \in Processes : call[q].pc = "cap" /\ Seat[call[q].delivery] = s
      BY <2>3
    <3>2. q # p
      BY <1>1, <2>2, <3>1 DEF MustEvict
    <3> QED
      BY <1>3, <3>1, <3>2
  <2>4. CASE Cardinality(Staying(s)) =< Cap
    <3>1. ~ Evicting(k, s)
      BY <2>2 DEF Evicting, MustEvict
    <3>2. ~ Evicting(call[p], s)'
      BY <1>3, IdlePc DEF Evicting
    <3>3. \A q \in Processes \ {p} : Evicting(call[q], s)' <=> Evicting(call[q], s)
      BY <1>3 DEF Evicting
    <3>4. ActiveOf(s)' = ActiveOf(s)
      BY <1>2 DEF ActiveOf, InState
    <3>5. Staying(s)' = Staying(s)
      BY <1>1, <1>3, <3>1, <3>2, <3>3, <3>4 DEF Staying
    <3> QED
      BY <2>4, <3>5
  <2> QED
    BY <2>2, <2>3, <2>4 DEF IInv, CapInSight
<1> QED
  BY <1>5, <1>7, <1>8, <1>9, <1>10 DEF IInv

\* A step of no process shows no banner of a delivery that is not raced.
LEMMA OutsideStep ==
    ASSUME IInv, UNCHANGED << rows, call, raced, overdue >>, late' \subseteq late,
           banners' \subseteq [id : Ids, delivery : DeliveryIds],
           created' \in 0..MaxCreated, now' \in 0..MaxTime,
           faults' \in 0..MaxFaults,
           \A d \in DeliveryIds \ raced : Matching(d)' \subseteq Matching(d)
    PROVE  IInv'
<1>1. Types'
  BY DEF IInv, Types
<1>2. \A q \in Processes : CallSound(call[q])'
  BY DEF IInv, CallSound
<1>3. RacesKnown'
  BY DEF IInv, RacesKnown, Shared
<1>4. Reconciled'
  <2>1. SUFFICES ASSUME NEW d \in DeliveryIds \ raced
                 PROVE  RowShown(d)' /\ \A q \in Processes : CallKnows(call[q], d)'
    BY DEF Reconciled
  <2>2. RowShown(d)'
    BY <2>1, ShownStill DEF IInv, Reconciled
  <2>3. ASSUME NEW q \in Processes PROVE CallKnows(call[q], d)'
    <3>1. PICK r : r = call[q]
      OBVIOUS
    <3>2. CallKnows(r, d)
      BY <2>1, <3>1 DEF IInv, Reconciled
    <3>3. CallKnows(r, d)'
      BY <2>1, <3>2, KnowsStill
    <3> QED
      BY <3>1, <3>3 DEF CallKnows
  <2> QED
    BY <2>2, <2>3
<1>5. CapInSight'
  BY DEF IInv, CapInSight, Staying, ActiveOf, InState, Evicting
<1> QED
  BY <1>1, <1>2, <1>3, <1>4, <1>5 DEF IInv

\* A banner appears after its call gave up.
LEMMA LateCreatePreserves ==
    ASSUME IInv, NEW d \in DeliveryIds, LateCreate(d)
    PROVE  IInv'
<1>1. d \in raced /\ NewBanner(d)
  BY DEF LateCreate, IInv, RacesKnown
<1>2. UNCHANGED << rows, call, raced, overdue, now, faults >> /\ late' \subseteq late
  BY DEF LateCreate, history
<1>3. /\ banners' \subseteq [id : Ids, delivery : DeliveryIds]
      /\ created' \in 0..MaxCreated
      /\ \A e \in DeliveryIds \ {d} : Matching(e)' = Matching(e)
  BY <1>1, NewBannerTypes DEF IInv
<1>4. now' \in 0..MaxTime /\ faults' \in 0..MaxFaults
  BY <1>2 DEF IInv, Types
<1> QED
  BY <1>1, <1>2, <1>3, <1>4, OutsideStep

\* The user dismisses a banner.
LEMMA UserDismissPreserves ==
    ASSUME IInv, NEW b, UserDismiss(b)
    PROVE  IInv'
<1>1. /\ UNCHANGED << rows, call, raced, overdue, now, faults, created, late >>
      /\ banners' \subseteq banners
  BY DEF UserDismiss, history
<1>2. /\ now' \in 0..MaxTime /\ faults' \in 0..MaxFaults
      /\ banners' \subseteq [id : Ids, delivery : DeliveryIds]
      /\ created' \in 0..MaxCreated
  BY <1>1 DEF IInv, Types
<1>3. \A d : Matching(d)' \subseteq Matching(d)
  BY <1>1 DEF Matching
<1> QED
  BY <1>1, <1>2, <1>3, OutsideStep

\* Time passes, or nothing happens.
LEMMA TickPreserves == IInv /\ (Tick \/ UNCHANGED vars) => IInv'
<1> SUFFICES ASSUME IInv, Tick \/ UNCHANGED vars PROVE IInv'
  OBVIOUS
<1>1. UNCHANGED << rows, call, raced, overdue, faults, created, late, banners >>
  BY DEF Tick, vars, history, hostVars
<1>2. now' \in 0..MaxTime
  <2>1. CASE Tick
    BY <2>1, BoundsAssumption DEF Tick, IInv, Types
  <2>2. CASE UNCHANGED vars
    BY <2>2 DEF vars, IInv, Types
  <2> QED
    BY <2>1, <2>2
<1>3. /\ faults' \in 0..MaxFaults /\ created' \in 0..MaxCreated
      /\ banners' \subseteq [id : Ids, delivery : DeliveryIds]
  BY <1>1 DEF IInv, Types
<1>4. \A d : Matching(d)' \subseteq Matching(d)
  BY <1>1 DEF Matching
<1> QED
  BY <1>1, <1>2, <1>3, <1>4, OutsideStep
-----------------------------------------------------------------------------
(***************************************************************************)
(* The invariant and its consequences                                      *)
(***************************************************************************)
LEMMA InitInvariant == Init => IInv
<1> SUFFICES ASSUME Init PROVE IInv
  OBVIOUS
<1>1. /\ rows = [d \in DeliveryIds |-> None] /\ banners = {} /\ created = 0
      /\ late = {} /\ call = [p \in Processes |-> Idle] /\ now = 0 /\ faults = 0
      /\ raced = {} /\ overdue = {}
  BY DEF Init
<1>2. Types
  BY <1>1, BoundsAssumption DEF Types
<1>3. \A p \in Processes : call[p] = Idle /\ CallSound(call[p])
  BY <1>1, IdlePc DEF CallSound, Publishing
<1>4. \A d : \A p \in Processes : ~ Involved(call[p], d)
  BY <1>3, IdlePc DEF Involved
<1>5. RacesKnown
  BY <1>1, <1>4 DEF RacesKnown, Shared
<1>6. Reconciled
  <2>1. \A d \in DeliveryIds : Matching(d) = {} /\ Shown(d) = {}
    BY <1>1 DEF Matching, Shown
  <2>2. \A d \in DeliveryIds : RowShown(d)
    BY <2>1 DEF RowShown
  <2>3. \A p \in Processes, d \in DeliveryIds : CallKnows(call[p], d)
    BY <1>3, IdlePc DEF CallKnows
  <2> QED
    BY <2>2, <2>3 DEF Reconciled
<1>7. CapInSight
  <2>1. \A s : Staying(s) = {}
    BY <1>1 DEF Staying, ActiveOf, InState
  <2> QED
    BY <2>1, FS_EmptySet, PositiveAssumption DEF CapInSight
<1> QED
  BY <1>2, <1>3, <1>5, <1>6, <1>7 DEF IInv

\* Every step keeps the invariant.
LEMMA NextInvariant == IInv /\ [Next]_vars => IInv'
<1> SUFFICES ASSUME IInv, [Next]_vars PROVE IInv'
  OBVIOUS
<1>1. ASSUME NEW p \in Processes, Step(p) PROVE IInv'
  BY <1>1, RetireReadPreserves, RetireListPreserves, RetireDismissPreserves,
     RetireUpdatePreserves, ClaimPreserves, InsertPreserves, MatchPreserves,
     CreatePreserves, ActivatePreserves, EnforceCapPreserves, ReturnPreserves
  DEF Step
<1>2. ASSUME NEW p \in Processes,
             \/ \E d \in DeliveryIds : Publish(p, d) \/ Acknowledge(p, d)
             \/ Expire(p) \/ Abort(p)
      PROVE  IInv'
  BY <1>2, PublishPreserves, AcknowledgePreserves, ExpirePreserves, AbortPreserves
<1>3. CASE \E d \in DeliveryIds : LateCreate(d)
  BY <1>3, LateCreatePreserves
<1>4. CASE \E b \in banners : UserDismiss(b)
  BY <1>4, UserDismissPreserves
<1>5. CASE Tick \/ UNCHANGED vars
  BY <1>5, TickPreserves
<1> QED
  BY <1>1, <1>2, <1>3, <1>4, <1>5 DEF Next

\* The inductive invariant holds however calls, crashes and late creates
\* interleave.
THEOREM InvariantHolds == Spec => []IInv
  BY InitInvariant, NextInvariant, PTL DEF Spec

\* Types: in particular an active row knows its banner's id.
THEOREM TypeCorrect == Spec => []TypeOK
<1>1. IInv => TypeOK
  <2> SUFFICES ASSUME IInv PROVE TypeOK
    OBVIOUS
  <2>1. \A p \in Processes : call[p].pc \in Pcs \cup {"idle"}
    BY CallTypes, CallFields, IdlePc DEF IInv
  <2> QED
    BY <2>1 DEF IInv, Types, TypeOK, InState, Pcs
<1> QED
  BY <1>1, InvariantHolds, PTL

\* publish, _retire_delivery and the host agree on the banner of a delivery
\* that one call at a time works on, crashes and retries included.
THEOREM BannersReconciled == Spec => []BannerIsReconciled
<1>1. IInv => BannerIsReconciled
  <2> SUFFICES ASSUME IInv, NEW d \in DeliveryIds \ raced, NEW b \in Matching(d)
               PROVE  /\ Matching(d) = {b} /\ d \in InState(Live)
                      /\ rows[d].id \in {None, b.id}
    BY DEF BannerIsReconciled
  <2>1. RowShown(d)
    BY DEF IInv, Reconciled
  <2>2. rows[d] # None /\ rows[d].state \notin Retired /\ Matching(d) = {b}
    BY <2>1 DEF RowShown, InState
  <2>3. rows[d].state \in Live
    BY <2>2, RowTypes DEF IInv
  <2>4. rows[d].state = "prepared" => rows[d].id = None
    BY <2>2 DEF IInv, Types
  <2>5. rows[d].state = "active" => rows[d].id = b.id
    BY <2>1, <2>2 DEF RowShown, InState, Shown
  <2> QED
    BY <2>2, <2>3, <2>4, <2>5 DEF InState, Live
<1> QED
  BY <1>1, InvariantHolds, PTL

\* _enforce_cap keeps every seat's cap between calls, however publishers
\* interleave, for any number of seats, deliveries and processes.
THEOREM CapKept == Spec => []CapIsKept
<1>1. IInv => CapIsKept
  <2> SUFFICES ASSUME IInv, Quiet, NEW d \in DeliveryIds, Seat[d] \notin overdue
               PROVE  Cardinality(ActiveOf(Seat[d])) =< Cap
    BY DEF CapIsKept
  <2>1. \A p \in Processes : call[p].pc = "idle"
    BY IdlePc DEF Quiet
  <2>2. Staying(Seat[d]) = ActiveOf(Seat[d])
    BY <2>1 DEF Staying, Evicting
  <2> QED
    BY <2>1, <2>2 DEF IInv, CapInSight
<1> QED
  BY <1>1, InvariantHolds, PTL

\* No step takes a row out of the retired states.
LEMMA RetiredStays ==
    ASSUME IInv, [Next]_vars, NEW d \in DeliveryIds, d \in InState(Retired)
    PROVE  rows'[d].state \in Retired
<1>1. rows[d] # None /\ rows[d].state \in Retired
  BY DEF InState
<1>2. CASE rows' = rows
  BY <1>1, <1>2
<1>3. ASSUME NEW p \in Processes, RetireUpdate(p)
      PROVE  rows'[d].state \in Retired
  <2>1. PICK c \in Calls : c = call[p] /\ c.pc = "dismiss"
    BY <1>3, CallTypes DEF RetireUpdate, IInv
  <2>2. c.target \in Retired
    BY <2>1 DEF IInv, CallSound
  <2>3. rows' = [rows EXCEPT ![Head(c.todo)].state = c.target]
    BY <1>3, <2>1 DEF RetireUpdate
  <2>4. rows'[d] = rows[d] \/ rows'[d] = [rows[d] EXCEPT !.state = c.target]
    BY <2>3 DEF IInv, Types
  <2>5. [rows[d] EXCEPT !.state = c.target].state = c.target
    BY <1>1, RowTypes DEF IInv, Row
  <2> QED
    BY <1>1, <2>2, <2>4, <2>5
<1>4. ASSUME NEW p \in Processes, Insert(p)
      PROVE  rows'[d] = rows[d]
  BY <1>1, <1>4 DEF Insert, IInv, Types
<1>5. ASSUME NEW p \in Processes, Activate(p)
      PROVE  rows'[d] = rows[d]
  BY <1>1, <1>5 DEF Activate, InState, Retired, IInv, Types
<1>6. \/ rows' = rows
      \/ \E p \in Processes : RetireUpdate(p) \/ Insert(p) \/ Activate(p)
  BY DEF Next, Step, vars, Expire, Acknowledge, RetireRead, RetireList,
         RetireDismiss, Publish, Claim, Match, Create, EnforceCap, Return,
         Abort, LateCreate, UserDismiss, Tick
<1> QED
  BY <1>1, <1>2, <1>3, <1>4, <1>5, <1>6

\* A dismissed, expired or evicted announcement never comes back, although
\* publish writes to a row that another process may have retired since it
\* read it.
THEOREM RetirementIsFinal == Spec => RetiredForGood
<1>1. IInv /\ [Next]_vars =>
        [\A d \in DeliveryIds :
            d \in InState(Retired) => rows'[d].state \in Retired]_vars
  BY RetiredStays
<1> QED
  BY <1>1, InvariantHolds, PTL DEF Spec, RetiredForGood
=============================================================================
