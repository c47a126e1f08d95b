--------------------------- MODULE InjectionProofs ---------------------------
(***************************************************************************)
(* Theorems about Injection, for every set of deliveries and workers.      *)
(***************************************************************************)
EXTENDS Injection, TLAPS

Prompted(d) == "workspace.prompt.submitted" \in pane[d].bus

\* How often the host has or had the text of delivery d.
Texts(d) == pane[d].held + pane[d].queued + pane[d].turns

\* What a worker holds in memory agrees with the journal and with the host,
\* however long ago it read them.
WorkerSound(w) ==
    LET s == worker[w]
    IN  /\ s.pc = "idle" => s.events = {}
        /\ s.pc # "idle" =>
              s.delivery \in DeliveryIds /\ s.events \subseteq pane[s.delivery].bus
        /\ s.pc = "answered" /\ s.result = "submitted" => Proven(s.events)
        /\ s.pc = "settle" =>
              /\ s.result \in {"injected", "acked", "ambiguous"}
              /\ s.result \in {"injected", "acked"} => Proven(s.events)

\* A worker about to send is the only one for its delivery, has a journal
\* row, and the host has nothing of it yet.
SenderAlone(w) ==
    LET d == worker[w].delivery
    IN  worker[w].pc = "send" =>
          /\ journal[d].state # "absent"
          /\ Texts(d) = 0
          /\ \A v \in Workers :
                worker[v].pc = "send" /\ worker[v].delivery = d => v = w

\* Evidence of a turn, wherever it is kept, was on the bus, and the bus
\* tells of a turn only when there was one.
EvidenceSound(d) ==
    /\ Prompted(d) => pane[d].turns > 0
    /\ journal[d].events \subseteq pane[d].bus
    /\ journal[d].state \in {"injected", "acked"} => Proven(journal[d].events)
    /\ "submitted" \in answers[d] => Prompted(d)

IInv ==
    /\ TypeOK
    /\ \A w \in Workers : WorkerSound(w) /\ SenderAlone(w)
    /\ \A d \in DeliveryIds : EvidenceSound(d)
    /\ OneTurnPerDelivery
    /\ EffectIsJournaled
-----------------------------------------------------------------------------
(***************************************************************************)
(* Types                                                                   *)
(***************************************************************************)
Pcs == {"idle", "prepare", "send", "submit", "observe", "answered", "settle"}

WorkerState ==
    [pc : Pcs, delivery : DeliveryIds \cup {None},
     events : SUBSET RequiredEvents,
     result : Answers \cup JournalStates \cup {None}]

PaneState == [held : Nat, queued : Nat, turns : Nat, bus : SUBSET RequiredEvents]

\* The state built by At is a worker's, when its parts are typed.
LEMMA AtTypes ==
    ASSUME NEW pc \in Pcs, NEW d \in DeliveryIds \cup {None},
           NEW events \in SUBSET RequiredEvents,
           NEW result \in Answers \cup JournalStates \cup {None}
    PROVE  /\ At(pc, d, events, result) \in WorkerState
           /\ At(pc, d, events, result).pc = pc
           /\ At(pc, d, events, result).delivery = d
           /\ At(pc, d, events, result).events = events
           /\ At(pc, d, events, result).result = result
    BY DEF At, WorkerState

\* A free worker holds nothing.
LEMMA FreeTypes == Free \in WorkerState /\ Free.pc = "idle" /\ Free.events = {}
    BY DEF Free, At, WorkerState, Pcs

\* The type invariant in terms of the two sets above.
LEMMA Types ==
    TypeOK <=>
        /\ journal \in [DeliveryIds -> [state : JournalStates,
                                        events : SUBSET RequiredEvents]]
        /\ worker \in [Workers -> WorkerState]
        /\ answers \in [DeliveryIds -> SUBSET Answers]
        /\ pane \in [DeliveryIds -> PaneState]
    BY DEF TypeOK, WorkerState, Pcs, PaneState

\* The fields of a pane are typed.
LEMMA PaneFields ==
    ASSUME NEW p \in PaneState
    PROVE  /\ p.held \in Nat /\ p.queued \in Nat /\ p.turns \in Nat
           /\ p.bus \in SUBSET RequiredEvents
    BY DEF PaneState

\* Typing adds one held text.
LEMMA PaneSend ==
    ASSUME NEW p \in PaneState
    PROVE  LET q == [p EXCEPT !.held = @ + 1]
           IN  /\ q \in PaneState /\ q.bus = p.bus /\ q.turns = p.turns
               /\ q.held = p.held + 1 /\ q.queued = p.queued
    BY DEF PaneState

\* The submit keys move what is held to the queue.
LEMMA PaneSubmit ==
    ASSUME NEW p \in PaneState
    PROVE  LET q == [p EXCEPT !.held = 0, !.queued = @ + p.held]
           IN  /\ q \in PaneState /\ q.bus = p.bus /\ q.turns = p.turns
               /\ q.held = 0 /\ q.queued = p.queued + p.held
<1> DEFINE q == [p EXCEPT !.held = 0, !.queued = @ + p.held]
<1>1. p.queued + p.held \in Nat
  BY PaneFields
<1> QED
  BY <1>1 DEF PaneState

\* The host's report of an input changes its bus only.
LEMMA PaneReports ==
    ASSUME NEW p \in PaneState
    PROVE  LET q == [p EXCEPT !.bus = @ \cup {"surface.input_sent"}]
           IN  /\ q \in PaneState /\ q.turns = p.turns
               /\ q.held = p.held /\ q.queued = p.queued
               /\ q.bus = p.bus \cup {"surface.input_sent"}
    BY DEF PaneState, RequiredEvents

\* A queued text becomes a turn and the bus says so.
LEMMA PaneTurn ==
    ASSUME NEW p \in PaneState, p.queued > 0
    PROVE  LET q == [p EXCEPT !.queued = @ - 1, !.turns = @ + 1,
                        !.bus = @ \cup {"workspace.prompt.submitted"}]
           IN  /\ q \in PaneState /\ q.turns = p.turns + 1
               /\ q.held = p.held /\ q.queued = p.queued - 1
               /\ q.bus = p.bus \cup {"workspace.prompt.submitted"}
<1>1. /\ p.queued - 1 \in Nat /\ p.turns + 1 \in Nat
      /\ p.bus \cup {"workspace.prompt.submitted"} \in SUBSET RequiredEvents
  BY PaneFields DEF RequiredEvents
<1> QED
  BY <1>1 DEF PaneState

\* A worker's own move to a sound state that is not "send", with the host
\* and the journal as they were, keeps all workers sound.
LEMMA WorkerMoves ==
    ASSUME IInv, NEW w \in Workers, NEW s \in WorkerState, Goto(w, s),
           UNCHANGED << journal, pane >>,
           s.pc # "send",
           s.pc = "idle" => s.events = {},
           s.pc # "idle" =>
              s.delivery \in DeliveryIds /\ s.events \subseteq pane[s.delivery].bus,
           s.pc = "answered" /\ s.result = "submitted" => Proven(s.events),
           s.pc = "settle" =>
              /\ s.result \in {"injected", "acked", "ambiguous"}
              /\ s.result \in {"injected", "acked"} => Proven(s.events)
    PROVE  /\ worker' \in [Workers -> WorkerState]
           /\ \A v \in Workers : WorkerSound(v)' /\ SenderAlone(v)'
<1> USE DEF IInv, Goto
<1>1. worker' \in [Workers -> WorkerState]
  BY Types
<1>2. \A v \in Workers : worker'[v] = IF v = w THEN s ELSE worker[v]
  BY Types
<1>3. \A v \in Workers : WorkerSound(v)'
  BY <1>2 DEF WorkerSound, Prompted
<1>4. \A v \in Workers : SenderAlone(v)'
  BY <1>2 DEF SenderAlone, Texts
<1> QED
  BY <1>1, <1>3, <1>4

\* Such a move with answers that are backed by the bus keeps the invariant.
LEMMA MoveKeeps ==
    ASSUME IInv, UNCHANGED << journal, pane >>,
           worker' \in [Workers -> WorkerState],
           \A v \in Workers : WorkerSound(v)' /\ SenderAlone(v)',
           answers' \in [DeliveryIds -> SUBSET Answers],
           \A d \in DeliveryIds : "submitted" \in answers'[d] => Prompted(d)
    PROVE  IInv'
<1>1. TypeOK'
  BY Types DEF IInv, TypeOK, WorkerState, Pcs
<1>2. \A d \in DeliveryIds : EvidenceSound(d)'
  BY DEF IInv, EvidenceSound, Prompted
<1>3. OneTurnPerDelivery' /\ EffectIsJournaled'
  BY DEF IInv, OneTurnPerDelivery, EffectIsJournaled
<1> QED
  BY <1>1, <1>2, <1>3 DEF IInv

\* Giving an answer keeps the invariant: "submitted" must be proven.
LEMMA AnswerKeeps ==
    ASSUME IInv, NEW w \in Workers, NEW d \in DeliveryIds,
           NEW events \in SUBSET RequiredEvents, NEW answer \in Answers,
           Answer(w, d, events, answer),
           UNCHANGED << journal, pane >>,
           events \subseteq pane[d].bus,
           answer = "submitted" => Proven(events)
    PROVE  IInv'
<1> DEFINE s == At("answered", d, events, answer)
<1>2. s \in WorkerState /\ s.pc = "answered" /\ s.delivery = d
      /\ s.events = events /\ s.result = answer
  BY AtTypes DEF Pcs
<1>3. Goto(w, s)
  BY DEF Answer
<1> HIDE DEF s
<1>4. /\ worker' \in [Workers -> WorkerState]
      /\ \A v \in Workers : WorkerSound(v)' /\ SenderAlone(v)'
  BY <1>2, <1>3, WorkerMoves
<1>5. answers' \in [DeliveryIds -> SUBSET Answers]
  BY Types DEF IInv, Answer
<1>6. \A e \in DeliveryIds : "submitted" \in answers'[e] => Prompted(e)
  BY Types DEF IInv, EvidenceSound, Answer, Prompted, Proven, RequiredEvents
<1> QED
  BY <1>4, <1>5, <1>6, MoveKeeps

\* A worker that becomes free keeps the invariant.
LEMMA FreeKeeps ==
    ASSUME IInv, NEW w \in Workers, Goto(w, Free),
           UNCHANGED << journal, answers, pane >>
    PROVE  IInv'
<1>1. /\ worker' \in [Workers -> WorkerState]
      /\ \A v \in Workers : WorkerSound(v)' /\ SenderAlone(v)'
  BY FreeTypes, WorkerMoves
<1> QED
  BY <1>1, MoveKeeps, Types DEF IInv, EvidenceSound

\* So does an exception, which leaves the worker free.
LEMMA RaiseKeeps ==
    ASSUME IInv, NEW w \in Workers, NEW d \in DeliveryIds, Raise(w, d),
           UNCHANGED << journal, pane >>
    PROVE  IInv'
<1>1. /\ worker' \in [Workers -> WorkerState]
      /\ \A v \in Workers : WorkerSound(v)' /\ SenderAlone(v)'
  BY FreeTypes, WorkerMoves DEF Raise
<1>2. /\ answers' \in [DeliveryIds -> SUBSET Answers]
      /\ \A e \in DeliveryIds : "submitted" \in answers'[e] => Prompted(e)
  BY Types DEF IInv, EvidenceSound, Answers, Raise
<1> QED
  BY <1>1, <1>2, MoveKeeps

\* settle, up to its transaction, carries nothing the bus did not show.
LEMMA SettleReadKeeps ==
    ASSUME IInv, NEW w \in Workers, NEW d \in DeliveryIds,
           NEW state \in {"injected", "acked", "ambiguous"},
           NEW events \in SUBSET pane[d].bus,
           SettleRead(w, d, state, events),
           state \in {"injected", "acked"} =>
              Proven(journal[d].events \cup events),
           UNCHANGED << journal, answers, pane >>
    PROVE  IInv'
<1>1. CASE Goto(w, Free)
  BY <1>1, FreeKeeps
<1>2. CASE Goto(w, At("settle", d, journal[d].events \cup events, state))
  <2> DEFINE all == journal[d].events \cup events
             s == At("settle", d, all, state)
  <2>1. all \subseteq pane[d].bus /\ all \in SUBSET RequiredEvents
    BY Types DEF IInv, EvidenceSound, PaneState
  <2>2. s \in WorkerState /\ s.pc = "settle" /\ s.delivery = d
        /\ s.events = all /\ s.result = state
    BY <2>1, AtTypes DEF Pcs, JournalStates
  <2>3. Goto(w, s)
    BY <1>2
  <2>4. state \in {"injected", "acked"} => Proven(all)
    OBVIOUS
  <2> HIDE DEF s, all
  <2>5. /\ worker' \in [Workers -> WorkerState]
        /\ \A v \in Workers : WorkerSound(v)' /\ SenderAlone(v)'
    BY <2>1, <2>2, <2>3, <2>4, WorkerMoves
  <2> QED
    BY <2>5, MoveKeeps, Types DEF IInv, EvidenceSound
<1> QED
  BY <1>1, <1>2 DEF SettleRead
-----------------------------------------------------------------------------
(***************************************************************************)
(* One lemma per action                                                    *)
(***************************************************************************)
\* Starting a call keeps the invariant.
LEMMA DeliverKeeps ==
    ASSUME IInv, NEW w \in Workers, NEW d \in DeliveryIds, Deliver(w, d)
    PROVE  IInv'
<1>1. CASE Answer(w, d, {}, "not_submitted")
  BY <1>1, AnswerKeeps DEF Deliver, Answers
<1>2. CASE Goto(w, At("prepare", d, {}, None)) /\ UNCHANGED answers
  <2> DEFINE s == At("prepare", d, {}, None)
  <2>1. s \in WorkerState /\ s.pc = "prepare" /\ s.delivery = d
        /\ s.events = {}
    BY AtTypes DEF Pcs
  <2>2. Goto(w, s)
    BY <1>2
  <2> HIDE DEF s
  <2>3. /\ worker' \in [Workers -> WorkerState]
        /\ \A v \in Workers : WorkerSound(v)' /\ SenderAlone(v)'
    BY <2>1, <2>2, WorkerMoves DEF Deliver
  <2> QED
    BY <1>2, <2>3, MoveKeeps, Types DEF IInv, EvidenceSound, Deliver
<1> QED
  BY <1>1, <1>2 DEF Deliver

\* The intent record is written once, and its writer is the only sender.
LEMMA EffectPendingKeeps ==
    ASSUME IInv, NEW w \in Workers, EffectPending(w)
    PROVE  IInv'
<1> DEFINE d == worker[w].delivery
<1>1. d \in DeliveryIds
  BY DEF IInv, WorkerSound, EffectPending
<1>2. CASE CanPrepare(d) /\ Prepare(d) /\ Goto(w, At("send", d, {}, None))
           /\ UNCHANGED << answers, pane >>
  <2> DEFINE s == At("send", d, {}, None)
  <2>1. s \in WorkerState /\ s.pc = "send" /\ s.delivery = d
        /\ s.events = {}
    BY <1>1, AtTypes DEF Pcs
  <2>2. worker' = [worker EXCEPT ![w] = s]
    BY <1>2 DEF Goto
  <2> HIDE DEF s
  <2>3. /\ worker' \in [Workers -> WorkerState]
        /\ \A v \in Workers : worker'[v] = IF v = w THEN s ELSE worker[v]
    BY <2>1, <2>2, Types DEF IInv
  <2>4. journal' = [journal EXCEPT ![d] = [state |-> "prepared", events |-> {}]]
    BY <1>2 DEF Prepare
  <2>5. /\ journal' \in [DeliveryIds -> [state : JournalStates,
                                         events : SUBSET RequiredEvents]]
        /\ \A e \in DeliveryIds : e # d => journal'[e] = journal[e]
        /\ journal'[d].state = "prepared" /\ journal'[d].events = {}
        /\ journal[d].state = "absent"
    BY <1>1, <1>2, <2>4, Types DEF IInv, JournalStates, CanPrepare
  <2>6. TypeOK'
    BY <1>2, <2>3, <2>5, Types DEF IInv, TypeOK, WorkerState, Pcs
  <2>7. \A v \in Workers : WorkerSound(v)'
    BY <1>1, <1>2, <2>1, <2>3 DEF IInv, WorkerSound, Prompted
  <2>8. Texts(d) = 0
    <3>1. pane[d].held \in Nat /\ pane[d].queued \in Nat /\ pane[d].turns \in Nat
      BY <1>1, Types DEF IInv, PaneState
    <3>2. ~ (pane[d].held + pane[d].queued + pane[d].turns > 0)
      BY <1>1, <2>5 DEF IInv, EffectIsJournaled
    <3> QED
      BY <3>1, <3>2 DEF Texts
  <2>9. \A v \in Workers : worker[v].pc = "send" => worker[v].delivery # d
    BY <2>5 DEF IInv, SenderAlone
  <2>10. \A v \in Workers : SenderAlone(v)'
    BY <1>2, <2>1, <2>3, <2>5, <2>8, <2>9
       DEF IInv, WorkerSound, SenderAlone, Texts
  <2>11. \A e \in DeliveryIds : EvidenceSound(e)'
    BY <1>2, <2>5 DEF IInv, EvidenceSound, Prompted
  <2>12. OneTurnPerDelivery' /\ EffectIsJournaled'
    BY <1>2, <2>5 DEF IInv, OneTurnPerDelivery, EffectIsJournaled
  <2> QED
    BY <2>6, <2>7, <2>10, <2>11, <2>12 DEF IInv
<1>3. CASE Raise(w, d) /\ UNCHANGED << journal, pane >>
  BY <1>1, <1>3, RaiseKeeps
<1> QED
  BY <1>2, <1>3 DEF EffectPending

\* A call of the transport that leaves the number of texts in the pane
\* alone, or adds the first one, keeps the invariant.
LEMMA TransportKeeps ==
    ASSUME IInv, NEW w \in Workers, worker[w].pc \in {"send", "submit"},
           NEW next \in {"submit", "observe"}, NEW p \in PaneState,
           p.bus = pane[worker[w].delivery].bus,
           p.turns = pane[worker[w].delivery].turns,
           \/ p.held + p.queued + p.turns = Texts(worker[w].delivery)
           \/ worker[w].pc = "send" /\ p.held + p.queued + p.turns = 1,
           TransportCall(w, next, p)
    PROVE  IInv'
<1> DEFINE d == worker[w].delivery
<1>1. d \in DeliveryIds /\ worker[w].events \subseteq pane[d].bus
  BY DEF IInv, WorkerSound
<1>2. pane' = pane \/ pane' = [pane EXCEPT ![d] = p]
  BY DEF TransportCall
<1>3. /\ pane' \in [DeliveryIds -> PaneState]
      /\ \A e \in DeliveryIds : /\ pane'[e].bus = pane[e].bus
                                /\ pane'[e].turns = pane[e].turns
      /\ \A e \in DeliveryIds : e # d => pane'[e] = pane[e]
  BY <1>1, <1>2, Types DEF IInv
<1>4. \A e \in DeliveryIds :
         \/ Texts(e)' = Texts(e)
         \/ e = d /\ worker[w].pc = "send" /\ Texts(e)' = 1
  BY <1>1, <1>2, Types DEF IInv, Texts
<1>5. PICK s \in WorkerState :
         /\ worker' = [worker EXCEPT ![w] = s]
         /\ s.pc \in {"submit", "observe", "answered"} /\ s.delivery = d
         /\ s.events \subseteq pane[d].bus
         /\ s.pc = "answered" => s.result = "unknown"
         /\ answers' = answers
            \/ answers' = [answers EXCEPT ![d] = @ \cup {"unknown"}]
  <2>1. CASE Goto(w, At(next, d, {}, None)) /\ UNCHANGED answers
    <3>1. At(next, d, {}, None) \in WorkerState
      BY <1>1, AtTypes DEF Pcs
    <3>2. /\ At(next, d, {}, None).pc = next
          /\ At(next, d, {}, None).delivery = d
          /\ At(next, d, {}, None).events = {}
      BY DEF At
    <3> QED
      BY <2>1, <3>1, <3>2 DEF Goto
  <2>2. CASE Answer(w, d, {}, "unknown")
    <3>1. At("answered", d, {}, "unknown") \in WorkerState
      BY <1>1, AtTypes DEF Pcs, Answers
    <3>2. /\ At("answered", d, {}, "unknown").pc = "answered"
          /\ At("answered", d, {}, "unknown").delivery = d
          /\ At("answered", d, {}, "unknown").events = {}
          /\ At("answered", d, {}, "unknown").result = "unknown"
      BY DEF At
    <3> QED
      BY <1>1, <2>2, <3>1, <3>2 DEF Goto, Answer
  <2> QED
    BY <2>1, <2>2 DEF TransportCall
<1>6. /\ worker' \in [Workers -> WorkerState]
      /\ \A v \in Workers : worker'[v] = IF v = w THEN s ELSE worker[v]
  BY <1>5, Types DEF IInv
<1>7. /\ answers' \in [DeliveryIds -> SUBSET Answers]
      /\ \A e \in DeliveryIds : "submitted" \in answers'[e] =>
                                   "submitted" \in answers[e]
  BY <1>1, <1>5, Types DEF IInv, Answers
<1>8. UNCHANGED journal
  BY DEF TransportCall
<1>9. TypeOK'
  BY <1>3, <1>6, <1>7, <1>8, Types DEF IInv, TypeOK, WorkerState, Pcs, PaneState
<1>10. \A v \in Workers : WorkerSound(v)'
  BY <1>1, <1>3, <1>5, <1>6 DEF IInv, WorkerSound, Prompted
<1>11. \A v \in Workers : SenderAlone(v)'
  BY <1>4, <1>5, <1>6, <1>8 DEF IInv, WorkerSound, SenderAlone
<1>12. \A e \in DeliveryIds : EvidenceSound(e)'
  BY <1>3, <1>7, <1>8 DEF IInv, EvidenceSound, Prompted
<1>13. OneTurnPerDelivery'
  BY <1>4 DEF IInv, OneTurnPerDelivery, Texts
<1>14. EffectIsJournaled'
  BY <1>4, <1>8 DEF IInv, SenderAlone, EffectIsJournaled, Texts
<1> QED
  BY <1>9, <1>10, <1>11, <1>12, <1>13, <1>14 DEF IInv

\* The first text of a delivery comes from the one worker that may send it.
LEMMA SendTextKeeps ==
    ASSUME IInv, NEW w \in Workers, SendText(w)
    PROVE  IInv'
<1> DEFINE d == worker[w].delivery
           q == [pane[d] EXCEPT !.held = @ + 1]
<1>1. worker[w].pc = "send" /\ d \in DeliveryIds
  BY DEF SendText, IInv, WorkerSound
<1>2. pane[d] \in PaneState
  BY <1>1, Types DEF IInv
<1>3. Texts(d) = 0
  BY <1>1 DEF IInv, SenderAlone
<1>4. /\ q \in PaneState /\ q.bus = pane[d].bus /\ q.turns = pane[d].turns
      /\ q.held = pane[d].held + 1 /\ q.queued = pane[d].queued
  BY <1>2, PaneSend
<1>5. TransportCall(w, "submit", q)
  BY DEF SendText
<1> HIDE DEF q
<1>6. q.held + q.queued + q.turns = 1
  BY <1>2, <1>3, <1>4, PaneFields DEF Texts
<1> QED
  BY <1>1, <1>4, <1>5, <1>6, TransportKeeps

\* The submit keys move the held texts and add none.
LEMMA SubmitKeeps ==
    ASSUME IInv, NEW w \in Workers, Submit(w)
    PROVE  IInv'
<1> DEFINE d == worker[w].delivery
           q == [pane[d] EXCEPT !.held = 0, !.queued = @ + pane[d].held]
<1>1. worker[w].pc = "submit" /\ d \in DeliveryIds
  BY DEF Submit, IInv, WorkerSound
<1>2. pane[d] \in PaneState
  BY <1>1, Types DEF IInv
<1>3. /\ q \in PaneState /\ q.bus = pane[d].bus /\ q.turns = pane[d].turns
      /\ q.held = 0 /\ q.queued = pane[d].queued + pane[d].held
  BY <1>2, PaneSubmit
<1>4. TransportCall(w, "observe", q)
  BY DEF Submit
<1> HIDE DEF q
<1>5. q.held + q.queued + q.turns = Texts(d)
  BY <1>2, <1>3, PaneFields DEF Texts
<1> QED
  BY <1>1, <1>3, <1>4, <1>5, TransportKeeps

\* The observer sees only what is on the bus.
LEMMA AwaitProofKeeps ==
    ASSUME IInv, NEW w \in Workers, AwaitProof(w)
    PROVE  IInv'
<1> DEFINE d == worker[w].delivery
           seen == worker[w].events
<1>1. d \in DeliveryIds /\ seen \subseteq pane[d].bus
  BY DEF AwaitProof, IInv, WorkerSound
<1>2. UNCHANGED << journal, pane >>
  BY DEF AwaitProof
<1>3. pane[d].bus \in SUBSET RequiredEvents
  BY <1>1, Types DEF IInv, PaneState
<1>4. CASE Answer(w, d, seen, ClassifyShortfall(seen))
  <2>1. /\ ClassifyShortfall(seen) \in Answers
        /\ ClassifyShortfall(seen) # "submitted"
    BY DEF ClassifyShortfall, Answers
  <2> QED
    BY <1>1, <1>2, <1>3, <1>4, <2>1, AnswerKeeps
<1>5. CASE Raise(w, d)
  BY <1>1, <1>2, <1>5, RaiseKeeps
<1>6. ASSUME NEW e \in pane[d].bus, Proven(seen \cup {e}),
             Answer(w, d, seen \cup {e}, "submitted")
      PROVE  IInv'
  <2>1. seen \cup {e} \subseteq pane[d].bus
    BY <1>1
  <2> QED
    BY <1>1, <1>2, <1>3, <1>6, <2>1, AnswerKeeps DEF Answers
<1>7. ASSUME NEW e \in pane[d].bus,
             Goto(w, At("observe", d, seen \cup {e}, None)), UNCHANGED answers
      PROVE  IInv'
  <2> DEFINE s == At("observe", d, seen \cup {e}, None)
  <2>2. seen \cup {e} \in SUBSET RequiredEvents
    BY <1>1, <1>3
  <2>3. s \in WorkerState /\ s.pc = "observe" /\ s.delivery = d
        /\ s.events = seen \cup {e}
    BY <1>1, <2>2, AtTypes DEF Pcs
  <2>4. s.events \subseteq pane[d].bus
    BY <1>1, <2>3
  <2>5. Goto(w, s)
    BY <1>7
  <2> HIDE DEF s
  <2>6. /\ worker' \in [Workers -> WorkerState]
        /\ \A v \in Workers : WorkerSound(v)' /\ SenderAlone(v)'
    BY <1>1, <1>2, <2>3, <2>4, <2>5, WorkerMoves
  <2> QED
    BY <1>2, <1>7, <2>6, MoveKeeps, Types DEF IInv, EvidenceSound
<1>8. ASSUME NEW e \in Observed(d, seen) \cap RequiredEvents
      PROVE  e \in pane[d].bus
  BY <1>8 DEF Observed, RequiredEvents
<1> QED
  BY <1>4, <1>5, <1>6, <1>7, <1>8 DEF AwaitProof

\* The answer is journalled with the events that were seen.
LEMMA SettleAnswerKeeps ==
    ASSUME IInv, NEW w \in Workers, SettleAnswer(w)
    PROVE  IInv'
<1> DEFINE d == worker[w].delivery
           seen == worker[w].events
<1>1. /\ d \in DeliveryIds /\ seen \subseteq pane[d].bus
      /\ worker[w].result = "submitted" => Proven(journal[d].events \cup seen)
  BY DEF SettleAnswer, IInv, WorkerSound, Proven
<1>2. UNCHANGED << journal, answers, pane >>
  BY DEF SettleAnswer
<1>3. CASE worker[w].result = "submitted"
  BY <1>1, <1>2, <1>3, SettleReadKeeps DEF SettleAnswer
<1>4. CASE worker[w].result = "unknown"
  BY <1>1, <1>2, <1>4, SettleReadKeeps DEF SettleAnswer
<1>5. CASE worker[w].result \notin {"submitted", "unknown"}
  BY <1>2, <1>5, FreeKeeps DEF SettleAnswer
<1> QED
  BY <1>3, <1>4, <1>5

\* The UPDATE of settle may overwrite any row, and still stores no state
\* and no event that the bus did not back.
LEMMA SettleWriteKeeps ==
    ASSUME IInv, NEW w \in Workers, SettleWrite(w)
    PROVE  IInv'
<1> DEFINE s == worker[w]
           d == s.delivery
           row == [state |-> s.result, events |-> s.events]
<1>1. /\ d \in DeliveryIds /\ s.events \subseteq pane[d].bus
      /\ s.result \in {"injected", "acked", "ambiguous"}
      /\ s.result \in {"injected", "acked"} => Proven(s.events)
  BY DEF SettleWrite, IInv, WorkerSound
<1>2. s.events \in SUBSET RequiredEvents
  BY Types DEF IInv, WorkerState
<1>3. journal' = [journal EXCEPT ![d] = row] /\ Goto(w, Free)
      /\ UNCHANGED << answers, pane >>
  BY DEF SettleWrite
<1>4. /\ journal' \in [DeliveryIds -> [state : JournalStates,
                                       events : SUBSET RequiredEvents]]
      /\ \A e \in DeliveryIds :
            journal'[e] = IF e = d THEN row ELSE journal[e]
  BY <1>1, <1>2, <1>3, Types DEF IInv, JournalStates
<1>5. /\ worker' \in [Workers -> WorkerState]
      /\ \A v \in Workers : worker'[v] = IF v = w THEN Free ELSE worker[v]
  BY <1>3, FreeTypes, Types DEF IInv, Goto
<1>6. TypeOK'
  BY <1>3, <1>4, <1>5, Types DEF IInv, TypeOK, WorkerState, Pcs
<1>7. \A v \in Workers : WorkerSound(v)'
  BY <1>3, <1>5, FreeTypes DEF IInv, WorkerSound, Prompted
<1>8. \A e \in DeliveryIds :
         journal'[e].state = "absent" => journal[e].state = "absent"
  BY <1>1, <1>4
<1>9. \A v \in Workers : SenderAlone(v)'
  BY <1>3, <1>5, <1>8, FreeTypes DEF IInv, WorkerSound, SenderAlone, Texts
<1>10. \A e \in DeliveryIds : EvidenceSound(e)'
  BY <1>1, <1>3, <1>4 DEF IInv, EvidenceSound, Prompted
<1>11. OneTurnPerDelivery' /\ EffectIsJournaled'
  BY <1>3, <1>8 DEF IInv, OneTurnPerDelivery, EffectIsJournaled
<1> QED
  BY <1>6, <1>7, <1>9, <1>10, <1>11 DEF IInv

\* What the host does adds to its bus and turns queued texts into turns.
LEMMA HostKeeps ==
    ASSUME IInv, NEW d \in DeliveryIds,
           HostReportsInput(d) \/ HostTakesTurn(d)
    PROVE  IInv'
<1>1. pane[d] \in PaneState
  BY Types DEF IInv
<1>2. PICK q \in PaneState :
         /\ pane' = [pane EXCEPT ![d] = q]
         /\ pane[d].bus \subseteq q.bus
         /\ q.held + q.queued + q.turns = Texts(d)
         /\ q.turns >= pane[d].turns
         /\ "workspace.prompt.submitted" \in q.bus =>
               Prompted(d) \/ q.turns > 0
  <2>1. CASE HostReportsInput(d)
    <3> DEFINE q == [pane[d] EXCEPT !.bus = @ \cup {"surface.input_sent"}]
    <3>1. pane' = [pane EXCEPT ![d] = q]
      BY <2>1 DEF HostReportsInput
    <3>2. /\ q \in PaneState /\ q.turns = pane[d].turns
          /\ q.held = pane[d].held /\ q.queued = pane[d].queued
          /\ q.bus = pane[d].bus \cup {"surface.input_sent"}
      BY <1>1, PaneReports
    <3> HIDE DEF q
    <3>3. /\ pane[d].bus \subseteq q.bus
          /\ q.held + q.queued + q.turns = Texts(d)
          /\ q.turns >= pane[d].turns
          /\ "workspace.prompt.submitted" \in q.bus => Prompted(d)
      BY <1>1, <3>2, PaneFields DEF Texts, Prompted
    <3> QED
      BY <3>1, <3>2, <3>3
  <2>2. CASE HostTakesTurn(d)
    <3> DEFINE q == [pane[d] EXCEPT
                        !.queued = @ - 1, !.turns = @ + 1,
                        !.bus = @ \cup {"workspace.prompt.submitted"}]
    <3>1. pane' = [pane EXCEPT ![d] = q]
      BY <2>2 DEF HostTakesTurn
    <3>2. /\ q \in PaneState /\ q.turns = pane[d].turns + 1
          /\ q.held = pane[d].held /\ q.queued = pane[d].queued - 1
          /\ q.bus = pane[d].bus \cup {"workspace.prompt.submitted"}
      BY <1>1, <2>2, PaneTurn DEF HostTakesTurn
    <3> HIDE DEF q
    <3>3. pane[d].bus \subseteq q.bus /\ q.held + q.queued + q.turns = Texts(d)
      BY <1>1, <3>2, PaneFields DEF Texts
    <3>4. q.turns > 0 /\ q.turns >= pane[d].turns
      BY <1>1, <3>2, PaneFields
    <3> QED
      BY <3>1, <3>2, <3>3, <3>4
  <2> QED
    BY <2>1, <2>2
<1>3. UNCHANGED << journal, worker, answers >>
  BY DEF HostReportsInput, HostTakesTurn
<1>4. /\ pane' \in [DeliveryIds -> PaneState]
      /\ \A e \in DeliveryIds : pane'[e] = IF e = d THEN q ELSE pane[e]
  BY <1>2, Types DEF IInv
<1>5. \A e \in DeliveryIds :
         /\ pane[e].bus \subseteq pane'[e].bus
         /\ Texts(e)' = Texts(e)
  BY <1>2, <1>4 DEF Texts
<1>6. TypeOK'
  BY <1>3, <1>4 DEF IInv, TypeOK, PaneState
<1>7. \A v \in Workers : WorkerSound(v)'
  BY <1>3, <1>5 DEF IInv, WorkerSound, Prompted
<1>8. \A v \in Workers : SenderAlone(v)'
  BY <1>3, <1>5 DEF IInv, WorkerSound, SenderAlone
<1>9. \A e \in DeliveryIds : Prompted(e)' => pane'[e].turns > 0
  <2>1. Prompted(d)' => q.turns > 0
    BY <1>1, <1>2, <1>4 DEF IInv, EvidenceSound, Prompted, PaneState
  <2> QED
    BY <1>4, <2>1 DEF IInv, EvidenceSound, Prompted
<1>10. \A e \in DeliveryIds : EvidenceSound(e)'
  BY <1>3, <1>5, <1>9 DEF IInv, EvidenceSound, Prompted
<1>11. OneTurnPerDelivery' /\ EffectIsJournaled'
  BY <1>3, <1>5 DEF IInv, OneTurnPerDelivery, EffectIsJournaled, Texts
<1> QED
  BY <1>6, <1>7, <1>8, <1>10, <1>11 DEF IInv

\* Recovery settles by the bus, and an acknowledgement by the row.
LEMMA RecoveryKeeps ==
    ASSUME IInv, NEW w \in Workers, NEW d \in DeliveryIds,
           Acknowledge(w, d) \/ Reconcile(w, d)
    PROVE  IInv'
<1>1. CASE Acknowledge(w, d)
  <2>1. Proven(journal[d].events \cup {})
    BY <1>1 DEF Acknowledge, IInv, EvidenceSound, Proven
  <2> QED
    BY <1>1, <2>1, SettleReadKeeps DEF Acknowledge
<1>2. CASE Reconcile(w, d)
  <2>1. Proven(pane[d].bus) => Proven(journal[d].events \cup pane[d].bus)
    BY DEF Proven
  <2> QED
    BY <1>2, <2>1, SettleReadKeeps DEF Reconcile
<1> QED
  BY <1>1, <1>2
-----------------------------------------------------------------------------
(***************************************************************************)
(* Theorems                                                                *)
(***************************************************************************)
\* Nobody has done anything yet.
LEMMA InitIInv == Init => IInv
<1> SUFFICES ASSUME Init
             PROVE  IInv
  OBVIOUS
<1>1. TypeOK
  BY FreeTypes DEF Init, TypeOK, WorkerState, Pcs, JournalStates
<1>2. \A w \in Workers : WorkerSound(w) /\ SenderAlone(w)
  BY FreeTypes DEF Init, WorkerSound, SenderAlone
<1>3. \A d \in DeliveryIds : EvidenceSound(d)
  BY DEF Init, EvidenceSound, Prompted
<1>4. OneTurnPerDelivery /\ EffectIsJournaled
  BY DEF Init, OneTurnPerDelivery, EffectIsJournaled
<1> QED
  BY <1>1, <1>2, <1>3, <1>4 DEF IInv

\* Every step keeps the invariant.
LEMMA NextIInv == IInv /\ [Next]_vars => IInv'
<1> SUFFICES ASSUME IInv, [Next]_vars
             PROVE  IInv'
  OBVIOUS
<1>1. ASSUME NEW w \in Workers, WorkerStep(w)
      PROVE  IInv'
  BY <1>1, EffectPendingKeeps, SendTextKeeps, SubmitKeeps, AwaitProofKeeps,
     SettleAnswerKeeps, SettleWriteKeeps DEF WorkerStep
<1>2. ASSUME NEW w \in Workers, Crash(w)
      PROVE  IInv'
  BY <1>2, FreeKeeps DEF Crash
<1>3. ASSUME NEW w \in Workers, NEW d \in DeliveryIds,
             Deliver(w, d) \/ Acknowledge(w, d) \/ Reconcile(w, d)
      PROVE  IInv'
  BY <1>3, DeliverKeeps, RecoveryKeeps
<1>4. ASSUME NEW d \in DeliveryIds, HostReportsInput(d) \/ HostTakesTurn(d)
      PROVE  IInv'
  BY <1>4, HostKeeps
<1>5. CASE UNCHANGED vars
  BY <1>5 DEF vars, IInv, TypeOK, WorkerSound, SenderAlone, EvidenceSound,
             OneTurnPerDelivery, EffectIsJournaled, Prompted, Proven, Texts
<1> QED
  BY <1>1, <1>2, <1>3, <1>4, <1>5 DEF Next

\* The invariant of the injector, its journal and the pane.
THEOREM InvariantHolds == Spec => []IInv
    BY InitIInv, NextIInv, PTL DEF Spec

\* Journal rows, workers, answers and the pane keep their types.
THEOREM TypeCorrect == Spec => []TypeOK
<1>1. IInv => TypeOK
  BY DEF IInv
<1> QED
  BY <1>1, InvariantHolds, PTL

\* One message never becomes two turns (journal.py): the primary key of
\* prepare lets one worker send, whoever delivers again, dies or reconciles.
THEOREM OneTurnCorrect == Spec => []OneTurnPerDelivery
<1>1. IInv => OneTurnPerDelivery
  BY DEF IInv
<1> QED
  BY <1>1, InvariantHolds, PTL

\* The journal knows of every text the pane may hold: the intent record is
\* durable before the first effect (injector.py on_effect_pending).
THEOREM EffectsJournaled == Spec => []EffectIsJournaled
<1>1. IInv => EffectIsJournaled
  BY DEF IInv
<1> QED
  BY <1>1, InvariantHolds, PTL

\* "submitted", "injected" and "acked" are only ever said of a text that
\* became a turn, also when settle overwrites what it did not read.
THEOREM ProofsAreReal == Spec => []ProvenIsReal
<1>1. IInv => ProvenIsReal
  <2> SUFFICES ASSUME IInv, NEW d \in DeliveryIds,
                      \/ "submitted" \in answers[d]
                      \/ journal[d].state \in {"injected", "acked"}
               PROVE  pane[d].turns = 1
    BY DEF ProvenIsReal
  <2>1. pane[d].turns > 0
    BY DEF IInv, EvidenceSound, Proven, Prompted, RequiredEvents
  <2>2. pane[d].held + pane[d].queued + pane[d].turns =< 1
    BY DEF IInv, OneTurnPerDelivery
  <2>3. pane[d].held \in Nat /\ pane[d].queued \in Nat /\ pane[d].turns \in Nat
    BY Types DEF IInv, PaneState
  <2> QED
    BY <2>1, <2>2, <2>3
<1> QED
  BY <1>1, InvariantHolds, PTL

\* A row that says injected or acked holds the events that prove it, also
\* when settle overwrites what it did not read.
THEOREM ClaimsAreProven == Spec => []ClaimHasEvidence
<1>1. IInv => ClaimHasEvidence
  BY DEF IInv, EvidenceSound, Proven, ClaimHasEvidence
<1> QED
  BY <1>1, InvariantHolds, PTL
=============================================================================
