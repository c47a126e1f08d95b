----------------------------- MODULE Injection -----------------------------
(***************************************************************************)
(* Putting a message into a live session                                   *)
(* (plugins/cmux/yatagarasu_cmux/injector.py, journal.py, outcome.py).     *)
(*                                                                         *)
(* Several workers may call Injector.deliver, for the same delivery too,   *)
(* with the journal's prepare as on_effect_pending, and settle the journal *)
(* row with what deliver answered.  Any of them may die between two steps. *)
(* The journal is a file and survives; so does the pane, which belongs to  *)
(* the host.                                                               *)
(*                                                                         *)
(* Text, markers, surfaces and harness profiles are left out.  What counts *)
(* is which delivery's text is where, and which of the two host events     *)
(* that prove a submission a worker saw inside its window.                 *)
(***************************************************************************)
EXTENDS Naturals, FiniteSets

CONSTANTS
    DeliveryIds,
    Workers,
    None

RequiredEvents == {"surface.input_sent", "workspace.prompt.submitted"}

\* JournalState, and "absent" where there is no row.
JournalStates == {"absent", "prepared", "injected", "acked", "ambiguous"}

\* SubmitOutcome, and "raised" where deliver ends in an exception.
Answers == {"submitted", "not_submitted", "unknown", "raised"}

VARIABLES
    journal,     \* injection_journal: [state, events] of each delivery
    worker,      \* what each worker is doing
    answers,     \* the answers deliver has given for each delivery
    pane         \* the host: what became of each delivery's text

vars == << journal, worker, answers, pane >>

\* A worker at a step of deliver or settle: the delivery, the events it saw
\* or is about to store, and the answer or the new state it carries.
At(pc, d, events, result) ==
    [pc |-> pc, delivery |-> d, events |-> events, result |-> result]

Free == At("idle", None, {}, None)

TypeOK ==
    /\ journal \in [DeliveryIds -> [state : JournalStates,
                                    events : SUBSET RequiredEvents]]
    /\ worker \in [Workers ->
          [pc : {"idle", "prepare", "send", "submit", "observe", "answered",
                 "settle"},
           delivery : DeliveryIds \cup {None},
           events : SUBSET RequiredEvents,
           result : Answers \cup JournalStates \cup {None}]]
    /\ answers \in [DeliveryIds -> SUBSET Answers]
    /\ pane \in [DeliveryIds -> [held : Nat, queued : Nat, turns : Nat,
                                 bus : SUBSET RequiredEvents]]

Init ==
    /\ journal = [d \in DeliveryIds |-> [state |-> "absent", events |-> {}]]
    /\ worker = [w \in Workers |-> Free]
    /\ answers = [d \in DeliveryIds |-> {}]
    /\ pane = [d \in DeliveryIds |->
          [held |-> 0, queued |-> 0, turns |-> 0, bus |-> {}]]

Goto(w, state) == worker' = [worker EXCEPT ![w] = state]
-----------------------------------------------------------------------------
(***************************************************************************)
(* InjectionJournal                                                        *)
(***************************************************************************)
LegalTransitions ==
    { << "prepared", "injected" >>, << "prepared", "ambiguous" >>,
      << "injected", "acked" >> }

\* Mutant: a row left at prepared is taken over.
CanPrepareAgain(d) == journal[d].state \in {"absent", "prepared"}

\* The primary key decides: there is no row for the delivery yet.
CanPrepare(d) == journal[d].state = "absent"

\* Mutant: the intent record has a state that is no JournalState.
PrepareAsPending(d) ==
    journal' = [journal EXCEPT ![d] = [state |-> "pending", events |-> {}]]

Prepare(d) ==
    journal' = [journal EXCEPT ![d] = [state |-> "prepared", events |-> {}]]

MaySettle(d, state) ==
    /\ journal[d].state # "absent"
    /\ \/ journal[d].state = state
       \/ << journal[d].state, state >> \in LegalTransitions

Unsettled == {d \in DeliveryIds : journal[d].state = "prepared"}

\* Mutant: the events of the last settle replace those stored.
SettleReplacing(w, d, state, events) ==
    \/ /\ MaySettle(d, state)
       /\ Goto(w, At("settle", d, events, state))
    \/ /\ ~ MaySettle(d, state)
       /\ Goto(w, Free)

\* settle up to its transaction: the row is read and checked outside it, and
\* the evidence to store is merged from what was read.
SettleRead(w, d, state, events) ==
    \/ /\ MaySettle(d, state)
       /\ Goto(w, At("settle", d, journal[d].events \cup events, state))
    \/ /\ ~ MaySettle(d, state)       \* JournalError
       /\ Goto(w, Free)

\* Its transaction: the UPDATE names the delivery, not the state read.
SettleWrite(w) ==
    LET s == worker[w]
    IN  /\ s.pc = "settle"
        /\ journal' = [journal EXCEPT ![s.delivery] =
              [state |-> s.result, events |-> s.events]]
        /\ Goto(w, Free)
        /\ UNCHANGED << answers, pane >>
-----------------------------------------------------------------------------
(***************************************************************************)
(* Injector.deliver                                                        *)
(***************************************************************************)
\* deliver returns an outcome, with the events that it saw.
Answer(w, d, events, answer) ==
    /\ answers' = [answers EXCEPT ![d] = @ \cup {answer}]
    /\ Goto(w, At("answered", d, events, answer))

\* An exception leaves deliver, and there is nothing to settle.
Raise(w, d) ==
    /\ answers' = [answers EXCEPT ![d] = @ \cup {"raised"}]
    /\ Goto(w, Free)

\* Minting, rendering and resolving come before any effect, and each of them
\* may fail with a clean negative.
Deliver(w, d) ==
    /\ worker[w].pc = "idle"
    /\ \/ /\ Goto(w, At("prepare", d, {}, None))
          /\ UNCHANGED answers
       \/ Answer(w, d, {}, "not_submitted")
    /\ UNCHANGED << journal, pane >>

\* Mutant: the intent record is left for settle to write.
EffectUnannounced(w) ==
    /\ worker[w].pc = "prepare"
    /\ Goto(w, At("send", worker[w].delivery, {}, None))
    /\ UNCHANGED << journal, answers, pane >>

\* on_effect_pending: nothing catches its JournalError.
EffectPending(w) ==
    LET d == worker[w].delivery
    IN  /\ worker[w].pc = "prepare"
        /\ \/ /\ CanPrepare(d)
              /\ Prepare(d)
              /\ Goto(w, At("send", d, {}, None))
              /\ UNCHANGED answers
           \/ /\ ~ CanPrepare(d)
              /\ Raise(w, d)
              /\ UNCHANGED journal
        /\ UNCHANGED pane

\* A call of the transport.  It may raise before or after its effect, and a
\* stale surface swallows the effect of a call that succeeds: the two are
\* independent.
TransportCall(w, next, effect) ==
    LET d == worker[w].delivery
    IN  /\ \/ UNCHANGED pane
           \/ pane' = [pane EXCEPT ![d] = effect]
        /\ \/ /\ Goto(w, At(next, d, {}, None))
              /\ UNCHANGED answers
           \/ Answer(w, d, {}, "unknown")
        /\ UNCHANGED journal

SendText(w) ==
    LET p == pane[worker[w].delivery]
    IN  /\ worker[w].pc = "send"
        /\ TransportCall(w, "submit", [p EXCEPT !.held = @ + 1])

\* The submit keys of the harness profile.
Submit(w) ==
    LET p == pane[worker[w].delivery]
    IN  /\ worker[w].pc = "submit"
        /\ TransportCall(w, "observe",
                         [p EXCEPT !.held = 0, !.queued = @ + p.held])

\* Mutant: the host's echo of the input counts as proof.
ProvenByInput(seen) == "surface.input_sent" \in seen

Proven(seen) == RequiredEvents \subseteq seen

ClassifyShortfall(seen) == IF seen = {} THEN "not_submitted" ELSE "unknown"

\* The BusObserver, which the deployment supplies: its iterator yields an
\* event of the bus, ends, as it is expected to at a deadline of its own, or
\* raises.
Observed(d, seen) == (pane[d].bus \ seen) \cup {"deadline", "exception"}

\* _await_proof, which has no deadline and no handler: the next thing that
\* the observer's iterator does.
AwaitProof(w) ==
    LET d == worker[w].delivery
        seen == worker[w].events
    IN  /\ worker[w].pc = "observe"
        /\ \/ /\ "deadline" \in Observed(d, seen)
              /\ Answer(w, d, seen, ClassifyShortfall(seen))
           \/ /\ "exception" \in Observed(d, seen)
              /\ Raise(w, d)
           \/ \E e \in Observed(d, seen) \cap RequiredEvents :
                 \/ /\ Proven(seen \cup {e})
                    /\ Answer(w, d, seen \cup {e}, "submitted")
                 \/ /\ ~ Proven(seen \cup {e})
                    /\ Goto(w, At("observe", d, seen \cup {e}, None))
                    /\ UNCHANGED answers
        /\ UNCHANGED << journal, pane >>
-----------------------------------------------------------------------------
(***************************************************************************)
(* The callers of deliver and settle, as the acceptance tests wire them,   *)
(* and the host.                                                           *)
(***************************************************************************)
\* A proven injection and an ambiguity are journalled; a negative leaves the
\* row, if there is one, as it is.
SettleAnswer(w) ==
    LET s == worker[w]
    IN  /\ s.pc = "answered"
        /\ CASE s.result = "submitted" ->
                  SettleRead(w, s.delivery, "injected", s.events)
             [] s.result = "unknown" ->
                  SettleRead(w, s.delivery, "ambiguous", s.events)
             [] OTHER -> Goto(w, Free)
        /\ UNCHANGED << journal, answers, pane >>

\* The core acknowledged the receipt of an injected delivery.
Acknowledge(w, d) ==
    /\ worker[w].pc = "idle"
    /\ journal[d].state = "injected"
    /\ SettleRead(w, d, "acked", {})
    /\ UNCHANGED << journal, answers, pane >>

\* Recovery settles a row left at prepared by the evidence on the bus.
Reconcile(w, d) ==
    /\ worker[w].pc = "idle"
    /\ d \in Unsettled
    /\ IF Proven(pane[d].bus)
       THEN SettleRead(w, d, "injected", pane[d].bus)
       ELSE SettleRead(w, d, "ambiguous", pane[d].bus)
    /\ UNCHANGED << journal, answers, pane >>

Crash(w) ==
    /\ worker[w].pc # "idle"
    /\ Goto(w, Free)
    /\ UNCHANGED << journal, answers, pane >>

\* The host reports the text it holds or has taken.
HostReportsInput(d) ==
    /\ pane[d].held + pane[d].queued + pane[d].turns > 0
    /\ "surface.input_sent" \notin pane[d].bus
    /\ pane' = [pane EXCEPT ![d].bus = @ \cup {"surface.input_sent"}]
    /\ UNCHANGED << journal, worker, answers >>

\* The composer submits, at once or when the session is no longer busy, and
\* the text becomes a turn.
HostTakesTurn(d) ==
    /\ pane[d].queued > 0
    /\ pane' = [pane EXCEPT
          ![d].queued = @ - 1,
          ![d].turns = @ + 1,
          ![d].bus = @ \cup {"workspace.prompt.submitted"}]
    /\ UNCHANGED << journal, worker, answers >>

WorkerStep(w) ==
    \/ EffectPending(w)
    \/ SendText(w)
    \/ Submit(w)
    \/ AwaitProof(w)
    \/ SettleAnswer(w)
    \/ SettleWrite(w)

Next ==
    \/ \E w \in Workers :
          \/ WorkerStep(w)
          \/ Crash(w)
          \/ \E d \in DeliveryIds :
                Deliver(w, d) \/ Acknowledge(w, d) \/ Reconcile(w, d)
    \/ \E d \in DeliveryIds : HostReportsInput(d) \/ HostTakesTurn(d)

Spec == Init /\ [][Next]_vars

\* A worker that is running goes on, if its observer keeps the protocol of
\* BusObserver and stops at its deadline.
FairSpec == Spec /\ \A w \in Workers : WF_vars(WorkerStep(w))
-----------------------------------------------------------------------------
\* One message never becomes two turns (journal.py), whatever workers
\* deliver again, crash or reconcile.
OneTurnPerDelivery ==
    \A d \in DeliveryIds :
        pane[d].held + pane[d].queued + pane[d].turns =< 1

\* A pane that may hold a delivery's text is never without a journal row: a
\* crash cannot read as "never injected".
EffectIsJournaled ==
    \A d \in DeliveryIds :
        pane[d].held + pane[d].queued + pane[d].turns > 0 =>
            journal[d].state # "absent"

\* "submitted", and a row that says injected or acked, are only ever about a
\* text that really became a turn, however late the answer is journalled.
ProvenIsReal ==
    \A d \in DeliveryIds :
        \/ "submitted" \in answers[d]
        \/ journal[d].state \in {"injected", "acked"}
        => pane[d].turns = 1

\* A row that says injected or acked holds the evidence for it: settle merges
\* what it stores with what it read (journal.py:206), so that neither an
\* acknowledgement, which brings no events, nor an overwrite by a settle that
\* read an older row leaves a claim without its proof.
ClaimHasEvidence ==
    \A d \in DeliveryIds :
        journal[d].state \in {"injected", "acked"} =>
            RequiredEvents \subseteq journal[d].events

(***************************************************************************)
(* Statements of the repository that the code does not keep                *)
(***************************************************************************)
\* outcome.py: NOT_SUBMITTED is a true negative, the message genuinely did
\* not land.  When deliver answers it after its window, the text is neither
\* a turn nor queued to become one.
NotSubmittedDidNotLand ==
    [][\A w \in Workers :
          LET d == worker[w].delivery
          IN  /\ worker[w].pc = "observe"
              /\ worker'[w].result = "not_submitted"
              => pane[d].queued + pane[d].turns = 0]_vars

\* journal.py: an injected row is never downgraded to ambiguous and a
\* terminal row never changes.
LifecycleIsEnforced ==
    [][\A d \in DeliveryIds :
          journal'[d].state # journal[d].state /\ journal[d].state # "absent"
          => << journal[d].state, journal'[d].state >> \in LegalTransitions]_vars
=============================================================================
