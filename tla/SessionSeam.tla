---------------------------- MODULE SessionSeam ----------------------------
(***************************************************************************)
(* The receipt emitter connected to core: what becomes of a delivery when  *)
(* the injector's transport.submit_ack and the emitter's receipts come     *)
(* from two processes (receipt_translation.py, receipt_emitter.py and the  *)
(* reducer that core_client calls).                                        *)
(*                                                                         *)
(* core is the delivery ladder that module ReceiptReducer refines, for     *)
(* deliveries that are dispatching: a receipt is answered and not raised,  *)
(* whatever the verdict, so that a receipt which comes too early is lost   *)
(* to core until it is sent again.  Of the validator's checks those that   *)
(* ReceiptReducer has against the delivery's binding (active, in its       *)
(* window, of this provider and session, with a registered proof method:   *)
(* receipts.py:184-208) are assumed to pass.  One that refuses leaves the  *)
(* row as it is, so what core is never told stays so; TurnIsProcessed and  *)
(* RestartHeals hold for bindings that keep passing them.                  *)
(***************************************************************************)
EXTENDS ReceiptEmitter

VARIABLES
    core,           \* state and accepted prompt chain of each delivery
    acked           \* history: whether each submit_ack came before the hook of
                    \* the turn, or None

ASSUME AckAssumption == None \notin {"before", "after"}

seamVars == << vars, core, acked >>

SeamInit ==
    /\ Init
    /\ core = [d \in Deliveries |-> [state |-> "dispatching", chain |-> <<>>]]
    /\ acked = [d \in Deliveries |-> None]

\* Turn t is the injector's own: it quotes the marker minted for it.
Authentic(t) ==
    LET d == Turn[t].marker.delivery
    IN  /\ Reportable(t)
        /\ Turn[t].marker.signature = Context[d].marker.signature
        /\ Turn[t].marker.binding = Context[d].binding

ProofValid(r) ==
    SessionProofValid(r.proof, r, r.class, Registration, r.observed)

\* Mutant: the proof is not validated.
ReducedUnsigned(row, r) ==
    IF r.class = "harness.prompt_accepted" /\ row.state = "transport-submitted"
    THEN [state |-> "in-session", chain |-> r.proof.events]
    ELSE IF r.class = "harness.turn_completed" /\ row.state = "in-session"
    THEN [row EXCEPT !.state = "processed"]
    ELSE row

\* Mutant: a rejected receipt is remembered by its id like an accepted one.
ReducedOnce(row, r) ==
    IF r.class = "harness.prompt_accepted" /\ row.chain = <<>>
    THEN [state |-> IF row.state = "transport-submitted" /\ ProofValid(r)
                    THEN "in-session" ELSE row.state,
          chain |-> r.proof.events]
    ELSE IF r.class = "harness.turn_completed" /\ row.state = "in-session"
    THEN [row EXCEPT !.state = "processed"]
    ELSE row

\* ReceiptReducer.submit of receipt r about a delivery with this row.  A
\* rejection leaves no receipt behind, so the same receipt is judged again.
Reduced(row, r) ==
    IF /\ r.class = "harness.prompt_accepted"
       /\ row.state = "transport-submitted"
       /\ ProofValid(r)
    THEN [state |-> "in-session", chain |-> r.proof.events]
    ELSE IF /\ r.class = "harness.turn_completed"
            /\ row.state = "in-session"
            /\ ProofValid(r)
            /\ row.chain = ChainBeforeLast(r.proof)
    THEN [row EXCEPT !.state = "processed"]
    ELSE row

\* The row after these receipts, in the order of their events: an event
\* gives rise to one receipt at most.
ReducedAll(row, receipts) ==
    LET after[i \in 0..Len(bus)] ==
            IF i = 0 THEN row
            ELSE IF \E r \in receipts : r.source = i
            THEN Reduced(after[i - 1], CHOOSE r \in receipts : r.source = i)
            ELSE after[i - 1]
    IN  after[Len(bus)]

\* A step of the host or the resident; the receipts that it sends are
\* reduced before core_client returns.
EmitterStep ==
    /\ Next
    /\ core' = [d \in Deliveries |->
          ReducedAll(core[d], {r \in memory'.emitted \ memory.emitted :
                                  r.delivery = d})]
    /\ UNCHANGED acked

\* submit_ack_receipt: the injector has seen the input and the prompt of d's
\* turn, and its receipt is accepted.  It touches no receipt of another
\* class, so one that comes while the resident is busy has the effect of one
\* just before or after that.  Its caller is still to come in the code
\* (receipt_translation.py:8), which leaves the moment open.
SubmitAck(d) ==
    /\ CaughtUp \/ pc = "down"
    /\ core[d].state = "dispatching"
    /\ \E t \in Turns :
          /\ Authentic(t) /\ Turn[t].marker.delivery = d
          /\ stage[t] \notin {"waiting", "injected"}
          /\ acked' = [acked EXCEPT ![d] =
                IF stage[t] = "prompted" THEN "before" ELSE "after"]
    /\ core' = [core EXCEPT ![d].state = "transport-submitted"]
    /\ UNCHANGED vars

SeamNext == EmitterStep \/ \E d \in Deliveries : SubmitAck(d)

SeamSpec == SeamInit /\ [][SeamNext]_seamVars

FairSeamSpec == SeamSpec /\ Fairness
-----------------------------------------------------------------------------
\* The turns that quote the authoritative marker of d.
Quoting(d) == {t \in Turns : Signature(t) = Context[d].marker.signature}

\* Turn t is over.
Over(t) == stage[t] \in {"stopped", "interrupted"}

\* Turn t runs, and the Stop of an earlier turn came again after its prompt.
Preempted(t) ==
    /\ stage[t] = "running"
    /\ \E p \in DOMAIN bus :
          /\ bus[p].turn = t /\ bus[p].name = PromptSubmitted
          /\ LateStop(p, Len(bus))

\* Core is never told of a turn that did not happen: a delivery is in its
\* session only when a turn that quotes its authoritative marker was taken
\* by the harness, and processed only when such a turn is over or is taken to
\* be on account of an earlier turn's Stop (receipt_emitter.py:34, "Neither
\* stage may stand in for or jump over the other").
CoreFollowsTurn ==
    \A d \in Deliveries :
        /\ core[d].state = "in-session" =>
              \E t \in Quoting(d) : stage[t] = "running" \/ Over(t)
        /\ core[d].state = "processed" =>
              \E t \in Quoting(d) : Over(t) \/ Preempted(t)

\* t is the injector's own and the only turn so far that quotes its marker,
\* which is genuine and in force at each of its events.
Honest(t) ==
    LET d   == Turn[t].marker.delivery
        key == [event |-> Context[d].event, delivery |-> d,
                attempt |-> Context[d].attempt, binding |-> Context[d].binding]
    IN  /\ Authentic(t)
        /\ \A u \in Turns :
              Signature(u) = Signature(t) /\ stage[u] # "waiting" => u = t
        /\ \A i \in DOMAIN bus :
              bus[i].turn = t => MarkerValid(Context[d].marker, key, i)

WholeTurn(t) == Honest(t) /\ Undisturbed(t)

WholeTurnsAreProcessed ==
    \A t \in Turns :
        LET d == Turn[t].marker.delivery
        IN  WholeTurn(t) /\ acked[d] = "before" => core[d].state = "processed"

\* A whole turn whose submit_ack reached core before its hook was on the bus
\* ends as processed, whatever happens to the resident.
TurnIsProcessed == []<>WholeTurnsAreProcessed

\* A restart heals the other order: when the entry came before the
\* submit_ack it was refused and so was its Stop, and once the ack is there
\* the replay of recover brings the delivery through both stages
\* (receipt_producer.py:67-71).
RestartHeals ==
    [][pc = "down" /\ pc' = "up" =>
          \A t \in Turns :
              LET d == Turn[t].marker.delivery
              IN  /\ WholeTurn(t)
                  /\ \A i \in DOMAIN bus : bus[i].turn = t => i =< cursor
                  /\ acked[d] # None
                  => core'[d].state = "processed"]_seamVars
=============================================================================
