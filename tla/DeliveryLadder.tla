--------------------------- MODULE DeliveryLadder ---------------------------
(***************************************************************************)
(* What the core promises about a delivery, without reducers, validation   *)
(* or transactions: it climbs its mode's ladder one rung at a time, every  *)
(* rung past dispatching is paid for by one receipt whose evidence class   *)
(* names that rung, and a receipt or a source event pays only once.        *)
(***************************************************************************)
CONSTANTS
    DeliveryIds,
    Mode,          \* [DeliveryIds -> {"session-bound", "channel-native"}]
    Receipts,      \* records with at least id, delivery, class, provider,
                   \* source
    None

VARIABLES
    stage,         \* [DeliveryIds -> the rung a delivery stands on]
    accepted       \* the receipts that have paid for a rung

ladderVars == << stage, accepted >>

\* << rung, evidence class, next rung >>
Rungs(mode) ==
    { << "dispatching", "transport.submit_ack", "transport-submitted" >> }
    \cup
    IF mode = "session-bound"
    THEN { << "transport-submitted", "harness.prompt_accepted", "in-session" >>,
           << "transport-submitted", "harness.turn_started", "in-session" >>,
           << "in-session", "harness.turn_completed", "processed" >> }
    ELSE { << "transport-submitted", "participant.reply_authored", "processed" >>,
           << "transport-submitted", "participant.reaction_authored",
              "processed" >> }

\* r is not paid for twice: neither its id nor its source event was used.
Fresh(r) ==
    \A q \in accepted :
        /\ q.id # r.id
        /\ r.source # None =>
              ~ (q.provider = r.provider /\ q.source = r.source)

LadderInit ==
    /\ stage = [d \in DeliveryIds |-> "absent"]
    /\ accepted = {}

Queue(d) ==
    /\ stage[d] = "absent"
    /\ stage' = [stage EXCEPT ![d] = "queued"]
    /\ UNCHANGED accepted

Dispatch(d) ==
    /\ stage[d] = "queued"
    /\ stage' = [stage EXCEPT ![d] = "dispatching"]
    /\ UNCHANGED accepted

Climb(r, to) ==
    /\ << stage[r.delivery], r.class, to >> \in Rungs(Mode[r.delivery])
    /\ Fresh(r)
    /\ stage' = [stage EXCEPT ![r.delivery] = to]
    /\ accepted' = accepted \cup {r}

LadderNext ==
    \/ \E d \in DeliveryIds : Queue(d) \/ Dispatch(d)
    \/ \E r \in Receipts :
          \E to \in {"transport-submitted", "in-session", "processed"} :
              Climb(r, to)

LadderSpec == LadderInit /\ [][LadderNext]_ladderVars
=============================================================================
