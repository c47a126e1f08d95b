-------------------------- MODULE MCReceiptReducer --------------------------
(***************************************************************************)
(* Small instances of ReceiptReducer: what the seats' bus says happened,   *)
(* and the receipts, honest, replayed, contradictory and forged, that      *)
(* providers may submit about it.                                          *)
(***************************************************************************)
EXTENDS ReceiptReducer, TLC

Symmetry == Permutations(Reducers)

MCDeliveryIds == {"d1", "d2"}
MCBindingIds == {"b1", "b2"}
MCProviderIds == {"cmux", "discord"}

EntryAndStop == {"harness.prompt_accepted", "harness.turn_started",
                 "harness.turn_completed"}

MCProvider ==
    [cmux    |-> [kind |-> "session-transport",
                  classes |-> EntryAndStop \cup {"transport.submit_ack"}],
     discord |-> [kind |-> "comms-view",
                  classes |-> ParticipantEvidence
                              \cup {"transport.submit_ack"}]]

\* Two sessions that one seat may be bound to.
MCBinding ==
    [b \in MCBindingIds |->
        [recipient |-> "seat", provider |-> "cmux",
         session |-> IF b = "b1" THEN "s1" ELSE "s2",
         established |-> 1, expires |-> 9,
         methods |-> [hook |-> [kind |-> "event-bus", instance |-> "bus",
                                classes |-> EntryAndStop]]]]

SessionKey ==
    [d \in MCDeliveryIds |->
        [event |-> "e", attempt |-> d, recipient |-> "seat",
         mode |-> "session-bound"]]

\* c1 goes to ann on a chat platform.
MixedKey ==
    [c1 |-> [event |-> "e", attempt |-> "c1", recipient |-> "ann",
             mode |-> "channel-native"]] @@ SessionKey

Marker(d) == Mint([event |-> "e", delivery |-> d, attempt |-> d,
                   binding |-> "b1"], 1, 5)

ForgedMarker(d) ==
    [Marker(d) EXCEPT !.signature =
        << "otherkey", "e", d, d, "b1", 1, 5 >>]

(***************************************************************************)
(* The bus of session s1: one keystroke event, then for each delivery its  *)
(* marked prompt and its hooks, all in one boot.                           *)
(***************************************************************************)
Event(name, id, seq) ==
    [name |-> name, id |-> id, seq |-> seq, boot |-> "boot",
     instance |-> "bus", session |-> None, binding |-> None,
     signature |-> None]

Input == Event("surface.input_sent", << "i", "" >>, 1)

Prompt(d) ==
    [Event("workspace.prompt.submitted", << "p", d >>,
           IF d = "d1" THEN 2 ELSE 6)
        EXCEPT !.binding = "b1", !.signature = Marker(d).signature]

Hook(d) ==
    [Event("agent.hook.UserPromptSubmit", << "u", d >>,
           IF d = "d1" THEN 3 ELSE 7) EXCEPT !.session = "s1"]

\* The host relays a hook twice.
Relayed(d) == [Hook(d) EXCEPT !.id = << "v", d >>, !.seq = @ + 1]

Stop(d) ==
    [Event("agent.hook.Stop", << "s", d >>, IF d = "d1" THEN 5 ELSE 9)
        EXCEPT !.session = "s1"]

EntryProof(d) == [session |-> "s1", marker |-> Marker(d),
                  events |-> << Input, Prompt(d), Hook(d) >>]

\* The Stop of turn t, claimed to close the turn of delivery d.
StopProof(d, t) == [session |-> "s1", marker |-> Marker(d),
                    events |-> << Input, Prompt(d), Hook(d), Stop(t) >>]

(***************************************************************************)
(* Receipts                                                                *)
(***************************************************************************)
Base(id, d, provider, class) ==
    [id |-> id, event |-> "e", delivery |-> d, attempt |-> d,
     binding |-> "b1", provider |-> provider, class |-> class,
     method |-> "hook", observed |-> 3, source |-> None,
     principal |-> None, message |-> None, disposition |-> None,
     echo |-> FALSE, proof |-> None]

Ack(d) == Base(<< "ack", d >>, d, "cmux", "transport.submit_ack")

\* A transport that has no id of its own for what it submitted.
BlankAck(d) == [Ack(d) EXCEPT !.id = << "blank", d >>, !.source = Blank]

Entry(d) ==
    [Base(<< "in", d >>, d, "cmux", "harness.prompt_accepted")
        EXCEPT !.source = << "u", d >>, !.proof = EntryProof(d)]

\* A second provider process reports the same turn as turn_started, by the
\* second relay of its hook.
Started(d) ==
    [Base(<< "started", d >>, d, "cmux", "harness.turn_started")
        EXCEPT !.source = << "v", d >>,
               !.proof = [EntryProof(d) EXCEPT !.events[3] = Relayed(d)]]

Completed(d, t) ==
    [Base(<< "stop" \o t, d >>, d, "cmux", "harness.turn_completed")
        EXCEPT !.source = << "s", t >>, !.proof = StopProof(d, t)]

\* Concurrent honest reporting of two turns in one session, including a
\* Stop that could close either of them and acknowledgements whose source
\* id is empty.
SessionReceipts ==
    {Ack("d1")} \cup {BlankAck(d) : d \in MCDeliveryIds}
    \cup {Entry(d) : d \in MCDeliveryIds}
    \cup {Started("d1"), Completed("d1", "d2"), Completed("d2", "d2")}

(***************************************************************************)
(* Receipts about delivery d1 that prove nothing, each one field away from *)
(* Entry("d1") or Completed("d1", "d1"), one for each refusal that         *)
(* core/README lists: missing, forged, expired, wrong provider, wrong      *)
(* session, copied delivery, out of order.                                 *)
(***************************************************************************)
Altered(id, proof) ==
    [Entry("d1") EXCEPT !.id = << id, "d1" >>, !.proof = proof]

HonestProof == EntryProof("d1")

SessionSuspects ==
    {Altered("none", None),
     Altered("forged", [HonestProof EXCEPT
                           !.marker = ForgedMarker("d1"),
                           !.events[2].signature =
                               ForgedMarker("d1").signature]),
     Altered("copied", [HonestProof EXCEPT !.marker = Marker("d2")]),
     Altered("foreign", EntryProof("d2")),
     Altered("session", [HonestProof EXCEPT !.session = "s2"]),
     Altered("instance", [HonestProof EXCEPT
                             !.events[3].instance = "otherbus"]),
     Altered("boot", [HonestProof EXCEPT !.events[1].boot = "boot0"]),
     Altered("order", [HonestProof EXCEPT !.events[1].seq = 4]),
     Altered("short", [HonestProof EXCEPT !.events = << Input, Hook("d1") >>]),
     [Altered("late", HonestProof) EXCEPT !.observed = 5],
     [Altered("attempt", HonestProof) EXCEPT !.attempt = "d2"],
     [Altered("binding", HonestProof) EXCEPT !.binding = "b2"],
     [Altered("nomethod", HonestProof) EXCEPT !.method = None],
     [Altered("disposed", HonestProof) EXCEPT !.disposition = "answered"],
     [Completed("d1", "d1") EXCEPT
         !.id = << "unclosed", "d1" >>, !.source = << "s", "d2" >>,
         !.proof = [StopProof("d1", "d2") EXCEPT !.events[1].id = << "j", "" >>]]}

\* The id of the honest entry with another claim.
Contradiction == [Entry("d1") EXCEPT !.observed = 4]

BindingReceipts == {Ack("d1"), Entry("d1"), Contradiction}

(***************************************************************************)
(* Channel-native deliveries: m1 is the platform's message for c1, and ann *)
(* is the principal that may answer it; m2 and bob belong elsewhere.       *)
(***************************************************************************)
MCPrincipalRows ==
    {[provider |-> "discord", principal |-> "ann#1", recipient |-> "ann"],
     [provider |-> "discord", principal |-> "bob#1", recipient |-> "bob"]}

MCMessageRows ==
    {[provider |-> "discord", message |-> "m1", event |-> "e",
      delivery |-> "c1", attempt |-> "c1"]}

AckC ==
    [Base(<< "ack", "c1" >>, "c1", "discord", "transport.submit_ack")
        EXCEPT !.message = "m1"]

\* ann's answer in the platform's event x, as seen for delivery c1.
Authored(id, class, disposition) ==
    [Base(<< id, "c1" >>, "c1", "discord", class)
        EXCEPT !.source = << "x", "c1" >>, !.principal = "ann#1",
               !.message = "m1", !.disposition = disposition]

Reply == Authored("reply", "participant.reply_authored", None)

Held == [Authored("held", "participant.reaction_authored", "held")
            EXCEPT !.source = << "y", "c1" >>]

ChannelSuspects ==
    {[Reply EXCEPT !.id = << "echo", "c1" >>, !.echo = TRUE],
     [Reply EXCEPT !.id = << "bob", "c1" >>, !.principal = "bob#1"],
     [Reply EXCEPT !.id = << "m2", "c1" >>, !.message = "m2"],
     [Reply EXCEPT !.id = << "nosource", "c1" >>, !.source = None],
     [Reply EXCEPT !.id = << "overclaim", "c1" >>, !.disposition = "completed"],
     [Held EXCEPT !.id = << "bare", "c1" >>, !.disposition = None],
     [AckC EXCEPT !.id = << "ackm2", "c1" >>, !.message = "m2"],
     [Reply EXCEPT !.id = << "entry", "c1" >>,
                   !.class = "harness.prompt_accepted"],
     [Reply EXCEPT !.id = << "disposition", "c1" >>,
                   !.class = "session.disposition_authored"]}

Suspects == SessionSuspects \cup ChannelSuspects

SuspectReceipts ==
    Suspects \cup {Ack("d1"), Entry("d1"), Completed("d1", "d1"), AckC,
                   Reply, Held}

\* Evidence that is missing, forged, expired, copied from another delivery
\* or session, out of order, echoed or overclaimed never advances a
\* delivery (receipts.py submit; core/README "The reducer rejects ...").
SuspectsNeverAdvance ==
    \A i \in DOMAIN ledger : ledger[i].receipt \notin Suspects
=============================================================================
