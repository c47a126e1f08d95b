---------------------------- MODULE MCBroadcasts ----------------------------
(***************************************************************************)
(* A room of two seats, one of which changes its session, and the honest   *)
(* receipts about the deliveries that broadcasts to it create.             *)
(***************************************************************************)
EXTENDS Broadcasts, TLC

MCDeliveryIds == BroadcastIds \X {"a", "b"}

MCKey ==
    [d \in DeliveryIds |->
        [event |-> d[1], attempt |-> d, recipient |-> d[2],
         mode |-> "session-bound"]]

MCProvider ==
    [cmux |-> [kind |-> "session-transport",
               classes |-> {"transport.submit_ack",
                            "harness.prompt_accepted"}]]

\* a1 and a2 are sessions of seat a, of which a2 is established for a later
\* time than the broadcast's; b1 is the session of seat b.
MCBinding ==
    [b \in {"a1", "a2", "b1"} |->
        [recipient |-> IF b = "b1" THEN "b" ELSE "a", provider |-> "cmux",
         session |-> b, established |-> IF b = "a2" THEN 3 ELSE 1,
         expires |-> 9,
         methods |-> [hook |-> [kind |-> "event-bus", instance |-> "bus",
                                classes |-> {"harness.prompt_accepted"}]]]]

MCRosters == { << "a", "b" >>, << "b" >> }

Event(name, seq) ==
    [name |-> name, id |-> << name, seq >>, seq |-> seq, boot |-> "boot",
     instance |-> "bus", session |-> None, binding |-> None,
     signature |-> None]

Base(id, d, b, class) ==
    [id |-> << id, d, b >>, event |-> d[1], delivery |-> d, attempt |-> d,
     binding |-> b, provider |-> "cmux", class |-> class, method |-> "hook",
     observed |-> 2, source |-> None, principal |-> None, message |-> None,
     disposition |-> None, echo |-> FALSE, proof |-> None]

Ack(d, b) == Base("ack", d, b, "transport.submit_ack")

\* The harness of session b takes the prompt of delivery d.
Entry(d, b) ==
    LET marker == Mint([event |-> d[1], delivery |-> d, attempt |-> d,
                        binding |-> b], 1, 5)
        prompt == [Event("workspace.prompt.submitted", 2)
                      EXCEPT !.binding = b, !.signature = marker.signature]
        hook   == [Event("agent.hook.UserPromptSubmit", 3)
                      EXCEPT !.session = b]
    IN  [Base("entry", d, b, "harness.prompt_accepted") EXCEPT
            !.source = hook.id,
            !.proof = [session |-> b, marker |-> marker,
                       events |-> << Event("surface.input_sent", 1), prompt,
                                     hook >>]]

\* The transport reports what it submitted, for a seat without a session
\* too, and the entry of seat a.
MCReceipts ==
    {Ack(<< "x", "a" >>, "a1"), Ack(<< "x", "a" >>, None),
     Ack(<< "x", "b" >>, "b1"), Entry(<< "x", "a" >>, "a1")}
=============================================================================
