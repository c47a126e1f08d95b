--------------------------- MODULE MCSessionSeam ---------------------------
(***************************************************************************)
(* Workspace w1 has the injected turn of delivery d1 and one that quotes   *)
(* no marker; w2 has a turn, in a session of the same id, that quotes d1   *)
(* with a signature of another key.                                        *)
(***************************************************************************)
EXTENDS SessionSeam, TLC

MCDeliveries == {"d1"}

Keys(d) == [event |-> "e", delivery |-> d, attempt |-> d, binding |-> d]

MCContext ==
    [d \in MCDeliveries |->
        [event |-> "e", attempt |-> d, binding |-> d,
         marker |-> Mint(Keys(d), 1, 9)]]

\* What the prompt of delivery d shows on the wire.
Quoted(d) ==
    [delivery |-> d, binding |-> d, signature |-> MCContext[d].marker.signature]

Misquoted ==
    [Quoted("d1") EXCEPT !.signature =
        << "otherkey", "e", "d1", "d1", "d1", 1, 9 >>]

InjectedTurn(w, marker) ==
    [workspace |-> w, session |-> "s", marker |-> marker, injected |-> TRUE]

MCTurn ==
    [t1 |-> InjectedTurn("w1", Quoted("d1")),
     t2 |-> InjectedTurn("w1", None),
     t3 |-> InjectedTurn("w2", Misquoted),
     human |-> [InjectedTurn("w1", None) EXCEPT !.injected = FALSE]]
=============================================================================
