---------------------------- MODULE SessionProofs ----------------------------
(***************************************************************************)
(* Binding-scoped delivery markers and session-proof correlation           *)
(* (core/yatagarasu_core/proofs.py), as predicates.                        *)
(*                                                                         *)
(* HMAC is symbolic: a signature is the tuple of the signing key and the   *)
(* signed fields, so two signatures are equal iff the keys and the fields  *)
(* are.  schema_version and authority_scope have one legal value and are   *)
(* left out.  Timestamps are naturals; the refusal texts are left out, so  *)
(* a validator that returns None in the code is a predicate that holds.    *)
(***************************************************************************)
EXTENDS Naturals, Sequences

CONSTANTS
    SigningKey,     \* the core-held HMAC key of MarkerAuthority
    MaxLifetime     \* max_lifetime_seconds

ASSUME MaxLifetimeAssumption == MaxLifetime \in Nat \ {0}

PromptChain ==
    << "surface.input_sent", "workspace.prompt.submitted",
       "agent.hook.UserPromptSubmit" >>

CompletedChain == Append(PromptChain, "agent.hook.Stop")

EntryEvidence == {"harness.prompt_accepted", "harness.turn_started"}

\* The event names a proof of evidence class c must show, in order.
ExpectedNames(c) == IF c \in EntryEvidence THEN PromptChain ELSE CompletedChain

(***************************************************************************)
(* MarkerAuthority                                                         *)
(***************************************************************************)
Sign(key, m) ==
    << key, m.event, m.delivery, m.attempt, m.binding, m.issued, m.expires >>

\* A marker for the delivery with the given keys; mint's guards are
\* CanMint.  key names the delivery: [event, delivery, attempt, binding].
CanMint(issued, expires) ==
    /\ issued < expires
    /\ expires - issued =< MaxLifetime

Mint(key, issued, expires) ==
    LET unsigned == [event    |-> key.event,
                     delivery |-> key.delivery,
                     attempt  |-> key.attempt,
                     binding  |-> key.binding,
                     issued   |-> issued,
                     expires  |-> expires]
    IN  [event     |-> key.event,
         delivery  |-> key.delivery,
         attempt   |-> key.attempt,
         binding   |-> key.binding,
         issued    |-> issued,
         expires   |-> expires,
         signature |-> Sign(SigningKey, unsigned)]

\* Mutant: the signature is not compared.
MarkerValidUnsigned(m, key, observed) ==
    /\ m.event = key.event
    /\ m.delivery = key.delivery
    /\ m.attempt = key.attempt
    /\ m.binding = key.binding
    /\ m.issued =< observed
    /\ observed < m.expires

\* MarkerAuthority.validate
MarkerValid(m, key, observed) ==
    /\ m.event = key.event
    /\ m.delivery = key.delivery
    /\ m.attempt = key.attempt
    /\ m.binding = key.binding
    /\ m.signature = Sign(SigningKey, m)
    /\ CanMint(m.issued, m.expires)
    /\ m.issued =< observed
    /\ observed < m.expires

(***************************************************************************)
(* validate_session_proof: the bundle of bus events behind a receipt.      *)
(***************************************************************************)
ChainValid(events, names, instance) ==
    /\ Len(events) = Len(names)
    /\ \A i \in DOMAIN events :
          /\ events[i].name = names[i]
          /\ events[i].instance = instance
          /\ events[i].boot = events[1].boot
    /\ \A i, j \in DOMAIN events :
          i < j => /\ events[i].id # events[j].id
                   /\ events[i].seq < events[j].seq

\* A prompt is correlated by what it quotes, the hooks by their session.
ChainCorrelated(proof, key) ==
    /\ proof.events[2].binding = key.binding
    /\ proof.events[2].signature = proof.marker.signature
    /\ \A i \in 3..Len(proof.events) : proof.events[i].session = proof.session

SessionProofValid(proof, key, class, registration, observed) ==
    /\ class \in registration.classes
    /\ registration.kind = "event-bus"
    /\ MarkerValid(proof.marker, key, observed)
    /\ ChainValid(proof.events, ExpectedNames(class), registration.instance)
    /\ ChainCorrelated(proof, key)

LastEvent(proof) == proof.events[Len(proof.events)]

\* source_chain_json of source_events[:-1]: what a Stop must close.
ChainBeforeLast(proof) ==
    [i \in 1..(Len(proof.events) - 1) |-> proof.events[i]]
=============================================================================
