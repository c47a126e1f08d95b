-------------------------- MODULE SessionSeamProofs --------------------------
(***************************************************************************)
(* Theorems about SessionSeam: core and the injector beside it leave the   *)
(* producer as it is, so what is proved of the producer alone holds of the *)
(* composition that the run session_seam checks.  What core believes rests *)
(* on receipts that were sent (RowSound), and those on turns.              *)
(***************************************************************************)
EXTENDS SessionSeam, TurnReportProofs

\* A submit_ack is not a step of the host or the resident.
LEMMA SeamStep == [SeamNext]_seamVars => [Next]_vars
<1>1. EmitterStep => Next
  BY DEF EmitterStep
<1>2. ASSUME NEW d \in Deliveries, SubmitAck(d) PROVE UNCHANGED vars
  BY <1>2 DEF SubmitAck
<1>3. UNCHANGED seamVars => UNCHANGED vars
  BY DEF seamVars
<1> QED
  BY <1>1, <1>2, <1>3 DEF SeamNext

\* The composition implements the specification of the producer and its
\* emitter: core's answers never reach back into what is reported, as
\* core_client returns nothing (receipt_emitter.py:39).
THEOREM SeamImplementsEmitter == SeamSpec => Spec
<1>1. SeamInit => Init
  BY DEF SeamInit
<1> QED
  BY <1>1, SeamStep, PTL DEF SeamSpec, Spec

\* However the submit_ack and the receipts interleave at core, receipts keep
\* one meaning per id, are about the turn whose prompt quotes the delivery,
\* close chains that were reported, and are judged by what was on the wire.
THEOREM SeamReceiptsCorrect ==
    SeamSpec => []( /\ MemoryIsReplay
                    /\ ReceiptIdsAreStable
                    /\ EntryIsOwnTurn
                    /\ CompletionIsOwnTurn
                    /\ WireMarkerIsJudged )
  BY SeamImplementsEmitter, ReplayCorrect, IdsStable, EntryCorrect,
     CompletionCorrect, WireCorrect, PTL
-----------------------------------------------------------------------------
(***************************************************************************)
(* Reducing several receipts                                               *)
(***************************************************************************)
\* A row after the receipt of the i-th event, if there is one.
ReducedAt(row, R, i) ==
    IF \E r \in R : r.source = i
    THEN Reduced(row, CHOOSE r \in R : r.source = i) ELSE row

IsReduction(f, row, R, n) ==
    f = [i \in 0..n |-> IF i = 0 THEN row ELSE ReducedAt(f[i - 1], R, i)]

\* There is a function that satisfies the recursion of ReducedAll, by a
\* least number without one.
LEMMA ReductionExists ==
    ASSUME NEW row, NEW R, NEW n \in Nat
    PROVE  \E f : IsReduction(f, row, R, n)
<1> SUFFICES ASSUME ~ \E f : IsReduction(f, row, R, n)
             PROVE  FALSE
  OBVIOUS
<1> DEFINE T == {k \in Nat : ~ \E f : IsReduction(f, row, R, k)}
<1>1. PICK k \in T : \A j \in T : k =< j
  <2>1. T \subseteq Nat /\ T # {}
    OBVIOUS
  <2> QED
    BY <2>1, LeastNumber
<1>2. k \in Nat /\ ~ \E f : IsReduction(f, row, R, k)
  BY <1>1
<1>3. CASE k = 0
  <2> DEFINE f == [i \in 0..k |-> row]
  <2>1. \A i \in 0..k : i = 0
    BY <1>3
  <2>2. IsReduction(f, row, R, k)
    BY <2>1 DEF IsReduction
  <2> QED
    BY <2>2, <1>2
<1>4. CASE k # 0
  <2>1. k - 1 \in Nat /\ k - 1 \notin T
    BY <1>1, <1>2, <1>4
  <2>2. PICK g : IsReduction(g, row, R, k - 1)
    BY <2>1
  <2> DEFINE f == [i \in 0..k |-> IF i < k THEN g[i]
                                  ELSE ReducedAt(g[i - 1], R, i)]
  <2>3. \A i \in 0..(k - 1) :
           g[i] = IF i = 0 THEN row ELSE ReducedAt(g[i - 1], R, i)
    BY <2>2 DEF IsReduction
  <2>4. \A i \in 0..k : i # 0 => f[i - 1] = g[i - 1]
    BY <1>2
  <2>5. ASSUME NEW i \in 0..k
        PROVE  f[i] = IF i = 0 THEN row ELSE ReducedAt(f[i - 1], R, i)
    <3>1. CASE i < k
      <4>1. f[i] = g[i] /\ i \in 0..(k - 1)
        BY <3>1, <1>2
      <4>2. i # 0 => f[i - 1] = g[i - 1]
        BY <2>4
      <4> HIDE DEF f
      <4> QED
        BY <4>1, <4>2, <2>3
    <3>2. CASE i = k
      BY <3>2, <2>4, <1>2, <1>4
    <3> QED
      BY <3>1, <3>2, <1>2
  <2>6. IsReduction(f, row, R, k)
    <3>1. f = [i \in 0..k |-> f[i]]
      OBVIOUS
    <3> HIDE DEF f
    <3> QED
      BY <3>1, <2>5 DEF IsReduction
  <2> QED
    BY <2>6, <1>2
<1> QED
  BY <1>3, <1>4

\* So ReducedAll is the end of such a function.
LEMMA ReducedAllIsReduction ==
    ASSUME NEW row, NEW R, Len(bus) \in Nat
    PROVE  \E f : /\ IsReduction(f, row, R, Len(bus))
                 /\ ReducedAll(row, R) = f[Len(bus)]
<1> DEFINE f == CHOOSE f : IsReduction(f, row, R, Len(bus))
<1>1. ReducedAll(row, R) = f[Len(bus)]
  BY DEF ReducedAll, IsReduction, ReducedAt
<1>2. IsReduction(f, row, R, Len(bus))
  BY ReductionExists
<1> QED
  BY <1>1, <1>2
-----------------------------------------------------------------------------
(***************************************************************************)
(* What core believes rests on receipts that were sent                     *)
(***************************************************************************)
\* Core has row of delivery d on account of receipts in S: one with a valid
\* proof for each stage, and the second extends the chain of the first.
RowSound(d, row, S) ==
    /\ row = [state |-> row.state, chain |-> row.chain]
    /\ row.state = "in-session" =>
          \E q \in S : /\ q.class = "harness.prompt_accepted"
                       /\ q.delivery = d /\ ProofValid(q)
                       /\ row.chain = q.proof.events
    /\ row.state = "processed" =>
          \E q \in S : /\ q.class = "harness.turn_completed"
                       /\ q.delivery = d /\ ProofValid(q)
                       /\ row.chain = ChainBeforeLast(q.proof)

CoreSound ==
    /\ core = [d \in Deliveries |-> core[d]]
    /\ \A d \in Deliveries : RowSound(d, core[d], sent)

\* One receipt.
LEMMA ReducedSound ==
    ASSUME NEW d, NEW row, NEW S, RowSound(d, row, S),
           NEW r \in S, r.delivery = d
    PROVE  RowSound(d, Reduced(row, r), S)
<1>1. CASE /\ r.class = "harness.prompt_accepted"
           /\ row.state = "transport-submitted"
           /\ ProofValid(r)
  <2> DEFINE new == [state |-> "in-session", chain |-> r.proof.events]
  <2>1. Reduced(row, r) = new
    BY <1>1 DEF Reduced
  <2>2. new.state = "in-session" /\ new.chain = r.proof.events
    OBVIOUS
  <2>3. new = [state |-> new.state, chain |-> new.chain]
    OBVIOUS
  <2> HIDE DEF new
  <2> QED
    BY <1>1, <2>1, <2>2, <2>3 DEF RowSound
<1>2. CASE /\ ~ (/\ r.class = "harness.prompt_accepted"
                 /\ row.state = "transport-submitted"
                 /\ ProofValid(r))
           /\ r.class = "harness.turn_completed"
           /\ row.state = "in-session"
           /\ ProofValid(r)
           /\ row.chain = ChainBeforeLast(r.proof)
  <2> DEFINE new == [row EXCEPT !.state = "processed"]
  <2>1. Reduced(row, r) = new
    BY <1>2 DEF Reduced
  <2>2. PICK x, c : row = [state |-> x, chain |-> c]
    BY DEF RowSound
  <2>3. new = [state |-> "processed", chain |-> c] /\ row.chain = c
    BY <2>2
  <2>4. /\ new.state = "processed" /\ new.chain = row.chain
        /\ new = [state |-> new.state, chain |-> new.chain]
    BY <2>3
  <2> HIDE DEF new
  <2> QED
    BY <1>2, <2>1, <2>4 DEF RowSound
<1>3. CASE Reduced(row, r) = row
  BY <1>3
<1> QED
  BY <1>1, <1>2, <1>3 DEF Reduced

\* All receipts of a step, by a least event after which the row is unsound.
LEMMA ReducedAllSound ==
    ASSUME NEW d, NEW row, NEW S, RowSound(d, row, S), Len(bus) \in Nat,
           NEW R \in SUBSET S, \A r \in R : r.delivery = d
    PROVE  RowSound(d, ReducedAll(row, R), S)
<1>1. PICK n \in Nat : n = Len(bus)
  OBVIOUS
<1>2. PICK f : IsReduction(f, row, R, n) /\ ReducedAll(row, R) = f[n]
  BY <1>1, ReducedAllIsReduction
<1> SUFFICES ASSUME ~ RowSound(d, f[n], S)
             PROVE  FALSE
  BY <1>2
<1> DEFINE T == {i \in 0..n : ~ RowSound(d, f[i], S)}
<1>3. PICK x \in T : \A y \in T : x =< y
  <2>1. T \subseteq Nat /\ T # {}
    OBVIOUS
  <2> QED
    BY <2>1, LeastNumber
<1>4. x \in 0..n /\ ~ RowSound(d, f[x], S)
  BY <1>3
<1>5. f[x] = IF x = 0 THEN row ELSE ReducedAt(f[x - 1], R, x)
  BY <1>2, <1>4 DEF IsReduction
<1>6. x # 0
  BY <1>4, <1>5
<1>7. x - 1 \in 0..n /\ x - 1 \notin T
  BY <1>3, <1>4, <1>6
<1>8. RowSound(d, f[x - 1], S)
  BY <1>7
<1>9. RowSound(d, ReducedAt(f[x - 1], R, x), S)
  <2>1. CASE \E r \in R : r.source = x
    <3> DEFINE q == CHOOSE r \in R : r.source = x
    <3>1. q \in R
      BY <2>1
    <3>2. ReducedAt(f[x - 1], R, x) = Reduced(f[x - 1], q)
      BY <2>1 DEF ReducedAt
    <3> HIDE DEF q
    <3> QED
      BY <1>8, <3>1, <3>2, ReducedSound
  <2>2. CASE ~ \E r \in R : r.source = x
    BY <1>8, <2>2 DEF ReducedAt
  <2> QED
    BY <2>1, <2>2
<1> QED
  BY <1>4, <1>5, <1>6, <1>9

\* What was sent stays sent.
LEMMA SentGrows == [Next]_vars => sent \subseteq sent'
<1>1. ASSUME NEW t \in Turns,
             \/ Inject(t) \/ Prompt(t) \/ Accept(t) \/ Stop(t)
             \/ Interrupt(t) \/ Relay(t)
      PROVE  UNCHANGED sent
  BY <1>1 DEF Inject, Prompt, Accept, Stop, Interrupt, Relay, Emit, resident
<1>2. Start \/ Observe \/ Commit \/ Again \/ Crash => sent \subseteq sent'
  BY DEF Start, Observe, Commit, Again, Crash, Feed
<1>3. UNCHANGED vars => UNCHANGED sent
  BY DEF vars, resident
<1> QED
  BY <1>1, <1>2, <1>3 DEF Next

LEMMA RowSoundGrows ==
    ASSUME NEW d, NEW row, NEW S, NEW S2, S \subseteq S2, RowSound(d, row, S)
    PROVE  RowSound(d, row, S2)
  BY DEF RowSound

\* Core's rows stay sound.
LEMMA CoreStep ==
    ASSUME IInv, IInv', CoreSound, [SeamNext]_seamVars
    PROVE  CoreSound'
<1>1. sent \subseteq sent'
  BY SeamStep, SentGrows
<1>2. \A d \in Deliveries : RowSound(d, core[d], sent')
  BY <1>1, RowSoundGrows DEF CoreSound
<1>3. CASE EmitterStep
  <2> DEFINE new(d) ==
               ReducedAll(core[d], {r \in memory'.emitted \ memory.emitted :
                                      r.delivery = d})
  <2>1. core' = [d \in Deliveries |-> new(d)]
    BY <1>3 DEF EmitterStep
  <2>2. memory'.emitted \subseteq sent' /\ Len(bus) \in Nat
    BY ResidentFacts DEF IInv, SentSound
  <2>3. ASSUME NEW d \in Deliveries PROVE RowSound(d, new(d), sent')
    <3> DEFINE R == {r \in memory'.emitted \ memory.emitted : r.delivery = d}
    <3>1. R \in SUBSET sent' /\ \A r \in R : r.delivery = d
      BY <2>2
    <3>2. new(d) = ReducedAll(core[d], R)
      OBVIOUS
    <3> HIDE DEF R, new
    <3> QED
      BY <1>2, <2>2, <3>1, <3>2, ReducedAllSound
  <2> HIDE DEF new
  <2> QED
    BY <2>1, <2>3 DEF CoreSound
<1>4. ASSUME NEW d \in Deliveries, SubmitAck(d) PROVE CoreSound'
  <2>1. core' = [core EXCEPT ![d].state = "transport-submitted"]
    BY <1>4 DEF SubmitAck
  <2>2. PICK x, c : core[d] = [state |-> x, chain |-> c]
    BY DEF CoreSound, RowSound
  <2>3. /\ core' = [e \in Deliveries |-> core'[e]]
        /\ \A e \in Deliveries : e # d => core'[e] = core[e]
        /\ core'[d] = [core[d] EXCEPT !.state = "transport-submitted"]
    BY <2>1 DEF CoreSound
  <2>4. core'[d] = [state |-> "transport-submitted", chain |-> c]
    BY <2>2, <2>3
  <2>5. /\ core'[d].state = "transport-submitted"
        /\ core'[d] = [state |-> core'[d].state, chain |-> core'[d].chain]
    BY <2>4
  <2>6. RowSound(d, core'[d], sent')
    BY <2>5 DEF RowSound
  <2> QED
    BY <1>2, <2>3, <2>6 DEF CoreSound
<1>5. CASE UNCHANGED seamVars
  <2>1. core' = core
    BY <1>5 DEF seamVars
  <2> QED
    BY <1>2, <2>1 DEF CoreSound
<1> QED
  BY <1>3, <1>4, <1>5 DEF SeamNext

\* Neither stage stands in for or jumps over the other: a delivery is in its
\* session on account of an accepted prompt with a valid proof, and processed
\* on account of a completed turn with one, whose proof extends the very
\* chain that brought the delivery into its session (receipt_emitter.py:34,
\* receipts.py:312-335).
THEOREM StagesShareChain == SeamSpec => []CoreSound
<1>1. SeamInit => CoreSound
  <2> SUFFICES ASSUME SeamInit PROVE CoreSound
    OBVIOUS
  <2> DEFINE row == [state |-> "dispatching", chain |-> <<>>]
  <2>1. core = [d \in Deliveries |-> row]
    BY DEF SeamInit
  <2>2. /\ row.state = "dispatching"
        /\ row = [state |-> row.state, chain |-> row.chain]
    OBVIOUS
  <2> HIDE DEF row
  <2>3. \A d : RowSound(d, row, sent)
    BY <2>2 DEF RowSound
  <2> QED
    BY <2>1, <2>3 DEF CoreSound
<1> QED
  BY <1>1, CoreStep, SeamImplementsEmitter, Inductive, PTL DEF SeamSpec

\* The turn of the hook that ends the chain of an accepted prompt quotes what
\* the prompt of the chain quotes, and was accepted.
LEMMA ChainTurn ==
    ASSUME IInv, NEW w, NEW x, NEW d, NEW c, ChainSound(bus, w, x, d, c)
    PROVE  LET t == TurnAt(bus, c[3])
           IN  /\ t \in Turns /\ Signature(t) = c[2].signature
               /\ stage[t] \in {"running", "stopped", "interrupted"}
               /\ TurnAt(bus, c[2]) \in Turns
               /\ Signature(TurnAt(bus, c[2])) = c[2].signature
               /\ c[2].seq \in DOMAIN bus
               /\ bus[c[2].seq].name = PromptSubmitted
<1> DEFINE t == TurnAt(bus, c[3])
           u == TurnAt(bus, c[2])
<1>1. BusSound(bus) /\ StagesSound(bus, stage) /\ bus \in Seq(EventSet)
  BY DEF IInv, BusInv, BusSound
<1>2. /\ c[2].seq \in DOMAIN bus /\ bus[c[2].seq].name = PromptSubmitted
      /\ c[3].seq \in DOMAIN bus /\ bus[c[3].seq].name = UserPromptSubmit
      /\ bus[c[3].seq].phase = "completed"
      /\ bus[c[2].seq].marker # None
      /\ SameQuote(u, t)
  BY DEF ChainSound, RefersTo, TurnAt
<1>3. t \in Turns /\ u \in Turns
  <2>1. bus[c[3].seq] \in EventSet /\ bus[c[2].seq] \in EventSet
    BY <1>1, <1>2
  <2> QED
    BY <2>1 DEF EventSet, TurnAt
<1>4. Turn[u].marker # None /\ c[2].signature = Turn[u].marker.signature
  <2>1. Turn[u].marker # None
    BY <1>1, <1>2 DEF BusSound, TurnAt
  <2> QED
    BY <2>1, <1>1, ChainQuotes DEF TurnAt
<1>5. Signature(t) = c[2].signature /\ Signature(u) = c[2].signature
  BY <1>2, <1>4 DEF SameQuote, Signature
<1>6. stage[t] \in {"running", "stopped", "interrupted"}
  BY <1>1, <1>2 DEF StagesSound, TurnAt
<1> QED
  BY <1>2, <1>3, <1>5, <1>6

\* Core is never told of a turn that did not happen: whatever is quoted,
\* relayed, repeated, interrupted or acknowledged in whatever order, a
\* delivery is in its session only when a turn that quotes its authoritative
\* marker was taken by the harness, and processed only when such a turn is
\* over or the Stop of an earlier turn was relayed after its prompt
\* (receipt_emitter.py:34).
THEOREM CoreCorrect == SeamSpec => []CoreFollowsTurn
<1>1. ASSUME IInv, CoreSound, NEW d \in Deliveries,
             core[d].state = "in-session"
      PROVE  \E t \in Quoting(d) : stage[t] = "running" \/ Over(t)
  <2>1. PICK q \in sent : /\ q.class = "harness.prompt_accepted"
                          /\ q.delivery = d /\ ProofValid(q)
    BY <1>1 DEF CoreSound, RowSound
  <2>2. EntrySound(bus, q) /\ q.proof.marker = Context[d].marker
    BY <1>1, <2>1, SentFacts
  <2>3. q.proof.events[2].signature = Context[d].marker.signature
    BY <2>1, <2>2 DEF ProofValid, SessionProofValid, ChainCorrelated
  <2> QED
    BY <1>1, <2>2, <2>3, ChainTurn DEF EntrySound, Quoting, Over
<1>2. ASSUME IInv, CoreSound, NEW d \in Deliveries,
             core[d].state = "processed"
      PROVE  \E t \in Quoting(d) : Over(t) \/ Preempted(t)
  <2>1. PICK q \in sent : /\ q.class = "harness.turn_completed"
                          /\ q.delivery = d /\ ProofValid(q)
    BY <1>2 DEF CoreSound, RowSound
  <2>2. /\ CompletionSound(bus, stage, Whole, q) /\ q.id \in DOMAIN bus
        /\ q.proof.marker = Context[d].marker
    BY <1>2, <2>1, SentFacts
  <2> DEFINE c == q.proof.events
             n == << c[1], c[2], c[3] >>
             u == TurnAt(bus, n[2])
             t == TurnAt(bus, n[3])
  <2>3. n[2] = c[2] /\ n[3] = c[3]
    OBVIOUS
  <2>4. /\ ChainSound(bus, bus[q.id].workspace, bus[q.id].session, d, n)
        /\ RefersTo(bus, c[4], StopHook, bus[q.id].workspace)
        /\ c[4].seq = q.id
        /\ u # t => Ended(stage, u)
        /\ \/ TurnAt(bus, c[4]) = t
           \/ stage[t] = "interrupted"
           \/ LateOn(bus, n[2].seq, q.id)
           \/ u # t
    BY <2>1, <2>2, <2>3 DEF CompletionSound
  <2>5. n[2].signature = Context[d].marker.signature
    BY <2>1, <2>2, <2>3 DEF ProofValid, SessionProofValid, ChainCorrelated
  <2> HIDE DEF c, n
  <2>6. /\ t \in Quoting(d) /\ u \in Quoting(d)
        /\ stage[t] = "running" \/ Over(t)
        /\ n[2].seq \in DOMAIN bus /\ bus[n[2].seq].name = PromptSubmitted
        /\ bus[n[2].seq].turn = u
    BY <1>2, <2>4, <2>5, ChainTurn DEF Quoting, Over, TurnAt
  <2>7. CASE u # t
    BY <2>4, <2>6, <2>7 DEF Ended, Over
  <2>8. CASE TurnAt(bus, c[4]) = t
    <3>1. bus[q.id].name = StopHook /\ bus[q.id].turn = t
      BY <2>4, <2>8 DEF RefersTo, TurnAt
    <3>2. stage[t] = "stopped"
      BY <1>2, <2>2, <3>1 DEF IInv, BusInv, StagesSound
    <3> QED
      BY <2>6, <3>2 DEF Over
  <2>9. CASE stage[t] = "interrupted"
    BY <2>6, <2>9 DEF Over
  <2>10. CASE u = t /\ LateOn(bus, n[2].seq, q.id)
    <3>1. LateStop(n[2].seq, Len(bus))
      <4>1. PICK i \in DOMAIN bus, j \in DOMAIN bus :
               /\ i < n[2].seq /\ n[2].seq < j
               /\ bus[i].name = StopHook /\ bus[j].name = StopHook
               /\ bus[i].turn = bus[j].turn
               /\ bus[j].workspace = bus[n[2].seq].workspace
        BY <2>10 DEF LateOn
      <4>2. j =< Len(bus)
        <5>1. bus \in Seq(EventSet)
          BY <1>2 DEF IInv, BusInv, BusSound
        <5> QED
          BY <5>1, AppendedBus
      <4> QED
        BY <4>1, <4>2 DEF LateStop
    <3> QED
      BY <2>6, <2>10, <3>1 DEF Preempted
  <2> QED
    BY <2>4, <2>7, <2>8, <2>9, <2>10
<1>3. IInv /\ CoreSound => CoreFollowsTurn
  BY <1>1, <1>2 DEF CoreFollowsTurn
<1> QED
  BY <1>3, StagesShareChain, SeamImplementsEmitter, Inductive, PTL
-----------------------------------------------------------------------------
(***************************************************************************)
(* What the receipts of a turn bring about                                 *)
(***************************************************************************)
Submitted == {"transport-submitted", "in-session", "processed"}

\* The delivery of row was submitted, and its chain is one of X.
Sits(row, X) ==
    /\ row = [state |-> row.state, chain |-> row.chain]
    /\ row.state \in Submitted
    /\ row.state = "in-session" => row.chain \in X

ValidEntry(r) == r.class = "harness.prompt_accepted" /\ ProofValid(r)

\* r completes a turn whichever of the chains X was accepted.
ValidCompletion(r, X) ==
    /\ r.class = "harness.turn_completed" /\ ProofValid(r)
    /\ X \subseteq {ChainBeforeLast(r.proof)}

\* What the receipts R up to event i have done to row.
Entered(row, R, i) ==
    \/ row.state # "transport-submitted"
    \/ \E q \in R : ValidEntry(q) /\ q.source =< i

Finished(row, R, X, i) ==
    \/ row.state = "processed"
    \/ \E r \in R : /\ ValidCompletion(r, X) /\ r.source =< i
                    /\ Entered(row, R, r.source - 1)

\* One receipt.
LEMMA ReducedSits ==
    ASSUME NEW row, NEW X, Sits(row, X), NEW r,
           ValidEntry(r) => r.proof.events \in X
    PROVE  LET new == Reduced(row, r)
           IN  /\ Sits(new, X)
               /\ row.state # "transport-submitted" \/ ValidEntry(r)
                     => new.state # "transport-submitted"
               /\ row.state = "processed" => new.state = "processed"
               /\ row.state # "transport-submitted" /\ ValidCompletion(r, X)
                     => new.state = "processed"
<1>1. PICK x, c : row = [state |-> x, chain |-> c]
  BY DEF Sits
<1>2. /\ row.state = x /\ row.chain = c /\ x \in Submitted
      /\ x = "in-session" => c \in X
  BY <1>1 DEF Sits
<1>3. CASE x = "transport-submitted" /\ ValidEntry(r)
  <2>1. Reduced(row, r) = [state |-> "in-session", chain |-> r.proof.events]
    BY <1>2, <1>3 DEF Reduced, ValidEntry
  <2> QED
    BY <1>2, <1>3, <2>1 DEF Sits, Submitted
<1>4. CASE /\ x = "in-session" /\ r.class = "harness.turn_completed"
           /\ ProofValid(r) /\ c = ChainBeforeLast(r.proof)
  <2>1. Reduced(row, r) = [row EXCEPT !.state = "processed"]
    BY <1>2, <1>4 DEF Reduced
  <2>2. Reduced(row, r) = [state |-> "processed", chain |-> c]
    BY <1>1, <2>1
  <2> QED
    BY <1>2, <1>4, <2>2 DEF Sits, Submitted
<1>5. CASE /\ ~ (x = "transport-submitted" /\ ValidEntry(r))
           /\ ~ (/\ x = "in-session" /\ r.class = "harness.turn_completed"
                 /\ ProofValid(r) /\ c = ChainBeforeLast(r.proof))
  <2>1. Reduced(row, r) = row
    BY <1>2, <1>5 DEF Reduced, ValidEntry
  <2>2. x # "transport-submitted" /\ ValidCompletion(r, X) => x = "processed"
    BY <1>2, <1>5 DEF ValidCompletion, Submitted
  <2> QED
    BY <1>2, <1>5, <2>1, <2>2
<1> QED
  BY <1>3, <1>4, <1>5

\* All receipts of a step, by a least event after which it fails.
LEMMA ReducedAllSits ==
    ASSUME NEW row, NEW X, Sits(row, X), Len(bus) \in Nat, NEW R,
           \A r \in R : r.source \in 1..Len(bus),
           \A r, q \in R : r.source = q.source => r = q,
           \A r \in R : ValidEntry(r) => r.proof.events \in X
    PROVE  LET new == ReducedAll(row, R)
           IN  /\ Sits(new, X)
               /\ Entered(row, R, Len(bus)) =>
                     new.state # "transport-submitted"
               /\ Finished(row, R, X, Len(bus)) => new.state = "processed"
<1> DEFINE Good(z, i) ==
             /\ Sits(z, X)
             /\ Entered(row, R, i) => z.state # "transport-submitted"
             /\ Finished(row, R, X, i) => z.state = "processed"
<1>1. PICK n \in Nat : n = Len(bus)
  OBVIOUS
<1>2. PICK f : IsReduction(f, row, R, n) /\ ReducedAll(row, R) = f[n]
  BY <1>1, ReducedAllIsReduction
<1> SUFFICES ASSUME ~ Good(f[n], n)
             PROVE  FALSE
  BY <1>1, <1>2
<1> DEFINE T == {i \in 0..n : ~ Good(f[i], i)}
<1>3. PICK x \in T : \A y \in T : x =< y
  <2>1. T \subseteq Nat /\ T # {}
    OBVIOUS
  <2> QED
    BY <2>1, LeastNumber
<1>4. x \in 0..n /\ ~ Good(f[x], x)
  BY <1>3
<1>5. f[x] = IF x = 0 THEN row ELSE ReducedAt(f[x - 1], R, x)
  BY <1>2, <1>4 DEF IsReduction
<1>6. \A r \in R : r.source \in 1..n
  BY <1>1
<1>7. x # 0
  <2>1. \A r \in R : ~ r.source =< 0
    BY <1>6
  <2>2. Good(row, 0)
    BY <2>1 DEF Entered, Finished
  <2> QED
    BY <2>2, <1>4, <1>5
<1>8. x - 1 \in 0..n /\ x - 1 \notin T
  BY <1>3, <1>4, <1>7
<1>9. Good(f[x - 1], x - 1)
  BY <1>8
<1>10. \A r \in R : r.source =< x <=> r.source =< x - 1 \/ r.source = x
  BY <1>4, <1>6
<1>11. CASE \E r \in R : r.source = x
  <2> DEFINE q == CHOOSE r \in R : r.source = x
  <2>1. q \in R /\ q.source = x
    BY <1>11
  <2>2. f[x] = Reduced(f[x - 1], q)
    BY <1>5, <1>7, <1>11 DEF ReducedAt
  <2> HIDE DEF q
  <2>3. \A r \in R : r.source = x => r = q
    BY <2>1
  <2>4. /\ Sits(f[x], X)
        /\ f[x - 1].state # "transport-submitted" \/ ValidEntry(q)
              => f[x].state # "transport-submitted"
        /\ f[x - 1].state = "processed" => f[x].state = "processed"
        /\ f[x - 1].state # "transport-submitted" /\ ValidCompletion(q, X)
              => f[x].state = "processed"
    BY <1>9, <2>1, <2>2, ReducedSits
  <2>5. Entered(row, R, x) => Entered(row, R, x - 1) \/ ValidEntry(q)
    BY <1>10, <2>3 DEF Entered
  <2>6. Finished(row, R, X, x) =>
           \/ Finished(row, R, X, x - 1)
           \/ ValidCompletion(q, X) /\ Entered(row, R, x - 1)
    BY <1>10, <2>1, <2>3 DEF Finished
  <2> QED
    BY <1>4, <1>9, <2>4, <2>5, <2>6
<1>12. CASE ~ \E r \in R : r.source = x
  <2>1. f[x] = f[x - 1]
    BY <1>5, <1>7, <1>12 DEF ReducedAt
  <2>2. /\ Entered(row, R, x) => Entered(row, R, x - 1)
        /\ Finished(row, R, X, x) => Finished(row, R, X, x - 1)
    BY <1>10, <1>12 DEF Entered, Finished
  <2> QED
    BY <1>4, <1>9, <2>1, <2>2
<1> QED
  BY <1>11, <1>12
-----------------------------------------------------------------------------
(***************************************************************************)
(* The receipts of an honest turn                                          *)
(***************************************************************************)
\* The first three events of what was sent are those of an accepted prompt.
LEMMA ReceiptChain ==
    ASSUME IInv, NEW r \in Whole.emitted
    PROVE  \E c : /\ ChainSound(bus, bus[r.id].workspace, bus[r.id].session,
                                r.delivery, c)
                  /\ c[2] = r.proof.events[2] /\ c[3] = r.proof.events[3]
<1>1. CASE r.class = "harness.prompt_accepted" /\ EntrySound(bus, r)
  BY <1>1 DEF EntrySound
<1>2. CASE CompletionSound(bus, stage, Whole, r)
  <2> DEFINE c == r.proof.events
             n == << c[1], c[2], c[3] >>
  <2>1. n[2] = c[2] /\ n[3] = c[3]
    OBVIOUS
  <2>2. ChainSound(bus, bus[r.id].workspace, bus[r.id].session, r.delivery, n)
    BY <1>2 DEF CompletionSound
  <2> HIDE DEF n
  <2> QED
    BY <2>1, <2>2
<1> QED
  BY <1>1, <1>2, EmittedFacts

\* The delivery of an honest turn t, and what t quotes.
LEMMA HonestQuotes ==
    ASSUME NEW t \in Turns, Honest(t)
    PROVE  LET d == Turn[t].marker.delivery
           IN  /\ Reportable(t) /\ d \in Deliveries /\ Turn[t].marker # None
               /\ Signature(t) = Context[d].marker.signature
               /\ Turn[t].marker.signature = Context[d].marker.signature
               /\ Turn[t].marker.binding = Context[d].binding
  BY DEF Honest, Authentic, Reportable, Signature

\* A receipt about its delivery that passes is of t's own prompt and hook.
LEMMA HonestReceipt ==
    ASSUME IInv, NEW t \in Turns, Honest(t), NEW r \in Whole.emitted,
           r.delivery = Turn[t].marker.delivery, ProofValid(r)
    PROVE  /\ TurnAt(bus, r.proof.events[2]) = t
           /\ TurnAt(bus, r.proof.events[3]) = t
           /\ stage[t] \in {"running", "stopped", "interrupted"}
<1> DEFINE c == r.proof.events
           d == Turn[t].marker.delivery
           u == TurnAt(bus, c[2])
<1>1. PICK n : /\ ChainSound(bus, bus[r.id].workspace, bus[r.id].session, d, n)
               /\ n[2] = c[2] /\ n[3] = c[3]
  BY ReceiptChain
<1>2. c[2].signature = Signature(t)
  <2>1. r.proof.marker = Context[d].marker
    BY EmittedFacts
  <2>2. c[2].signature = r.proof.marker.signature
    BY DEF ProofValid, SessionProofValid, ChainCorrelated
  <2> QED
    BY <2>1, <2>2, HonestQuotes
<1> HIDE DEF c
<1>3. \A v \in Turns : Signature(v) = Signature(t) /\ stage[v] # "waiting"
                          => v = t
  BY DEF Honest
<1>4. TurnAt(bus, c[3]) = t /\ stage[t] \in {"running", "stopped", "interrupted"}
  BY <1>1, <1>2, <1>3, ChainTurn
<1>5. u = t
  <2>1. /\ BusSound(bus) /\ bus \in Seq(EventSet)
        /\ StagesSound(bus, stage)
    BY DEF IInv, BusInv, BusSound
  <2>2. /\ c[2].seq \in DOMAIN bus /\ bus[c[2].seq].name = PromptSubmitted
        /\ bus[c[2].seq].marker # None
    BY <1>1 DEF ChainSound, RefersTo
  <2>3. u \in Turns
    <3>1. bus[c[2].seq] \in EventSet
      BY <2>1, <2>2
    <3> QED
      BY <3>1 DEF EventSet, TurnAt
  <2>4. Turn[u].marker # None /\ c[2].signature = Turn[u].marker.signature
    <3>1. Turn[u].marker # None
      BY <2>1, <2>2 DEF BusSound, TurnAt
    <3> QED
      BY <3>1, <2>1, <1>1, ChainQuotes DEF TurnAt
  <2>5. stage[u] # "waiting"
    BY <2>1, <2>2 DEF StagesSound, TurnAt
  <2> QED
    BY <2>3, <2>4, <2>5, <1>2, <1>3 DEF Signature
<1> QED
  BY <1>4, <1>5 DEF c

\* An entry that passes is one of t's.
LEMMA HonestEntry ==
    ASSUME IInv, NEW t \in Turns, Honest(t), NEW r \in Whole.emitted,
           r.delivery = Turn[t].marker.delivery, ValidEntry(r)
    PROVE  r \in EntriesOf(bus, Whole, t)
  BY HonestReceipt DEF ValidEntry, EntriesOf

\* A receipt of t's prompt that one of its own events gives rise to passes.
LEMMA HonestPasses ==
    ASSUME IInv, NEW t \in Turns, Honest(t), NEW r \in sent,
           r.delivery = Turn[t].marker.delivery,
           TurnAt(bus, r.proof.events[2]) = t, bus[r.id].turn = t
    PROVE  ProofValid(r)
<1> DEFINE d == Turn[t].marker.delivery
           key == [event |-> Context[d].event, delivery |-> d,
                   attempt |-> Context[d].attempt,
                   binding |-> Context[d].binding]
<1>1. PICK c, e, k : r = Receipt(d, c, e, k) /\ r.observed = r.id
  BY SentFacts
<1>2. /\ r.event = Context[d].event /\ r.attempt = Context[d].attempt
      /\ r.binding = Context[d].binding
  BY <1>1, ReceiptFields
<1>3. MarkerValid(Context[d].marker, key, r.id)
  BY SentFacts DEF Honest
<1>4. MarkerValid(Context[d].marker, r, r.observed)
  BY <1>1, <1>2, <1>3 DEF MarkerValid
<1>5. TurnOf(r, 2) = t
  BY DEF TurnOf, TurnAt
<1> QED
  BY <1>2, <1>4, <1>5, WireIsJudged, HonestQuotes
     DEF WireMarkerIsJudged, ProofValid

\* Chains of t's entries.
Chains(t) == {r.proof.events : r \in EntriesOf(bus, Whole, t)}

\* The entry that a completion of t extends, when both are t's own.
LEMMA HonestCompletion ==
    ASSUME IInv, NEW t \in Turns, NEW r \in Whole.emitted,
           r.delivery = Turn[t].marker.delivery,
           r.class = "harness.turn_completed",
           TurnAt(bus, r.proof.events[2]) = t,
           TurnAt(bus, r.proof.events[3]) = t
    PROVE  \E q \in Whole.emitted :
              /\ q.class = "harness.prompt_accepted"
              /\ q.delivery = r.delivery
              /\ TurnAt(bus, q.proof.events[2]) = t
              /\ bus[q.id].turn = t
              /\ q.proof.events = ChainBeforeLast(r.proof)
              /\ q.source = q.id /\ q.id \in Nat /\ q.id < r.id
<1> DEFINE c == r.proof.events
           n == << c[1], c[2], c[3] >>
           q == Entry(bus, r.delivery, n)
<1>1. /\ c \in RefSet \X RefSet \X RefSet \X RefSet
      /\ ChainSound(bus, bus[r.id].workspace, bus[r.id].session,
                    r.delivery, n)
      /\ q \in Whole.emitted /\ c[3].seq < r.id
  BY EmittedFacts DEF CompletionSound
<1>2. n[2] = c[2] /\ n[3] = c[3]
  OBVIOUS
<1>3. ChainBeforeLast(r.proof) = n
  BY <1>1, BeforeLast
<1> HIDE DEF n, c
<1>4. n[3].seq \in DOMAIN bus /\ bus[n[3].seq].seq = n[3].seq
  <2>1. n[3].seq \in DOMAIN bus
    BY <1>1 DEF ChainSound, RefersTo
  <2> QED
    BY <2>1 DEF IInv, BusInv, BusSound
<1>5. /\ q.id = n[3].seq /\ q.source = n[3].seq /\ q.delivery = r.delivery
      /\ q.class = "harness.prompt_accepted" /\ q.proof.events = n
  BY <1>4, ReceiptFields DEF Entry
<1>6. n[3].seq \in Nat
  BY <1>4, ResidentFacts
<1> HIDE DEF q
<1>7. TurnAt(bus, n[2]) = t /\ TurnAt(bus, n[3]) = t
  BY <1>2 DEF c
<1>8. bus[q.id].turn = t
  BY <1>5, <1>7 DEF TurnAt
<1> QED
  BY <1>1, <1>2, <1>3, <1>5, <1>6, <1>7, <1>8

\* What the whole bus gives rise to is with the resident once its event is
\* in the outbox.
LEMMA SteadyHas ==
    ASSUME IInv, NEW r \in Whole.emitted, r.id =< cursor
    PROVE  r \in steady.emitted
<1>1. CASE cursor = Len(bus)
  BY <1>1, ResidentFacts
<1>2. CASE cursor < Len(bus)
  <2>1. /\ bus[cursor + 1] \in EventSet /\ cursor + 1 \in DOMAIN bus
        /\ Whole = Observed(steady, bus[cursor + 1])
    BY <1>2, ResidentFacts
  <2>2. bus[cursor + 1].seq = cursor + 1
    BY <2>1 DEF IInv, BusInv, BusSound
  <2>3. r \in steady.emitted \/ r.id = cursor + 1
    BY <2>1, <2>2, ResidentFacts, EmittedGrows
  <2> QED
    BY <2>3, ResidentFacts
<1> QED
  BY <1>1, <1>2, ResidentFacts

\* Both receipts of a whole turn, once its events are in the outbox.
LEMMA WholeReceipts ==
    ASSUME ReportIInv, NEW t \in Turns, WholeTurn(t),
           \A i \in DOMAIN bus : bus[i].turn = t => i =< cursor
    PROVE  \E q, r \in steady.emitted :
              /\ q.delivery = Turn[t].marker.delivery /\ ValidEntry(q)
              /\ r.delivery = Turn[t].marker.delivery
              /\ ValidCompletion(r, Chains(t))
              /\ q.source \in Nat /\ r.source \in Nat /\ q.source < r.source
<1> DEFINE d == Turn[t].marker.delivery
<1>1. IInv /\ Honest(t) /\ Reportable(t) /\ Untouched(bus, t)
  BY HonestQuotes DEF ReportIInv, WholeTurn, Undisturbed, Untouched
<1>2. Closed(bus, Whole, t)
  BY <1>1 DEF ReportIInv, ReportInv
<1>3. PICK r \in Whole.emitted :
          LET c == r.proof.events
          IN  /\ r.class = "harness.turn_completed"
              /\ Opens(bus, t, c)
              /\ FirstOf(bus, t, StopHook, c[4])
              /\ \A q \in EntriesOf(bus, Whole, t) :
                    q.proof.events = << c[1], c[2], c[3] >>
  BY <1>2 DEF Closed, OnlyEntry
<1> DEFINE c == r.proof.events
           n == << c[1], c[2], c[3] >>
<1>4. /\ c \in RefSet \X RefSet \X RefSet \X RefSet
      /\ ChainSound(bus, bus[r.id].workspace, bus[r.id].session,
                    r.delivery, n)
      /\ c[4].seq = r.id /\ r.id \in DOMAIN bus
  <2>1. EmittedSound(bus, stage, Whole)
    BY <1>1 DEF IInv, BusInv
  <2>2. r.id \in DOMAIN bus /\ CompletionSound(bus, stage, Whole, r)
    BY <1>3, <2>1 DEF EmittedSound
  <2> QED
    BY <2>2 DEF CompletionSound
<1>5. /\ TurnAt(bus, c[2]) = t /\ TurnAt(bus, c[3]) = t
      /\ bus[r.id].turn = t
  BY <1>3, <1>4 DEF Opens, FirstOf, TurnAt
<1>6. n[2] = c[2]
  OBVIOUS
<1>7. ChainBeforeLast(r.proof) = n
  BY <1>4, BeforeLast
<1> HIDE DEF n, c
<1>8. r.delivery = d
  <2>1. /\ c[2].seq \in DOMAIN bus /\ bus[c[2].seq].name = PromptSubmitted
        /\ bus[c[2].seq].marker.delivery = r.delivery
    BY <1>4, <1>6 DEF ChainSound, RefersTo
  <2>2. bus[c[2].seq].marker = Turn[t].marker
    BY <1>1, <1>5, <2>1 DEF IInv, BusInv, BusSound, TurnAt
  <2> QED
    BY <2>1, <2>2
<1>9. r \in steady.emitted
  BY <1>1, <1>4, <1>5, SteadyHas
<1>10. steady.emitted \subseteq sent
  BY <1>1 DEF IInv, SentSound
<1>11. r.source = r.id /\ r.id \in Nat /\ ProofValid(r)
  BY <1>1, <1>5, <1>8, <1>9, <1>10, SentFacts, HonestPasses DEF c
<1>12. ValidCompletion(r, Chains(t))
  <2>1. Chains(t) \subseteq {n}
    BY <1>3 DEF Chains, n, c
  <2> QED
    BY <2>1, <1>3, <1>7, <1>11 DEF ValidCompletion
<1>13. PICK q \in Whole.emitted :
          /\ q.class = "harness.prompt_accepted"
          /\ q.delivery = d
          /\ TurnAt(bus, q.proof.events[2]) = t
          /\ bus[q.id].turn = t
          /\ q.source = q.id /\ q.id \in Nat /\ q.id < r.id
  BY <1>1, <1>3, <1>5, <1>8, HonestCompletion DEF c
<1>14. q \in steady.emitted
  <2>1. q.id \in DOMAIN bus
    BY <1>1, <1>13 DEF IInv, BusInv, EmittedSound
  <2> QED
    BY <2>1, <1>1, <1>13, SteadyHas
<1>15. ProofValid(q)
  BY <1>1, <1>10, <1>13, <1>14, HonestPasses
<1> QED
  BY <1>8, <1>9, <1>11, <1>12, <1>13, <1>14, <1>15 DEF ValidEntry
-----------------------------------------------------------------------------
(***************************************************************************)
(* What a step of the resident brings about                                *)
(***************************************************************************)
AckSound ==
    /\ DOMAIN acked = Deliveries
    /\ \A d \in Deliveries : acked[d] # None => core[d].state \in Submitted

\* The receipts about d that a step sends.
NewReceipts(d) == {r \in memory'.emitted \ memory.emitted : r.delivery = d}

\* Only the resident has receipts to send.
LEMMA WhoSends == Next => memory' = memory \/ bus' = bus
<1>1. ASSUME NEW t \in Turns,
             \/ Inject(t) \/ Prompt(t) \/ Accept(t) \/ Stop(t)
             \/ Interrupt(t) \/ Relay(t)
      PROVE  memory' = memory
  BY <1>1 DEF Inject, Prompt, Accept, Stop, Interrupt, Relay, Emit, resident
<1>2. Start \/ Observe \/ Commit \/ Again \/ Crash => bus' = bus
  BY DEF Start, Observe, Commit, Again, Crash, host
<1> QED
  BY <1>1, <1>2 DEF Next

\* They come from different events of the bus.
LEMMA NewReceiptsDiffer ==
    ASSUME IInv', Next, NEW d
    PROVE  /\ NewReceipts(d) \subseteq sent'
           /\ \A r \in NewReceipts(d) : r.source \in DOMAIN bus
           /\ \A r, q \in NewReceipts(d) : r.source = q.source => r = q
<1>1. NewReceipts(d) \subseteq sent' /\ sent' \subseteq Whole'.emitted
  BY DEF IInv, SentSound, NewReceipts
<1>2. CASE bus' = bus
  <2>1. ASSUME NEW r \in sent' PROVE r.id \in DOMAIN bus /\ r.source = r.id
    <3>1. \A d1, c1, e1, k1 : /\ Receipt(d1, c1, e1, k1).id = e1.seq
                             /\ Receipt(d1, c1, e1, k1).source = e1.seq
      BY ReceiptFields
    <3>2. /\ r.id \in DOMAIN bus
          /\ r = Receipt(r.delivery, r.proof.events, bus[r.id], r.class)
      BY <1>1, <1>2 DEF IInv, BusInv, EmittedSound
    <3>3. PICK d1, c1, e1, k1 : r = Receipt(d1, c1, e1, k1)
      BY <3>2
    <3> QED
      BY <3>1, <3>2, <3>3
  <2>2. \A r, q \in sent' : r.id = q.id => r = q
    BY <1>1 DEF IInv, BusInv, EmittedSound
  <2> QED
    BY <1>1, <2>1, <2>2
<1>3. CASE memory' = memory
  <2>1. NewReceipts(d) = {}
    BY <1>3 DEF NewReceipts
  <2> QED
    BY <2>1
<1> QED
  BY <1>2, <1>3, WhoSends

\* Core's row of d after the step, when d was submitted.
LEMMA Reducing ==
    ASSUME IInv, IInv', EmitterStep, NEW d \in Deliveries, NEW X,
           Sits(core[d], X),
           \A r \in NewReceipts(d) : ValidEntry(r) => r.proof.events \in X
    PROVE  /\ Sits(core'[d], X)
           /\ Entered(core[d], NewReceipts(d), Len(bus)) =>
                 core'[d].state # "transport-submitted"
           /\ Finished(core[d], NewReceipts(d), X, Len(bus)) =>
                 core'[d].state = "processed"
<1>1. core'[d] = ReducedAll(core[d], NewReceipts(d)) /\ Next
  BY DEF EmitterStep, NewReceipts
<1>2. Len(bus) \in Nat /\ DOMAIN bus = 1..Len(bus)
  BY ResidentFacts
<1>3. /\ \A r \in NewReceipts(d) : r.source \in 1..Len(bus)
      /\ \A r, q \in NewReceipts(d) : r.source = q.source => r = q
  BY <1>1, <1>2, NewReceiptsDiffer
<1> QED
  BY <1>1, <1>2, <1>3, ReducedAllSits

\* A delivery whose submit_ack is with core is not back where it was.
LEMMA AckStep ==
    ASSUME IInv, IInv', CoreSound, AckSound, [SeamNext]_seamVars
    PROVE  AckSound'
<1>0. DOMAIN acked' = Deliveries
  <2>1. EmitterStep \/ UNCHANGED seamVars => acked' = acked
    BY DEF EmitterStep, seamVars
  <2>2. \A d \in Deliveries : SubmitAck(d) => DOMAIN acked' = DOMAIN acked
    BY DEF SubmitAck
  <2> QED
    BY <2>1, <2>2 DEF SeamNext, AckSound
<1> SUFFICES ASSUME NEW d \in Deliveries, acked'[d] # None
             PROVE  core'[d].state \in Submitted
  BY <1>0 DEF AckSound
<1>1. CASE EmitterStep
  <2> DEFINE X == {core[d].chain} \cup
                  {r.proof.events : r \in NewReceipts(d)}
  <2>1. acked[d] # None
    BY <1>1 DEF EmitterStep
  <2>2. core[d] = [state |-> core[d].state, chain |-> core[d].chain]
    BY DEF CoreSound, RowSound
  <2>3. Sits(core[d], X)
    BY <2>1, <2>2 DEF AckSound, Sits
  <2>4. \A r \in NewReceipts(d) : r.proof.events \in X
    OBVIOUS
  <2> HIDE DEF X
  <2> QED
    BY <1>1, <2>3, <2>4, Reducing DEF Sits
<1>2. ASSUME NEW e \in Deliveries, SubmitAck(e)
      PROVE  core'[d].state \in Submitted
  <2>1. /\ core' = [core EXCEPT ![e].state = "transport-submitted"]
        /\ \E v : acked' = [acked EXCEPT ![e] = v]
    BY <1>2 DEF SubmitAck
  <2>2. CASE e = d
    <3>1. PICK x, c : core[d] = [state |-> x, chain |-> c]
      BY DEF CoreSound, RowSound
    <3>2. core'[d] = [core[d] EXCEPT !.state = "transport-submitted"]
      BY <2>1, <2>2 DEF CoreSound
    <3>3. core'[d].state = "transport-submitted"
      BY <3>1, <3>2
    <3> QED
      BY <3>3 DEF Submitted
  <2>3. CASE e # d
    <3>1. core'[d] = core[d]
      BY <2>1, <2>3 DEF CoreSound
    <3>2. acked'[d] = acked[d]
      BY <2>1, <2>3 DEF AckSound
    <3> QED
      BY <3>1, <3>2 DEF AckSound
  <2> QED
    BY <2>2, <2>3
<1>3. CASE UNCHANGED seamVars
  BY <1>3 DEF seamVars, AckSound
<1> QED
  BY <1>1, <1>2, <1>3 DEF SeamNext

LEMMA AcksAreSound == SeamSpec => []AckSound
<1>1. SeamInit => AckSound
  BY DEF SeamInit, AckSound
<1> QED
  BY <1>1, AckStep, StagesShareChain, SeamImplementsEmitter, Inductive, PTL
     DEF SeamSpec

\* Core's row of an honest turn that was submitted is about its own chains.
LEMMA HonestSits ==
    ASSUME IInv, CoreSound, AckSound, NEW t \in Turns, Honest(t),
           acked[Turn[t].marker.delivery] # None
    PROVE  Sits(core[Turn[t].marker.delivery], Chains(t))
<1> DEFINE d == Turn[t].marker.delivery
<1>1. d \in Deliveries
  BY HonestQuotes
<1>2. RowSound(d, core[d], sent) /\ core[d].state \in Submitted
  BY <1>1 DEF CoreSound, AckSound
<1>3. core[d].state = "in-session" => core[d].chain \in Chains(t)
  <2> SUFFICES ASSUME core[d].state = "in-session"
               PROVE  core[d].chain \in Chains(t)
    OBVIOUS
  <2>1. PICK q \in sent : /\ q.class = "harness.prompt_accepted"
                          /\ q.delivery = d /\ ProofValid(q)
                          /\ core[d].chain = q.proof.events
    BY <1>2 DEF RowSound
  <2>2. q \in Whole.emitted
    BY DEF IInv, SentSound
  <2>3. q \in EntriesOf(bus, Whole, t)
    BY <2>1, <2>2, HonestEntry DEF ValidEntry
  <2> QED
    BY <2>1, <2>3 DEF Chains
<1> QED
  BY <1>2, <1>3 DEF RowSound, Sits

\* The replay of a new run carries a whole turn through both stages.
LEMMA StartHeals ==
    ASSUME ReportIInv, IInv', CoreSound, AckSound, EmitterStep, Start,
           NEW t \in Turns, WholeTurn(t),
           \A i \in DOMAIN bus : bus[i].turn = t => i =< cursor,
           acked[Turn[t].marker.delivery] # None
    PROVE  core'[Turn[t].marker.delivery].state = "processed"
<1> DEFINE d == Turn[t].marker.delivery
<1>1. IInv /\ Honest(t) /\ d \in Deliveries
  BY HonestQuotes DEF ReportIInv, WholeTurn
<1>2. Sits(core[d], Chains(t))
  BY <1>1, HonestSits
<1>3. memory' = steady /\ memory.emitted = {}
  <2>1. pc = "down" /\ memory' \in Replay(cursor)
    BY DEF Start
  <2>2. memory = NewMemory /\ Replay(cursor) = {steady}
    BY <1>1, <2>1, ResidentFacts DEF IInv, Remembered
  <2> QED
    BY <2>1, <2>2 DEF NewMemory
<1>4. NewReceipts(d) = {r \in steady.emitted : r.delivery = d}
  BY <1>3 DEF NewReceipts
<1>5. steady.emitted \subseteq Whole.emitted
  BY <1>1, ResidentFacts
<1>6. \A r \in NewReceipts(d) : ValidEntry(r) => r.proof.events \in Chains(t)
  BY <1>1, <1>4, <1>5, HonestEntry DEF Chains
<1>7. PICK q \in steady.emitted, r \in steady.emitted :
          /\ q.delivery = d /\ ValidEntry(q)
          /\ r.delivery = d /\ ValidCompletion(r, Chains(t))
          /\ q.source \in Nat /\ r.source \in Nat /\ q.source < r.source
  BY WholeReceipts
<1>8. q \in NewReceipts(d) /\ r \in NewReceipts(d)
  BY <1>4, <1>7
<1>9. q.source =< r.source - 1 /\ r.source =< Len(bus)
  <2>1. r.source \in DOMAIN bus
    BY <1>8, NewReceiptsDiffer DEF EmitterStep
  <2> QED
    BY <1>1, <1>7, <2>1, ResidentFacts
<1>10. Finished(core[d], NewReceipts(d), Chains(t), Len(bus))
  BY <1>7, <1>8, <1>9 DEF Finished, Entered
<1> QED
  BY <1>1, <1>2, <1>6, <1>10, Reducing

\* A restart heals a submit_ack that was late: whatever was refused before,
\* when a run begins and the events of a whole turn are in the outbox, the
\* replay of recover leaves its delivery processed (receipt_producer.py:
\* 67-71).
THEOREM RestartCorrect == SeamSpec => RestartHeals
<1> DEFINE Heals ==
             pc = "down" /\ pc' = "up" =>
                \A t \in Turns :
                    LET d == Turn[t].marker.delivery
                    IN  /\ WholeTurn(t)
                        /\ \A i \in DOMAIN bus : bus[i].turn = t => i =< cursor
                        /\ acked[d] # None
                        => core'[d].state = "processed"
<1>1. ASSUME ReportIInv, IInv', CoreSound, AckSound, [SeamNext]_seamVars
      PROVE  [Heals]_seamVars
  <2> SUFFICES ASSUME pc = "down", pc' = "up", NEW t \in Turns, WholeTurn(t),
                      \A i \in DOMAIN bus : bus[i].turn = t => i =< cursor,
                      acked[Turn[t].marker.delivery] # None
               PROVE  core'[Turn[t].marker.delivery].state = "processed"
    OBVIOUS
  <2>1. pc' # pc
    OBVIOUS
  <2>2. EmitterStep
    <3>1. ~ UNCHANGED vars
      BY <2>1 DEF vars, resident
    <3> QED
      BY <1>1, <3>1 DEF SeamNext, SubmitAck, seamVars
  <2>3. Start
    <3>1. ASSUME NEW u \in Turns,
                 \/ Inject(u) \/ Prompt(u) \/ Accept(u) \/ Stop(u)
                 \/ Interrupt(u) \/ Relay(u)
          PROVE  FALSE
      BY <2>1, <3>1 DEF Inject, Prompt, Accept, Stop, Interrupt, Relay, Emit,
         resident
    <3>2. ~ (Observe \/ Commit \/ Again \/ Crash)
      BY DEF Observe, Commit, Again, Crash
    <3> QED
      BY <2>2, <3>1, <3>2 DEF EmitterStep, Next
  <2> QED
    BY <1>1, <2>2, <2>3, StartHeals
<1>2. RestartHeals <=> [][Heals]_seamVars
  BY DEF RestartHeals
<1> HIDE DEF Heals
<1> QED
  BY <1>1, <1>2, AcksAreSound, TurnsAreFollowed, StagesShareChain,
     SeamImplementsEmitter, Inductive, PTL DEF SeamSpec
-----------------------------------------------------------------------------
(***************************************************************************)
(* A submit_ack that comes in time                                         *)
(***************************************************************************)
\* What was sent about an honest turn that was submitted before its hook was
\* on the bus has had its effect.
Kept ==
    \A t \in Turns :
        LET d == Turn[t].marker.delivery
        IN  Honest(t) /\ acked[d] = "before" =>
              /\ (\E r \in sent : r.delivery = d /\ ValidEntry(r)) =>
                    core[d].state # "transport-submitted"
              /\ (\E r \in sent : /\ r.delivery = d
                                  /\ ValidCompletion(r, Chains(t))) =>
                    core[d].state = "processed"

\* What becomes of the bus, the stages and the emitted in a step.
LEMMA HistoryGrows ==
    ASSUME IInv, IInv', [Next]_vars
    PROVE  /\ DOMAIN bus \subseteq DOMAIN bus'
           /\ \A i \in DOMAIN bus : bus'[i] = bus[i]
           /\ \A u \in Turns : stage[u] # "waiting" => stage'[u] # "waiting"
           /\ Whole.emitted \subseteq Whole'.emitted
<1>1. CASE \E t \in Turns : Emission(t)
  <2>1. PICK t \in Turns : Emission(t)
    BY <1>1
  <2>2. PICK name, phase :
            /\ Emit(t, name, phase)
            /\ HostEmits(bus, stage, stage', Event(t, name, phase))
    BY <2>1, EmissionEvent
  <2>3. PICK e : e = Event(t, name, phase)
    OBVIOUS
  <2>4. /\ CaughtUp /\ bus' = Append(bus, e)
        /\ cursor' = cursor /\ steady' = steady
    BY <2>2, <2>3 DEF Emit, resident
  <2>5. /\ Whole = steady /\ cursor = Len(bus) /\ Len(bus) \in Nat
        /\ bus \in Seq(EventSet) /\ BusInv(bus, stage, steady)
    BY <2>4, AtRest
  <2>6. e \in EventSet /\ e.turn \in Turns
    BY <2>2, <2>3 DEF HostEmits, EventSet
  <2>7. /\ DOMAIN bus \subseteq DOMAIN bus'
        /\ \A i \in DOMAIN bus : bus'[i] = bus[i]
        /\ Len(bus') = Len(bus) + 1 /\ bus'[Len(bus) + 1] = e
    BY <2>4, <2>5, <2>6, AppendedBus
  <2>8. Whole' = Observed(steady, e)
    BY <2>4, <2>5, <2>7 DEF Whole
  <2>9. Whole.emitted \subseteq Whole'.emitted
    BY <2>5, <2>6, <2>8, EmittedGrows DEF BusInv
  <2>10. /\ \A u \in Turns : u # e.turn => stage'[u] = stage[u]
         /\ stage'[e.turn] # "waiting"
    <3>1. InTurn(stage, e.turn) => stage[e.turn] # "waiting"
      BY DEF InTurn
    <3> QED
      BY <2>2, <2>3, <3>1 DEF HostEmits
  <2> QED
    BY <2>7, <2>9, <2>10
<1>2. CASE \E t \in Turns : Interrupt(t)
  <2>1. PICK t \in Turns : Interrupt(t)
    BY <1>2
  <2>2. /\ stage' = [stage EXCEPT ![t] = "interrupted"]
        /\ bus' = bus /\ cursor' = cursor /\ steady' = steady
    BY <2>1 DEF Interrupt, resident
  <2>3. stage \in [Turns -> Stages]
    BY DEF IInv, BusInv, StagesSound
  <2>4. \A u \in Turns : stage'[u] = IF u = t THEN "interrupted" ELSE stage[u]
    BY <2>2, <2>3
  <2>5. Whole' = Whole
    BY <2>2 DEF Whole
  <2> QED
    BY <2>2, <2>4, <2>5
<1>3. CASE Start \/ Observe \/ Commit \/ Again \/ Crash \/ UNCHANGED vars
  BY <1>3, ResidentKeepsWhole
<1> QED
  BY <1>1, <1>2, <1>3 DEF Next, Emission

\* An honest turn was honest, and its entries stay.
LEMMA HonestBefore ==
    ASSUME IInv, IInv', [Next]_vars, NEW t \in Turns, Honest(t)'
    PROVE  Honest(t) /\ Chains(t) \subseteq Chains(t)'
<1>1. Honest(t)
  BY HistoryGrows DEF Honest, Authentic, MarkerValid
<1>2. ASSUME NEW r \in EntriesOf(bus, Whole, t)
      PROVE  r \in EntriesOf(bus', Whole', t)
  <2>1. r \in Whole.emitted /\ r.class = "harness.prompt_accepted"
    BY DEF EntriesOf
  <2>2. EntrySound(bus, r)
    BY <2>1, EmittedFacts
  <2>3. r.proof.events[2].seq \in DOMAIN bus
    BY <2>2 DEF EntrySound, ChainSound, RefersTo
  <2>4. TurnAt(bus', r.proof.events[2]) = TurnAt(bus, r.proof.events[2])
    BY <2>3, HistoryGrows DEF TurnAt
  <2> QED
    BY <2>1, <2>4, HistoryGrows DEF EntriesOf
<1> QED
  BY <1>1, <1>2 DEF Chains

\* What a step sends is what it emits.
LEMMA SentOrNew ==
    ASSUME IInv, IInv', Next, NEW r \in sent', r \notin sent
    PROVE  /\ r \in NewReceipts(r.delivery)
           /\ r \in Whole.emitted /\ cursor < r.id
<1>1. /\ sent' = sent \cup memory'.emitted
      /\ Start \/ Observe \/ Again
  <2>1. ASSUME NEW t \in Turns,
               \/ Inject(t) \/ Prompt(t) \/ Accept(t) \/ Stop(t)
               \/ Interrupt(t) \/ Relay(t)
        PROVE  UNCHANGED sent
    BY <2>1 DEF Inject, Prompt, Accept, Stop, Interrupt, Relay, Emit, resident
  <2>2. Commit \/ Crash => UNCHANGED sent
    BY DEF Commit, Crash
  <2>3. Start \/ Observe \/ Again => sent' = sent \cup memory'.emitted
    BY DEF Start, Observe, Again, Feed
  <2> QED
    BY <2>1, <2>2, <2>3 DEF Next
<1>2. memory.emitted \subseteq sent /\ steady.emitted \subseteq sent
  BY DEF IInv, SentSound
<1>3. r \in NewReceipts(r.delivery)
  BY <1>1, <1>2 DEF NewReceipts
<1>4. Whole' = Whole /\ sent' \subseteq Whole'.emitted
  BY <1>1, ResidentKeepsWhole DEF IInv, SentSound
<1>5. r.id \in Nat
  BY <1>4, EmittedFacts
<1>6. ~ r.id =< cursor
  BY <1>2, <1>4, SteadyHas
<1> QED
  BY <1>3, <1>4, <1>5, <1>6, ResidentFacts

\* A step of the host or the resident has what it sends take effect.
LEMMA EmitterKeeps ==
    ASSUME IInv, IInv', CoreSound, AckSound, Kept, EmitterStep,
           NEW t \in Turns, Honest(t)',
           acked'[Turn[t].marker.delivery] = "before"
    PROVE  LET d == Turn[t].marker.delivery
           IN  /\ (\E r \in sent' : r.delivery = d /\ ValidEntry(r)) =>
                     core'[d].state # "transport-submitted"
               /\ (\E r \in sent' : /\ r.delivery = d
                                    /\ ValidCompletion(r, Chains(t)')) =>
                     core'[d].state = "processed"
<1> DEFINE d == Turn[t].marker.delivery
           R == NewReceipts(d)
<1>1. /\ Next /\ [Next]_vars /\ acked[d] = "before" /\ acked[d] # None
  BY AckAssumption DEF EmitterStep
<1>2. Honest(t) /\ Chains(t) \subseteq Chains(t)' /\ d \in Deliveries
  BY <1>1, HonestBefore, HonestQuotes
<1>3. Sits(core[d], Chains(t))
  BY <1>1, <1>2, HonestSits
<1>4. /\ (\E r \in sent : r.delivery = d /\ ValidEntry(r)) =>
            core[d].state # "transport-submitted"
      /\ (\E r \in sent : r.delivery = d /\ ValidCompletion(r, Chains(t))) =>
            core[d].state = "processed"
  BY <1>1, <1>2 DEF Kept
<1>5. sent \subseteq Whole.emitted /\ steady.emitted \subseteq sent
  BY DEF IInv, SentSound
<1>6. /\ R \subseteq sent' /\ \A r \in R : r.delivery = d
      /\ \A r \in R : r.source \in DOMAIN bus
  BY <1>1, NewReceiptsDiffer DEF NewReceipts
<1>7. \A r \in R : ValidEntry(r) => r.proof.events \in Chains(t)
  <2>1. R \subseteq Whole.emitted
    BY <1>1, <1>5, <1>6, SentOrNew
  <2> QED
    BY <2>1, <1>2, <1>6, HonestEntry DEF Chains
<1>8. /\ Entered(core[d], R, Len(bus)) =>
            core'[d].state # "transport-submitted"
      /\ Finished(core[d], R, Chains(t), Len(bus)) => core'[d].state = "processed"
  BY <1>2, <1>3, <1>7, Reducing
<1>9. /\ Len(bus) \in Nat /\ DOMAIN bus = 1..Len(bus) /\ cursor \in Nat
      /\ Len(bus) =< cursor + 1
  BY ResidentFacts
<1> HIDE DEF R
<1>10. ASSUME NEW r \in sent', r.delivery = d, ValidEntry(r)
       PROVE  Entered(core[d], R, Len(bus))
  <2>1. CASE r \in sent
    BY <1>4, <1>10, <2>1 DEF Entered
  <2>2. CASE r \notin sent
    <3>1. r \in R
      BY <1>1, <1>10, <2>2, SentOrNew DEF R
    <3>2. r.source =< Len(bus)
      BY <3>1, <1>6, <1>9
    <3> QED
      BY <1>10, <3>1, <3>2 DEF Entered
  <2> QED
    BY <2>1, <2>2
<1>11. ASSUME NEW r \in sent', r.delivery = d, ValidCompletion(r, Chains(t)')
       PROVE  Finished(core[d], R, Chains(t), Len(bus))
  <2>1. ValidCompletion(r, Chains(t))
    BY <1>2, <1>11 DEF ValidCompletion
  <2>2. CASE r \in sent
    BY <1>4, <1>11, <2>1, <2>2 DEF Finished
  <2>3. CASE r \notin sent
    <3>1. r \in R /\ r \in Whole.emitted /\ cursor < r.id
      BY <1>1, <1>11, <2>3, SentOrNew DEF R
    <3>2. /\ r.class = "harness.turn_completed" /\ ProofValid(r)
          /\ r.id \in DOMAIN bus /\ r.source = r.id
      BY <2>1, <3>1, EmittedFacts DEF ValidCompletion
    <3>3. /\ TurnAt(bus, r.proof.events[2]) = t
          /\ TurnAt(bus, r.proof.events[3]) = t
      BY <1>2, <1>11, <3>1, <3>2, HonestReceipt
    <3>4. PICK q \in Whole.emitted :
              /\ q.class = "harness.prompt_accepted"
              /\ q.delivery = r.delivery
              /\ TurnAt(bus, q.proof.events[2]) = t
              /\ bus[q.id].turn = t
              /\ q.id \in Nat /\ q.id < r.id
      BY <1>11, <3>1, <3>2, <3>3, HonestCompletion
    <3>5. q \in sent
      <4>1. q.id =< cursor
        BY <3>2, <3>4, <1>9
      <4> QED
        BY <4>1, <1>5, SteadyHas
    <3>6. ValidEntry(q)
      BY <1>2, <1>11, <3>4, <3>5, HonestPasses DEF ValidEntry
    <3>7. core[d].state # "transport-submitted"
      BY <1>4, <1>11, <3>4, <3>5, <3>6
    <3>8. r.source =< Len(bus)
      BY <3>2, <1>9
    <3> QED
      BY <2>1, <3>1, <3>7, <3>8 DEF Finished, Entered
  <2> QED
    BY <2>2, <2>3
<1> QED
  BY <1>8, <1>10, <1>11

\* A submit_ack before the hook finds nothing that it would be too late for.
LEMMA AckKeeps ==
    ASSUME IInv, CoreSound, AckSound, Kept, NEW e \in Deliveries, SubmitAck(e)
    PROVE  Kept'
<1>1. /\ UNCHANGED vars
      /\ core' = [core EXCEPT ![e].state = "transport-submitted"]
      /\ \E u \in Turns :
            /\ Authentic(u) /\ Turn[u].marker.delivery = e
            /\ stage[u] \notin {"waiting", "injected"}
            /\ acked' = [acked EXCEPT ![e] =
                  IF stage[u] = "prompted" THEN "before" ELSE "after"]
  BY DEF SubmitAck
<1>2. /\ bus' = bus /\ stage' = stage /\ sent' = sent
      /\ cursor' = cursor /\ steady' = steady
  BY <1>1 DEF vars, host, resident
<1>3. Whole' = Whole
  BY <1>2 DEF Whole
<1> SUFFICES ASSUME NEW t \in Turns, Honest(t)',
                    acked'[Turn[t].marker.delivery] = "before"
             PROVE  LET d == Turn[t].marker.delivery
                    IN  /\ (\E r \in sent' : r.delivery = d /\ ValidEntry(r)) =>
                              core'[d].state # "transport-submitted"
                        /\ (\E r \in sent' :
                              /\ r.delivery = d
                              /\ ValidCompletion(r, Chains(t)')) =>
                              core'[d].state = "processed"
  BY DEF Kept
<1> DEFINE d == Turn[t].marker.delivery
<1>4. Honest(t)
  BY <1>2 DEF Honest, Authentic, MarkerValid
<1>5. Chains(t)' = Chains(t)
  BY <1>2, <1>3 DEF Chains, EntriesOf, TurnAt
<1>6. d \in Deliveries /\ Signature(t) = Context[d].marker.signature
  BY <1>4, HonestQuotes
<1>7. CASE e = d
  <2>1. PICK u \in Turns :
            /\ Authentic(u) /\ Turn[u].marker.delivery = d
            /\ stage[u] \notin {"waiting", "injected"}
            /\ acked' = [acked EXCEPT ![d] =
                  IF stage[u] = "prompted" THEN "before" ELSE "after"]
    BY <1>1, <1>7
  <2>2. acked'[d] = IF stage[u] = "prompted" THEN "before" ELSE "after"
    BY <2>1, <1>6 DEF AckSound
  <2>3. stage[u] = "prompted"
    BY <2>2
  <2>4. Signature(u) = Signature(t)
    BY <2>1, <1>6 DEF Authentic, Reportable, Signature
  <2>5. u = t
    BY <2>1, <2>4, <1>4 DEF Honest
  <2>6. sent \subseteq Whole.emitted
    BY DEF IInv, SentSound
  <2>7. ~ \E r \in sent : r.delivery = d /\ ProofValid(r)
    BY <2>3, <2>5, <2>6, <1>4, HonestReceipt
  <2> QED
    BY <2>7, <1>2 DEF ValidEntry, ValidCompletion
<1>8. CASE e # d
  <2>1. core'[d] = core[d] /\ acked'[d] = acked[d]
    BY <1>1, <1>6, <1>8 DEF CoreSound, AckSound
  <2>2. /\ (\E r \in sent : r.delivery = d /\ ValidEntry(r)) =>
              core[d].state # "transport-submitted"
        /\ (\E r \in sent : /\ r.delivery = d
                            /\ ValidCompletion(r, Chains(t))) =>
              core[d].state = "processed"
    BY <2>1, <1>4 DEF Kept
  <2> QED
    BY <2>1, <2>2, <1>2, <1>5
<1> QED
  BY <1>7, <1>8

\* The effect of what was sent lasts.
LEMMA KeptStep ==
    ASSUME IInv, IInv', CoreSound, AckSound, Kept, [SeamNext]_seamVars
    PROVE  Kept'
<1>1. CASE EmitterStep
  BY <1>1, EmitterKeeps DEF Kept
<1>2. CASE \E e \in Deliveries : SubmitAck(e)
  BY <1>2, AckKeeps
<1>3. CASE UNCHANGED seamVars
  <2>1. /\ bus' = bus /\ stage' = stage /\ sent' = sent /\ core' = core
        /\ cursor' = cursor /\ steady' = steady /\ acked' = acked
    BY <1>3 DEF seamVars, vars, host, resident
  <2>2. Whole' = Whole
    BY <2>1 DEF Whole
  <2>3. ASSUME NEW t \in Turns
        PROVE  (Honest(t)' => Honest(t)) /\ Chains(t)' = Chains(t)
    <3>1. Honest(t)' => Honest(t)
      BY <2>1 DEF Honest, Authentic, MarkerValid
    <3>2. Chains(t)' = Chains(t)
      BY <2>1, <2>2 DEF Chains, EntriesOf, TurnAt
    <3> QED
      BY <3>1, <3>2
  <2> QED
    BY <2>1, <2>3 DEF Kept
<1> QED
  BY <1>1, <1>2, <1>3 DEF SeamNext

\* A whole turn whose submit_ack reached core before its hook was on the bus
\* is processed as soon as its events are in the outbox, whatever happened to
\* the resident meanwhile (receipt_producer.py:67-71, receipt_emitter.py:34).
\* TurnIsProcessed follows from it and from the resident's progress.
THEOREM TurnCorrect ==
    SeamSpec => [](cursor = Len(bus) => WholeTurnsAreProcessed)
<1>1. SeamInit => Kept
  BY DEF SeamInit, Init, Kept
<1>2. SeamSpec => []Kept
  BY <1>1, KeptStep, AcksAreSound, StagesShareChain, SeamImplementsEmitter,
     Inductive, PTL DEF SeamSpec
<1>3. ReportIInv /\ Kept => (cursor = Len(bus) => WholeTurnsAreProcessed)
  <2> SUFFICES ASSUME ReportIInv, Kept, cursor = Len(bus), NEW t \in Turns,
                      WholeTurn(t), acked[Turn[t].marker.delivery] = "before"
               PROVE  core[Turn[t].marker.delivery].state = "processed"
    BY DEF WholeTurnsAreProcessed
  <2>1. IInv /\ Honest(t)
    BY DEF ReportIInv, WholeTurn
  <2>2. \A i \in DOMAIN bus : bus[i].turn = t => i =< cursor
    BY <2>1, ResidentFacts
  <2>3. PICK q \in steady.emitted, r \in steady.emitted :
            /\ r.delivery = Turn[t].marker.delivery
            /\ ValidCompletion(r, Chains(t))
    BY <2>2, WholeReceipts
  <2>4. r \in sent
    BY <2>1 DEF IInv, SentSound
  <2> QED
    BY <2>1, <2>3, <2>4 DEF Kept
<1> QED
  BY <1>2, <1>3, TurnsAreFollowed, SeamImplementsEmitter, PTL
=============================================================================
