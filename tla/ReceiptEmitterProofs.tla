------------------------ MODULE ReceiptEmitterProofs ------------------------
(***************************************************************************)
(* Proofs about ReceiptEmitter.                                            *)
(*                                                                         *)
(* A producer that observes an event twice in a row is where it was after  *)
(* the first time (ObservedTwice), so that whatever crashes and repeats,   *)
(* its memory is that of a producer that saw every event of the bus once.  *)
(* Whole is that memory.  Only the host's steps change it, and the         *)
(* invariants about it, BusInv, are about the bus alone.                   *)
(***************************************************************************)
EXTENDS ReceiptEmitter, TLAPS, SequenceTheorems, WellFoundedInduction

Names == {InputSent, PromptSubmitted, UserPromptSubmit, StopHook}

Markers == {Turn[t].marker : t \in Turns} \cup {None}

Stages == {"waiting", "injected", "prompted", "running", "stopped",
           "interrupted"}

EventSet ==
    [name : Names, seq : Nat, workspace : Workspaces,
     session : Sessions \cup {None}, marker : Markers,
     phase : {"completed", "received"}, turn : Turns]

Signatures == {IF m = None THEN None ELSE m.signature : m \in Markers}

RefSet == {Ref(e) : e \in EventSet}

ChainSet == [signature : Signatures, accepted : SUBSET (Names \X Signatures)]

PendingSet ==
    [input : RefSet \cup {None}, prompt : RefSet \cup {None}, marker : Markers]

ActiveSet == [delivery : Deliveries, events : RefSet \X RefSet \X RefSet]

Classes == {"harness.prompt_accepted", "harness.turn_completed"}

ReceiptSet ==
    {Receipt(d, s, e, c) : d \in Deliveries, s \in Seq(RefSet),
                           e \in EventSet, c \in Classes}

Memories ==
    [chains : [Workspaces -> ChainSet],
     pending : [Workspaces -> PendingSet],
     active : [Workspaces \X Sessions -> ActiveSet \cup {None}],
     emitted : SUBSET ReceiptSet]
-----------------------------------------------------------------------------
(***************************************************************************)
(* Invariants of a bus b, the stages s of the turns and the memory m of a  *)
(* producer that has seen every event of b once                            *)
(***************************************************************************)
\* What an event says of its turn.
BusSound(b) ==
    /\ b \in Seq(EventSet)
    /\ \A i \in DOMAIN b :
          /\ b[i].seq = i
          /\ b[i].workspace = Turn[b[i].turn].workspace
          /\ b[i].session = IF b[i].name \in Hooks
                            THEN Turn[b[i].turn].session ELSE None
          /\ b[i].marker = IF b[i].name = PromptSubmitted
                           THEN Turn[b[i].turn].marker ELSE None

InTurn(s, t) == s[t] \in {"prompted", "running"}

\* Turn t is over.
Ended(s, t) == s[t] \in {"stopped", "interrupted"}

\* A Stop of turn u is on the bus before event p.
StoppedBefore(b, u, p) ==
    \E i \in DOMAIN b : i < p /\ b[i].name = StopHook /\ b[i].turn = u

\* A turn that stopped has its Stop on the bus, before any prompt of a turn
\* of its workspace that is in progress.
StopsPrecede(b, s) ==
    /\ \A u \in Turns : s[u] = "stopped" => StoppedBefore(b, u, Len(b) + 1)
    /\ \A p \in DOMAIN b, u \in Turns :
          /\ b[p].name = PromptSubmitted /\ InTurn(s, b[p].turn)
          /\ s[u] = "stopped" /\ Turn[u].workspace = b[p].workspace
          => StoppedBefore(b, u, p)

StagesSound(b, s) ==
    /\ s \in [Turns -> Stages]
    /\ \A t, u \in Turns :
          /\ InTurn(s, t) /\ InTurn(s, u)
          /\ Turn[t].workspace = Turn[u].workspace
          => t = u
    /\ \A i \in DOMAIN b :
          /\ b[i].name = UserPromptSubmit /\ b[i].phase = "completed" =>
                s[b[i].turn] \in {"running", "stopped", "interrupted"}
          /\ b[i].name = StopHook => s[b[i].turn] = "stopped"
          /\ b[i].name = PromptSubmitted =>
                s[b[i].turn] \notin {"waiting", "injected"}
    /\ StopsPrecede(b, s)

\* LateStop of bus b.
LateOn(b, p, q) ==
    \E i, j \in DOMAIN b :
        /\ i < p /\ p < j /\ j =< q
        /\ b[i].name = StopHook /\ b[j].name = StopHook
        /\ b[i].turn = b[j].turn
        /\ b[j].workspace = b[p].workspace

\* ref is the reference to an event of b with this name and workspace.
RefersTo(b, ref, name, w) ==
    /\ ref.seq \in DOMAIN b
    /\ ref = Ref(b[ref.seq])
    /\ b[ref.seq].name = name
    /\ b[ref.seq].workspace = w

PendingSound(b, m) ==
    \A w \in Workspaces :
        LET p == m.pending[w]
        IN  /\ p.input # None => RefersTo(b, p.input, InputSent, w)
            /\ p.prompt # None =>
                  /\ RefersTo(b, p.prompt, PromptSubmitted, w)
                  /\ p.marker = b[p.prompt.seq].marker
            /\ p.input # None /\ p.prompt # None =>
                  p.input.seq < p.prompt.seq

\* A pending chain that an accepted hook would report.
Marked(p) == p.prompt # None /\ p.marker # None

\* Signatures that a workspace's chain has seen, and those of the pending
\* chain and the running turn.
ChainsSound(s, m) ==
    /\ \A w \in Workspaces :
          /\ \A x \in m.chains[w].accepted :
                x[2] \in {None, m.chains[w].signature}
          /\ m.chains[w].signature # None =>
                << PromptSubmitted, m.chains[w].signature >>
                   \in m.chains[w].accepted
          /\ Marked(m.pending[w]) =>
                m.pending[w].marker.signature = m.chains[w].signature
    /\ \A t \in Turns :
          InTurn(s, t) =>
              m.chains[Turn[t].workspace].signature \in {None, Signature(t)}

\* The events of an accepted prompt of workspace w and session x, which
\* quotes delivery d.
ChainSound(b, w, x, d, events) ==
    /\ RefersTo(b, events[1], InputSent, w)
    /\ RefersTo(b, events[2], PromptSubmitted, w)
    /\ RefersTo(b, events[3], UserPromptSubmit, w)
    /\ b[events[3].seq].phase = "completed"
    /\ events[1].seq < events[2].seq
    /\ events[2].seq < events[3].seq
    /\ events[3].session = x
    /\ b[events[2].seq].marker # None
    /\ b[events[2].seq].marker.delivery = d
    /\ SameQuote(b[events[2].seq].turn, b[events[3].seq].turn)

Entry(b, d, events) ==
    Receipt(d, events, b[events[3].seq], "harness.prompt_accepted")

TurnAt(b, ref) == b[ref.seq].turn

ActiveSound(b, s, m) ==
    \A w \in Workspaces, x \in Sessions :
        LET a == m.active[<< w, x >>]
        IN  a # None =>
              /\ ChainSound(b, w, x, a.delivery, a.events)
              /\ Entry(b, a.delivery, a.events) \in m.emitted
              /\ TurnAt(b, a.events[2]) # TurnAt(b, a.events[3]) =>
                    Ended(s, TurnAt(b, a.events[2]))
              /\ TurnAt(b, a.events[2]) = TurnAt(b, a.events[3]) =>
                    \/ s[TurnAt(b, a.events[3])] \in {"running", "interrupted"}
                    \/ LateOn(b, a.events[2].seq, Len(b))

\* The prompts of turn t in the chains that its Stop would close.
OpenPrompts(b, m, t) ==
    LET p == m.pending[Turn[t].workspace]
        a == m.active[<< Turn[t].workspace, Turn[t].session >>]
    IN  (IF Marked(p) /\ TurnAt(b, p.prompt) = t THEN {p.prompt} ELSE {})
        \cup
        (IF /\ Turn[t].session # None /\ a # None
            /\ TurnAt(b, a.events[2]) = t /\ TurnAt(b, a.events[3]) = t
         THEN {a.events[2]} ELSE {})

\* The Stop of the running turn will not be taken for a relay when it is to
\* close a chain of that turn, unless a late Stop came first.
StopAwaited(b, s, m) ==
    \A t \in Turns : \A ref \in OpenPrompts(b, m, t) :
        LET h == m.chains[Turn[t].workspace]
        IN  InTurn(s, t) =>
                \/ << StopHook, h.signature >> \notin h.accepted
                \/ LateOn(b, ref.seq, Len(b))

EntrySound(b, r) ==
    /\ ChainSound(b, b[r.id].workspace, b[r.id].session, r.delivery,
                  r.proof.events)
    /\ r.proof.events \in RefSet \X RefSet \X RefSet
    /\ r.proof.events[3].seq = r.id

CompletionSound(b, s, m, r) ==
    LET events == r.proof.events
        entry  == << events[1], events[2], events[3] >>
    IN  /\ events \in RefSet \X RefSet \X RefSet \X RefSet
        /\ ChainSound(b, b[r.id].workspace, b[r.id].session, r.delivery, entry)
        /\ Entry(b, r.delivery, entry) \in m.emitted
        /\ RefersTo(b, events[4], StopHook, b[r.id].workspace)
        /\ events[4].seq = r.id
        /\ events[3].seq < r.id
        /\ TurnAt(b, events[2]) # TurnAt(b, events[3]) =>
              Ended(s, TurnAt(b, events[2]))
        /\ \/ TurnAt(b, events[4]) = TurnAt(b, events[3])
           \/ s[TurnAt(b, events[3])] = "interrupted"
           \/ LateOn(b, events[2].seq, r.id)
           \/ TurnAt(b, events[2]) # TurnAt(b, events[3])

EmittedSound(b, s, m) ==
    /\ \A r \in m.emitted :
          /\ r.id \in DOMAIN b
          /\ r.delivery \in Deliveries
          /\ r = Receipt(r.delivery, r.proof.events, b[r.id], r.class)
          /\ \/ r.class = "harness.prompt_accepted" /\ EntrySound(b, r)
             \/ /\ r.class = "harness.turn_completed"
                /\ CompletionSound(b, s, m, r)
    /\ \A r, q \in m.emitted : r.id = q.id => r = q

BusInv(b, s, m) ==
    /\ m \in Memories
    /\ BusSound(b)
    /\ StagesSound(b, s)
    /\ PendingSound(b, m)
    /\ ChainsSound(s, m)
    /\ ActiveSound(b, s, m)
    /\ StopAwaited(b, s, m)
    /\ EmittedSound(b, s, m)
-----------------------------------------------------------------------------
(***************************************************************************)
(* The inductive invariant                                                 *)
(***************************************************************************)
\* The memory of a producer that has seen the whole bus.
Whole ==
    IF cursor < Len(bus) THEN Observed(steady, bus[cursor + 1]) ELSE steady

Types ==
    /\ relays \in 0..MaxRelays
    /\ faults \in 0..MaxFaults
    /\ pc \in {"down", "up", "commit"}
    /\ cursor \in 0..Len(bus)
    /\ Len(bus) =< cursor + 1
    /\ pc = "commit" => cursor < Len(bus)

Rebuilt ==
    /\ steady \in Memories
    /\ PendingSound(bus, steady)
    /\ Replay(cursor) = {steady}
    /\ cursor > 0 => Observed(steady, bus[cursor]) = steady

Remembered ==
    /\ MemoryIsReplay
    /\ pc = "down" => memory = NewMemory

SentSound ==
    /\ sent \subseteq Whole.emitted
    /\ steady.emitted \subseteq sent
    /\ memory.emitted \subseteq sent

IInv ==
    /\ Types
    /\ Rebuilt
    /\ Remembered
    /\ SentSound
    /\ BusInv(bus, stage, Whole)
-----------------------------------------------------------------------------
(***************************************************************************)
(* What observing one event does                                           *)
(***************************************************************************)
LEMMA NamesDiffer ==
    /\ InputSent # PromptSubmitted /\ InputSent # UserPromptSubmit
    /\ InputSent # StopHook /\ PromptSubmitted # UserPromptSubmit
    /\ PromptSubmitted # StopHook /\ UserPromptSubmit # StopHook
    /\ Hooks = {UserPromptSubmit, StopHook}
  BY DEF InputSent, PromptSubmitted, UserPromptSubmit, StopHook, Hooks

\* The fields of a reference.
LEMMA RefFields ==
    ASSUME NEW e \in EventSet
    PROVE  /\ Ref(e) \in RefSet
           /\ Ref(e).name = e.name /\ Ref(e).seq = e.seq
           /\ Ref(e).id = e.seq /\ Ref(e).boot = "boot"
           /\ Ref(e).instance = "bus" /\ Ref(e).session = e.session
           /\ Ref(e).binding = IF e.marker = None THEN None
                               ELSE e.marker.binding
           /\ Ref(e).signature = IF e.marker = None THEN None
                                 ELSE e.marker.signature
           /\ Ref(e).signature \in Signatures
  BY DEF Ref, RefSet, EventSet, Signatures

\* None is no signature that a prompt quotes.
LEMMA NoneIsASignature ==
    /\ None \in Signatures
    /\ \A k \in Markers : k # None => k.signature # None
  BY TurnAssumption DEF Signatures, Markers

\* A hook in its received phase.
Received(e) == e.name \in Hooks /\ e.phase # "completed"

\* The signature of chain h after event e, and what it keeps of its keys.
NextSignature(h, e) ==
    IF e.name = PromptSubmitted THEN Ref(e).signature ELSE h.signature

KeptKeys(h, e) ==
    IF h.signature \in {None, NextSignature(h, e)} THEN h.accepted ELSE {}

NextKey(h, e) == << e.name, NextSignature(h, e) >>

\* What the collapse of relays makes of a chain.
LEMMA CollapsedFields ==
    ASSUME NEW h \in ChainSet, NEW e \in EventSet
    PROVE  /\ Collapsed(h, e).emit \in BOOLEAN
           /\ Collapsed(h, e).chain \in ChainSet
           /\ Received(e) =>
                 ~ Collapsed(h, e).emit /\ Collapsed(h, e).chain = h
           /\ e.name = InputSent =>
                 Collapsed(h, e).emit /\ Collapsed(h, e).chain = NewChain
           /\ e.name # InputSent /\ ~ Received(e) =>
                 /\ Collapsed(h, e).emit = (NextKey(h, e) \notin KeptKeys(h, e))
                 /\ Collapsed(h, e).chain.signature = NextSignature(h, e)
                 /\ Collapsed(h, e).chain.accepted =
                       KeptKeys(h, e) \cup {NextKey(h, e)}
<1> DEFINE c == Collapsed(h, e)
           g == NextSignature(h, e)
           k == KeptKeys(h, e)
<1>1. g \in Signatures /\ k \in SUBSET (Names \X Signatures)
  BY RefFields DEF ChainSet, NextSignature, KeptKeys
<1>2. e.name \in Names /\ << e.name, g >> \in Names \X Signatures
  BY <1>1 DEF EventSet
<1>3. NewChain \in ChainSet
  BY NoneIsASignature DEF NewChain, ChainSet
<1>4. CASE Received(e)
  BY <1>4, NamesDiffer DEF Collapsed, Received
<1>5. CASE e.name = InputSent
  <2>1. c = [emit |-> TRUE, chain |-> NewChain]
    BY <1>5, NamesDiffer DEF Collapsed
  <2> QED
    BY <2>1, <1>3, <1>5, NamesDiffer DEF Received
<1>6. CASE ~ Received(e) /\ e.name # InputSent
  <2>1. c = [emit |-> << e.name, g >> \notin k,
             chain |-> [signature |-> g, accepted |-> k \cup {<< e.name, g >>}]]
    BY <1>6 DEF Collapsed, Received, NextSignature, KeptKeys
  <2> HIDE DEF c, g, k
  <2>2. c.chain \in ChainSet
    BY <2>1, <1>1, <1>2 DEF ChainSet
  <2>3. /\ c.emit = (<< e.name, g >> \notin k) /\ c.emit \in BOOLEAN
        /\ c.chain.signature = g
        /\ c.chain.accepted = k \cup {<< e.name, g >>}
    BY <2>1
  <2> QED
    BY <2>2, <2>3, <1>6 DEF c, g, k, NextKey
<1> QED
  BY <1>4, <1>5, <1>6

\* Event e goes on to the emitter of a producer with memory m.
Emits(m, e) == Collapsed(m.chains[e.workspace], e).emit

\* The pending chain that a hook e finds, and the chain it makes of it.
Pending(m, e) == m.pending[e.workspace]

HookChain(m, e) == << Pending(m, e).input, Pending(m, e).prompt, Ref(e) >>

\* Hook e reports an accepted prompt.
Correlates(m, e) ==
    /\ Emits(m, e) /\ e.name = UserPromptSubmit /\ e.session # None
    /\ None \notin {Pending(m, e).input, Pending(m, e).prompt,
                    Pending(m, e).marker}
    /\ Pending(m, e).marker.delivery \in Deliveries
    /\ Context[Pending(m, e).marker.delivery].binding # None

\* Stop e reports a completed turn.
Closes(m, e) ==
    /\ Emits(m, e) /\ e.name = StopHook /\ e.session # None
    /\ m.active[<< e.workspace, e.session >>] # None

\* The receipt of a correlated hook, and of a Stop that closes a chain.
HookReceipt(m, e) ==
    Receipt(Pending(m, e).marker.delivery, HookChain(m, e), e,
            "harness.prompt_accepted")

StopReceipt(m, e) ==
    LET a == m.active[<< e.workspace, e.session >>]
    IN  Receipt(a.delivery, Append(a.events, Ref(e)), e,
                "harness.turn_completed")

\* The fields of the memory after e.
ChainsAfter(m, e) ==
    [m.chains EXCEPT
        ![e.workspace] = Collapsed(m.chains[e.workspace], e).chain]

PendingAfter(m, e) ==
    IF ~ Emits(m, e) \/ e.name = StopHook THEN m.pending
    ELSE [m.pending EXCEPT ![e.workspace] =
             IF e.name = InputSent
             THEN [input |-> Ref(e), prompt |-> None, marker |-> None]
             ELSE IF e.name = PromptSubmitted
             THEN [input |-> Pending(m, e).input, prompt |-> Ref(e),
                   marker |-> e.marker]
             ELSE NoPending]

ActiveAfter(m, e) ==
    IF Correlates(m, e)
    THEN [m.active EXCEPT ![<< e.workspace, e.session >>] =
             [delivery |-> Pending(m, e).marker.delivery,
              events |-> HookChain(m, e)]]
    ELSE IF Closes(m, e)
    THEN [m.active EXCEPT ![<< e.workspace, e.session >>] = None]
    ELSE m.active

EmittedAfter(m, e) ==
    IF Correlates(m, e) THEN m.emitted \cup {HookReceipt(m, e)}
    ELSE IF Closes(m, e) THEN m.emitted \cup {StopReceipt(m, e)}
    ELSE m.emitted

\* A pending chain with a new prompt.
LEMMA PendingUpdate ==
    ASSUME NEW p \in PendingSet, NEW a, NEW b
    PROVE  [p EXCEPT !.prompt = a, !.marker = b] =
              [input |-> p.input, prompt |-> a, marker |-> b]
<1>1. p = [input |-> p.input, prompt |-> p.prompt, marker |-> p.marker]
  BY DEF PendingSet
<1> DEFINE q == [p EXCEPT !.prompt = a, !.marker = b]
<1>2. DOMAIN q = {"input", "prompt", "marker"}
  BY <1>1
<1>3. q.input = p.input /\ q.prompt = a /\ q.marker = b
  BY <1>1
<1>4. q = [x \in {"input", "prompt", "marker"} |-> q[x]]
  BY <1>1, <1>2
<1> HIDE DEF q
<1>5. q = [input |-> p.input, prompt |-> a, marker |-> b]
  BY <1>3, <1>4
<1> QED
  BY <1>5 DEF q

\* The memory after e, field by field.
LEMMA ObservedFields ==
    ASSUME NEW m \in Memories, NEW e \in EventSet
    PROVE  Observed(m, e) =
              [chains |-> ChainsAfter(m, e), pending |-> PendingAfter(m, e),
               active |-> ActiveAfter(m, e), emitted |-> EmittedAfter(m, e)]
<1> DEFINE w == e.workspace
           k == << w, e.session >>
           c == Collapsed(m.chains[w], e)
           kept == [m EXCEPT !.chains[w] = c.chain]
           chains == [m.chains EXCEPT ![w] = c.chain]
<1>1. w \in Workspaces /\ e.name \in Names
  BY DEF EventSet
<1>2. c.emit \in BOOLEAN /\ c.emit = Emits(m, e)
  BY <1>1, CollapsedFields DEF Memories, Emits
<1>3. kept = [chains |-> chains, pending |-> m.pending, active |-> m.active,
              emitted |-> m.emitted]
  BY DEF Memories
<1>4. m.pending \in [Workspaces -> PendingSet] /\ m.pending[w] \in PendingSet
  BY <1>1 DEF Memories
<1> HIDE DEF c, chains, kept
<1>5. CASE ~ c.emit
  <2>1. Observed(m, e) = kept
    BY <1>5 DEF Observed, c, kept
  <2>2. ~ Correlates(m, e) /\ ~ Closes(m, e)
    BY <1>5, <1>2 DEF Correlates, Closes
  <2> QED
    BY <2>1, <2>2, <1>2, <1>3, <1>5 DEF c, chains, ChainsAfter, PendingAfter,
       ActiveAfter, EmittedAfter, Pending
<1>6. CASE c.emit /\ e.name = InputSent
  <2>1. Observed(m, e) = OnInput(kept, e)
    BY <1>6, NamesDiffer DEF Observed, c, kept
  <2>2. ~ Correlates(m, e) /\ ~ Closes(m, e)
    BY <1>6, NamesDiffer DEF Correlates, Closes
  <2>3. [NoPending EXCEPT !.input = Ref(e)] =
           [input |-> Ref(e), prompt |-> None, marker |-> None]
    BY DEF NoPending
  <2>4. OnInput(kept, e) =
           [chains |-> chains,
            pending |-> [m.pending EXCEPT ![w] =
                [input |-> Ref(e), prompt |-> None, marker |-> None]],
            active |-> m.active, emitted |-> m.emitted]
    BY <1>3, <2>3 DEF OnInput, PendingKey
  <2> QED
    BY <2>1, <2>2, <2>4, <1>2, <1>6, NamesDiffer DEF c, chains, ChainsAfter, PendingAfter,
       ActiveAfter, EmittedAfter, Pending
<1>7. CASE c.emit /\ e.name = PromptSubmitted
  <2>1. Observed(m, e) = OnPrompt(kept, e)
    BY <1>7, NamesDiffer DEF Observed, c, kept
  <2>2. ~ Correlates(m, e) /\ ~ Closes(m, e)
    BY <1>7, NamesDiffer DEF Correlates, Closes
  <2>3. [m.pending[w] EXCEPT !.prompt = Ref(e), !.marker = e.marker] =
           [input |-> m.pending[w].input, prompt |-> Ref(e),
            marker |-> e.marker]
    BY <1>4, PendingUpdate
  <2>4. OnPrompt(kept, e) =
           [chains |-> chains,
            pending |-> [m.pending EXCEPT ![w] =
                [m.pending[w] EXCEPT !.prompt = Ref(e), !.marker = e.marker]],
            active |-> m.active, emitted |-> m.emitted]
    BY <1>3, <1>1, <1>4 DEF OnPrompt, PendingKey
  <2> QED
    BY <2>1, <2>2, <2>3, <2>4, <1>2, <1>7, NamesDiffer DEF c, chains, ChainsAfter, PendingAfter,
       ActiveAfter, EmittedAfter, Pending
<1>8. CASE c.emit /\ e.name = UserPromptSubmit
  <2>1. Observed(m, e) = OnUserPromptSubmit(kept, e)
    BY <1>8, NamesDiffer DEF Observed, c, kept
  <2>2. ~ Closes(m, e)
    BY <1>8, NamesDiffer DEF Closes
  <2> DEFINE pending == [m.pending EXCEPT ![w] = NoPending]
             popped == [kept EXCEPT !.pending[PendingKey(e)] = NoPending]
  <2>3. popped = [chains |-> chains, pending |-> pending,
                  active |-> m.active, emitted |-> m.emitted]
    BY <1>3 DEF PendingKey
  <2>4. kept.pending[PendingKey(e)] = Pending(m, e)
    BY <1>3 DEF PendingKey, Pending
  <2>5. CASE Correlates(m, e)
    <3>1. Observed(m, e) =
            [popped EXCEPT
               !.emitted = @ \cup {HookReceipt(m, e)},
               !.active[ActiveKey(e)] =
                  [delivery |-> Pending(m, e).marker.delivery,
                   events |-> HookChain(m, e)]]
      BY <2>1, <2>4, <2>5 DEF OnUserPromptSubmit, Correlates, HookReceipt,
         HookChain
    <3>2. ActiveKey(e) = k
      BY DEF ActiveKey
    <3> HIDE DEF popped, pending
    <3>3. Observed(m, e) =
            [chains |-> chains, pending |-> pending,
             active |-> [m.active EXCEPT ![k] =
                 [delivery |-> Pending(m, e).marker.delivery,
                  events |-> HookChain(m, e)]],
             emitted |-> m.emitted \cup {HookReceipt(m, e)}]
      BY <3>1, <3>2, <2>3
    <3> QED
      BY <3>3, <2>5, <1>2, <1>8, NamesDiffer DEF c, chains, pending, ChainsAfter, PendingAfter,
       ActiveAfter, EmittedAfter, Pending
  <2>6. CASE ~ Correlates(m, e)
    <3>1. Observed(m, e) = popped
      BY <2>1, <2>4, <2>6, <1>2, <1>8 DEF OnUserPromptSubmit, Correlates,
         HookReceipt
    <3> QED
      BY <3>1, <2>2, <2>3, <2>6, <1>2, <1>8, NamesDiffer DEF c, chains, ChainsAfter, PendingAfter,
       ActiveAfter, EmittedAfter, Pending
  <2> QED
    BY <2>5, <2>6
<1>9. CASE c.emit /\ e.name = StopHook
  <2>1. Observed(m, e) = OnStop(kept, e)
    BY <1>9, NamesDiffer DEF Observed, c, kept
  <2>2. ~ Correlates(m, e)
    BY <1>9, NamesDiffer DEF Correlates
  <2>3. kept.active[ActiveKey(e)] = m.active[k]
    BY <1>3 DEF ActiveKey
  <2>4. CASE Closes(m, e)
    <3>1. OnStop(kept, e) =
            [kept EXCEPT !.active[ActiveKey(e)] = None,
                         !.emitted = @ \cup {StopReceipt(m, e)}]
      BY <2>3, <2>4 DEF OnStop, Closes, StopReceipt
    <3>2. ActiveKey(e) = k
      BY DEF ActiveKey
    <3>3. OnStop(kept, e) =
            [chains |-> chains, pending |-> m.pending,
             active |-> [m.active EXCEPT ![k] = None],
             emitted |-> m.emitted \cup {StopReceipt(m, e)}]
      BY <3>1, <3>2, <1>3
    <3> QED
      BY <3>3, <2>1, <2>2, <2>4, <1>2, <1>9, NamesDiffer DEF c, chains, ChainsAfter, PendingAfter,
       ActiveAfter, EmittedAfter, Pending
  <2>5. CASE ~ Closes(m, e)
    <3>1. OnStop(kept, e) = kept
      BY <2>3, <2>5, <1>2, <1>9 DEF OnStop, Closes
    <3> QED
      BY <3>1, <2>1, <2>2, <2>5, <1>2, <1>3, <1>9, NamesDiffer DEF c, chains, ChainsAfter, PendingAfter,
       ActiveAfter, EmittedAfter, Pending
  <2> QED
    BY <2>4, <2>5
<1> QED
  BY <1>1, <1>2, <1>5, <1>6, <1>7, <1>8, <1>9 DEF Names

\* The same, part by part.
LEMMA ObservedParts ==
    ASSUME NEW m \in Memories, NEW e \in EventSet
    PROVE  /\ Observed(m, e).chains = ChainsAfter(m, e)
           /\ Observed(m, e).pending = PendingAfter(m, e)
           /\ Observed(m, e).active = ActiveAfter(m, e)
           /\ Observed(m, e).emitted = EmittedAfter(m, e)
  BY ObservedFields

\* What a receipt is made of.
LEMMA ReceiptIsTyped ==
    ASSUME NEW d \in Deliveries, NEW s \in Seq(RefSet), NEW e \in EventSet,
           NEW c \in Classes
    PROVE  Receipt(d, s, e, c) \in ReceiptSet
  BY DEF ReceiptSet

\* A triple is a sequence, and what a fourth element makes of it.
LEMMA TripleIsSequence ==
    ASSUME NEW S, NEW q \in S \X S \X S
    PROVE  /\ q \in Seq(S) /\ Len(q) = 3
           /\ q = << q[1], q[2], q[3] >>
           /\ \A x \in S : Append(q, x) = << q[1], q[2], q[3], x >>
<1>1. PICK a \in S, b \in S, c \in S : q = << a, b, c >>
  OBVIOUS
<1>2. << a, b, c >> \in Seq(S) /\ Len(<< a, b, c >>) = 3
  OBVIOUS
<1>3. ASSUME NEW x \in S
      PROVE  Append(<< a, b, c >>, x) = << a, b, c, x >>
  <2> DEFINE s == Append(<< a, b, c >>, x)
             t == << a, b, c, x >>
  <2>1. s \in Seq(S) /\ Len(s) = 4 /\ s[4] = x
    BY <1>2
  <2>2. s[1] = a /\ s[2] = b /\ s[3] = c
    BY <1>2
  <2>3. t \in Seq(S) /\ Len(t) = 4
    OBVIOUS
  <2>4. t[1] = a /\ t[2] = b /\ t[3] = c /\ t[4] = x
    OBVIOUS
  <2> HIDE DEF s, t
  <2>5. \A i \in 1..Len(s) : s[i] = t[i]
    <3> SUFFICES ASSUME NEW i \in 1..4 PROVE s[i] = t[i]
      BY <2>1
    <3>1. i = 1 \/ i = 2 \/ i = 3 \/ i = 4
      OBVIOUS
    <3> QED
      BY <3>1, <2>1, <2>2, <2>4
  <2>6. s = t
    BY <2>1, <2>3, <2>5, SeqEqual
  <2> QED
    BY <2>6 DEF s, t
<1>4. q[1] = a /\ q[2] = b /\ q[3] = c
  BY <1>1
<1> QED
  BY <1>1, <1>2, <1>3, <1>4

\* A memory after an event is a memory.
LEMMA ObservedType ==
    ASSUME NEW m \in Memories, NEW e \in EventSet
    PROVE  Observed(m, e) \in Memories
<1> DEFINE w == e.workspace
           k == << w, e.session >>
           o == Observed(m, e)
<1>1. w \in Workspaces /\ e.name \in Names /\ e.marker \in Markers
      /\ e.session \in Sessions \cup {None}
  BY DEF EventSet
<1>2. Ref(e) \in RefSet
  BY RefFields
<1>3. m.pending[w] \in PendingSet /\ m.chains[w] \in ChainSet
  BY <1>1 DEF Memories
<1>4. o.chains \in [Workspaces -> ChainSet]
  <2>1. Collapsed(m.chains[w], e).chain \in ChainSet
    BY <1>3, CollapsedFields
  <2>2. o.chains = [m.chains EXCEPT ![w] = Collapsed(m.chains[w], e).chain]
    BY ObservedParts DEF ChainsAfter
  <2>3. m.chains \in [Workspaces -> ChainSet]
    BY DEF Memories
  <2> HIDE DEF o
  <2> QED
    BY <2>1, <2>2, <2>3
<1>5. o.pending \in [Workspaces -> PendingSet]
  <2>1. None \in Markers
    BY DEF Markers
  <2>2. /\ [input |-> Ref(e), prompt |-> None, marker |-> None] \in PendingSet
        /\ NoPending \in PendingSet
    BY <1>2, <2>1 DEF PendingSet, NoPending
  <2>3. m.pending[w].input \in RefSet \cup {None}
    BY <1>3 DEF PendingSet
  <2>4. [input |-> m.pending[w].input, prompt |-> Ref(e),
         marker |-> e.marker] \in PendingSet
    BY <1>1, <1>2, <2>3 DEF PendingSet
  <2>5. m.pending \in [Workspaces -> PendingSet]
    BY DEF Memories
  <2>6. \/ o.pending = m.pending
        \/ \E q \in PendingSet : o.pending = [m.pending EXCEPT ![w] = q]
    <3>1. CASE ~ Emits(m, e) \/ e.name = StopHook
      BY <3>1, ObservedParts DEF PendingAfter
    <3>2. CASE ~ (~ Emits(m, e) \/ e.name = StopHook)
      <4> DEFINE q == IF e.name = InputSent
                      THEN [input |-> Ref(e), prompt |-> None, marker |-> None]
                      ELSE IF e.name = PromptSubmitted
                      THEN [input |-> m.pending[w].input, prompt |-> Ref(e),
                            marker |-> e.marker]
                      ELSE NoPending
      <4>1. o.pending = [m.pending EXCEPT ![w] = q]
        BY <3>2, ObservedParts DEF PendingAfter, Pending
      <4>2. q \in PendingSet
        BY <2>2, <2>4
      <4> QED
        BY <4>1, <4>2
    <3> QED
      BY <3>1, <3>2
  <2> HIDE DEF o
  <2> QED
    BY <2>5, <2>6, <1>1
<1>6. m.active \in [Workspaces \X Sessions -> ActiveSet \cup {None}]
      /\ m.emitted \in SUBSET ReceiptSet
  BY DEF Memories
<1>10. o = [chains |-> o.chains, pending |-> o.pending, active |-> o.active,
            emitted |-> o.emitted]
  <2>1. PICK f, g, h, q : Observed(m, e) =
            [chains |-> f, pending |-> g, active |-> h, emitted |-> q]
    BY ObservedFields
  <2> QED
    BY <2>1
<1>7. CASE Correlates(m, e)
  <2>1. k \in Workspaces \X Sessions
    BY <1>1, <1>7 DEF Correlates
  <2>2. /\ Pending(m, e).input \in RefSet
        /\ Pending(m, e).prompt \in RefSet
    BY <1>3, <1>7 DEF Correlates, Pending, PendingSet
  <2>3. HookChain(m, e) \in RefSet \X RefSet \X RefSet
        /\ HookChain(m, e) \in Seq(RefSet)
    BY <2>2, <1>2 DEF HookChain
  <2>4. Pending(m, e).marker.delivery \in Deliveries
    BY <1>7 DEF Correlates
  <2>5. [delivery |-> Pending(m, e).marker.delivery,
         events |-> HookChain(m, e)] \in ActiveSet
    BY <2>3, <2>4 DEF ActiveSet
  <2>6. HookReceipt(m, e) \in ReceiptSet
    BY <2>3, <2>4, ReceiptIsTyped DEF HookReceipt, Classes
  <2>7. o.active = [m.active EXCEPT ![k] =
                      [delivery |-> Pending(m, e).marker.delivery,
                       events |-> HookChain(m, e)]]
        /\ o.emitted = m.emitted \cup {HookReceipt(m, e)}
    BY <1>7, ObservedParts DEF ActiveAfter, EmittedAfter
  <2>8. o.active \in [Workspaces \X Sessions -> ActiveSet \cup {None}]
    BY <2>1, <2>5, <2>7, <1>6
  <2>9. o.emitted \in SUBSET ReceiptSet
    BY <2>6, <2>7, <1>6
  <2> QED
    BY <2>8, <2>9, <1>4, <1>5, <1>10 DEF Memories
<1>8. CASE Closes(m, e) /\ ~ Correlates(m, e)
  <2>1. k \in Workspaces \X Sessions
    BY <1>1, <1>8 DEF Closes
  <2> DEFINE a == m.active[k]
  <2>2. a \in ActiveSet
    BY <1>6, <1>8, <2>1 DEF Closes
  <2>3. a.delivery \in Deliveries /\ a.events \in RefSet \X RefSet \X RefSet
    BY <2>2 DEF ActiveSet
  <2>4. a.events \in Seq(RefSet)
    BY <2>3, TripleIsSequence
  <2>5. Append(a.events, Ref(e)) \in Seq(RefSet)
    BY <2>4, <1>2
  <2>6. StopReceipt(m, e) \in ReceiptSet
    <3>1. StopReceipt(m, e) =
            Receipt(a.delivery, Append(a.events, Ref(e)), e,
                    "harness.turn_completed")
      BY DEF StopReceipt
    <3> HIDE DEF a
    <3> QED
      BY <3>1, <2>3, <2>5, ReceiptIsTyped DEF Classes
  <2>7. o.active = [m.active EXCEPT ![k] = None]
        /\ o.emitted = m.emitted \cup {StopReceipt(m, e)}
    BY <1>8, ObservedParts DEF ActiveAfter, EmittedAfter
  <2>8. o.active \in [Workspaces \X Sessions -> ActiveSet \cup {None}]
    BY <2>1, <2>7, <1>6
  <2>9. o.emitted \in SUBSET ReceiptSet
    BY <2>6, <2>7, <1>6
  <2> QED
    BY <2>8, <2>9, <1>4, <1>5, <1>10 DEF Memories
<1>9. CASE ~ Correlates(m, e) /\ ~ Closes(m, e)
  <2>1. o.active = m.active /\ o.emitted = m.emitted
    BY <1>9, ObservedParts DEF ActiveAfter, EmittedAfter
  <2> QED
    BY <2>1, <1>4, <1>5, <1>6, <1>10 DEF Memories
<1> QED
  BY <1>7, <1>8, <1>9

\* An event that is observed again at once changes nothing: an input
\* begins the same chain, and everything else is collapsed.
LEMMA ObservedTwice ==
    ASSUME NEW m \in Memories, NEW e \in EventSet
    PROVE  Observed(Observed(m, e), e) = Observed(m, e)
<1> DEFINE w == e.workspace
           o == Observed(m, e)
           c == Collapsed(m.chains[w], e)
<1>1. w \in Workspaces /\ e.name \in Names
  BY DEF EventSet
<1>2. o \in Memories
  BY ObservedType
<1>3. m.chains \in [Workspaces -> ChainSet] /\ m.chains[w] \in ChainSet
      /\ m.pending \in [Workspaces -> PendingSet]
  BY <1>1 DEF Memories
<1>4. o.chains = [m.chains EXCEPT ![w] = c.chain]
  BY ObservedParts DEF ChainsAfter
<1>5. o.chains[w] = c.chain /\ c.chain \in ChainSet
  BY <1>1, <1>3, <1>4, CollapsedFields
<1>6. /\ Collapsed(c.chain, e).chain = c.chain
      /\ e.name # InputSent => ~ Collapsed(c.chain, e).emit
  <2>1. CASE Received(e)
    BY <2>1, <1>3, CollapsedFields
  <2>2. CASE e.name = InputSent
    <3>1. c.chain = NewChain
      BY <2>2, <1>3, CollapsedFields
    <3>2. Collapsed(c.chain, e).chain = NewChain
      BY <2>2, <1>5, CollapsedFields
    <3> QED
      BY <3>1, <3>2, <2>2
  <2>3. CASE ~ Received(e) /\ e.name # InputSent
    <3> DEFINE d == Collapsed(c.chain, e)
               g == c.chain.signature
    <3>1. /\ g = IF e.name = PromptSubmitted THEN Ref(e).signature
                 ELSE m.chains[w].signature
          /\ << e.name, g >> \in c.chain.accepted
      <4> DEFINE h == m.chains[w]
      <4>1. /\ c.chain.signature = NextSignature(h, e)
            /\ c.chain.accepted = KeptKeys(h, e) \cup {NextKey(h, e)}
        BY <2>3, <1>3, CollapsedFields
      <4>2. NextKey(h, e) \in c.chain.accepted
        BY <4>1
      <4> QED
        BY <4>1, <4>2 DEF NextSignature, NextKey
    <3>2. g = IF e.name = PromptSubmitted THEN Ref(e).signature ELSE g
      BY <3>1
    <3> HIDE DEF c
    <3>3. /\ d.emit = (<< e.name, g >> \notin c.chain.accepted)
          /\ d.chain.signature = g
          /\ d.chain.accepted = c.chain.accepted \cup {<< e.name, g >>}
      BY <2>3, <3>2, <1>5, CollapsedFields DEF NextSignature, NextKey, KeptKeys
    <3>4. d.chain \in ChainSet
      BY <1>5, CollapsedFields
    <3> HIDE DEF d
    <3>5. d.chain.accepted = c.chain.accepted
      BY <3>1, <3>3
    <3>6. d.chain = c.chain
      BY <3>3, <3>4, <3>5, <1>5 DEF ChainSet
    <3> QED
      BY <3>1, <3>3, <3>6 DEF d
  <2> QED
    BY <2>1, <2>2, <2>3
<1>7. o = [chains |-> o.chains, pending |-> o.pending, active |-> o.active,
           emitted |-> o.emitted]
  BY <1>2 DEF Memories
<1>8. [o.chains EXCEPT ![w] = Collapsed(o.chains[w], e).chain] = o.chains
  BY <1>2, <1>5, <1>6 DEF Memories
<1>9. CASE e.name # InputSent
  <2>1. ~ Emits(o, e) /\ ~ Correlates(o, e) /\ ~ Closes(o, e)
    BY <1>5, <1>6, <1>9 DEF Emits, Correlates, Closes
  <2> HIDE DEF o
  <2>2. Observed(o, e) = [chains |-> o.chains, pending |-> o.pending,
                          active |-> o.active, emitted |-> o.emitted]
    <3>1. /\ ChainsAfter(o, e) = o.chains /\ PendingAfter(o, e) = o.pending
          /\ ActiveAfter(o, e) = o.active /\ EmittedAfter(o, e) = o.emitted
      BY <1>8, <2>1 DEF ChainsAfter, PendingAfter, ActiveAfter, EmittedAfter
    <3> QED
      BY <3>1, <1>2, ObservedFields
  <2> QED
    BY <2>2, <1>7 DEF o
<1>10. CASE e.name = InputSent
  <2> DEFINE q == [input |-> Ref(e), prompt |-> None, marker |-> None]
  <2>1. /\ \A x : ~ Correlates(x, e) /\ ~ Closes(x, e)
        /\ e.name # StopHook
    BY <1>10, NamesDiffer DEF Correlates, Closes
  <2>2. Emits(m, e) /\ Emits(o, e)
    BY <1>3, <1>5, <1>10, CollapsedFields DEF Emits
  <2>3. o.pending = [m.pending EXCEPT ![w] = q]
    BY <1>10, <2>1, <2>2, ObservedParts DEF PendingAfter
  <2>4. o.pending[w] = q
    BY <2>3, <1>1, <1>3
  <2> HIDE DEF o, q
  <2>5. [o.pending EXCEPT ![w] = q] = o.pending
    BY <1>2, <2>4 DEF Memories
  <2>6. Observed(o, e) = [chains |-> o.chains,
                          pending |-> [o.pending EXCEPT ![w] = q],
                          active |-> o.active, emitted |-> o.emitted]
    <3>1. /\ ChainsAfter(o, e) = o.chains
          /\ PendingAfter(o, e) = [o.pending EXCEPT ![w] = q]
          /\ ActiveAfter(o, e) = o.active /\ EmittedAfter(o, e) = o.emitted
      BY <1>8, <1>10, <2>1, <2>2
         DEF ChainsAfter, PendingAfter, ActiveAfter, EmittedAfter, q
    <3> QED
      BY <3>1, <1>2, ObservedFields
  <2> QED
    BY <2>5, <2>6, <1>7 DEF o
<1> QED
  BY <1>9, <1>10
-----------------------------------------------------------------------------
(***************************************************************************)
(* What an event of the host does to the invariants of the bus             *)
(***************************************************************************)
\* No turn of workspace w is in progress.
Resting(s, w) == \A u \in Turns : Turn[u].workspace = w => ~ InTurn(s, u)

\* Event e follows those of b, and its turn goes from stage s to s2.
HostEmits(b, s, s2, e) ==
    /\ e \in EventSet
    /\ e.seq = Len(b) + 1
    /\ e.workspace = Turn[e.turn].workspace
    /\ e.session = IF e.name \in Hooks THEN Turn[e.turn].session ELSE None
    /\ e.marker = IF e.name = PromptSubmitted THEN Turn[e.turn].marker ELSE None
    /\ s2 \in [Turns -> Stages]
    /\ \A u \in Turns : u # e.turn => s2[u] = s[u]
    /\ \/ e.name = InputSent /\ s[e.turn] = "waiting" /\ s2[e.turn] = "injected"
       \/ /\ e.name = PromptSubmitted
          /\ \/ /\ s[e.turn] \in {"waiting", "injected"}
                /\ Resting(s, e.workspace)
                /\ s2[e.turn] = "prompted"
             \/ InTurn(s, e.turn) /\ s2[e.turn] = s[e.turn]
       \/ /\ e.name = UserPromptSubmit /\ InTurn(s, e.turn)
          /\ s2[e.turn] = IF Received(e) THEN s[e.turn] ELSE "running"
       \/ /\ e.name = StopHook /\ ~ Received(e) /\ s2[e.turn] = "stopped"
          /\ s[e.turn] \in {"running", "stopped"}

\* e is a Stop of a turn that is over.
Relayed(s, e) == e.name = StopHook /\ s[e.turn] = "stopped"

\* The bus with one more event.
LEMMA AppendedBus ==
    ASSUME NEW b \in Seq(EventSet), NEW e \in EventSet
    PROVE  /\ Append(b, e) \in Seq(EventSet)
           /\ Len(b) \in Nat
           /\ DOMAIN b = 1..Len(b)
           /\ DOMAIN Append(b, e) = 1..(Len(b) + 1)
           /\ \A i \in DOMAIN b : /\ i \in DOMAIN Append(b, e)
                                  /\ Append(b, e)[i] = b[i]
           /\ Append(b, e)[Len(b) + 1] = e
           /\ Len(b) + 1 \in DOMAIN Append(b, e)
           /\ Len(b) + 1 \notin DOMAIN b
  OBVIOUS

\* A relayed Stop leaves every turn where it is, and a turn that is over
\* stays over.
LEMMA StagesStay ==
    ASSUME NEW b, NEW s, NEW s2, NEW e, HostEmits(b, s, s2, e)
    PROVE  /\ Relayed(s, e) => \A u \in Turns : s2[u] = s[u]
           /\ \A u \in Turns : Ended(s, u) => s2[u] = s[u]
<1>1. Relayed(s, e) => s2[e.turn] = s[e.turn]
  BY NamesDiffer DEF Relayed, HostEmits
<1>2. Ended(s, e.turn) => s2[e.turn] = s[e.turn]
  BY DEF Ended, HostEmits, InTurn
<1> QED
  BY <1>1, <1>2 DEF HostEmits

\* Only the turn of an event that is neither an input nor a relayed Stop can
\* be in progress in its workspace.
LEMMA OnlyItsTurn ==
    ASSUME NEW b, NEW s, NEW s2, NEW e, StagesSound(b, s),
           HostEmits(b, s, s2, e), e.name # InputSent, ~ Relayed(s, e),
           NEW u \in Turns, Turn[u].workspace = e.workspace, InTurn(s2, u)
    PROVE  u = e.turn
<1> SUFFICES ASSUME u # e.turn PROVE FALSE
  OBVIOUS
<1>1. e.turn \in Turns
  BY DEF HostEmits, EventSet
<1>2. InTurn(s, u)
  BY DEF HostEmits, InTurn
<1>3. ~ InTurn(s, e.turn)
  BY <1>1, <1>2 DEF HostEmits, StagesSound
<1>4. ~ Resting(s, e.workspace)
  BY <1>2 DEF Resting
<1>5. s[e.turn] = "running" => InTurn(s, e.turn)
  BY DEF InTurn
<1> QED
  BY <1>3, <1>4, <1>5 DEF HostEmits, Relayed

\* The host keeps what the bus says of the stages: a completed hook or a
\* Stop is on the bus only of a turn that got that far.
LEMMA BusStep ==
    ASSUME NEW b, NEW s, NEW s2, NEW e, BusSound(b), StagesSound(b, s),
           HostEmits(b, s, s2, e)
    PROVE  BusSound(Append(b, e)) /\ StagesSound(Append(b, e), s2)
<1> DEFINE b2 == Append(b, e)
<1>1. b \in Seq(EventSet) /\ e \in EventSet /\ e.turn \in Turns
  BY DEF BusSound, HostEmits, EventSet
<1>2. /\ b2 \in Seq(EventSet) /\ b2[Len(b) + 1] = e /\ Len(b) \in Nat
      /\ DOMAIN b = 1..Len(b) /\ DOMAIN b2 = 1..(Len(b) + 1)
      /\ \A i \in DOMAIN b : b2[i] = b[i]
  BY <1>1, AppendedBus
<1>3. \A i \in DOMAIN b2 : i \in DOMAIN b \/ i = Len(b) + 1
  BY <1>2
<1> HIDE DEF b2
<1>4. BusSound(b2)
  BY <1>2, <1>3 DEF BusSound, HostEmits
<1>5. ASSUME NEW t \in Turns, NEW u \in Turns, InTurn(s2, t), InTurn(s2, u),
             Turn[t].workspace = Turn[u].workspace
      PROVE  t = u
  <2>1. CASE e.name = InputSent
    <3>1. t # e.turn /\ u # e.turn
      BY <1>5, <2>1, NamesDiffer DEF HostEmits, InTurn
    <3>2. InTurn(s, t) /\ InTurn(s, u)
      BY <1>5, <3>1 DEF HostEmits, InTurn
    <3> QED
      BY <1>5, <3>2 DEF StagesSound
  <2>2. CASE Relayed(s, e)
    <3>1. InTurn(s, t) /\ InTurn(s, u)
      BY <1>5, <2>2, StagesStay DEF InTurn
    <3> QED
      BY <1>5, <3>1 DEF StagesSound
  <2>3. CASE e.name # InputSent /\ ~ Relayed(s, e)
    <3>1. CASE Turn[t].workspace = e.workspace
      BY <1>5, <2>3, <3>1, OnlyItsTurn
    <3>2. CASE Turn[t].workspace # e.workspace
      <4>1. t # e.turn /\ u # e.turn
        BY <1>5, <3>2 DEF HostEmits
      <4>2. InTurn(s, t) /\ InTurn(s, u)
        BY <1>5, <4>1 DEF HostEmits, InTurn
      <4> QED
        BY <1>5, <4>2 DEF StagesSound
    <3> QED
      BY <3>1, <3>2
  <2> QED
    BY <2>1, <2>2, <2>3
<1>6. ASSUME NEW i \in DOMAIN b2
      PROVE  /\ b2[i].name = UserPromptSubmit /\ b2[i].phase = "completed" =>
                   s2[b2[i].turn] \in {"running", "stopped", "interrupted"}
             /\ b2[i].name = StopHook => s2[b2[i].turn] = "stopped"
             /\ b2[i].name = PromptSubmitted =>
                   s2[b2[i].turn] \notin {"waiting", "injected"}
  <2>1. CASE i = Len(b) + 1
    BY <2>1, <1>2, NamesDiffer DEF HostEmits, Received, InTurn
  <2>2. CASE i \in DOMAIN b
    <3>1. b2[i] = b[i] /\ b[i].turn \in Turns
      <4>1. b2[i] = b[i] /\ b[i] \in EventSet
        BY <2>2, <1>1, <1>2
      <4> QED
        BY <4>1 DEF EventSet
    <3>2. CASE b[i].turn # e.turn
      <4>1. s2[b[i].turn] = s[b[i].turn]
        BY <3>1, <3>2 DEF HostEmits
      <4> QED
        BY <2>2, <3>1, <4>1 DEF StagesSound
    <3>3. CASE b[i].turn = e.turn
      <4>1. s[e.turn] = "stopped" => s2[e.turn] = "stopped"
        BY DEF HostEmits, InTurn
      <4>2. s[e.turn] \notin {"waiting", "injected"} =>
               s2[e.turn] \notin {"waiting", "injected"}
        BY DEF HostEmits, InTurn
      <4>3. s[e.turn] \in {"running", "stopped", "interrupted"} =>
               s2[e.turn] \in {"running", "stopped", "interrupted"}
        BY DEF HostEmits, InTurn
      <4> QED
        BY <2>2, <3>1, <3>3, <4>1, <4>2, <4>3 DEF StagesSound
    <3> QED
      BY <3>2, <3>3
  <2> QED
    BY <2>1, <2>2, <1>3
<1>7. s2 \in [Turns -> Stages]
  BY DEF HostEmits
<1>8. StopsPrecede(b2, s2)
  <2>1. StopsPrecede(b, s)
    BY DEF StagesSound
  <2>2. ASSUME NEW u \in Turns, NEW p \in Nat, StoppedBefore(b, u, p)
        PROVE  StoppedBefore(b2, u, p)
    <3>1. PICK i \in DOMAIN b : i < p /\ b[i].name = StopHook /\ b[i].turn = u
      BY <2>2 DEF StoppedBefore
    <3>2. i \in DOMAIN b2 /\ b2[i] = b[i]
      BY <1>2
    <3> QED
      BY <3>1, <3>2 DEF StoppedBefore
  \* What was stopped before e has its Stop before e.
  <2>3. ASSUME NEW u \in Turns, s[u] = "stopped"
        PROVE  StoppedBefore(b2, u, Len(b) + 1)
    BY <2>1, <2>2, <2>3, <1>2 DEF StopsPrecede
  <2>4. ASSUME NEW u \in Turns, s2[u] = "stopped", s[u] # "stopped"
        PROVE  e.name = StopHook /\ e.turn = u /\ s[u] = "running"
    BY <2>4, NamesDiffer DEF HostEmits, InTurn
  <2>5. ASSUME NEW u \in Turns, s2[u] = "stopped"
        PROVE  StoppedBefore(b2, u, Len(b2) + 1)
    <3>1. Len(b2) = Len(b) + 1
      BY <1>2
    <3>2. CASE s[u] = "stopped"
      <4>1. PICK i \in DOMAIN b2 : i < Len(b) + 1 /\ b2[i].name = StopHook
                                   /\ b2[i].turn = u
        BY <2>3, <3>2 DEF StoppedBefore
      <4> QED
        BY <4>1, <3>1, <1>2 DEF StoppedBefore
    <3>3. CASE s[u] # "stopped"
      <4>1. e.name = StopHook /\ e.turn = u
        BY <2>4, <2>5, <3>3
      <4>2. Len(b) + 1 \in DOMAIN b2 /\ Len(b) + 1 < Len(b2) + 1
        BY <3>1, <1>2
      <4> QED
        BY <4>1, <4>2, <1>2 DEF StoppedBefore
    <3> QED
      BY <3>2, <3>3
  <2>6. ASSUME NEW p \in DOMAIN b2, NEW u \in Turns,
               b2[p].name = PromptSubmitted, InTurn(s2, b2[p].turn),
               s2[u] = "stopped", Turn[u].workspace = b2[p].workspace
        PROVE  StoppedBefore(b2, u, p)
    <3> DEFINE t == b2[p].turn
    <3>1. t \in Turns /\ b2[p].workspace = Turn[t].workspace
      <4>1. b2[p] \in EventSet
        BY <1>2
      <4> QED
        BY <4>1, <1>4 DEF BusSound, EventSet
    <3>2. t # u
      BY <2>6 DEF InTurn
    <3>3. CASE s[u] # "stopped"
      <4>1. e.turn = u /\ InTurn(s, u) /\ InTurn(s, t)
        BY <2>4, <2>6, <3>1, <3>2, <3>3 DEF HostEmits, InTurn
      <4> QED
        BY <2>6, <3>1, <3>2, <4>1 DEF StagesSound
    <3>4. CASE s[u] = "stopped" /\ p = Len(b) + 1
      BY <2>3, <3>4
    <3>5. CASE s[u] = "stopped" /\ p \in DOMAIN b
      <4>1. b2[p] = b[p] /\ p \in Nat
        BY <3>5, <1>2
      <4>2. s[t] \notin {"waiting", "injected"}
        BY <2>6, <3>5, <4>1 DEF StagesSound
      <4>3. InTurn(s, t)
        BY <2>6, <3>1, <4>2 DEF HostEmits, InTurn
      <4> QED
        BY <2>1, <2>2, <2>6, <3>5, <4>1, <4>3 DEF StopsPrecede
    <3> QED
      BY <3>3, <3>4, <3>5, <1>3
  <2> QED
    BY <2>5, <2>6 DEF StopsPrecede
<1>9. StagesSound(b2, s2)
  BY <1>5, <1>6, <1>7, <1>8 DEF StagesSound
<1> QED
  BY <1>4, <1>9 DEF b2

\* What a reference or a chain says of b stays true when b grows.
LEMMA RefersToPersists ==
    ASSUME NEW b \in Seq(EventSet), NEW e \in EventSet, NEW ref, NEW n, NEW w,
           RefersTo(b, ref, n, w)
    PROVE  /\ RefersTo(Append(b, e), ref, n, w)
           /\ Append(b, e)[ref.seq] = b[ref.seq]
           /\ TurnAt(Append(b, e), ref) = TurnAt(b, ref)
           /\ TurnAt(b, ref) \in Turns
<1>1. ref.seq \in DOMAIN b
  BY DEF RefersTo
<1>2. ref.seq \in DOMAIN Append(b, e) /\ Append(b, e)[ref.seq] = b[ref.seq]
  BY <1>1, AppendedBus
<1>3. b[ref.seq] \in EventSet
  BY <1>1
<1>4. b[ref.seq].turn \in Turns
  BY <1>3 DEF EventSet
<1> QED
  BY <1>2, <1>4 DEF RefersTo, TurnAt

\* A chain stays sound when the bus grows.
LEMMA ChainPersists ==
    ASSUME NEW b \in Seq(EventSet), NEW e \in EventSet, NEW w, NEW x, NEW d,
           NEW c, ChainSound(b, w, x, d, c)
    PROVE  /\ ChainSound(Append(b, e), w, x, d, c)
           /\ Entry(Append(b, e), d, c) = Entry(b, d, c)
           /\ TurnAt(Append(b, e), c[2]) = TurnAt(b, c[2])
           /\ TurnAt(Append(b, e), c[3]) = TurnAt(b, c[3])
           /\ TurnAt(b, c[3]) \in Turns
           /\ TurnAt(b, c[2]) \in Turns /\ c[2].seq \in DOMAIN b
<1> DEFINE b2 == Append(b, e)
<1>1. /\ RefersTo(b2, c[1], InputSent, w)
      /\ RefersTo(b2, c[2], PromptSubmitted, w)
      /\ RefersTo(b2, c[3], UserPromptSubmit, w)
  BY RefersToPersists DEF ChainSound
<1>2. /\ b2[c[2].seq] = b[c[2].seq] /\ b2[c[3].seq] = b[c[3].seq]
      /\ TurnAt(b, c[3]) \in Turns /\ TurnAt(b, c[2]) \in Turns
  BY RefersToPersists DEF ChainSound
<1>3. c[2].seq \in DOMAIN b
  BY DEF ChainSound, RefersTo
<1> HIDE DEF b2
<1>4. ChainSound(b2, w, x, d, c)
  BY <1>1, <1>2 DEF ChainSound
<1>5. /\ Entry(b2, d, c) = Entry(b, d, c)
      /\ TurnAt(b2, c[2]) = TurnAt(b, c[2])
      /\ TurnAt(b2, c[3]) = TurnAt(b, c[3])
  BY <1>2 DEF Entry, TurnAt
<1> QED
  BY <1>2, <1>3, <1>4, <1>5 DEF b2

\* The reference to the latest event.
LEMMA LatestRefers ==
    ASSUME NEW b \in Seq(EventSet), NEW e \in EventSet, e.seq = Len(b) + 1
    PROVE  /\ RefersTo(Append(b, e), Ref(e), e.name, e.workspace)
           /\ Ref(e).seq = Len(b) + 1
           /\ Append(b, e)[Ref(e).seq] = e
<1>1. Ref(e).seq = Len(b) + 1
  BY RefFields
<1>2. /\ Append(b, e)[Len(b) + 1] = e /\ Len(b) + 1 \in DOMAIN Append(b, e)
  BY AppendedBus
<1> QED
  BY <1>1, <1>2 DEF RefersTo

\* What is pending keeps referring to events of the bus, in order.
LEMMA PendingStep ==
    ASSUME NEW b \in Seq(EventSet), NEW e \in EventSet, e.seq = Len(b) + 1,
           NEW m \in Memories, PendingSound(b, m)
    PROVE  /\ PendingSound(Append(b, e), m)
           /\ PendingSound(Append(b, e), Observed(m, e))
<1> DEFINE b2 == Append(b, e)
           o == Observed(m, e)
<1>1. ASSUME NEW w \in Workspaces
      PROVE  LET p == m.pending[w]
             IN  /\ p.input # None =>
                       /\ RefersTo(b2, p.input, InputSent, w)
                       /\ p.input.seq \in DOMAIN b
                 /\ p.prompt # None =>
                       /\ RefersTo(b2, p.prompt, PromptSubmitted, w)
                       /\ p.marker = b2[p.prompt.seq].marker
                 /\ p.input # None /\ p.prompt # None =>
                       p.input.seq < p.prompt.seq
  <2> DEFINE p == m.pending[w]
  <2>1. p.input # None => /\ RefersTo(b2, p.input, InputSent, w)
                          /\ p.input.seq \in DOMAIN b
    BY RefersToPersists DEF PendingSound, RefersTo
  <2>2. p.prompt # None => /\ RefersTo(b2, p.prompt, PromptSubmitted, w)
                           /\ b2[p.prompt.seq] = b[p.prompt.seq]
    BY RefersToPersists DEF PendingSound
  <2> QED
    BY <2>1, <2>2 DEF PendingSound
<1>2. PendingSound(b2, m)
  BY <1>1 DEF PendingSound
<1>3. e.workspace \in Workspaces /\ e.name \in Names
  BY DEF EventSet
<1>4. m.pending \in [Workspaces -> PendingSet]
  BY DEF Memories
<1>5. o.pending = PendingAfter(m, e)
  BY ObservedParts
<1>6. /\ RefersTo(b2, Ref(e), e.name, e.workspace)
      /\ Ref(e).seq = Len(b) + 1 /\ b2[Ref(e).seq] = e
  BY LatestRefers
<1> HIDE DEF b2, o
<1>7. ASSUME NEW w \in Workspaces
      PROVE  LET p == o.pending[w]
             IN  /\ p.input # None => RefersTo(b2, p.input, InputSent, w)
                 /\ p.prompt # None =>
                       /\ RefersTo(b2, p.prompt, PromptSubmitted, w)
                       /\ p.marker = b2[p.prompt.seq].marker
                 /\ p.input # None /\ p.prompt # None =>
                       p.input.seq < p.prompt.seq
  <2> DEFINE p == o.pending[w]
             q == m.pending[w]
  <2>1. CASE o.pending[w] = m.pending[w]
    BY <2>1, <1>1
  <2>2. CASE w = e.workspace /\ Emits(m, e) /\ e.name = InputSent
    <3>1. p = [input |-> Ref(e), prompt |-> None, marker |-> None]
      BY <2>2, <1>4, <1>5, NamesDiffer DEF PendingAfter
    <3> HIDE DEF p
    <3> QED
      BY <3>1, <2>2, <1>6 DEF p
  <2>3. CASE w = e.workspace /\ Emits(m, e) /\ e.name = PromptSubmitted
    <3>1. p = [input |-> q.input, prompt |-> Ref(e), marker |-> e.marker]
      BY <2>3, <1>4, <1>5, NamesDiffer DEF PendingAfter, Pending
    <3>2. /\ p.input = q.input /\ p.prompt = Ref(e) /\ p.marker = e.marker
      BY <3>1
    <3>3. q.input # None => q.input.seq < Len(b) + 1
      BY <1>1, AppendedBus
    <3> HIDE DEF p, q
    <3>4. p.input # None => RefersTo(b2, p.input, InputSent, w)
      BY <3>2, <1>1 DEF q
    <3>5. p.input # None => p.input.seq < p.prompt.seq
      BY <3>2, <3>3, <1>6
    <3>6. RefersTo(b2, p.prompt, PromptSubmitted, w)
          /\ p.marker = b2[p.prompt.seq].marker
      BY <3>2, <2>3, <1>6
    <3> QED
      BY <3>4, <3>5, <3>6 DEF p
  <2>4. CASE w = e.workspace /\ Emits(m, e) /\ e.name = UserPromptSubmit
    <3>1. p = NoPending
      BY <2>4, <1>4, <1>5, NamesDiffer DEF PendingAfter
    <3> QED
      BY <3>1 DEF NoPending
  <2>5. \/ o.pending[w] = m.pending[w]
        \/ w = e.workspace /\ Emits(m, e) /\ e.name # StopHook
    BY <1>4, <1>5 DEF PendingAfter
  <2> QED
    BY <2>1, <2>2, <2>3, <2>4, <2>5, <1>3 DEF Names
<1>8. PendingSound(b2, o)
  BY <1>7 DEF PendingSound
<1> QED
  BY <1>2, <1>8 DEF b2, o

\* A producer's chain of a workspace in which nothing was emitted or that
\* is not the event's.
LEMMA ElsewhereUntouched ==
    ASSUME NEW m \in Memories, NEW e \in EventSet, NEW w \in Workspaces
    PROVE  /\ w # e.workspace =>
                 /\ Observed(m, e).chains[w] = m.chains[w]
                 /\ Observed(m, e).pending[w] = m.pending[w]
                 /\ \A x \in Sessions : Observed(m, e).active[<< w, x >>]
                                           = m.active[<< w, x >>]
           /\ w = e.workspace =>
                 Observed(m, e).chains[w] = Collapsed(m.chains[w], e).chain
           /\ w = e.workspace /\ (~ Emits(m, e) \/ e.name = StopHook) =>
                 Observed(m, e).pending[w] = m.pending[w]
<1>1. /\ m.chains \in [Workspaces -> ChainSet]
      /\ m.pending \in [Workspaces -> PendingSet]
      /\ m.active \in [Workspaces \X Sessions -> ActiveSet \cup {None}]
  BY DEF Memories
<1>2. /\ w # e.workspace => Observed(m, e).chains[w] = m.chains[w]
      /\ w = e.workspace =>
            Observed(m, e).chains[w] = Collapsed(m.chains[w], e).chain
  <2>1. Observed(m, e).chains = ChainsAfter(m, e)
    BY ObservedParts
  <2>2. PICK v : ChainsAfter(m, e) = [m.chains EXCEPT ![e.workspace] = v]
                 /\ v = Collapsed(m.chains[e.workspace], e).chain
    BY DEF ChainsAfter
  <2> QED
    BY <1>1, <2>1, <2>2
<1>3. /\ w # e.workspace => Observed(m, e).pending[w] = m.pending[w]
      /\ w = e.workspace /\ (~ Emits(m, e) \/ e.name = StopHook) =>
            Observed(m, e).pending[w] = m.pending[w]
  <2>1. Observed(m, e).pending = PendingAfter(m, e)
    BY ObservedParts
  <2>2. CASE ~ Emits(m, e) \/ e.name = StopHook
    BY <2>1, <2>2 DEF PendingAfter
  <2>3. CASE ~ (~ Emits(m, e) \/ e.name = StopHook)
    <3>1. PICK v : PendingAfter(m, e) = [m.pending EXCEPT ![e.workspace] = v]
      BY <2>3 DEF PendingAfter
    <3> QED
      BY <1>1, <2>1, <2>3, <3>1
  <2> QED
    BY <2>2, <2>3
<1>4. ASSUME w # e.workspace, NEW x \in Sessions
      PROVE  Observed(m, e).active[<< w, x >>] = m.active[<< w, x >>]
  BY <1>1, <1>4, ObservedParts DEF ActiveAfter
<1> QED
  BY <1>2, <1>3, <1>4

\* The signature that the prompt of an event's turn quotes.
LEMMA QuotedSignature ==
    ASSUME NEW b, NEW s, NEW s2, NEW e, HostEmits(b, s, s2, e),
           e.name = PromptSubmitted
    PROVE  /\ Ref(e).signature = Signature(e.turn)
           /\ e.marker \in Markers
           /\ e.marker # None => e.marker.signature = Signature(e.turn)
           /\ e.marker = None => Signature(e.turn) = None
  BY RefFields DEF HostEmits, Signature, EventSet

\* The collapse of relays keeps to one signature at a time, the one of the
\* pending chain and of the running turn (receipt_producer.py:89-96).
LEMMA ChainsStep ==
    ASSUME NEW b, NEW s, NEW s2, NEW e, NEW m \in Memories,
           StagesSound(b, s), ChainsSound(s, m), HostEmits(b, s, s2, e)
    PROVE  ChainsSound(s2, Observed(m, e))
<1> DEFINE o == Observed(m, e)
           w0 == e.workspace
           h == m.chains[w0]
           n == o.chains[w0]
<1>1. e \in EventSet /\ w0 \in Workspaces /\ e.name \in Names /\ e.turn \in Turns
      /\ w0 = Turn[e.turn].workspace
  BY DEF HostEmits, EventSet
<1>2. h \in ChainSet /\ h.accepted \in SUBSET (Names \X Signatures)
  BY <1>1 DEF Memories, ChainSet
<1>3. n = Collapsed(h, e).chain
  BY <1>1, ElsewhereUntouched
<1>4. /\ \A x \in h.accepted : x[2] \in {None, h.signature}
      /\ h.signature # None => << PromptSubmitted, h.signature >> \in h.accepted
      /\ Marked(m.pending[w0]) =>
            m.pending[w0].marker.signature = h.signature
      /\ \A t \in Turns : InTurn(s, t) /\ Turn[t].workspace = w0 =>
            h.signature \in {None, Signature(t)}
  BY <1>1 DEF ChainsSound
<1>5. /\ \A x \in n.accepted : x[2] \in {None, n.signature}
      /\ n.signature # None => << PromptSubmitted, n.signature >> \in n.accepted
      /\ Marked(o.pending[w0]) => o.pending[w0].marker.signature = n.signature
      /\ \A t \in Turns : InTurn(s2, t) /\ Turn[t].workspace = w0 =>
            n.signature \in {None, Signature(t)}
  <2>1. CASE Received(e)
    <3>1. n = h /\ ~ Emits(m, e)
      BY <2>1, <1>1, <1>2, <1>3, CollapsedFields DEF Emits
    <3>2. o.pending[w0] = m.pending[w0]
      BY <3>1, <1>1, ElsewhereUntouched
    <3>3. \A t \in Turns : InTurn(s2, t) => InTurn(s, t)
      BY <2>1, NamesDiffer DEF HostEmits, InTurn, Received
    <3> HIDE DEF n, h, o
    <3> QED
      BY <3>1, <3>2, <3>3, <1>4
  <2>2. CASE e.name = InputSent
    <3>1. n = NewChain /\ Emits(m, e)
      BY <2>2, <1>1, <1>2, <1>3, CollapsedFields DEF Emits
    <3>2. m.pending \in [Workspaces -> PendingSet]
      BY DEF Memories
    <3>3. o.pending[w0] = [input |-> Ref(e), prompt |-> None, marker |-> None]
      BY <2>2, <3>1, <3>2, <1>1, ObservedParts, NamesDiffer DEF PendingAfter
    <3> HIDE DEF n, h, o
    <3>4. ~ Marked(o.pending[w0])
      BY <3>3 DEF Marked
    <3> QED
      BY <3>1, <3>4 DEF NewChain
  <2>3. CASE e.name = PromptSubmitted
    <3> DEFINE g == Ref(e).signature
               k == KeptKeys(h, e)
    <3>1. ~ Received(e) /\ e.name # InputSent
      BY <2>3, NamesDiffer DEF Received
    <3>2. /\ NextSignature(h, e) = g
          /\ NextKey(h, e) = << PromptSubmitted, g >>
          /\ k = IF h.signature \in {None, g} THEN h.accepted ELSE {}
      BY <2>3 DEF NextSignature, NextKey, KeptKeys
    <3>3. /\ n.signature = g
          /\ n.accepted = k \cup {<< PromptSubmitted, g >>}
          /\ Emits(m, e) = (<< PromptSubmitted, g >> \notin k)
      <4>1. /\ Collapsed(h, e).chain.signature = g
            /\ Collapsed(h, e).chain.accepted = k \cup {NextKey(h, e)}
            /\ Collapsed(h, e).emit = (NextKey(h, e) \notin k)
        BY <1>1, <1>2, <3>1, <3>2, CollapsedFields
      <4>2. Emits(m, e) = Collapsed(h, e).emit
        BY DEF Emits
      <4> QED
        BY <1>3, <3>2, <4>1, <4>2
    <3>4. g = Signature(e.turn) /\ (e.marker # None => e.marker.signature = g)
      BY <2>3, QuotedSignature
    <3>5. \A x \in n.accepted : x[2] \in {None, g}
      <4> SUFFICES ASSUME NEW x \in n.accepted PROVE x[2] \in {None, g}
        OBVIOUS
      <4>1. CASE x \in k
        BY <4>1, <3>2, <1>4
      <4>2. CASE x = << PromptSubmitted, g >>
        BY <4>2
      <4> QED
        BY <4>1, <4>2, <3>3
    <3>6. Marked(o.pending[w0]) => o.pending[w0].marker.signature = g
      <4>1. CASE Emits(m, e)
        <5>1. m.pending \in [Workspaces -> PendingSet]
          BY DEF Memories
        <5>2. o.pending[w0] = [input |-> Pending(m, e).input,
                               prompt |-> Ref(e), marker |-> e.marker]
          BY <2>3, <4>1, <5>1, <1>1, ObservedParts, NamesDiffer
             DEF PendingAfter
        <5>3. o.pending[w0].marker = e.marker
          BY <5>2
        <5> QED
          BY <5>3, <3>4 DEF Marked
      <4>2. CASE ~ Emits(m, e)
        <5>1. o.pending[w0] = m.pending[w0]
          BY <4>2, <1>1, ElsewhereUntouched
        <5>2. << PromptSubmitted, g >> \in k
          BY <4>2, <3>3
        <5>3. h.signature = g
          BY <5>2, <3>2, <1>4
        <5> QED
          BY <5>1, <5>3, <1>4
      <4> QED
        BY <4>1, <4>2
    <3>7. \A t \in Turns : InTurn(s2, t) /\ Turn[t].workspace = w0 =>
             t = e.turn
      BY <2>3, <3>1, OnlyItsTurn, NamesDiffer DEF Relayed
    <3> HIDE DEF n, h, o, g, k
    <3> QED
      BY <3>3, <3>4, <3>5, <3>6, <3>7
  <2>4. CASE e.name \in Hooks /\ ~ Received(e)
    <3>1. e.name # PromptSubmitted /\ e.name # InputSent
      BY <2>4, NamesDiffer
    <3>2. /\ NextSignature(h, e) = h.signature
          /\ NextKey(h, e) = << e.name, h.signature >>
          /\ KeptKeys(h, e) = h.accepted
      BY <3>1 DEF NextSignature, NextKey, KeptKeys
    <3>3. /\ n.signature = h.signature
          /\ n.accepted = h.accepted \cup {<< e.name, h.signature >>}
      BY <1>1, <1>2, <1>3, <2>4, <3>1, <3>2, CollapsedFields
    <3>4. Marked(o.pending[w0]) => o.pending[w0] = m.pending[w0]
      <4>1. CASE ~ Emits(m, e) \/ e.name = StopHook
        BY <4>1, <1>1, ElsewhereUntouched
      <4>2. CASE Emits(m, e) /\ e.name = UserPromptSubmit
        <5>1. m.pending \in [Workspaces -> PendingSet]
          BY DEF Memories
        <5>2. o.pending[w0] = NoPending
          BY <4>2, <5>1, <1>1, ObservedParts, NamesDiffer DEF PendingAfter
        <5> QED
          BY <5>2 DEF Marked, NoPending
      <4> QED
        BY <4>1, <4>2, <2>4, NamesDiffer
    <3>5. \A t \in Turns : InTurn(s2, t) /\ Turn[t].workspace = w0 =>
             InTurn(s, t)
      <4>1. CASE Relayed(s, e)
        BY <4>1, StagesStay DEF InTurn
      <4>2. CASE ~ Relayed(s, e)
        <5>1. \A t \in Turns : InTurn(s2, t) /\ Turn[t].workspace = w0 =>
                 t = e.turn
          BY <3>1, <4>2, OnlyItsTurn
        <5>2. InTurn(s2, e.turn) => InTurn(s, e.turn)
          BY <2>4, NamesDiffer DEF HostEmits, InTurn
        <5> QED
          BY <5>1, <5>2
      <4> QED
        BY <4>1, <4>2
    <3>6. \A x \in n.accepted : x[2] \in {None, h.signature}
      <4> SUFFICES ASSUME NEW x \in n.accepted
                   PROVE  x[2] \in {None, h.signature}
        OBVIOUS
      <4>1. CASE x \in h.accepted
        BY <4>1, <1>4
      <4>2. CASE x = << e.name, h.signature >>
        BY <4>2
      <4> QED
        BY <4>1, <4>2, <3>3
    <3> HIDE DEF n, h, o
    <3> QED
      BY <3>3, <3>4, <3>5, <3>6, <1>4
  <2> QED
    BY <2>1, <2>2, <2>3, <2>4, <1>1, NamesDiffer DEF Names
<1>6. ASSUME NEW w \in Workspaces, w # w0
      PROVE  o.chains[w] = m.chains[w] /\ o.pending[w] = m.pending[w]
  BY <1>1, <1>6, ElsewhereUntouched
<1>7. ASSUME NEW t \in Turns, Turn[t].workspace # w0, InTurn(s2, t)
      PROVE  InTurn(s, t) /\ Turn[t].workspace \in Workspaces
  BY <1>1, <1>7 DEF HostEmits, InTurn, Workspaces
<1> HIDE DEF o
<1>8. ASSUME NEW w \in Workspaces
      PROVE  /\ \A x \in o.chains[w].accepted :
                   x[2] \in {None, o.chains[w].signature}
             /\ o.chains[w].signature # None =>
                   << PromptSubmitted, o.chains[w].signature >>
                      \in o.chains[w].accepted
             /\ Marked(o.pending[w]) =>
                   o.pending[w].marker.signature = o.chains[w].signature
  <2>1. CASE w = w0
    BY <2>1, <1>5
  <2>2. CASE w # w0
    BY <2>2, <1>6 DEF ChainsSound
  <2> QED
    BY <2>1, <2>2
<1>9. ASSUME NEW t \in Turns, InTurn(s2, t)
      PROVE  o.chains[Turn[t].workspace].signature \in {None, Signature(t)}
  <2>1. CASE Turn[t].workspace = w0
    BY <2>1, <1>5, <1>9
  <2>2. CASE Turn[t].workspace # w0
    BY <2>2, <1>6, <1>7, <1>9 DEF ChainsSound
  <2> QED
    BY <2>1, <2>2
<1>10. ChainsSound(s2, o)
  BY <1>8, <1>9 DEF ChainsSound
<1> QED
  BY <1>10 DEF o

\* The chain that a correlated hook reports is of one workspace and, as far
\* as prompts tell, of one turn.
LEMMA HookChainSound ==
    ASSUME NEW b, NEW s, NEW s2, NEW e, NEW m, BusInv(b, s, m),
           HostEmits(b, s, s2, e), Correlates(m, e)
    PROVE  /\ ChainSound(Append(b, e), e.workspace, e.session,
                         Pending(m, e).marker.delivery, HookChain(m, e))
           /\ HookChain(m, e)[2] = Pending(m, e).prompt
           /\ HookChain(m, e)[3].seq = e.seq
           /\ Entry(Append(b, e), Pending(m, e).marker.delivery,
                    HookChain(m, e)) = HookReceipt(m, e)
           /\ TurnAt(Append(b, e), HookChain(m, e)[2]) =
                 TurnAt(b, Pending(m, e).prompt)
           /\ TurnAt(Append(b, e), HookChain(m, e)[3]) = e.turn
           /\ TurnAt(b, Pending(m, e).prompt) # e.turn =>
                 Ended(s2, TurnAt(b, Pending(m, e).prompt))
           /\ s2[e.turn] = "running" /\ InTurn(s, e.turn)
           /\ Marked(Pending(m, e))
<1> DEFINE b2 == Append(b, e)
           w == e.workspace
           p == Pending(m, e)
           c == HookChain(m, e)
           u == TurnAt(b, p.prompt)
<1>1. /\ b \in Seq(EventSet) /\ e \in EventSet /\ m \in Memories
      /\ w \in Workspaces /\ e.turn \in Turns
      /\ e.seq = Len(b) + 1 /\ w = Turn[e.turn].workspace
  BY DEF BusInv, BusSound, HostEmits, EventSet
<1>2. /\ e.name = UserPromptSubmit /\ Emits(m, e)
      /\ p.input # None /\ p.prompt # None /\ p.marker # None
      /\ p = m.pending[w]
  BY DEF Correlates, Pending
<1>3. /\ RefersTo(b, p.input, InputSent, w)
      /\ RefersTo(b, p.prompt, PromptSubmitted, w)
      /\ p.marker = b[p.prompt.seq].marker
      /\ p.input.seq < p.prompt.seq
  BY <1>1, <1>2 DEF BusInv, PendingSound
<1>4. /\ RefersTo(b2, p.input, InputSent, w)
      /\ RefersTo(b2, p.prompt, PromptSubmitted, w)
      /\ b2[p.prompt.seq] = b[p.prompt.seq]
      /\ TurnAt(b2, p.prompt) = u /\ u \in Turns
  BY <1>1, <1>3, RefersToPersists
<1>5. /\ RefersTo(b2, Ref(e), UserPromptSubmit, w)
      /\ Ref(e).seq = e.seq /\ Ref(e).session = e.session
      /\ b2[Ref(e).seq] = e
  BY <1>1, <1>2, LatestRefers, RefFields
<1>6. c[1] = p.input /\ c[2] = p.prompt /\ c[3] = Ref(e)
  BY DEF HookChain
<1>7. p.prompt.seq < e.seq
  BY <1>1, <1>3, AppendedBus DEF RefersTo
<1>8. ~ Received(e) /\ e.phase = "completed"
  <2>1. m.chains[w] \in ChainSet
    BY <1>1 DEF Memories
  <2>2. ~ Received(e)
    BY <1>1, <1>2, <2>1, CollapsedFields DEF Emits
  <2> QED
    BY <1>2, <2>2 DEF Received, Hooks
<1>9. s2[e.turn] = "running" /\ InTurn(s, e.turn)
  BY <1>2, <1>8, NamesDiffer DEF HostEmits
<1>10. SameQuote(u, e.turn)
  <2>1. b[p.prompt.seq] \in EventSet /\ p.prompt.seq \in DOMAIN b
    BY <1>1, <1>3 DEF RefersTo
  <2>2. /\ b[p.prompt.seq].workspace = w /\ b[p.prompt.seq].name = PromptSubmitted
        /\ u = b[p.prompt.seq].turn
    BY <1>3 DEF RefersTo, TurnAt
  <2>3. Turn[u].workspace = w /\ Turn[u].marker = p.marker
    BY <1>3, <2>1, <2>2 DEF BusInv, BusSound
  <2>4. Signature(u) = p.marker.signature
    BY <1>2, <2>3 DEF Signature
  <2>5. p.marker \in Markers
    BY <1>4, <2>3 DEF Markers
  <2>6. p.marker.signature # None
    BY <1>2, <2>5, NoneIsASignature
  <2>7. p.marker.signature = m.chains[w].signature
    BY <1>1, <1>2 DEF BusInv, ChainsSound, Marked
  <2>8. m.chains[w].signature \in {None, Signature(e.turn)}
    BY <1>1, <1>9 DEF BusInv, ChainsSound
  <2> QED
    BY <1>1, <2>3, <2>4, <2>6, <2>7, <2>8 DEF SameQuote
<1>11. b2[c[2].seq].turn = u /\ b2[c[3].seq].turn = e.turn
  BY <1>4, <1>5, <1>6 DEF TurnAt
<1>12. Entry(b2, p.marker.delivery, c) = HookReceipt(m, e)
  BY <1>5, <1>6 DEF Entry, HookReceipt
<1>13. ASSUME u # e.turn PROVE Ended(s2, u)
  <2>1. StagesSound(b, s) /\ s[u] \in Stages
    BY <1>4 DEF BusInv, StagesSound
  <2>2. s[u] \notin {"waiting", "injected"}
    BY <1>3, <2>1 DEF RefersTo, TurnAt, StagesSound
  <2>3. ~ InTurn(s, u)
    BY <1>1, <1>4, <1>9, <1>10, <1>13, <2>1 DEF StagesSound, SameQuote
  <2>4. s2[u] = s[u]
    BY <1>4, <1>13 DEF HostEmits
  <2> QED
    BY <2>1, <2>2, <2>3, <2>4 DEF Ended, InTurn, Stages
<1> HIDE DEF b2, w, p, c, u
<1>14. ChainSound(b2, w, e.session, p.marker.delivery, c)
  BY <1>2, <1>3, <1>4, <1>5, <1>6, <1>7, <1>8, <1>10, <1>11 DEF ChainSound
<1>15. /\ TurnAt(b2, c[2]) = u /\ TurnAt(b2, c[3]) = e.turn
       /\ c[3].seq = e.seq /\ Marked(p)
  BY <1>2, <1>5, <1>6, <1>11 DEF TurnAt, Marked
<1> QED
  BY <1>6, <1>9, <1>12, <1>14, <1>15, <1>13 DEF b2, w, p, c, u

\* A late Stop is on every longer bus.
LEMMA LatePersists ==
    ASSUME NEW b \in Seq(EventSet), NEW e \in EventSet, NEW p \in DOMAIN b,
           NEW q \in Nat, NEW r \in Nat, q =< r, LateOn(b, p, q)
    PROVE  LateOn(Append(b, e), p, r)
<1> DEFINE b2 == Append(b, e)
<1>1. PICK i \in DOMAIN b, j \in DOMAIN b :
         /\ i < p /\ p < j /\ j =< q
         /\ b[i].name = StopHook /\ b[j].name = StopHook
         /\ b[i].turn = b[j].turn
         /\ b[j].workspace = b[p].workspace
  BY DEF LateOn
<1>2. /\ i \in DOMAIN b2 /\ b2[i] = b[i] /\ j \in DOMAIN b2 /\ b2[j] = b[j]
      /\ b2[p] = b[p] /\ j \in Nat
  BY AppendedBus
<1>3. j =< r
  BY <1>1, <1>2
<1> HIDE DEF b2
<1>4. LateOn(b2, p, r)
  BY <1>1, <1>2, <1>3 DEF LateOn
<1> QED
  BY <1>4 DEF b2

\* A Stop that is relayed while a turn of its workspace is in progress is
\* late for each prompt of that turn.
LEMMA RelayedIsLate ==
    ASSUME NEW b, NEW s, NEW s2, NEW e, BusSound(b), StagesSound(b, s),
           HostEmits(b, s, s2, e), Relayed(s, e),
           NEW p \in DOMAIN b, b[p].name = PromptSubmitted,
           InTurn(s, b[p].turn), b[p].workspace = e.workspace
    PROVE  LateOn(Append(b, e), p, Len(b) + 1)
<1> DEFINE b2 == Append(b, e)
<1>1. /\ b \in Seq(EventSet) /\ e \in EventSet /\ e.turn \in Turns
      /\ e.workspace = Turn[e.turn].workspace
  BY DEF BusSound, HostEmits, EventSet
<1>2. StoppedBefore(b, e.turn, p)
  BY <1>1 DEF StagesSound, StopsPrecede, Relayed
<1>3. PICK i \in DOMAIN b : /\ i < p /\ b[i].name = StopHook
                            /\ b[i].turn = e.turn
  BY <1>2 DEF StoppedBefore
<1>4. /\ i \in DOMAIN b2 /\ b2[i] = b[i] /\ b2[p] = b[p]
      /\ Len(b) + 1 \in DOMAIN b2 /\ b2[Len(b) + 1] = e
      /\ p < Len(b) + 1 /\ Len(b) + 1 =< Len(b) + 1
  BY <1>1, AppendedBus
<1> HIDE DEF b2
<1>5. LateOn(b2, p, Len(b) + 1)
  BY <1>3, <1>4 DEF LateOn, Relayed
<1> QED
  BY <1>5 DEF b2

\* A Stop of the turn whose chain is active is no relay, so it closes it,
\* unless a late Stop came first.
LEMMA OwnStopCloses ==
    ASSUME NEW b, NEW s, NEW s2, NEW e, NEW m, BusInv(b, s, m),
           HostEmits(b, s, s2, e), e.name = StopHook, s[e.turn] = "running",
           NEW w \in Workspaces, NEW x \in Sessions,
           m.active[<< w, x >>] # None,
           TurnAt(b, m.active[<< w, x >>].events[2]) = e.turn,
           TurnAt(b, m.active[<< w, x >>].events[3]) = e.turn,
           ~ LateOn(b, m.active[<< w, x >>].events[2].seq, Len(b))
    PROVE  Closes(m, e) /\ w = e.workspace /\ x = e.session
<1> DEFINE a == m.active[<< w, x >>]
           h == m.chains[e.workspace]
<1>1. /\ b \in Seq(EventSet) /\ e \in EventSet /\ m \in Memories
      /\ e.turn \in Turns /\ e.workspace \in Workspaces
      /\ e.workspace = Turn[e.turn].workspace
      /\ e.session = Turn[e.turn].session
      /\ ~ Received(e)
  BY NamesDiffer DEF BusInv, BusSound, HostEmits, EventSet
<1>2. ChainSound(b, w, x, a.delivery, a.events)
  BY DEF BusInv, ActiveSound
<1>3. PICK r : r = a.events[3]
  OBVIOUS
<1>4. RefersTo(b, r, UserPromptSubmit, w) /\ r.session = x
  BY <1>2, <1>3 DEF ChainSound
<1>5. r.seq \in DOMAIN b /\ b[r.seq] \in EventSet
  BY <1>1, <1>4 DEF RefersTo
<1>6. /\ b[r.seq].turn = e.turn /\ b[r.seq].workspace = w
      /\ b[r.seq].name = UserPromptSubmit
      /\ Ref(b[r.seq]).session = x
  BY <1>3, <1>4 DEF RefersTo, TurnAt
<1>7. b[r.seq].workspace = Turn[e.turn].workspace
      /\ b[r.seq].session = Turn[e.turn].session
  BY <1>5, <1>6, NamesDiffer DEF BusInv, BusSound
<1>8. w = e.workspace /\ x = e.session
  BY <1>1, <1>5, <1>6, <1>7, RefFields
<1>9. InTurn(s, e.turn) /\ x # None
  BY DEF InTurn, Sessions
<1>10. << StopHook, h.signature >> \notin h.accepted
  <2>1. a.events[2] \in OpenPrompts(b, m, e.turn)
    BY <1>1, <1>8, <1>9 DEF OpenPrompts
  <2> QED
    BY <1>1, <1>9, <2>1 DEF BusInv, StopAwaited
<1>11. h \in ChainSet
  BY <1>1 DEF Memories
<1>12. /\ e.name # PromptSubmitted /\ e.name # InputSent
  BY NamesDiffer
<1>13. NextKey(h, e) = << StopHook, h.signature >>
       /\ KeptKeys(h, e) = h.accepted
  BY <1>12 DEF NextKey, NextSignature, KeptKeys
<1>14. Emits(m, e)
  BY <1>1, <1>10, <1>11, <1>12, <1>13, CollapsedFields DEF Emits
<1> QED
  BY <1>8, <1>9, <1>14 DEF Closes

\* An active chain was reported, and its turn has not stopped, unless a late
\* Stop hid that.
LEMMA ActiveStep ==
    ASSUME NEW b, NEW s, NEW s2, NEW e, NEW m, BusInv(b, s, m),
           HostEmits(b, s, s2, e)
    PROVE  ActiveSound(Append(b, e), s2, Observed(m, e))
<1> DEFINE b2 == Append(b, e)
           o == Observed(m, e)
<1>1. /\ b \in Seq(EventSet) /\ e \in EventSet /\ m \in Memories
      /\ e.turn \in Turns
  BY DEF BusInv, BusSound, HostEmits, EventSet
<1>2. o.active = ActiveAfter(m, e) /\ o.emitted = EmittedAfter(m, e)
  BY <1>1, ObservedParts
<1>3. m.active \in [Workspaces \X Sessions -> ActiveSet \cup {None}]
  BY <1>1 DEF Memories
<1>4. m.emitted \subseteq o.emitted
  BY <1>2 DEF EmittedAfter
<1> SUFFICES ASSUME NEW w \in Workspaces, NEW x \in Sessions,
                    o.active[<< w, x >>] # None
             PROVE  LET a == o.active[<< w, x >>]
                    IN  /\ ChainSound(b2, w, x, a.delivery, a.events)
                        /\ Entry(b2, a.delivery, a.events) \in o.emitted
                        /\ TurnAt(b2, a.events[2]) # TurnAt(b2, a.events[3]) =>
                              Ended(s2, TurnAt(b2, a.events[2]))
                        /\ TurnAt(b2, a.events[2]) = TurnAt(b2, a.events[3]) =>
                              \/ s2[TurnAt(b2, a.events[3])]
                                    \in {"running", "interrupted"}
                              \/ LateOn(b2, a.events[2].seq, Len(b2))
  BY DEF ActiveSound
<1> DEFINE a == o.active[<< w, x >>]
<1>5. CASE Correlates(m, e) /\ w = e.workspace /\ x = e.session
  <2> DEFINE d == Pending(m, e).marker.delivery
             c == HookChain(m, e)
  <2>1. a = [delivery |-> d, events |-> c]
    BY <1>2, <1>3, <1>5 DEF ActiveAfter
  <2>2. a.delivery = d /\ a.events = c
    BY <2>1
  <2>3. /\ ChainSound(b2, w, x, d, c)
        /\ Entry(b2, d, c) = HookReceipt(m, e)
        /\ TurnAt(b2, c[3]) = e.turn
        /\ TurnAt(b2, c[2]) # e.turn => Ended(s2, TurnAt(b2, c[2]))
        /\ s2[e.turn] = "running"
    BY <1>5, HookChainSound
  <2>4. HookReceipt(m, e) \in o.emitted
    BY <1>2, <1>5 DEF EmittedAfter
  <2> HIDE DEF a, o, b2, c, d
  <2> QED
    BY <2>2, <2>3, <2>4 DEF a
<1>6. CASE ~ (Correlates(m, e) /\ w = e.workspace /\ x = e.session)
  <2>1. a = m.active[<< w, x >>]
        /\ ~ (Closes(m, e) /\ w = e.workspace /\ x = e.session)
    <3>1. CASE Correlates(m, e)
      <4>1. ~ Closes(m, e)
        BY <3>1, NamesDiffer DEF Correlates, Closes
      <4>2. << w, x >> # << e.workspace, e.session >>
        BY <3>1, <1>6
      <4>3. PICK v : ActiveAfter(m, e) =
                       [m.active EXCEPT ![<< e.workspace, e.session >>] = v]
        BY <3>1 DEF ActiveAfter
      <4> QED
        BY <4>1, <4>2, <4>3, <1>2, <1>3
    <3>2. CASE ~ Correlates(m, e) /\ Closes(m, e)
      <4>1. ActiveAfter(m, e) =
               [m.active EXCEPT ![<< e.workspace, e.session >>] = None]
        BY <3>2 DEF ActiveAfter
      <4>2. << w, x >> \in Workspaces \X Sessions
        OBVIOUS
      <4>3. << w, x >> # << e.workspace, e.session >>
        BY <4>1, <4>2, <1>2, <1>3
      <4> QED
        BY <4>1, <4>2, <4>3, <1>2, <1>3
    <3>3. CASE ~ Correlates(m, e) /\ ~ Closes(m, e)
      BY <3>3, <1>2 DEF ActiveAfter
    <3> QED
      BY <3>1, <3>2, <3>3
  <2>2. /\ ChainSound(b, w, x, a.delivery, a.events)
        /\ Entry(b, a.delivery, a.events) \in m.emitted
        /\ TurnAt(b, a.events[2]) # TurnAt(b, a.events[3]) =>
              Ended(s, TurnAt(b, a.events[2]))
        /\ TurnAt(b, a.events[2]) = TurnAt(b, a.events[3]) =>
              \/ s[TurnAt(b, a.events[3])] \in {"running", "interrupted"}
              \/ LateOn(b, a.events[2].seq, Len(b))
    BY <2>1 DEF BusInv, ActiveSound
  <2>3. /\ ChainSound(b2, w, x, a.delivery, a.events)
        /\ Entry(b2, a.delivery, a.events) = Entry(b, a.delivery, a.events)
        /\ TurnAt(b2, a.events[2]) = TurnAt(b, a.events[2])
        /\ TurnAt(b2, a.events[3]) = TurnAt(b, a.events[3])
        /\ TurnAt(b, a.events[3]) \in Turns
        /\ TurnAt(b, a.events[2]) \in Turns /\ a.events[2].seq \in DOMAIN b
    BY <1>1, <2>2, ChainPersists
  <2>4. ASSUME TurnAt(b, a.events[2]) = TurnAt(b, a.events[3]),
               ~ LateOn(b2, a.events[2].seq, Len(b2))
        PROVE  s2[TurnAt(b, a.events[3])] \in {"running", "interrupted"}
    <3> DEFINE t == TurnAt(b, a.events[3])
    <3>1. ~ LateOn(b, a.events[2].seq, Len(b))
      <4>1. Len(b) \in Nat /\ Len(b2) \in Nat /\ Len(b) =< Len(b2)
        BY <1>1
      <4> QED
        BY <1>1, <2>3, <2>4, <4>1, LatePersists
    <3>2. s[t] \in {"running", "interrupted"}
      BY <2>2, <2>4, <3>1
    <3>3. CASE t # e.turn
      BY <3>2, <3>3, <2>3 DEF HostEmits
    <3>4. CASE t = e.turn /\ e.name = StopHook
      <4>1. s[e.turn] = "running"
        BY <3>2, <3>4, NamesDiffer DEF HostEmits
      <4> QED
        BY <4>1, <3>1, <3>4, <2>1, <2>4, OwnStopCloses
    <3>5. CASE t = e.turn /\ e.name # StopHook
      BY <3>2, <3>5 DEF HostEmits, InTurn
    <3> QED
      BY <3>3, <3>4, <3>5
  <2>5. Ended(s, TurnAt(b, a.events[2])) => Ended(s2, TurnAt(b, a.events[2]))
    BY <2>3, StagesStay DEF Ended
  <2> HIDE DEF a, o, b2
  <2> QED
    BY <2>2, <2>3, <2>4, <2>5, <1>4 DEF a
<1> QED
  BY <1>5, <1>6

\* An open prompt of turn t is an event of the bus.
LEMMA OpenPromptRefers ==
    ASSUME NEW b, NEW s, NEW m, BusInv(b, s, m), NEW t \in Turns,
           NEW ref \in OpenPrompts(b, m, t)
    PROVE  /\ ref.seq \in DOMAIN b /\ b[ref.seq].turn = t
           /\ b[ref.seq].name = PromptSubmitted
           /\ b[ref.seq].workspace = Turn[t].workspace
<1> DEFINE w == Turn[t].workspace
           x == Turn[t].session
           p == m.pending[w]
           a == m.active[<< w, x >>]
<1>1. w \in Workspaces /\ (x # None => x \in Sessions)
  BY DEF Workspaces, Sessions
<1>2. CASE Marked(p) /\ TurnAt(b, p.prompt) = t /\ ref = p.prompt
  <2>1. RefersTo(b, p.prompt, PromptSubmitted, w)
    BY <1>1, <1>2 DEF BusInv, PendingSound, Marked
  <2> QED
    BY <1>2, <2>1 DEF RefersTo, TurnAt
<1>3. CASE /\ x # None /\ a # None /\ TurnAt(b, a.events[2]) = t
           /\ ref = a.events[2]
  <2>1. ChainSound(b, w, x, a.delivery, a.events)
    BY <1>1, <1>3 DEF BusInv, ActiveSound
  <2>2. RefersTo(b, a.events[2], PromptSubmitted, w)
    BY <2>1 DEF ChainSound
  <2> QED
    BY <1>3, <2>2 DEF RefersTo, TurnAt
<1> QED
  BY <1>2, <1>3 DEF OpenPrompts

\* The first Stop of a turn whose chain is open is collapsed only when a late
\* one came before it.
LEMMA StopStep ==
    ASSUME NEW b, NEW s, NEW s2, NEW e, NEW m, BusInv(b, s, m),
           HostEmits(b, s, s2, e)
    PROVE  StopAwaited(Append(b, e), s2, Observed(m, e))
<1> DEFINE b2 == Append(b, e)
           o == Observed(m, e)
           w0 == e.workspace
           h == m.chains[w0]
           n == o.chains[w0]
<1>1. /\ b \in Seq(EventSet) /\ e \in EventSet /\ m \in Memories
      /\ e.turn \in Turns /\ w0 \in Workspaces /\ e.name \in Names
      /\ w0 = Turn[e.turn].workspace
      /\ StagesSound(b, s) /\ PendingSound(b, m) /\ ActiveSound(b, s, m)
      /\ StopAwaited(b, s, m) /\ ChainsSound(s, m)
  BY DEF BusInv, BusSound, HostEmits, EventSet
<1>2. o.active = ActiveAfter(m, e) /\ o.pending = PendingAfter(m, e)
      /\ o \in Memories
  BY <1>1, ObservedParts, ObservedType
<1>3. h \in ChainSet /\ n = Collapsed(h, e).chain
  BY <1>1, ElsewhereUntouched DEF Memories
<1>4. m.active \in [Workspaces \X Sessions -> ActiveSet \cup {None}]
      /\ m.pending \in [Workspaces -> PendingSet]
  BY <1>1 DEF Memories
\* References that were there before e mean the same after it.
<1>5. ASSUME NEW w \in Workspaces, m.pending[w].prompt # None
      PROVE  TurnAt(b2, m.pending[w].prompt) = TurnAt(b, m.pending[w].prompt)
  <2>1. RefersTo(b, m.pending[w].prompt, PromptSubmitted, w)
    BY <1>1, <1>5 DEF PendingSound
  <2> QED
    BY <1>1, <2>1, RefersToPersists
<1>6. ASSUME NEW w \in Workspaces, NEW x \in Sessions,
             m.active[<< w, x >>] # None
      PROVE  LET c == m.active[<< w, x >>].events
             IN  /\ TurnAt(b2, c[2]) = TurnAt(b, c[2])
                 /\ TurnAt(b2, c[3]) = TurnAt(b, c[3])
                 /\ b[c[2].seq] \in EventSet
                 /\ b[c[2].seq].name = PromptSubmitted
                 /\ c[2].seq \in DOMAIN b
                 /\ b[c[2].seq].marker # None
  <2> DEFINE a == m.active[<< w, x >>]
             c == a.events
  <2>1. ChainSound(b, w, x, a.delivery, c)
    BY <1>1, <1>6 DEF ActiveSound
  <2>2. /\ TurnAt(b2, c[2]) = TurnAt(b, c[2])
        /\ TurnAt(b2, c[3]) = TurnAt(b, c[3])
    BY <1>1, <2>1, ChainPersists
  <2>3. c[2].seq \in DOMAIN b /\ b[c[2].seq].name = PromptSubmitted
        /\ b[c[2].seq].marker # None
    BY <2>1 DEF ChainSound, RefersTo
  <2> QED
    BY <1>1, <2>2, <2>3
<1> SUFFICES ASSUME NEW t \in Turns, InTurn(s2, t),
                    NEW ref \in OpenPrompts(b2, o, t),
                    ~ LateOn(b2, ref.seq, Len(b2))
             PROVE  << StopHook, o.chains[Turn[t].workspace].signature >>
                       \notin o.chains[Turn[t].workspace].accepted
  BY DEF StopAwaited
<1> DEFINE w == Turn[t].workspace
           x == Turn[t].session
           p == o.pending[w]
           a == o.active[<< w, x >>]
           WasOpen ==
             \/ /\ Marked(m.pending[w]) /\ TurnAt(b, m.pending[w].prompt) = t
                /\ ref = m.pending[w].prompt
             \/ /\ x # None /\ m.active[<< w, x >>] # None
                /\ TurnAt(b, m.active[<< w, x >>].events[2]) = t
                /\ TurnAt(b, m.active[<< w, x >>].events[3]) = t
                /\ ref = m.active[<< w, x >>].events[2]
<1>7. w \in Workspaces /\ (x # None => x \in Sessions)
  BY DEF Workspaces, Sessions
<1>8. \/ Marked(p) /\ TurnAt(b2, p.prompt) = t /\ ref = p.prompt
      \/ /\ x # None /\ a # None
         /\ TurnAt(b2, a.events[2]) = t /\ TurnAt(b2, a.events[3]) = t
         /\ ref = a.events[2]
  BY DEF OpenPrompts
<1>9. ASSUME WasOpen
      PROVE  /\ ref \in OpenPrompts(b, m, t)
             /\ ref.seq \in DOMAIN b /\ b[ref.seq].turn = t
             /\ b[ref.seq].name = PromptSubmitted
             /\ b[ref.seq].workspace = w
  <2>1. ref \in OpenPrompts(b, m, t)
    BY <1>9 DEF OpenPrompts
  <2> QED
    BY <2>1, OpenPromptRefers
\* What t had pending and active before e.
<1>10. ASSUME InTurn(s, t), WasOpen
       PROVE  << StopHook, m.chains[w].signature >> \notin m.chains[w].accepted
  <2>1. Len(b) \in Nat /\ Len(b2) \in Nat /\ Len(b) =< Len(b2)
    BY <1>1
  <2>2. ~ LateOn(b, ref.seq, Len(b))
    BY <1>1, <1>10, <1>9, <2>1, LatePersists
  <2> QED
    BY <1>1, <1>10, <1>9, <2>2 DEF StopAwaited
<1>11. CASE w # w0
  <2>1. /\ o.chains[w] = m.chains[w] /\ p = m.pending[w]
        /\ x # None => a = m.active[<< w, x >>]
    BY <1>1, <1>7, <1>11, ElsewhereUntouched
  <2>2. InTurn(s, t)
    BY <1>1, <1>11 DEF HostEmits, InTurn
  <2>3. WasOpen
    BY <2>1, <1>5, <1>6, <1>7, <1>8 DEF Marked
  <2> QED
    BY <2>1, <2>2, <2>3, <1>10
<1>12. CASE w = w0 /\ e.name = InputSent
  <2>1. n = NewChain
    BY <1>1, <1>3, <1>12, CollapsedFields
  <2> HIDE DEF n, o
  <2> QED
    BY <2>1, <1>12 DEF NewChain, n
<1>13. CASE w = w0 /\ Relayed(s, e)
  <2>1. InTurn(s, t) /\ e.name = StopHook
    BY <1>13, StagesStay DEF InTurn, Relayed
  <2>2. p = m.pending[w] /\ (x # None /\ a # None => a = m.active[<< w, x >>])
    <3>1. p = m.pending[w]
      BY <1>1, <1>7, <1>13, <2>1, ElsewhereUntouched
    <3>2. ~ Correlates(m, e)
      BY <2>1, NamesDiffer DEF Correlates
    <3>3. CASE Closes(m, e)
      <4>1. o.active = [m.active EXCEPT ![<< e.workspace, e.session >>] = None]
        BY <1>2, <3>2, <3>3 DEF ActiveAfter
      <4> QED
        BY <3>1, <4>1, <1>4, <1>7
    <3>4. CASE ~ Closes(m, e)
      BY <1>2, <3>1, <3>2, <3>4 DEF ActiveAfter
    <3> QED
      BY <3>3, <3>4
  <2>3. WasOpen
    BY <2>2, <1>5, <1>6, <1>7, <1>8 DEF Marked
  <2>4. LateOn(b2, ref.seq, Len(b) + 1)
    BY <1>1, <1>9, <1>13, <2>1, <2>3, RelayedIsLate DEF BusInv
  <2>5. Len(b2) = Len(b) + 1
    BY <1>1
  <2> QED
    BY <2>4, <2>5
<1>14. CASE w = w0 /\ e.name # InputSent /\ ~ Relayed(s, e)
  <2>1. t = e.turn
    BY <1>1, <1>14, OnlyItsTurn
  <2>2. e.name # StopHook
    BY <2>1, <1>14, NamesDiffer DEF HostEmits, InTurn
  <2>3. ~ Closes(m, e)
    BY <2>2 DEF Closes
  <2>4. CASE e.name = PromptSubmitted
    <3> DEFINE g == Ref(e).signature
               k == KeptKeys(h, e)
    <3>1. ~ Received(e) /\ e.name # InputSent
      BY <2>4, NamesDiffer DEF Received
    <3>2. /\ NextSignature(h, e) = g
          /\ NextKey(h, e) = << PromptSubmitted, g >>
          /\ k = IF h.signature \in {None, g} THEN h.accepted ELSE {}
      BY <2>4 DEF NextSignature, NextKey, KeptKeys
    <3>3. /\ n.signature = g
          /\ n.accepted = k \cup {<< PromptSubmitted, g >>}
          /\ Emits(m, e) = (<< PromptSubmitted, g >> \notin k)
      <4>1. /\ Collapsed(h, e).chain.signature = g
            /\ Collapsed(h, e).chain.accepted = k \cup {NextKey(h, e)}
            /\ Collapsed(h, e).emit = (NextKey(h, e) \notin k)
        BY <1>1, <1>3, <3>1, <3>2, CollapsedFields
      <4>2. Emits(m, e) = Collapsed(h, e).emit
        BY DEF Emits
      <4> QED
        BY <1>3, <3>2, <4>1, <4>2
    <3>4. o.active = m.active
      BY <1>2, <2>3, <2>4, NamesDiffer DEF ActiveAfter, Correlates
    <3>5. /\ \A y \in h.accepted : y[2] \in {None, h.signature}
          /\ h.signature # None =>
                << PromptSubmitted, h.signature >> \in h.accepted
      BY <1>1 DEF ChainsSound
    <3>6. g = Signature(t) /\ (e.marker = None => g = None)
          /\ (e.marker # None => g = e.marker.signature)
          /\ e.marker \in Markers
      BY <2>1, <2>4, QuotedSignature
    <3>7. << StopHook, g >> \notin k
      <4> SUFFICES ASSUME << StopHook, g >> \in k PROVE FALSE
        OBVIOUS
      <4>1. << StopHook, g >> \in h.accepted /\ k = h.accepted
            /\ h.signature \in {None, g}
        BY <3>2
      <4>2. g \in {None, h.signature}
        <5>1. PICK y : y = << StopHook, g >>
          OBVIOUS
        <5>2. y[2] = g /\ y \in h.accepted
          BY <5>1, <4>1
        <5> QED
          BY <5>2, <3>5
      <4>3. h.signature = g
        BY <4>1, <4>2
      <4>4. CASE Emits(m, e)
        <5>1. << PromptSubmitted, g >> \notin h.accepted
          BY <4>4, <4>1, <3>3
        <5>2. g = None
          BY <5>1, <4>3, <3>5
        <5>3. e.marker = None
          BY <5>2, <3>6, NoneIsASignature
        <5>4. p = [input |-> Pending(m, e).input, prompt |-> Ref(e),
                   marker |-> e.marker]
          BY <1>1, <1>2, <1>4, <1>14, <2>4, <4>4, NamesDiffer DEF PendingAfter
        <5>5. ~ Marked(p)
          <6>1. p.marker = e.marker
            BY <5>4
          <6> QED
            BY <5>3, <6>1 DEF Marked
        <5>6. /\ x # None /\ m.active[<< w, x >>] # None
              /\ TurnAt(b2, m.active[<< w, x >>].events[2]) = t
          BY <5>5, <3>4, <1>8
        <5>7. PICK c : c = m.active[<< w, x >>].events
          OBVIOUS
        <5>8. /\ TurnAt(b, c[2]) = t /\ b[c[2].seq].marker # None
              /\ c[2].seq \in DOMAIN b /\ b[c[2].seq].name = PromptSubmitted
          BY <5>6, <5>7, <1>6, <1>7
        <5>9. b[c[2].seq].marker = Turn[t].marker
          BY <5>8 DEF BusInv, BusSound, TurnAt
        <5>10. Turn[t].marker = e.marker
          BY <2>1, <2>4 DEF HostEmits
        <5> QED
          BY <5>3, <5>8, <5>9, <5>10
      <4>5. CASE ~ Emits(m, e)
        <5>1. p = m.pending[w]
          BY <4>5, <1>1, <1>7, <1>14, ElsewhereUntouched
        <5>2. WasOpen
          BY <5>1, <3>4, <1>5, <1>6, <1>7, <1>8 DEF Marked
        <5>3. \E i \in DOMAIN b : b[i].name = PromptSubmitted /\ b[i].turn = t
          BY <5>2, <1>9
        <5>4. s[t] \notin {"waiting", "injected"}
          BY <5>3, <1>1 DEF StagesSound
        <5>5. InTurn(s, t)
          BY <5>4, <2>1, <2>4, NamesDiffer DEF HostEmits
        <5> QED
          BY <5>2, <5>5, <4>1, <4>3, <1>10, <1>14
      <4> QED
        BY <4>4, <4>5
    <3> HIDE DEF n, o, g, k
    <3> QED
      BY <3>3, <3>7, <1>14, NamesDiffer DEF n
  <2>5. CASE e.name = UserPromptSubmit
    <3>1. InTurn(s, t) /\ e.session = x
      BY <2>1, <2>5, NamesDiffer DEF HostEmits
    <3>2. WasOpen
      <4>1. CASE Correlates(m, e)
        <5>1. Marked(Pending(m, e)) /\ Pending(m, e) = m.pending[w]
          BY <4>1, <1>14, HookChainSound DEF Pending
        <5>2. p = NoPending
          BY <1>1, <1>2, <1>4, <1>14, <2>5, <4>1, NamesDiffer
             DEF PendingAfter, Correlates
        <5>3. ~ Marked(p)
          BY <5>2 DEF Marked, NoPending
        <5>4. /\ x # None /\ TurnAt(b2, a.events[2]) = t
              /\ ref = a.events[2]
          BY <5>3, <1>8
        <5>5. a = [delivery |-> Pending(m, e).marker.delivery,
                   events |-> HookChain(m, e)]
          BY <1>2, <1>4, <1>7, <1>14, <3>1, <4>1, <5>4 DEF ActiveAfter
        <5>6. a.events = HookChain(m, e)
          BY <5>5
        <5>7. /\ TurnAt(b2, HookChain(m, e)[2]) =
                    TurnAt(b, Pending(m, e).prompt)
              /\ HookChain(m, e)[2] = Pending(m, e).prompt
          BY <4>1, HookChainSound
        <5> QED
          BY <5>1, <5>4, <5>6, <5>7
      <4>2. CASE ~ Correlates(m, e)
        <5>1. o.active = m.active
          BY <4>2, <2>3, <1>2 DEF ActiveAfter
        <5>2. Marked(p) => p = m.pending[w]
          <6>1. CASE ~ Emits(m, e)
            BY <6>1, <1>1, <1>7, <1>14, ElsewhereUntouched
          <6>2. CASE Emits(m, e)
            <7>1. p = NoPending
              BY <6>2, <1>1, <1>2, <1>4, <1>14, <2>5, NamesDiffer
                 DEF PendingAfter
            <7> QED
              BY <7>1 DEF Marked, NoPending
          <6> QED
            BY <6>1, <6>2
        <5> QED
          BY <5>1, <5>2, <1>5, <1>6, <1>7, <1>8 DEF Marked
      <4> QED
        BY <4>1, <4>2
    <3>3. << StopHook, h.signature >> \notin h.accepted
      BY <3>1, <3>2, <1>10, <1>14
    <3>4. CASE Received(e)
      <4>1. n = h
        BY <3>4, <1>1, <1>3, CollapsedFields
      <4> QED
        BY <4>1, <3>3, <1>14
    <3>5. CASE ~ Received(e)
      <4>1. e.name # PromptSubmitted /\ e.name # InputSent
        BY <2>5, NamesDiffer
      <4>2. /\ NextSignature(h, e) = h.signature
            /\ NextKey(h, e) = << UserPromptSubmit, h.signature >>
            /\ KeptKeys(h, e) = h.accepted
        BY <4>1, <2>5 DEF NextSignature, NextKey, KeptKeys
      <4>3. /\ n.signature = h.signature
            /\ n.accepted = h.accepted \cup {<< UserPromptSubmit, h.signature >>}
        BY <3>5, <1>1, <1>3, <4>1, <4>2, CollapsedFields
      <4> HIDE DEF n, o, h
      <4> QED
        BY <4>3, <3>3, <1>14, NamesDiffer DEF n
    <3> QED
      BY <3>4, <3>5
  <2> QED
    BY <2>2, <2>4, <2>5, <1>1, <1>14 DEF Names
<1> QED
  BY <1>11, <1>12, <1>14, <1>13

\* The fields of a receipt that the proofs read.
LEMMA ReceiptFields ==
    ASSUME NEW d, NEW c, NEW e, NEW k
    PROVE  /\ Receipt(d, c, e, k).id = e.seq
           /\ Receipt(d, c, e, k).source = e.seq
           /\ Receipt(d, c, e, k).observed = e.seq
           /\ Receipt(d, c, e, k).delivery = d
           /\ Receipt(d, c, e, k).event = Context[d].event
           /\ Receipt(d, c, e, k).attempt = Context[d].attempt
           /\ Receipt(d, c, e, k).binding = Context[d].binding
           /\ Receipt(d, c, e, k).class = k
           /\ Receipt(d, c, e, k).proof.events = c
           /\ Receipt(d, c, e, k).proof.session = e.session
           /\ Receipt(d, c, e, k).proof.marker = Context[d].marker
  BY DEF Receipt

\* An event emits at most one receipt, whose id is the event's, and none is
\* taken back.
LEMMA EmittedGrows ==
    ASSUME NEW m \in Memories, NEW e \in EventSet
    PROVE  /\ m.emitted \subseteq Observed(m, e).emitted
           /\ \A r \in Observed(m, e).emitted : r \in m.emitted \/ r.id = e.seq
<1>1. Observed(m, e).emitted = EmittedAfter(m, e)
  BY ObservedParts
<1>2. HookReceipt(m, e).id = e.seq
  BY ReceiptFields DEF HookReceipt
<1>3. StopReceipt(m, e).id = e.seq
  BY ReceiptFields DEF StopReceipt
<1> QED
  BY <1>1, <1>2, <1>3 DEF EmittedAfter

\* What is emitted stays sound, and what the event emits is sound and new.
LEMMA EmittedStep ==
    ASSUME NEW b, NEW s, NEW s2, NEW e, NEW m, BusInv(b, s, m),
           HostEmits(b, s, s2, e)
    PROVE  EmittedSound(Append(b, e), s2, Observed(m, e))
<1> DEFINE b2 == Append(b, e)
           o == Observed(m, e)
           w == e.workspace
           x == e.session
           Sound(r) ==
              /\ r.id \in DOMAIN b2
              /\ r.delivery \in Deliveries
              /\ r = Receipt(r.delivery, r.proof.events, b2[r.id], r.class)
              /\ \/ r.class = "harness.prompt_accepted" /\ EntrySound(b2, r)
                 \/ /\ r.class = "harness.turn_completed"
                    /\ CompletionSound(b2, s2, o, r)
<1>1. /\ b \in Seq(EventSet) /\ e \in EventSet /\ m \in Memories
      /\ e.turn \in Turns /\ w \in Workspaces /\ e.seq = Len(b) + 1
      /\ ActiveSound(b, s, m) /\ EmittedSound(b, s, m) /\ StagesSound(b, s)
  BY DEF BusInv, BusSound, HostEmits, EventSet
<1>2. o.emitted = EmittedAfter(m, e) /\ m.emitted \subseteq o.emitted
  BY <1>1, ObservedParts, EmittedGrows
<1>3. /\ e.seq \in DOMAIN b2 /\ b2[e.seq] = e /\ e.seq \notin DOMAIN b
      /\ \A i \in DOMAIN b : /\ i \in DOMAIN b2 /\ b2[i] = b[i]
                             /\ i < e.seq
  BY <1>1, AppendedBus
<1>4. Ref(e) \in RefSet
  BY <1>1, RefFields
<1>5. s[e.turn] # "interrupted"
  BY DEF HostEmits, InTurn
<1>6. ASSUME NEW r \in m.emitted
      PROVE  Sound(r) /\ r.id \in DOMAIN b
  <2>1. /\ r.id \in DOMAIN b /\ r.delivery \in Deliveries
        /\ r = Receipt(r.delivery, r.proof.events, b[r.id], r.class)
        /\ \/ r.class = "harness.prompt_accepted" /\ EntrySound(b, r)
           \/ /\ r.class = "harness.turn_completed"
              /\ CompletionSound(b, s, m, r)
    BY <1>1, <1>6 DEF EmittedSound
  <2>2. r.id \in DOMAIN b2 /\ b2[r.id] = b[r.id]
    BY <2>1, <1>3
  <2>3. EntrySound(b, r) => EntrySound(b2, r)
    <3> SUFFICES ASSUME EntrySound(b, r) PROVE EntrySound(b2, r)
      OBVIOUS
    <3>1. ChainSound(b, b[r.id].workspace, b[r.id].session, r.delivery,
                     r.proof.events)
      BY DEF EntrySound
    <3>2. ChainSound(b2, b[r.id].workspace, b[r.id].session, r.delivery,
                     r.proof.events)
      BY <1>1, <3>1, ChainPersists
    <3> HIDE DEF b2
    <3> QED
      BY <3>2, <2>2 DEF EntrySound
  <2>4. CompletionSound(b, s, m, r) => CompletionSound(b2, s2, o, r)
    <3> SUFFICES ASSUME CompletionSound(b, s, m, r)
                 PROVE  CompletionSound(b2, s2, o, r)
      OBVIOUS
    <3> DEFINE c == r.proof.events
               n == << c[1], c[2], c[3] >>
    <3>1. /\ c \in RefSet \X RefSet \X RefSet \X RefSet
          /\ ChainSound(b, b[r.id].workspace, b[r.id].session, r.delivery, n)
          /\ Entry(b, r.delivery, n) \in m.emitted
          /\ RefersTo(b, c[4], StopHook, b[r.id].workspace)
          /\ c[4].seq = r.id /\ c[3].seq < r.id
          /\ TurnAt(b, c[2]) # TurnAt(b, c[3]) => Ended(s, TurnAt(b, c[2]))
          /\ \/ TurnAt(b, c[4]) = TurnAt(b, c[3])
             \/ s[TurnAt(b, c[3])] = "interrupted"
             \/ LateOn(b, c[2].seq, r.id)
             \/ TurnAt(b, c[2]) # TurnAt(b, c[3])
      BY DEF CompletionSound
    <3>2. n[2] = c[2] /\ n[3] = c[3]
      OBVIOUS
    <3>3. /\ ChainSound(b2, b[r.id].workspace, b[r.id].session, r.delivery, n)
          /\ Entry(b2, r.delivery, n) = Entry(b, r.delivery, n)
          /\ TurnAt(b2, c[2]) = TurnAt(b, c[2])
          /\ TurnAt(b2, c[3]) = TurnAt(b, c[3])
          /\ TurnAt(b, c[3]) \in Turns
          /\ TurnAt(b, c[2]) \in Turns /\ c[2].seq \in DOMAIN b
      BY <1>1, <3>1, <3>2, ChainPersists
    <3>4. /\ RefersTo(b2, c[4], StopHook, b[r.id].workspace)
          /\ TurnAt(b2, c[4]) = TurnAt(b, c[4])
      BY <1>1, <3>1, RefersToPersists
    <3>5. s[TurnAt(b, c[3])] = "interrupted" =>
             s2[TurnAt(b, c[3])] = "interrupted"
      BY <1>5, <3>3 DEF HostEmits
    <3>6. Ended(s, TurnAt(b, c[2])) => Ended(s2, TurnAt(b, c[2]))
      BY <3>3, StagesStay DEF Ended
    <3>7. LateOn(b, c[2].seq, r.id) => LateOn(b2, c[2].seq, r.id)
      <4>1. r.id \in Nat /\ r.id =< r.id
        BY <1>1, <2>1, AppendedBus
      <4> QED
        BY <1>1, <3>3, <4>1, LatePersists
    <3> HIDE DEF b2, o, c, n
    <3>8. Entry(b2, r.delivery, n) \in o.emitted
      BY <1>2, <3>1, <3>3
    <3>9. /\ TurnAt(b2, c[2]) # TurnAt(b2, c[3]) => Ended(s2, TurnAt(b2, c[2]))
          /\ \/ TurnAt(b2, c[4]) = TurnAt(b2, c[3])
             \/ s2[TurnAt(b2, c[3])] = "interrupted"
             \/ LateOn(b2, c[2].seq, r.id)
             \/ TurnAt(b2, c[2]) # TurnAt(b2, c[3])
      BY <3>1, <3>3, <3>4, <3>5, <3>6, <3>7
    <3> QED
      BY <3>1, <3>3, <3>4, <3>8, <3>9, <2>2 DEF CompletionSound, c, n
  <2> HIDE DEF b2, o
  <2> QED
    BY <2>1, <2>2, <2>3, <2>4
<1>7. ASSUME Correlates(m, e)
      PROVE  Sound(HookReceipt(m, e)) /\ HookReceipt(m, e).id = e.seq
  <2> DEFINE d == Pending(m, e).marker.delivery
             c == HookChain(m, e)
             r == HookReceipt(m, e)
  <2>1. /\ ChainSound(b2, w, x, d, c) /\ c[3].seq = e.seq
    BY <1>7, HookChainSound
  <2>2. c \in RefSet \X RefSet \X RefSet
    <3>1. m.pending[w] \in PendingSet
      BY <1>1 DEF Memories
    <3>2. Pending(m, e).input \in RefSet /\ Pending(m, e).prompt \in RefSet
      BY <3>1, <1>7 DEF Correlates, Pending, PendingSet
    <3> QED
      BY <3>2, <1>4 DEF HookChain
  <2>3. d \in Deliveries
    BY <1>7 DEF Correlates
  <2>4. r = Receipt(d, c, e, "harness.prompt_accepted")
    BY DEF HookReceipt
  <2> HIDE DEF c, d, r, b2, o
  <2>5. /\ r.id = e.seq /\ r.delivery = d /\ r.proof.events = c
        /\ r.class = "harness.prompt_accepted"
    BY <2>4, ReceiptFields
  <2>6. EntrySound(b2, r)
    BY <2>1, <2>2, <2>5, <1>3 DEF EntrySound
  <2>7. Sound(r)
    BY <2>3, <2>4, <2>5, <2>6, <1>3
  <2> QED
    BY <2>5, <2>7 DEF r
<1>8. ASSUME Closes(m, e)
      PROVE  Sound(StopReceipt(m, e)) /\ StopReceipt(m, e).id = e.seq
  <2> DEFINE a == m.active[<< w, x >>]
             d == a.delivery
             n == a.events
             c == Append(n, Ref(e))
             r == StopReceipt(m, e)
  <2>1. x \in Sessions /\ a # None /\ e.name = StopHook
    BY <1>1, <1>8 DEF Closes, EventSet
  <2>2. a \in ActiveSet
    <3>1. m.active \in [Workspaces \X Sessions -> ActiveSet \cup {None}]
      BY <1>1 DEF Memories
    <3> QED
      BY <3>1, <2>1, <1>1
  <2>3. d \in Deliveries /\ n \in RefSet \X RefSet \X RefSet
    BY <2>2 DEF ActiveSet
  <2>4. n = << n[1], n[2], n[3] >> /\ c = << n[1], n[2], n[3], Ref(e) >>
    <3>1. \A q \in RefSet \X RefSet \X RefSet :
             /\ q = << q[1], q[2], q[3] >>
             /\ Append(q, Ref(e)) = << q[1], q[2], q[3], Ref(e) >>
      BY <1>4, TripleIsSequence
    <3> HIDE DEF n
    <3> QED
      BY <2>3, <3>1
  <2>5. /\ ChainSound(b, w, x, d, n)
        /\ Entry(b, d, n) \in m.emitted
        /\ TurnAt(b, n[2]) # TurnAt(b, n[3]) => Ended(s, TurnAt(b, n[2]))
        /\ TurnAt(b, n[2]) = TurnAt(b, n[3]) =>
              \/ s[TurnAt(b, n[3])] \in {"running", "interrupted"}
              \/ LateOn(b, n[2].seq, Len(b))
    BY <1>1, <2>1 DEF ActiveSound
  <2>6. /\ ChainSound(b2, w, x, d, n)
        /\ Entry(b2, d, n) = Entry(b, d, n)
        /\ TurnAt(b2, n[2]) = TurnAt(b, n[2])
        /\ TurnAt(b2, n[3]) = TurnAt(b, n[3])
        /\ TurnAt(b, n[3]) \in Turns
        /\ TurnAt(b, n[2]) \in Turns /\ n[2].seq \in DOMAIN b
    BY <1>1, <2>5, ChainPersists
  <2>7. /\ RefersTo(b2, Ref(e), StopHook, w) /\ Ref(e).seq = e.seq
        /\ b2[Ref(e).seq] = e
    BY <1>1, <2>1, LatestRefers
  <2>8. n[3].seq < e.seq
    <3>1. n[3].seq \in DOMAIN b
      BY <2>5 DEF ChainSound, RefersTo
    <3> QED
      BY <3>1, <1>3
  <2>9. \/ e.turn = TurnAt(b, n[3])
        \/ s2[TurnAt(b, n[3])] = "interrupted"
        \/ LateOn(b2, n[2].seq, e.seq)
        \/ TurnAt(b, n[2]) # TurnAt(b, n[3])
    <3> SUFFICES ASSUME TurnAt(b, n[2]) = TurnAt(b, n[3]),
                        e.turn # TurnAt(b, n[3]),
                        ~ LateOn(b2, n[2].seq, e.seq)
                 PROVE  s2[TurnAt(b, n[3])] = "interrupted"
      OBVIOUS
    <3> DEFINE t == TurnAt(b, n[3])
    <3>1. ~ LateOn(b, n[2].seq, Len(b))
      <4>1. Len(b) \in Nat /\ e.seq \in Nat /\ Len(b) =< e.seq
        BY <1>1
      <4> QED
        BY <1>1, <2>6, <4>1, LatePersists
    <3>2. s2[t] = s[t] /\ s[t] \in {"running", "interrupted"}
      BY <2>5, <2>6, <3>1 DEF HostEmits
    <3>3. ASSUME s[t] = "running" PROVE FALSE
      <4>1. PICK q : q = n[3]
        OBVIOUS
      <4>2. RefersTo(b, q, UserPromptSubmit, w)
        BY <2>5, <4>1 DEF ChainSound
      <4>3. Turn[t].workspace = w
        BY <4>1, <4>2 DEF BusInv, BusSound, RefersTo, TurnAt
      <4>4. InTurn(s, t)
        BY <3>3 DEF InTurn
      <4>5. InTurn(s2, t)
        BY <3>2, <3>3 DEF InTurn
      <4>6. CASE ~ Relayed(s, e)
        BY <1>1, <2>1, <2>6, <4>3, <4>5, <4>6, OnlyItsTurn, NamesDiffer
      <4>7. CASE Relayed(s, e)
        <5>1. PICK k : k = n[2]
          OBVIOUS
        <5>2. RefersTo(b, k, PromptSubmitted, w)
          BY <2>5, <5>1 DEF ChainSound
        <5>3. /\ k.seq \in DOMAIN b /\ b[k.seq].name = PromptSubmitted
              /\ b[k.seq].workspace = w /\ b[k.seq].turn = t
          BY <5>1, <5>2 DEF RefersTo, TurnAt
        <5>4. LateOn(b2, k.seq, e.seq)
          BY <1>1, <4>4, <4>7, <5>3, RelayedIsLate DEF BusInv
        <5> QED
          BY <5>1, <5>4
      <4> QED
        BY <4>6, <4>7
    <3> QED
      BY <3>2, <3>3
  <2>10. r = Receipt(d, c, e, "harness.turn_completed")
    BY DEF StopReceipt
  <2> HIDE DEF r, b2, o, c, n, d, a
  <2>11. /\ r.id = e.seq /\ r.delivery = d /\ r.proof.events = c
         /\ r.class = "harness.turn_completed"
    BY <2>10, ReceiptFields
  <2>12. c[1] = n[1] /\ c[2] = n[2] /\ c[3] = n[3] /\ c[4] = Ref(e)
    BY <2>4
  <2>13. << c[1], c[2], c[3] >> = n
    BY <2>4, <2>12
  <2>14. c \in RefSet \X RefSet \X RefSet \X RefSet
    <3>1. n[1] \in RefSet /\ n[2] \in RefSet /\ n[3] \in RefSet
      BY <2>3
    <3> QED
      BY <3>1, <2>4, <1>4
  <2>15. TurnAt(b2, c[4]) = e.turn
    BY <2>7, <2>12 DEF TurnAt
  <2>16. Entry(b2, d, n) \in o.emitted
    BY <2>5, <2>6, <1>2
  <2>17. /\ TurnAt(b2, c[2]) # TurnAt(b2, c[3]) => Ended(s2, TurnAt(b2, c[2]))
         /\ \/ TurnAt(b2, c[4]) = TurnAt(b2, c[3])
            \/ s2[TurnAt(b2, c[3])] = "interrupted"
            \/ LateOn(b2, c[2].seq, r.id)
            \/ TurnAt(b2, c[2]) # TurnAt(b2, c[3])
    <3>1. Ended(s, TurnAt(b, n[2])) => Ended(s2, TurnAt(b, n[2]))
      BY <2>6, StagesStay DEF Ended
    <3> QED
      BY <2>5, <2>6, <2>9, <2>11, <2>12, <2>15, <3>1
  <2>18. CompletionSound(b2, s2, o, r)
    BY <2>6, <2>7, <2>8, <2>11, <2>12, <2>13, <2>14, <2>16, <2>17, <1>3
       DEF CompletionSound
  <2>19. Sound(r)
    BY <2>3, <2>10, <2>11, <2>18, <1>3
  <2> QED
    BY <2>11, <2>19 DEF r
<1> HIDE DEF Sound
<1>9. \A r \in o.emitted : Sound(r) /\ (r \in m.emitted \/ r.id = e.seq)
  BY <1>2, <1>6, <1>7, <1>8 DEF EmittedAfter
<1>10. \A r, q \in o.emitted : r.id = q.id => r = q
  <2> SUFFICES ASSUME NEW r \in o.emitted, NEW q \in o.emitted, r.id = q.id
               PROVE  r = q
    OBVIOUS
  <2>1. CASE r \in m.emitted /\ q \in m.emitted
    BY <2>1, <1>1 DEF EmittedSound
  <2>2. CASE r \notin m.emitted \/ q \notin m.emitted
    <3>1. r.id = e.seq
      BY <2>2, <1>9
    <3>2. r \notin m.emitted /\ q \notin m.emitted
      BY <3>1, <1>3, <1>6
    <3>3. Correlates(m, e) => r = HookReceipt(m, e) /\ q = HookReceipt(m, e)
      BY <3>2, <1>2 DEF EmittedAfter
    <3>4. ~ Correlates(m, e) => r = StopReceipt(m, e) /\ q = StopReceipt(m, e)
      BY <3>2, <1>2 DEF EmittedAfter
    <3> QED
      BY <3>3, <3>4
  <2> QED
    BY <2>1, <2>2
<1> QED
  BY <1>9, <1>10 DEF EmittedSound, Sound

\* An event of the host keeps the invariants of the bus.
LEMMA BusInvStep ==
    ASSUME NEW b, NEW s, NEW s2, NEW e, NEW m, BusInv(b, s, m),
           HostEmits(b, s, s2, e)
    PROVE  BusInv(Append(b, e), s2, Observed(m, e))
<1>1. /\ b \in Seq(EventSet) /\ e \in EventSet /\ m \in Memories
      /\ e.seq = Len(b) + 1
      /\ BusSound(b) /\ StagesSound(b, s) /\ PendingSound(b, m)
      /\ ChainsSound(s, m)
  BY DEF BusInv, BusSound, HostEmits
<1>2. Observed(m, e) \in Memories
  BY <1>1, ObservedType
<1>3. BusSound(Append(b, e)) /\ StagesSound(Append(b, e), s2)
  BY <1>1, BusStep
<1>4. PendingSound(Append(b, e), Observed(m, e))
  BY <1>1, PendingStep
<1>5. ChainsSound(s2, Observed(m, e))
  BY <1>1, ChainsStep
<1>6. ActiveSound(Append(b, e), s2, Observed(m, e))
  BY ActiveStep
<1>7. StopAwaited(Append(b, e), s2, Observed(m, e))
  BY StopStep
<1>8. EmittedSound(Append(b, e), s2, Observed(m, e))
  BY EmittedStep
<1> QED
  BY <1>2, <1>3, <1>4, <1>5, <1>6, <1>7, <1>8 DEF BusInv

\* A turn that is interrupted gives no event.
LEMMA InterruptStep ==
    ASSUME NEW b, NEW s, NEW m, BusInv(b, s, m), NEW t \in Turns,
           s[t] = "running"
    PROVE  BusInv(b, [s EXCEPT ![t] = "interrupted"], m)
<1> DEFINE s2 == [s EXCEPT ![t] = "interrupted"]
<1>1. s \in [Turns -> Stages]
  BY DEF BusInv, StagesSound
<1>2. /\ s2 \in [Turns -> Stages] /\ s2[t] = "interrupted"
      /\ \A u \in Turns : u # t => s2[u] = s[u]
  BY <1>1 DEF Stages
<1> HIDE DEF s2
<1>3. \A u \in Turns : InTurn(s2, u) => InTurn(s, u)
  BY <1>2 DEF InTurn
<1>4. \A u \in Turns : s[u] \in {"running", "interrupted"} =>
                          s2[u] \in {"running", "interrupted"}
  BY <1>2
<1>5. \A u \in Turns : s[u] = "interrupted" => s2[u] = "interrupted"
  BY <1>2
<1>6. \A u \in Turns : Ended(s, u) => Ended(s2, u)
  BY <1>2 DEF Ended
<1>7. BusSound(b) /\ b \in Seq(EventSet)
  BY DEF BusInv, BusSound
<1>8. \A i \in DOMAIN b : b[i].turn \in Turns
  <2>1. \A i \in DOMAIN b : b[i] \in EventSet
    BY <1>7
  <2> QED
    BY <2>1 DEF EventSet
<1>9. StagesSound(b, s2)
  <2>1. StagesSound(b, s)
    BY DEF BusInv
  <2>2. ASSUME NEW i \in DOMAIN b
        PROVE  /\ b[i].name = UserPromptSubmit /\ b[i].phase = "completed" =>
                     s2[b[i].turn] \in {"running", "stopped", "interrupted"}
               /\ b[i].name = StopHook => s2[b[i].turn] = "stopped"
               /\ b[i].name = PromptSubmitted =>
                     s2[b[i].turn] \notin {"waiting", "injected"}
    <3>1. b[i].turn \in Turns
      BY <1>8
    <3>2. s[b[i].turn] = "stopped" => s2[b[i].turn] = "stopped"
      BY <3>1, <1>2
    <3> QED
      BY <2>1, <3>1, <3>2, <1>2 DEF StagesSound
  <2>3. StopsPrecede(b, s2)
    <3>1. \A u \in Turns : s2[u] = "stopped" => s[u] = "stopped"
      BY <1>2
    <3> QED
      BY <2>1, <3>1, <1>3, <1>8 DEF StagesSound, StopsPrecede
  <2> QED
    BY <2>1, <2>2, <2>3, <1>2, <1>3 DEF StagesSound
<1>10. ChainsSound(s2, m)
  BY <1>3 DEF BusInv, ChainsSound
<1>11. StopAwaited(b, s2, m)
  BY <1>3 DEF BusInv, StopAwaited
<1>12. ActiveSound(b, s2, m)
  <2> SUFFICES ASSUME NEW w \in Workspaces, NEW x \in Sessions,
                      m.active[<< w, x >>] # None
               PROVE  LET a == m.active[<< w, x >>]
                      IN  /\ ChainSound(b, w, x, a.delivery, a.events)
                          /\ Entry(b, a.delivery, a.events) \in m.emitted
                          /\ TurnAt(b, a.events[2]) # TurnAt(b, a.events[3]) =>
                                Ended(s2, TurnAt(b, a.events[2]))
                          /\ TurnAt(b, a.events[2]) = TurnAt(b, a.events[3]) =>
                                \/ s2[TurnAt(b, a.events[3])]
                                      \in {"running", "interrupted"}
                                \/ LateOn(b, a.events[2].seq, Len(b))
    BY DEF ActiveSound
  <2> DEFINE a == m.active[<< w, x >>]
  <2>1. /\ ChainSound(b, w, x, a.delivery, a.events)
        /\ Entry(b, a.delivery, a.events) \in m.emitted
        /\ TurnAt(b, a.events[2]) # TurnAt(b, a.events[3]) =>
              Ended(s, TurnAt(b, a.events[2]))
        /\ TurnAt(b, a.events[2]) = TurnAt(b, a.events[3]) =>
              \/ s[TurnAt(b, a.events[3])] \in {"running", "interrupted"}
              \/ LateOn(b, a.events[2].seq, Len(b))
    BY DEF BusInv, ActiveSound
  <2>2. TurnAt(b, a.events[3]) \in Turns /\ TurnAt(b, a.events[2]) \in Turns
    BY <2>1, <1>8 DEF ChainSound, RefersTo, TurnAt
  <2> QED
    BY <2>1, <2>2, <1>4, <1>6
<1>13. EmittedSound(b, s2, m)
  <2>1. ASSUME NEW r \in m.emitted, CompletionSound(b, s, m, r)
        PROVE  CompletionSound(b, s2, m, r)
    <3> DEFINE c == r.proof.events
    <3>1. ChainSound(b, b[r.id].workspace, b[r.id].session, r.delivery,
                     << c[1], c[2], c[3] >>)
      BY <2>1 DEF CompletionSound
    <3>2. TurnAt(b, c[3]) \in Turns /\ TurnAt(b, c[2]) \in Turns
      BY <3>1, <1>8 DEF ChainSound, RefersTo, TurnAt
    <3> QED
      BY <2>1, <3>2, <1>5, <1>6 DEF CompletionSound
  <2> QED
    BY <2>1 DEF BusInv, EmittedSound
<1>14. BusInv(b, s2, m)
  BY <1>9, <1>10, <1>11, <1>12, <1>13 DEF BusInv
<1> QED
  BY <1>14 DEF s2
-----------------------------------------------------------------------------
(***************************************************************************)
(* Replaying a prefix of the bus                                           *)
(***************************************************************************)
LEMMA LeastNumber ==
    ASSUME NEW T, T \subseteq Nat, T # {}
    PROVE  \E x \in T : \A y \in T : x =< y
<1> DEFINE R == OpToRel(<, Nat)
<1>1. IsWellFoundedOn(R, Nat)
  BY NatLessThanWellFounded
<1>2. \A x, y \in Nat : << x, y >> \in R <=> x < y
  BY DEF OpToRel
<1> HIDE DEF R
<1>3. PICK x \in T : \A y \in T : ~ (<< y, x >> \in R)
  BY <1>1, WFMin
<1>4. ASSUME NEW y \in T PROVE x =< y
  <2>1. x \in Nat /\ y \in Nat /\ ~ (y < x)
    BY <1>2, <1>3
  <2> QED
    BY <2>1
<1> QED
  BY <1>4

\* The memories of a producer after each of the first n events of bus b.
Afters(b, n) ==
    LET after[i \in 0..n] ==
            IF i = 0 THEN {NewMemory}
            ELSE {Observed(m, b[i]) : m \in after[i - 1]}
    IN  after

\* Replay and Afters are the same recursion.
LEMMA ReplayIsAfters == Replay(cursor) = Afters(bus, cursor)[cursor]
  BY DEF Replay, Afters

\* The memories that those in S become with event e.
ObservedAll(S, e) == {Observed(m, e) : m \in S}

IsAfters(f, b, n) ==
    f = [i \in 0..n |-> IF i = 0 THEN {NewMemory}
                        ELSE ObservedAll(f[i - 1], b[i])]

\* There is a function that satisfies the recursion, by a least number
\* without one.
LEMMA AftersExists ==
    ASSUME NEW b, NEW n \in Nat
    PROVE  \E f : IsAfters(f, b, n)
<1> SUFFICES ASSUME ~ \E f : IsAfters(f, b, n)
             PROVE  FALSE
  OBVIOUS
<1> DEFINE T == {k \in Nat : ~ \E f : IsAfters(f, b, k)}
<1>1. PICK k \in T : \A j \in T : k =< j
  <2>1. T \subseteq Nat /\ T # {}
    OBVIOUS
  <2> QED
    BY <2>1, LeastNumber
<1>2. k \in Nat /\ ~ \E f : IsAfters(f, b, k)
  BY <1>1
<1>3. CASE k = 0
  <2> DEFINE f == [i \in 0..k |-> {NewMemory}]
  <2>1. \A i \in 0..k : i = 0
    BY <1>3
  <2>2. IsAfters(f, b, k)
    BY <2>1 DEF IsAfters
  <2> QED
    BY <2>2, <1>2
<1>4. CASE k # 0
  <2>1. k - 1 \in Nat /\ k - 1 \notin T
    BY <1>1, <1>2, <1>4
  <2>2. PICK g : IsAfters(g, b, k - 1)
    BY <2>1
  <2> DEFINE f == [i \in 0..k |-> IF i < k THEN g[i]
                                  ELSE ObservedAll(g[i - 1], b[i])]
  <2>3. \A i \in 0..(k - 1) :
           g[i] = IF i = 0 THEN {NewMemory} ELSE ObservedAll(g[i - 1], b[i])
    BY <2>2 DEF IsAfters
  <2>4. \A i \in 0..k : i # 0 => f[i - 1] = g[i - 1]
    BY <1>2
  <2>5. \A i \in 0..k :
           f[i] = IF i = 0 THEN {NewMemory} ELSE ObservedAll(f[i - 1], b[i])
    <3> SUFFICES ASSUME NEW i \in 0..k
                 PROVE  f[i] = IF i = 0 THEN {NewMemory}
                               ELSE ObservedAll(f[i - 1], b[i])
      OBVIOUS
    <3>1. CASE i < k
      <4>1. f[i] = g[i] /\ i \in 0..(k - 1)
        BY <3>1, <1>2
      <4>2. i # 0 => f[i - 1] = g[i - 1]
        BY <2>4
      <4> HIDE DEF f
      <4> QED
        BY <4>1, <4>2, <2>3
    <3>2. CASE i = k
      BY <3>2, <2>4, <1>2, <1>4
    <3> QED
      BY <3>1, <3>2, <1>2
  <2>6. IsAfters(f, b, k)
    <3>1. f = [i \in 0..k |-> f[i]]
      OBVIOUS
    <3> HIDE DEF f
    <3> QED
      BY <3>1, <2>5 DEF IsAfters
  <2> QED
    BY <2>6, <1>2
<1> QED
  BY <1>3, <1>4

\* So Afters satisfies it.
LEMMA AftersDefined ==
    ASSUME NEW b, NEW n \in Nat
    PROVE  IsAfters(Afters(b, n), b, n)
<1>1. Afters(b, n) = CHOOSE f : IsAfters(f, b, n)
  BY DEF Afters, IsAfters, ObservedAll
<1> QED
  BY <1>1, AftersExists

\* Buses that agree on their first n events are replayed alike up to there,
\* by a least event at which they would differ.
LEMMA AftersAgree ==
    ASSUME NEW b, NEW c, NEW n \in Nat, NEW k \in Nat, n =< k,
           \A i \in 1..n : b[i] = c[i]
    PROVE  Afters(b, n)[n] = Afters(c, k)[n]
<1>1. PICK f, g : /\ f = Afters(b, n) /\ g = Afters(c, k)
                  /\ IsAfters(f, b, n) /\ IsAfters(g, c, k)
  BY AftersDefined
<1> SUFFICES ASSUME f[n] # g[n]
             PROVE  FALSE
  BY <1>1
<1> DEFINE T == {i \in 0..n : f[i] # g[i]}
<1>2. PICK x \in T : \A y \in T : x =< y
  <2>1. T \subseteq Nat /\ T # {}
    OBVIOUS
  <2> QED
    BY <2>1, LeastNumber
<1>3. x \in 0..n /\ x \in 0..k /\ f[x] # g[x]
  BY <1>2
<1>4. /\ f[x] = IF x = 0 THEN {NewMemory} ELSE ObservedAll(f[x - 1], b[x])
      /\ g[x] = IF x = 0 THEN {NewMemory} ELSE ObservedAll(g[x - 1], c[x])
  BY <1>1, <1>3 DEF IsAfters
<1>5. x # 0
  BY <1>3, <1>4
<1>6. x - 1 \in 0..n /\ x - 1 \notin T
  BY <1>2, <1>3, <1>5
<1>7. f[x - 1] = g[x - 1] /\ b[x] = c[x]
  BY <1>3, <1>5, <1>6
<1> QED
  BY <1>3, <1>4, <1>5, <1>7

\* What is replayed after no event, and after one more.
LEMMA AftersStep ==
    ASSUME NEW b
    PROVE  /\ Afters(b, 0)[0] = {NewMemory}
           /\ \A n \in Nat : Afters(b, n + 1)[n + 1] =
                                ObservedAll(Afters(b, n)[n], b[n + 1])
<1>1. Afters(b, 0)[0] = {NewMemory}
  <2>1. IsAfters(Afters(b, 0), b, 0)
    BY AftersDefined
  <2> QED
    BY <2>1 DEF IsAfters
<1>2. ASSUME NEW n \in Nat
      PROVE  Afters(b, n + 1)[n + 1] = ObservedAll(Afters(b, n)[n], b[n + 1])
  <2> DEFINE f == Afters(b, n)
             g == Afters(b, n + 1)
  <2>1. n + 1 \in Nat /\ IsAfters(f, b, n) /\ IsAfters(g, b, n + 1)
    BY AftersDefined
  <2> HIDE DEF f, g
  <2>2. f[n] = g[n]
    <3>1. n =< n + 1 /\ n \in 0..n /\ \A i \in 1..n : b[i] = b[i]
      OBVIOUS
    <3> QED
      BY <2>1, <3>1, AftersAgree DEF f, g
  <2>3. g[n + 1] = ObservedAll(g[n], b[n + 1])
    <3>1. n + 1 \in 0..(n + 1) /\ n + 1 # 0 /\ n + 1 - 1 = n
      OBVIOUS
    <3> QED
      BY <2>1, <3>1 DEF IsAfters
  <2> QED
    BY <2>2, <2>3 DEF f, g
<1> QED
  BY <1>1, <1>2

\* Events that come later do not matter.
LEMMA AftersPersist ==
    ASSUME NEW b \in Seq(EventSet), NEW e \in EventSet, NEW n \in 0..Len(b)
    PROVE  Afters(Append(b, e), n)[n] = Afters(b, n)[n]
<1>1. n \in Nat /\ n =< n /\ \A i \in 1..n : Append(b, e)[i] = b[i]
  OBVIOUS
<1> QED
  BY <1>1, AftersAgree
-----------------------------------------------------------------------------
(***************************************************************************)
(* The inductive invariant holds initially                                 *)
(***************************************************************************)
LEMMA NewMemorySound ==
    /\ NewMemory \in Memories
    /\ NewMemory.emitted = {}
    /\ \A b : PendingSound(b, NewMemory)
    /\ BusInv(<<>>, [t \in Turns |-> "waiting"], NewMemory)
<1> DEFINE m == NewMemory
           s == [t \in Turns |-> "waiting"]
<1>1. NewChain \in ChainSet /\ NewChain.accepted = {} /\ NewChain.signature = None
  BY NoneIsASignature DEF NewChain, ChainSet
<1>2. NoPending \in PendingSet /\ NoPending.input = None
      /\ NoPending.prompt = None
  BY DEF NoPending, PendingSet, Markers
<1>3. /\ m.chains = [w \in Workspaces |-> NewChain]
      /\ m.pending = [w \in Workspaces |-> NoPending]
      /\ m.active = [k \in Workspaces \X Sessions |-> None]
      /\ m.emitted = {}
  BY DEF NewMemory
<1>4. m \in Memories
  <2>1. m = [chains |-> m.chains, pending |-> m.pending,
             active |-> m.active, emitted |-> m.emitted]
    BY DEF NewMemory
  <2>2. /\ m.chains \in [Workspaces -> ChainSet]
        /\ m.pending \in [Workspaces -> PendingSet]
        /\ m.active \in [Workspaces \X Sessions -> ActiveSet \cup {None}]
        /\ m.emitted \in SUBSET ReceiptSet
    BY <1>1, <1>2, <1>3
  <2> HIDE DEF m
  <2> QED
    BY <2>1, <2>2 DEF Memories
<1> HIDE DEF m
<1>5. \A b : PendingSound(b, m)
  BY <1>2, <1>3 DEF PendingSound
<1>6. BusSound(<<>>)
  <2>1. <<>> \in Seq(EventSet) /\ DOMAIN <<>> = {}
    OBVIOUS
  <2> QED
    BY <2>1 DEF BusSound
<1>7. \A t \in Turns : s[t] = "waiting" /\ ~ InTurn(s, t)
  BY DEF InTurn
<1>8. StagesSound(<<>>, s)
  <2>1. s \in [Turns -> Stages] /\ DOMAIN <<>> = {}
    BY DEF Stages
  <2> HIDE DEF s
  <2> QED
    BY <2>1, <1>7 DEF StagesSound, StopsPrecede
<1> HIDE DEF s
<1>9. ChainsSound(s, m)
  BY <1>1, <1>2, <1>3, <1>7 DEF ChainsSound, Marked
<1>10. ActiveSound(<<>>, s, m)
  BY <1>3 DEF ActiveSound
<1>11. StopAwaited(<<>>, s, m)
  BY <1>7 DEF StopAwaited
<1>12. EmittedSound(<<>>, s, m)
  BY <1>3 DEF EmittedSound
<1>13. BusInv(<<>>, s, m)
  BY <1>4, <1>5, <1>6, <1>8, <1>9, <1>10, <1>11, <1>12 DEF BusInv
<1> QED
  BY <1>3, <1>4, <1>5, <1>13 DEF m, s

\* The invariant holds initially.
LEMMA Initially == Init => IInv
<1> SUFFICES ASSUME Init PROVE IInv
  OBVIOUS
<1>1. /\ bus = <<>> /\ stage = [t \in Turns |-> "waiting"] /\ relays = 0
      /\ pc = "down" /\ cursor = 0 /\ memory = NewMemory
      /\ steady = NewMemory /\ sent = {} /\ faults = 0 /\ Len(bus) = 0
  BY DEF Init
<1>2. Whole = NewMemory
  BY <1>1 DEF Whole
<1>3. Types
  BY <1>1, BoundsAssumption DEF Types
<1>4. Replay(cursor) = {steady}
  BY <1>1, ReplayIsAfters, AftersStep
<1>5. Rebuilt
  BY <1>1, <1>4, NewMemorySound DEF Rebuilt
<1>6. Remembered
  BY <1>1 DEF Remembered, MemoryIsReplay
<1>7. SentSound
  BY <1>1, <1>2, NewMemorySound DEF SentSound
<1>8. BusInv(bus, stage, Whole)
  BY <1>1, <1>2, NewMemorySound
<1> QED
  BY <1>3, <1>5, <1>6, <1>7, <1>8 DEF IInv
-----------------------------------------------------------------------------
(***************************************************************************)
(* The steps of the host                                                   *)
(***************************************************************************)
\* What the host finds when it waits for the resident.
LEMMA AtRest ==
    ASSUME IInv, CaughtUp
    PROVE  /\ Whole = steady /\ cursor = Len(bus) /\ pc = "up"
           /\ Len(bus) \in Nat
           /\ bus \in Seq(EventSet)
           /\ memory = steady
           /\ BusInv(bus, stage, steady)
<1>1. BusInv(bus, stage, Whole) /\ cursor = Len(bus) /\ pc = "up"
  BY DEF IInv, CaughtUp
<1>2. bus \in Seq(EventSet)
  BY <1>1 DEF BusInv, BusSound
<1>3. Len(bus) \in Nat
  BY <1>2
<1>4. Whole = steady
  BY <1>1, <1>3 DEF Whole
<1>5. memory = steady
  BY <1>1 DEF IInv, Remembered, MemoryIsReplay
<1> QED
  BY <1>1, <1>2, <1>3, <1>4, <1>5

\* An event of the host keeps the invariant.
LEMMA HostStep ==
    ASSUME IInv, NEW t \in Turns, NEW name, NEW phase, Emit(t, name, phase),
           HostEmits(bus, stage, stage', Event(t, name, phase)),
           relays' \in 0..MaxRelays
    PROVE  IInv'
<1> DEFINE e == Event(t, name, phase)
<1>1. /\ CaughtUp /\ bus' = Append(bus, e)
      /\ pc' = pc /\ cursor' = cursor /\ memory' = memory
      /\ steady' = steady /\ sent' = sent /\ faults' = faults
  BY DEF Emit, resident
<1>2. /\ Whole = steady /\ cursor = Len(bus) /\ pc = "up"
      /\ Len(bus) \in Nat /\ bus \in Seq(EventSet) /\ memory = steady
      /\ BusInv(bus, stage, steady)
  BY <1>1, AtRest
<1>3. PICK v : v = e
  OBVIOUS
<1>4. v \in EventSet /\ v.seq = Len(bus) + 1
  BY <1>3 DEF HostEmits
<1>5. /\ Len(bus') = Len(bus) + 1 /\ bus'[Len(bus) + 1] = v
      /\ \A i \in 1..Len(bus) : bus'[i] = bus[i]
  BY <1>1, <1>2, <1>3, <1>4
<1>6. Whole' = Observed(steady, v)
  BY <1>1, <1>2, <1>5 DEF Whole
<1>7. Types'
  BY <1>1, <1>2, <1>5 DEF Types, IInv
<1>8. Rebuilt'
  <2>1. steady \in Memories /\ PendingSound(bus, steady)
        /\ Replay(cursor) = {steady}
        /\ (cursor > 0 => Observed(steady, bus[cursor]) = steady)
    BY DEF IInv, Rebuilt
  <2>2. PendingSound(bus', steady)
    BY <2>1, <1>1, <1>2, <1>3, <1>4, PendingStep
  <2>3. Replay(cursor)' = Afters(bus', cursor')[cursor']
    BY DEF Replay, Afters
  <2>4. Afters(bus', cursor)[cursor] = Afters(bus, cursor)[cursor]
    BY <1>1, <1>2, <1>3, <1>4, AftersPersist
  <2>5. Replay(cursor)' = {steady}
    BY <2>1, <2>3, <2>4, <1>1, ReplayIsAfters
  <2>6. cursor > 0 => bus'[cursor] = bus[cursor]
    BY <1>2, <1>5
  <2> QED
    BY <2>1, <2>2, <2>5, <2>6, <1>1 DEF Rebuilt
<1>9. Remembered'
  BY <1>1, <1>2 DEF Remembered, MemoryIsReplay
<1>10. SentSound'
  <2>1. steady \in Memories
    BY DEF IInv, Rebuilt
  <2>2. steady.emitted \subseteq Observed(steady, v).emitted
    BY <2>1, <1>4, EmittedGrows
  <2> QED
    BY <2>2, <1>1, <1>2, <1>6 DEF IInv, SentSound
<1>11. BusInv(bus', stage', Whole')
  BY <1>1, <1>2, <1>3, <1>6, BusInvStep
<1> QED
  BY <1>7, <1>8, <1>9, <1>10, <1>11 DEF IInv

\* The events that the host makes.
LEMMA EventFields ==
    ASSUME NEW t \in Turns, NEW name \in Names,
           NEW phase \in {"completed", "received"}, Len(bus) \in Nat
    PROVE  LET e == Event(t, name, phase)
           IN  /\ e \in EventSet /\ e.seq = Len(bus) + 1 /\ e.turn = t
               /\ e.name = name /\ e.phase = phase
               /\ e.workspace = Turn[t].workspace
               /\ e.session = IF name \in Hooks THEN Turn[t].session ELSE None
               /\ e.marker = IF name = PromptSubmitted
                             THEN Turn[t].marker ELSE None
<1>1. /\ Turn[t].workspace \in Workspaces
      /\ Turn[t].session \in Sessions \cup {None}
      /\ Turn[t].marker \in Markers /\ None \in Markers
  BY DEF Workspaces, Sessions, Markers
<1>2. Len(bus) + 1 \in Nat
  OBVIOUS
<1> QED
  BY <1>1, <1>2 DEF Event, EventSet

\* The stages after one of them is set.
LEMMA ResetStage ==
    ASSUME NEW s \in [Turns -> Stages], NEW t \in Turns, NEW x \in Stages
    PROVE  /\ [s EXCEPT ![t] = x] \in [Turns -> Stages]
           /\ [s EXCEPT ![t] = x][t] = x
           /\ \A u \in Turns : u # t => [s EXCEPT ![t] = x][u] = s[u]
  OBVIOUS

\* The steps of the host that give an event.
Emission(t) == Inject(t) \/ Prompt(t) \/ Accept(t) \/ Stop(t) \/ Relay(t)

\* Each of them adds one event and takes its turn where HostEmits says.
LEMMA EmissionEvent ==
    ASSUME IInv, NEW t \in Turns, Emission(t)
    PROVE  /\ relays' \in 0..MaxRelays
           /\ \E name, phase :
                 /\ Emit(t, name, phase)
                 /\ HostEmits(bus, stage, stage', Event(t, name, phase))
<1> DEFINE Emitted ==
        /\ relays' \in 0..MaxRelays
        /\ \E name, phase :
              /\ Emit(t, name, phase)
              /\ HostEmits(bus, stage, stage', Event(t, name, phase))
<1>1. CaughtUp
  BY DEF Emission, Inject, Prompt, Accept, Stop, Relay, Emit
<1>2. /\ Len(bus) \in Nat /\ bus \in Seq(EventSet)
      /\ stage \in [Turns -> Stages] /\ StagesSound(bus, stage)
  BY <1>1, AtRest DEF BusInv, StagesSound
<1>3. /\ InputSent \in Names /\ PromptSubmitted \in Names
      /\ UserPromptSubmit \in Names /\ StopHook \in Names
      /\ {"waiting", "injected", "prompted", "running", "stopped"}
            \subseteq Stages
  BY DEF Names, Stages
<1>4. relays \in 0..MaxRelays
  BY DEF IInv, Types
<1>5. \A u \in Turns : Running(u) <=> InTurn(stage, u)
  BY DEF Running, InTurn
<1>6. ASSUME NEW name \in Names, ~ Received(Event(t, name, "completed")),
             NEW x \in Stages, stage' = [stage EXCEPT ![t] = x],
             Emit(t, name, "completed"), UNCHANGED relays,
             \/ name = InputSent /\ stage[t] = "waiting" /\ x = "injected"
             \/ /\ name = PromptSubmitted /\ x = "prompted"
                /\ stage[t] \in {"waiting", "injected"}
                /\ Resting(stage, Turn[t].workspace)
             \/ /\ name = UserPromptSubmit /\ x = "running"
                /\ InTurn(stage, t)
             \/ /\ name = StopHook /\ x = "stopped" /\ stage[t] = "running"
      PROVE  Emitted
  <2> DEFINE e == Event(t, name, "completed")
  <2>1. /\ e \in EventSet /\ e.seq = Len(bus) + 1 /\ e.turn = t
        /\ e.name = name /\ e.phase = "completed"
        /\ e.workspace = Turn[t].workspace
        /\ e.session = IF name \in Hooks THEN Turn[t].session ELSE None
        /\ e.marker = IF name = PromptSubmitted THEN Turn[t].marker ELSE None
    BY <1>2, EventFields
  <2>2. /\ stage' \in [Turns -> Stages] /\ stage'[t] = x
        /\ \A u \in Turns : u # t => stage'[u] = stage[u]
    BY <1>2, <1>6, ResetStage
  <2>3. ~ Received(e)
    BY <1>6
  <2> HIDE DEF e
  <2>4. HostEmits(bus, stage, stage', e)
    BY <2>1, <2>2, <2>3, <1>6 DEF HostEmits
  <2> QED
    BY <2>4, <1>4, <1>6 DEF e
<1>7. \A name \in Names : ~ Received(Event(t, name, "completed"))
  BY <1>2, EventFields DEF Received
<1>8. CASE Inject(t)
  BY <1>3, <1>6, <1>7, <1>8 DEF Inject, MayBegin
<1>9. CASE Prompt(t)
  <2>1. stage[t] \in {"waiting", "injected"}
    BY <1>9 DEF Prompt, MayBegin
  <2>2. Resting(stage, Turn[t].workspace)
    BY <1>9, <1>5 DEF Prompt, Resting
  <2> QED
    BY <2>1, <2>2, <1>3, <1>6, <1>7, <1>9 DEF Prompt
<1>10. CASE Accept(t)
  <2>1. InTurn(stage, t)
    BY <1>10 DEF Accept, InTurn
  <2> QED
    BY <2>1, <1>3, <1>6, <1>7, <1>10 DEF Accept
<1>11. CASE Stop(t)
  BY <1>3, <1>6, <1>7, <1>11 DEF Stop
<1>12. CASE Relay(t)
  <2>1. relays' \in 0..MaxRelays /\ stage' = stage
    BY <1>4, <1>12, BoundsAssumption DEF Relay
  <2>2. ASSUME NEW name \in Names, NEW phase \in {"completed", "received"},
               Emit(t, name, phase),
               \/ name = PromptSubmitted /\ InTurn(stage, t)
               \/ /\ name = UserPromptSubmit /\ InTurn(stage, t)
                  /\ phase = "completed" => stage[t] = "running"
               \/ /\ name = StopHook /\ phase = "completed"
                  /\ stage[t] = "stopped"
        PROVE  Emitted
    <3> DEFINE e == Event(t, name, phase)
    <3>1. /\ e \in EventSet /\ e.seq = Len(bus) + 1 /\ e.turn = t
          /\ e.name = name /\ e.phase = phase
          /\ e.workspace = Turn[t].workspace
          /\ e.session = IF name \in Hooks THEN Turn[t].session ELSE None
          /\ e.marker = IF name = PromptSubmitted
                        THEN Turn[t].marker ELSE None
      BY <1>2, EventFields
    <3> HIDE DEF e
    <3>2. /\ name = UserPromptSubmit =>
                stage[t] = IF Received(e) THEN stage[t] ELSE "running"
          /\ name = StopHook => ~ Received(e)
      BY <3>1, <2>2, NamesDiffer DEF Received
    <3>3. HostEmits(bus, stage, stage', e)
      BY <3>1, <3>2, <2>1, <2>2, <1>2 DEF HostEmits
    <3> QED
      BY <3>3, <2>1, <2>2 DEF e
  <2>3. CASE /\ Running(t)
             /\ \E e \in ToSet(bus) :
                   /\ e.turn = t /\ e.name # InputSent
                   /\ Emit(t, e.name, e.phase)
    <3>1. PICK e \in ToSet(bus) : /\ e.turn = t /\ e.name # InputSent
                                  /\ Emit(t, e.name, e.phase)
      BY <2>3
    <3>2. PICK i \in DOMAIN bus : e = bus[i]
      BY <3>1 DEF ToSet
    <3>3. e.name \in Names /\ e.phase \in {"completed", "received"}
      <4>1. bus[i] \in EventSet
        BY <1>2
      <4> QED
        BY <4>1, <3>2 DEF EventSet
    <3>4. /\ e.name = UserPromptSubmit /\ e.phase = "completed" =>
                stage[t] \in {"running", "stopped", "interrupted"}
          /\ e.name = StopHook => stage[t] = "stopped"
      BY <3>1, <3>2, <1>2 DEF StagesSound
    <3>5. stage[t] \in {"prompted", "running"} /\ InTurn(stage, t)
      BY <2>3, <1>5 DEF Running
    <3>6. \/ e.name = PromptSubmitted
          \/ e.name = UserPromptSubmit
      BY <3>1, <3>3, <3>4, <3>5 DEF Names
    <3> QED
      BY <3>1, <3>3, <3>4, <3>5, <3>6, <2>2
  <2>4. CASE Running(t) /\ Emit(t, UserPromptSubmit, "received")
    BY <2>2, <2>4, <1>3, <1>5
  <2>5. CASE stage[t] = "stopped" /\ Emit(t, StopHook, "completed")
    BY <2>2, <2>5, <1>3
  <2> QED
    BY <2>3, <2>4, <2>5, <1>12 DEF Relay
<1> QED
  BY <1>8, <1>9, <1>10, <1>11, <1>12 DEF Emission

LEMMA EmissionSteps ==
    ASSUME IInv, NEW t \in Turns, Emission(t)
    PROVE  IInv'
  BY EmissionEvent, HostStep

\* An interrupt keeps the invariant.
LEMMA InterruptKeeps ==
    ASSUME IInv, NEW t \in Turns, Interrupt(t)
    PROVE  IInv'
<1>1. /\ CaughtUp /\ stage[t] = "running"
      /\ stage' = [stage EXCEPT ![t] = "interrupted"]
      /\ bus' = bus /\ relays' = relays /\ pc' = pc /\ cursor' = cursor
      /\ memory' = memory /\ steady' = steady /\ sent' = sent
      /\ faults' = faults
  BY DEF Interrupt, resident
<1>2. Whole' = Whole
  BY <1>1 DEF Whole
<1>3. BusInv(bus', stage', Whole')
  <2>1. BusInv(bus, stage, Whole)
    BY DEF IInv
  <2> QED
    BY <2>1, <1>1, <1>2, InterruptStep
<1>4. Replay(cursor)' = Replay(cursor)
  BY <1>1 DEF Replay
<1>5. Types' /\ Rebuilt' /\ Remembered' /\ SentSound'
  BY <1>1, <1>2, <1>4
     DEF IInv, Types, Rebuilt, Remembered, MemoryIsReplay, SentSound
<1> QED
  BY <1>3, <1>5 DEF IInv
-----------------------------------------------------------------------------
(***************************************************************************)
(* The steps of the resident                                               *)
(***************************************************************************)
\* What the proofs about its steps start from.
LEMMA ResidentFacts ==
    ASSUME IInv
    PROVE  /\ bus \in Seq(EventSet) /\ Len(bus) \in Nat /\ cursor \in Nat
           /\ DOMAIN bus = 1..Len(bus)
           /\ cursor =< Len(bus) /\ Len(bus) =< cursor + 1
           /\ steady \in Memories /\ PendingSound(bus, steady)
           /\ Replay(cursor) = {steady}
           /\ cursor > 0 => Observed(steady, bus[cursor]) = steady
           /\ cursor < Len(bus) => /\ bus[cursor + 1] \in EventSet
                                   /\ Whole = Observed(steady, bus[cursor + 1])
           /\ cursor = Len(bus) => Whole = steady
           /\ steady.emitted \subseteq Whole.emitted
           /\ BusInv(bus, stage, Whole)
<1>1. BusInv(bus, stage, Whole) /\ bus \in Seq(EventSet)
  BY DEF IInv, BusInv, BusSound
<1>2. /\ Len(bus) \in Nat /\ DOMAIN bus = 1..Len(bus)
      /\ \A i \in DOMAIN bus : bus[i] \in EventSet
  BY <1>1
<1>3. cursor \in Nat /\ cursor =< Len(bus) /\ Len(bus) =< cursor + 1
  BY <1>2 DEF IInv, Types
<1>4. /\ steady \in Memories /\ PendingSound(bus, steady)
      /\ Replay(cursor) = {steady}
      /\ cursor > 0 => Observed(steady, bus[cursor]) = steady
  BY DEF IInv, Rebuilt
<1>5. cursor < Len(bus) => /\ bus[cursor + 1] \in EventSet
                           /\ Whole = Observed(steady, bus[cursor + 1])
  BY <1>2, <1>3 DEF Whole
<1>6. cursor = Len(bus) => Whole = steady
  BY <1>3 DEF Whole
<1>7. steady.emitted \subseteq Whole.emitted
  BY <1>3, <1>4, <1>5, <1>6, EmittedGrows
<1> QED
  BY <1>1, <1>2, <1>3, <1>4, <1>5, <1>6, <1>7

\* A step that leaves the host, the outbox and the faults' bound as they are
\* has to keep what the memory is and what was sent.
LEMMA MemoryStep ==
    ASSUME IInv, UNCHANGED << host, cursor, steady >>,
           faults' \in 0..MaxFaults, pc' \in {"down", "up", "commit"},
           pc' = "commit" => cursor < Len(bus),
           Remembered', SentSound'
    PROVE  IInv'
<1>1. /\ bus' = bus /\ stage' = stage /\ relays' = relays
      /\ cursor' = cursor /\ steady' = steady
  BY DEF host
<1>2. Whole' = Whole
  BY <1>1 DEF Whole
<1>3. Replay(cursor)' = Replay(cursor)
  BY <1>1 DEF Replay
<1>4. Types' /\ Rebuilt'
  BY <1>1, <1>3 DEF IInv, Types, Rebuilt
<1>5. BusInv(bus', stage', Whole')
  BY <1>1, <1>2 DEF IInv
<1> QED
  BY <1>4, <1>5 DEF IInv

\* A new run rebuilds the memory that the last one had.
LEMMA StartStep ==
    ASSUME IInv, Start
    PROVE  IInv'
<1>1. /\ pc' = "up" /\ memory' \in Replay(cursor)
      /\ sent' = sent \cup memory'.emitted
      /\ UNCHANGED << host, cursor, steady >> /\ faults' = faults
  BY DEF Start
<1>2. bus' = bus /\ cursor' = cursor /\ steady' = steady
  BY <1>1 DEF host
<1>3. memory' = steady
  BY <1>1, ResidentFacts
<1>4. Whole' = Whole
  BY <1>2 DEF Whole
<1>5. Remembered'
  BY <1>1, <1>2, <1>3 DEF Remembered, MemoryIsReplay
<1>6. SentSound'
  BY <1>1, <1>2, <1>3, <1>4, ResidentFacts DEF IInv, SentSound
<1>7. faults' \in 0..MaxFaults
  BY <1>1 DEF IInv, Types
<1> QED
  BY <1>1, <1>5, <1>6, <1>7, MemoryStep

\* Observe brings the memory to that of a producer that saw the whole bus.
LEMMA ObserveStep ==
    ASSUME IInv, Observe
    PROVE  IInv'
<1>1. /\ pc = "up" /\ pc' = "commit" /\ cursor < Len(bus)
      /\ memory' = Observed(memory, bus[cursor + 1])
      /\ sent' = sent \cup memory'.emitted
      /\ UNCHANGED << host, cursor, steady >> /\ faults' = faults
  BY DEF Observe, Feed
<1>2. bus' = bus /\ cursor' = cursor /\ steady' = steady
  BY <1>1 DEF host
<1>3. memory' = Whole /\ Whole = Observed(steady, bus[cursor + 1])
  BY <1>1, ResidentFacts DEF IInv, Remembered, MemoryIsReplay
<1>4. Whole' = Whole
  BY <1>2 DEF Whole
<1>5. Remembered'
  BY <1>1, <1>2, <1>3 DEF Remembered, MemoryIsReplay
<1>6. SentSound'
  BY <1>1, <1>2, <1>3, <1>4 DEF IInv, SentSound
<1>7. faults' \in 0..MaxFaults
  BY <1>1 DEF IInv, Types
<1> QED
  BY <1>1, <1>5, <1>6, <1>7, MemoryStep

\* Commit takes the event into the outbox, and observing it again would
\* change nothing.
LEMMA CommitStep ==
    ASSUME IInv, Commit
    PROVE  IInv'
<1>1. /\ pc = "commit" /\ pc' = "up" /\ cursor' = cursor + 1
      /\ steady' = Observed(steady, bus[cursor + 1])
      /\ bus' = bus /\ stage' = stage /\ relays' = relays
      /\ memory' = memory /\ sent' = sent /\ faults' = faults
  BY DEF Commit, host
<1>2. cursor < Len(bus)
  BY <1>1 DEF IInv, Types
<1>3. /\ bus[cursor + 1] \in EventSet /\ Whole = steady' /\ memory = steady'
      /\ cursor' = Len(bus)
  BY <1>1, <1>2, ResidentFacts DEF IInv, Remembered, MemoryIsReplay
<1>4. Whole' = Whole
  BY <1>1, <1>3, ResidentFacts DEF Whole
<1>5. BusInv(bus', stage', Whole')
  BY <1>1, <1>4 DEF IInv
<1>6. Types'
  BY <1>1, <1>3, ResidentFacts DEF IInv, Types
<1>7. Rebuilt'
  <2>1. steady' \in Memories /\ PendingSound(bus', steady')
    BY <1>3, <1>4, <1>5 DEF BusInv
  <2>2. Replay(cursor)' = {steady'}
    <3>1. Replay(cursor)' = Afters(bus', cursor')[cursor']
      BY DEF Replay, Afters
    <3>2. Afters(bus, cursor + 1)[cursor + 1] =
             ObservedAll(Afters(bus, cursor)[cursor], bus[cursor + 1])
      BY ResidentFacts, AftersStep
    <3>3. Afters(bus, cursor)[cursor] = {steady}
      BY ResidentFacts, ReplayIsAfters
    <3>4. ObservedAll({steady}, bus[cursor + 1]) = {steady'}
      BY <1>1 DEF ObservedAll
    <3> QED
      BY <3>1, <3>2, <3>3, <3>4, <1>1
  <2>3. Observed(steady', bus'[cursor']) = steady'
    BY <1>1, <1>3, ResidentFacts, ObservedTwice
  <2> QED
    BY <2>1, <2>2, <2>3 DEF Rebuilt
<1>8. Remembered'
  BY <1>1, <1>3 DEF Remembered, MemoryIsReplay
<1>9. SentSound'
  BY <1>1, <1>3, <1>4 DEF IInv, SentSound
<1> QED
  BY <1>5, <1>6, <1>7, <1>8, <1>9 DEF IInv

\* A repeated event and a crash keep the invariant.
LEMMA FaultSteps ==
    ASSUME IInv, Again \/ Crash
    PROVE  IInv'
<1>1. UNCHANGED << host, cursor, steady >>
  BY DEF Again, Crash
<1>2. bus' = bus /\ cursor' = cursor /\ steady' = steady
  BY <1>1 DEF host
<1>3. faults' \in 0..MaxFaults
  BY BoundsAssumption DEF IInv, Types, Again, Crash, Fault
<1>4. Whole' = Whole
  BY <1>2 DEF Whole
<1>5. CASE Again
  <2>1. /\ pc = "up" /\ pc' = pc /\ cursor > 0
        /\ memory' = Observed(memory, bus[cursor])
        /\ sent' = sent \cup memory'.emitted
    BY <1>5 DEF Again, Feed
  <2>2. memory = steady
    BY <2>1 DEF IInv, Remembered, MemoryIsReplay
  <2>3. memory' = steady
    BY <2>1, <2>2, ResidentFacts
  <2>4. Remembered'
    BY <1>2, <2>1, <2>3 DEF Remembered, MemoryIsReplay
  <2>5. SentSound'
    BY <1>2, <1>4, <2>1, <2>3 DEF IInv, SentSound
  <2> QED
    BY <1>1, <1>3, <2>1, <2>4, <2>5, MemoryStep
<1>6. CASE Crash
  <2>1. pc' = "down" /\ memory' = NewMemory /\ sent' = sent
    BY <1>6 DEF Crash
  <2>2. Remembered'
    BY <2>1 DEF Remembered, MemoryIsReplay
  <2>3. SentSound'
    BY <1>2, <1>4, <2>1, NewMemorySound DEF IInv, SentSound
  <2> QED
    BY <1>1, <1>3, <2>1, <2>2, <2>3, MemoryStep
<1> QED
  BY <1>5, <1>6

\* A stuttering step keeps the invariant.
LEMMA StutterKeeps ==
    ASSUME IInv, UNCHANGED vars
    PROVE  IInv'
<1>1. /\ UNCHANGED << host, cursor, steady >>
      /\ pc' = pc /\ faults' = faults /\ memory' = memory /\ sent' = sent
  BY DEF vars, resident
<1>2. bus' = bus /\ cursor' = cursor /\ steady' = steady
  BY <1>1 DEF host
<1>3. Whole' = Whole
  BY <1>2 DEF Whole
<1>4. Remembered' /\ SentSound'
  BY <1>1, <1>2, <1>3 DEF IInv, Remembered, MemoryIsReplay, SentSound
<1>5. /\ faults' \in 0..MaxFaults /\ pc' \in {"down", "up", "commit"}
      /\ pc' = "commit" => cursor < Len(bus)
  BY <1>1 DEF IInv, Types
<1> QED
  BY <1>1, <1>4, <1>5, MemoryStep

\* The inductive invariant.
THEOREM Inductive == Spec => []IInv
<1>1. ASSUME IInv, [Next]_vars PROVE IInv'
  <2>1. CASE \E t \in Turns : Emission(t)
    BY <1>1, <2>1, EmissionSteps
  <2>2. CASE \E t \in Turns : Interrupt(t)
    BY <1>1, <2>2, InterruptKeeps
  <2>3. CASE Start \/ Observe \/ Commit
    BY <1>1, <2>3, StartStep, ObserveStep, CommitStep
  <2>4. CASE Again \/ Crash
    BY <1>1, <2>4, FaultSteps
  <2>5. CASE UNCHANGED vars
    BY <1>1, <2>5, StutterKeeps
  <2> QED
    BY <1>1, <2>1, <2>2, <2>3, <2>4, <2>5 DEF Next, Emission
<1> QED
  BY <1>1, Initially, PTL DEF Spec
-----------------------------------------------------------------------------
(***************************************************************************)
(* What follows from it                                                    *)
(***************************************************************************)
\* What the whole bus gives rise to is sound.
LEMMA EmittedFacts ==
    ASSUME IInv, NEW r \in Whole.emitted
    PROVE  /\ r.id \in DOMAIN bus /\ r.id \in Nat
           /\ r.delivery \in Deliveries
           /\ r = Receipt(r.delivery, r.proof.events, bus[r.id], r.class)
           /\ r.source = r.id /\ r.observed = r.id
           /\ r.proof.session = bus[r.id].session
           /\ r.proof.marker = Context[r.delivery].marker
           /\ \/ r.class = "harness.prompt_accepted" /\ EntrySound(bus, r)
              \/ /\ r.class = "harness.turn_completed"
                 /\ CompletionSound(bus, stage, Whole, r)
<1>1. BusSound(bus) /\ EmittedSound(bus, stage, Whole)
  BY DEF IInv, BusInv
<1>2. /\ r.id \in DOMAIN bus /\ r.delivery \in Deliveries
      /\ r = Receipt(r.delivery, r.proof.events, bus[r.id], r.class)
      /\ \/ r.class = "harness.prompt_accepted" /\ EntrySound(bus, r)
         \/ /\ r.class = "harness.turn_completed"
            /\ CompletionSound(bus, stage, Whole, r)
  BY <1>1 DEF EmittedSound
<1>3. bus[r.id].seq = r.id /\ r.id \in Nat
  BY <1>1, <1>2, ResidentFacts DEF BusSound
<1>4. PICK d, c, e, k : /\ d = r.delivery /\ c = r.proof.events
                        /\ e = bus[r.id] /\ k = r.class
                        /\ r = Receipt(d, c, e, k)
  BY <1>2
<1>5. /\ r.source = e.seq /\ r.observed = e.seq
      /\ r.proof.session = e.session
      /\ r.proof.marker = Context[d].marker
  BY <1>4, ReceiptFields
<1> QED
  BY <1>2, <1>3, <1>4, <1>5

\* And so is what was sent.
LEMMA SentFacts ==
    ASSUME IInv, NEW r \in sent
    PROVE  /\ r.id \in DOMAIN bus /\ r.id \in Nat
           /\ r.delivery \in Deliveries
           /\ r = Receipt(r.delivery, r.proof.events, bus[r.id], r.class)
           /\ r.source = r.id /\ r.observed = r.id
           /\ r.proof.session = bus[r.id].session
           /\ r.proof.marker = Context[r.delivery].marker
           /\ \/ r.class = "harness.prompt_accepted" /\ EntrySound(bus, r)
              \/ /\ r.class = "harness.turn_completed"
                 /\ CompletionSound(bus, stage, Whole, r)
<1>1. r \in Whole.emitted
  BY DEF IInv, SentSound
<1> QED
  BY <1>1, EmittedFacts

\* What a reference to an event of the bus holds.
LEMMA RefShape ==
    ASSUME NEW b, BusSound(b), NEW ref, NEW n, NEW w, RefersTo(b, ref, n, w)
    PROVE  /\ ref.seq \in Nat /\ ref.id = ref.seq /\ ref.name = n
           /\ ref.boot = "boot" /\ ref.instance = "bus"
           /\ ref.session = b[ref.seq].session
           /\ ref.binding = IF b[ref.seq].marker = None THEN None
                            ELSE b[ref.seq].marker.binding
           /\ ref.signature = IF b[ref.seq].marker = None THEN None
                              ELSE b[ref.seq].marker.signature
           /\ b[ref.seq].turn \in Turns
           /\ n = PromptSubmitted =>
                 b[ref.seq].marker = Turn[b[ref.seq].turn].marker
<1>1. PICK e : e = b[ref.seq]
  OBVIOUS
<1>2. b \in Seq(EventSet) /\ ref.seq \in DOMAIN b /\ ref = Ref(e) /\ e.name = n
  BY <1>1 DEF BusSound, RefersTo
<1>3. e \in EventSet /\ ref.seq \in Nat
  BY <1>1, <1>2
<1>4. e.turn \in Turns /\ (n = PromptSubmitted => e.marker = Turn[e.turn].marker)
  BY <1>1, <1>2, <1>3 DEF BusSound, EventSet
<1>5. /\ ref.name = e.name /\ ref.seq = e.seq /\ ref.id = e.seq
      /\ ref.boot = "boot" /\ ref.instance = "bus" /\ ref.session = e.session
      /\ ref.binding = IF e.marker = None THEN None ELSE e.marker.binding
      /\ ref.signature = IF e.marker = None THEN None ELSE e.marker.signature
  BY <1>2, <1>3, RefFields
<1> QED
  BY <1>1, <1>2, <1>3, <1>4, <1>5

\* The memory of the resident is sound about what is pending.
LEMMA MemoryPending ==
    ASSUME IInv
    PROVE  PendingSound(bus, memory)
<1>1. pc \in {"down", "up", "commit"} /\ (pc = "commit" => cursor < Len(bus))
  BY DEF IInv, Types
<1>2. CASE pc = "down"
  BY <1>2, NewMemorySound DEF IInv, Remembered
<1>3. CASE pc = "up"
  BY <1>3, ResidentFacts DEF IInv, Remembered, MemoryIsReplay
<1>4. CASE pc = "commit"
  BY <1>1, <1>4, ResidentFacts DEF IInv, Remembered, MemoryIsReplay, BusInv
<1> QED
  BY <1>1, <1>2, <1>3, <1>4

\* The resident and the host keep their types: what the emitter remembers
\* and reports refers to events of the bus and to deliveries that the lookup
\* knows (receipt_emitter.py observe).
THEOREM TypeCorrect == Spec => []TypeOK
<1>1. IInv => TypeOK
  <2> SUFFICES ASSUME IInv PROVE TypeOK
    OBVIOUS
  <2>1. BusSound(bus) /\ bus \in Seq(EventSet) /\ stage \in [Turns -> Stages]
    BY DEF IInv, BusInv, BusSound, StagesSound
  <2>2. \A i \in DOMAIN bus : bus[i].seq = i /\ bus[i].turn \in Turns
    <3>1. \A i \in DOMAIN bus : bus[i] \in EventSet
      BY <2>1
    <3> QED
      BY <2>1, <3>1 DEF BusSound, EventSet
  <2>3. ASSUME NEW w \in Workspaces
        PROVE  /\ memory.pending[w].input \in Refs \cup {None}
               /\ memory.pending[w].prompt \in Refs \cup {None}
    <3> DEFINE p == memory.pending[w]
    <3>1. /\ p.input # None => RefersTo(bus, p.input, InputSent, w)
          /\ p.prompt # None => RefersTo(bus, p.prompt, PromptSubmitted, w)
      BY MemoryPending DEF PendingSound
    <3> HIDE DEF p
    <3>2. p.input # None => p.input \in Refs
      BY <3>1 DEF RefersTo, Refs
    <3>3. p.prompt # None => p.prompt \in Refs
      BY <3>1 DEF RefersTo, Refs
    <3> QED
      BY <3>2, <3>3 DEF p
  <2>4. \A r \in sent : r.source \in DOMAIN bus /\ r.delivery \in Deliveries
    BY SentFacts
  <2> QED
    BY <2>1, <2>2, <2>3, <2>4 DEF TypeOK, IInv, Types, Stages
<1> QED
  BY <1>1, Inductive, PTL

\* Whatever crashes, sink failures and repeated events lie behind it, the
\* producer's memory is the one it would rebuild from the durable outbox
\* (receipt_producer.py recover).
THEOREM ReplayCorrect == Spec => []MemoryIsReplay
<1>1. IInv => MemoryIsReplay
  BY DEF IInv, Remembered
<1> QED
  BY <1>1, Inductive, PTL

\* A receipt id names one claim, however often recover and a repeated
\* observe send it again (receipt_producer.py:67).
THEOREM IdsStable == Spec => []ReceiptIdsAreStable
<1>1. IInv => ReceiptIdsAreStable
  BY DEF IInv, SentSound, BusInv, EmittedSound, ReceiptIdsAreStable
<1> QED
  BY <1>1, Inductive, PTL

\* An accepted prompt is reported of the delivery that this very prompt
\* quotes, with the hook of its turn or of one that the bus cannot tell
\* from it (receipt_emitter.py:53).
THEOREM EntryCorrect == Spec => []EntryIsOwnTurn
<1>1. IInv => EntryIsOwnTurn
  <2> SUFFICES ASSUME IInv, NEW r \in sent,
                      r.class = "harness.prompt_accepted"
               PROVE  /\ SameQuote(TurnOf(r, 2), TurnOf(r, 3))
                      /\ Turn[TurnOf(r, 2)].marker.delivery = r.delivery
    BY DEF EntryIsOwnTurn, Entries
  <2> DEFINE c == r.proof.events
  <2>1. EntrySound(bus, r) /\ BusSound(bus)
    BY SentFacts DEF IInv, BusInv
  <2>2. /\ RefersTo(bus, c[2], PromptSubmitted, bus[r.id].workspace)
        /\ bus[c[2].seq].marker.delivery = r.delivery
        /\ SameQuote(bus[c[2].seq].turn, bus[c[3].seq].turn)
    BY <2>1 DEF EntrySound, ChainSound
  <2>3. c[2].seq \in DOMAIN bus /\ bus[c[2].seq].name = PromptSubmitted
    BY <2>2 DEF RefersTo
  <2>4. bus[c[2].seq].marker = Turn[bus[c[2].seq].turn].marker
    BY <2>1, <2>3 DEF BusSound
  <2> QED
    BY <2>2, <2>4 DEF TurnOf
<1> QED
  BY <1>1, Inductive, PTL

\* The chain of a completion without its Stop.
LEMMA BeforeLast ==
    ASSUME NEW p, p.events \in RefSet \X RefSet \X RefSet \X RefSet
    PROVE  ChainBeforeLast(p) = << p.events[1], p.events[2], p.events[3] >>
<1>1. PICK c \in RefSet \X RefSet \X RefSet \X RefSet : c = p.events
  OBVIOUS
<1>2. Len(c) = 4 /\ c[1] \in RefSet /\ c[2] \in RefSet /\ c[3] \in RefSet
  OBVIOUS
<1> DEFINE f == [i \in 1..3 |-> c[i]]
           g == << c[1], c[2], c[3] >>
<1>3. ChainBeforeLast(p) = f
  BY <1>1, <1>2 DEF ChainBeforeLast
<1>4. \A i \in 1..3 : i = 1 \/ i = 2 \/ i = 3
  OBVIOUS
<1>5. f \in Seq(RefSet) /\ Len(f) = 3
  <2>1. f \in [1..3 -> RefSet]
    BY <1>2, <1>4
  <2> QED
    BY <2>1
<1>6. g \in Seq(RefSet) /\ Len(g) = 3
  BY <1>2
<1>7. \A i \in 1..3 : f[i] = g[i]
  BY <1>4
<1> HIDE DEF f, g
<1>8. f = g
  BY <1>5, <1>6, <1>7, SeqEqual
<1> QED
  BY <1>1, <1>3, <1>8 DEF g

\* A completion extends a reported chain, and it is the Stop of the chain's
\* turn that closes it unless that turn was interrupted or the chain is of
\* two turns with one marker (receipt_emitter.py:31-34).
THEOREM CompletionCorrect == Spec => []CompletionIsOwnTurn
<1>1. IInv => CompletionIsOwnTurn
  <2> SUFFICES ASSUME IInv, NEW r \in sent,
                      r.class = "harness.turn_completed"
               PROVE  /\ \E q \in Entries :
                            /\ q.delivery = r.delivery
                            /\ q.proof.events = ChainBeforeLast(r.proof)
                      /\ \/ TurnOf(r, 4) = TurnOf(r, 3)
                         \/ stage[TurnOf(r, 3)] = "interrupted"
                         \/ LateStop(r.proof.events[2].seq,
                                     r.proof.events[4].seq)
                         \/ /\ TurnOf(r, 2) # TurnOf(r, 3)
                            /\ SameQuote(TurnOf(r, 2), TurnOf(r, 3))
    BY DEF CompletionIsOwnTurn, Completions
  <2> DEFINE c == r.proof.events
             n == << c[1], c[2], c[3] >>
             q == Entry(bus, r.delivery, n)
  <2>1. CompletionSound(bus, stage, Whole, r) /\ BusSound(bus)
        /\ r.id \in DOMAIN bus /\ r.id \in Nat
    BY SentFacts DEF IInv, BusInv
  <2>2. /\ ChainSound(bus, bus[r.id].workspace, bus[r.id].session,
                      r.delivery, n)
        /\ q \in Whole.emitted /\ c[3].seq < r.id /\ c[4].seq = r.id
        /\ c \in RefSet \X RefSet \X RefSet \X RefSet
        /\ \/ TurnAt(bus, c[4]) = TurnAt(bus, c[3])
           \/ stage[TurnAt(bus, c[3])] = "interrupted"
           \/ LateOn(bus, c[2].seq, r.id)
           \/ TurnAt(bus, c[2]) # TurnAt(bus, c[3])
    BY <2>1 DEF CompletionSound
  <2>3. LateOn(bus, c[2].seq, r.id) => LateStop(c[2].seq, c[4].seq)
    BY <2>2 DEF LateOn, LateStop
  <2>4. n[2] = c[2] /\ n[3] = c[3]
    OBVIOUS
  <2>5. SameQuote(TurnAt(bus, c[2]), TurnAt(bus, c[3]))
    BY <2>2, <2>4 DEF ChainSound, TurnAt
  <2>6. c[3].seq \in DOMAIN bus /\ bus[c[3].seq].seq = c[3].seq
    BY <2>1, <2>2, <2>4 DEF ChainSound, RefersTo, BusSound
  <2>7. q = Receipt(r.delivery, n, bus[c[3].seq], "harness.prompt_accepted")
    BY <2>4 DEF Entry
  <2> HIDE DEF q, n, c
  <2>8. /\ q.id = c[3].seq /\ q.delivery = r.delivery /\ q.proof.events = n
        /\ q.class = "harness.prompt_accepted"
    BY <2>6, <2>7, ReceiptFields
  <2>9. q \in steady.emitted
    <3>1. CASE cursor = Len(bus)
      BY <3>1, <2>2, ResidentFacts
    <3>2. CASE cursor < Len(bus)
      <4>1. /\ bus[cursor + 1] \in EventSet
            /\ Whole = Observed(steady, bus[cursor + 1])
            /\ cursor + 1 = Len(bus) /\ cursor + 1 \in DOMAIN bus
        BY <3>2, ResidentFacts
      <4>2. bus[cursor + 1].seq = cursor + 1
        BY <4>1, <2>1 DEF BusSound
      <4>3. q \in steady.emitted \/ q.id = Len(bus)
        BY <4>1, <4>2, <2>2, ResidentFacts, EmittedGrows
      <4>4. q.id # Len(bus)
        BY <2>1, <2>2, <2>6, <2>8, ResidentFacts
      <4> QED
        BY <4>3, <4>4
    <3> QED
      BY <3>1, <3>2, ResidentFacts
  <2>10. q \in Entries
    BY <2>8, <2>9 DEF IInv, SentSound, Entries
  <2>11. ChainBeforeLast(r.proof) = n
    BY <2>2, BeforeLast DEF n, c
  <2>12. /\ TurnOf(r, 2) = TurnAt(bus, c[2]) /\ TurnOf(r, 3) = TurnAt(bus, c[3])
         /\ TurnOf(r, 4) = TurnAt(bus, c[4])
    BY DEF TurnOf, TurnAt, c
  <2> QED
    BY <2>2, <2>5, <2>8, <2>10, <2>11, <2>12, <2>3 DEF c
<1> QED
  BY <1>1, Inductive, PTL

\* The chain of an entry is one that the validator expects.
LEMMA EntryChainValid ==
    ASSUME NEW b, BusSound(b), NEW w, NEW x, NEW d,
           NEW c \in RefSet \X RefSet \X RefSet, ChainSound(b, w, x, d, c)
    PROVE  ChainValid(c, PromptChain, "bus")
<1>1. /\ RefersTo(b, c[1], InputSent, w)
      /\ RefersTo(b, c[2], PromptSubmitted, w)
      /\ RefersTo(b, c[3], UserPromptSubmit, w)
      /\ c[1].seq < c[2].seq /\ c[2].seq < c[3].seq
  BY DEF ChainSound
<1>2. /\ c[1].seq \in Nat /\ c[1].id = c[1].seq /\ c[1].name = InputSent
      /\ c[1].boot = "boot" /\ c[1].instance = "bus"
  BY <1>1, RefShape
<1>3. /\ c[2].seq \in Nat /\ c[2].id = c[2].seq /\ c[2].name = PromptSubmitted
      /\ c[2].boot = "boot" /\ c[2].instance = "bus"
  BY <1>1, RefShape
<1>4. /\ c[3].seq \in Nat /\ c[3].id = c[3].seq /\ c[3].name = UserPromptSubmit
      /\ c[3].boot = "boot" /\ c[3].instance = "bus"
  BY <1>1, RefShape
<1>5. /\ Len(PromptChain) = 3 /\ PromptChain[1] = InputSent
      /\ PromptChain[2] = PromptSubmitted /\ PromptChain[3] = UserPromptSubmit
  BY DEF PromptChain, InputSent, PromptSubmitted, UserPromptSubmit
<1>6. Len(c) = 3 /\ DOMAIN c = 1..3
  OBVIOUS
<1>7. \A i \in 1..3 : i = 1 \/ i = 2 \/ i = 3
  OBVIOUS
<1>8. \A i \in 1..3 : /\ c[i].name = PromptChain[i] /\ c[i].instance = "bus"
                      /\ c[i].boot = c[1].boot
  BY <1>2, <1>3, <1>4, <1>5, <1>7
<1>9. c[1].seq < c[3].seq
  BY <1>1, <1>2, <1>3, <1>4
<1>10. ASSUME NEW i \in 1..3, NEW j \in 1..3, i < j
       PROVE  c[i].id # c[j].id /\ c[i].seq < c[j].seq
  <2>1. \/ i = 1 /\ j = 2
        \/ i = 1 /\ j = 3
        \/ i = 2 /\ j = 3
    BY <1>10
  <2>2. c[i].seq < c[j].seq
    BY <2>1, <1>1, <1>9
  <2>3. /\ c[i].id = c[i].seq /\ c[j].id = c[j].seq
        /\ c[i].seq \in Nat /\ c[j].seq \in Nat
    BY <2>1, <1>2, <1>3, <1>4
  <2> QED
    BY <2>2, <2>3
<1> QED
  BY <1>5, <1>6, <1>8, <1>10 DEF ChainValid

\* And so is that of a completion.
LEMMA CompletionChainValid ==
    ASSUME NEW b, BusSound(b), NEW w, NEW x, NEW d,
           NEW c \in RefSet \X RefSet \X RefSet \X RefSet,
           ChainSound(b, w, x, d, << c[1], c[2], c[3] >>),
           RefersTo(b, c[4], StopHook, w), c[3].seq < c[4].seq
    PROVE  ChainValid(c, CompletedChain, "bus")
<1> DEFINE n == << c[1], c[2], c[3] >>
<1>1. n \in RefSet \X RefSet \X RefSet
  OBVIOUS
<1>2. ChainValid(n, PromptChain, "bus")
  BY <1>1, EntryChainValid
<1>3. /\ Len(n) = 3 /\ DOMAIN n = 1..3
      /\ n[1] = c[1] /\ n[2] = c[2] /\ n[3] = c[3]
  OBVIOUS
<1> HIDE DEF n
<1>4. \A i \in 1..3 : i = 1 \/ i = 2 \/ i = 3
  OBVIOUS
<1>5. \A i \in 1..3 : n[i] = c[i]
  BY <1>3, <1>4
<1>6. /\ \A i \in 1..3 : /\ c[i].name = PromptChain[i]
                         /\ c[i].instance = "bus" /\ c[i].boot = c[1].boot
      /\ \A i, j \in 1..3 :
            i < j => c[i].id # c[j].id /\ c[i].seq < c[j].seq
  BY <1>2, <1>3, <1>5 DEF ChainValid
<1>7. /\ c[4].seq \in Nat /\ c[4].id = c[4].seq /\ c[4].name = StopHook
      /\ c[4].boot = "boot" /\ c[4].instance = "bus"
  BY RefShape
<1>8. /\ c[1].boot = "boot" /\ c[1].seq \in Nat /\ c[1].id = c[1].seq
      /\ c[2].seq \in Nat /\ c[2].id = c[2].seq
      /\ c[3].seq \in Nat /\ c[3].id = c[3].seq
  <2>1. /\ RefersTo(b, c[1], InputSent, w)
        /\ RefersTo(b, c[2], PromptSubmitted, w)
        /\ RefersTo(b, c[3], UserPromptSubmit, w)
    BY <1>3 DEF ChainSound, n
  <2> QED
    BY <2>1, RefShape
<1>9. /\ Len(CompletedChain) = 4 /\ CompletedChain[4] = StopHook
      /\ \A i \in 1..3 : CompletedChain[i] = PromptChain[i]
  <2>1. /\ PromptChain = << InputSent, PromptSubmitted, UserPromptSubmit >>
        /\ PromptChain \in Names \X Names \X Names /\ StopHook \in Names
    BY DEF PromptChain, InputSent, PromptSubmitted, UserPromptSubmit, StopHook,
           Names
  <2>2. CompletedChain = Append(PromptChain, StopHook)
    BY DEF CompletedChain, StopHook
  <2>3. CompletedChain = << PromptChain[1], PromptChain[2], PromptChain[3],
                            StopHook >>
    BY <2>1, <2>2, TripleIsSequence
  <2>4. /\ Len(CompletedChain) = 4 /\ CompletedChain[4] = StopHook
        /\ CompletedChain[1] = PromptChain[1]
        /\ CompletedChain[2] = PromptChain[2]
        /\ CompletedChain[3] = PromptChain[3]
    BY <2>3
  <2> QED
    BY <2>4, <1>4
<1>10. Len(c) = 4 /\ DOMAIN c = 1..4
  OBVIOUS
<1>11. \A i \in 1..4 : i \in 1..3 \/ i = 4
  OBVIOUS
<1>12. \A i \in 1..4 : /\ c[i].name = CompletedChain[i]
                       /\ c[i].instance = "bus" /\ c[i].boot = c[1].boot
  BY <1>6, <1>7, <1>8, <1>9, <1>11
<1>13. \A i \in 1..3 : c[i].seq < c[4].seq /\ c[i].id # c[4].id
  <2>1. c[1].seq < c[3].seq /\ c[2].seq < c[3].seq
    BY <1>6
  <2>2. /\ c[1].seq < c[4].seq /\ c[2].seq < c[4].seq
        /\ c[3].seq < c[4].seq
    BY <2>1, <1>7, <1>8
  <2>3. /\ c[1].id # c[4].id /\ c[2].id # c[4].id /\ c[3].id # c[4].id
    BY <2>2, <1>7, <1>8
  <2> QED
    BY <2>2, <2>3, <1>4
<1>14. ASSUME NEW i \in 1..4, NEW j \in 1..4, i < j
       PROVE  c[i].id # c[j].id /\ c[i].seq < c[j].seq
  <2>1. i \in 1..3
    BY <1>14
  <2> QED
    BY <2>1, <1>6, <1>11, <1>13, <1>14
<1> QED
  BY <1>9, <1>10, <1>12, <1>14 DEF ChainValid

\* What the prompt of a chain quotes is what its turn quotes.
LEMMA ChainQuotes ==
    ASSUME NEW b, BusSound(b), NEW w, NEW x, NEW d, NEW c,
           ChainSound(b, w, x, d, c)
    PROVE  /\ c[2].binding = Turn[b[c[2].seq].turn].marker.binding
           /\ c[2].signature = Turn[b[c[2].seq].turn].marker.signature
           /\ c[3].session = x
<1>1. /\ RefersTo(b, c[2], PromptSubmitted, w) /\ b[c[2].seq].marker # None
      /\ c[3].session = x
  BY DEF ChainSound
<1>2. /\ b[c[2].seq].marker = Turn[b[c[2].seq].turn].marker
      /\ c[2].binding = b[c[2].seq].marker.binding
      /\ c[2].signature = b[c[2].seq].marker.signature
  BY <1>1, RefShape
<1> QED
  BY <1>1, <1>2

\* The verdict of core's validator on what was sent.
LEMMA WireIsJudged == IInv => WireMarkerIsJudged
<1> SUFFICES ASSUME IInv, NEW r \in sent
             PROVE  LET quoted == Turn[TurnOf(r, 2)].marker
                        marker == Context[r.delivery].marker
                    IN  SessionProofValid(r.proof, r, r.class, Registration,
                                          r.observed)
                        <=> /\ quoted.binding = r.binding
                            /\ quoted.signature = marker.signature
                            /\ MarkerValid(marker, r, r.observed)
  BY DEF WireMarkerIsJudged
<1> DEFINE c == r.proof.events
           x == bus[r.id].session
           q == Turn[TurnOf(r, 2)].marker
           k == Context[r.delivery].marker
<1>1. /\ BusSound(bus) /\ r.proof.session = x /\ r.proof.marker = k
      /\ \/ r.class = "harness.prompt_accepted" /\ EntrySound(bus, r)
         \/ /\ r.class = "harness.turn_completed"
            /\ CompletionSound(bus, stage, Whole, r)
  BY SentFacts DEF IInv, BusInv
<1>2. /\ r.class \in Registration.classes
      /\ Registration.kind = "event-bus" /\ Registration.instance = "bus"
  BY <1>1 DEF Registration
<1>3. /\ ChainValid(c, ExpectedNames(r.class), "bus")
      /\ c[2].binding = q.binding /\ c[2].signature = q.signature
      /\ \A i \in 3..Len(c) : c[i].session = x
  <2>1. CASE r.class = "harness.prompt_accepted" /\ EntrySound(bus, r)
    <3>1. /\ ChainSound(bus, bus[r.id].workspace, x, r.delivery, c)
          /\ c \in RefSet \X RefSet \X RefSet
      BY <2>1 DEF EntrySound
    <3>2. ExpectedNames(r.class) = PromptChain
      BY <2>1 DEF ExpectedNames, EntryEvidence
    <3>3. ChainValid(c, PromptChain, "bus")
      BY <1>1, <3>1, EntryChainValid
    <3>4. /\ c[2].binding = q.binding /\ c[2].signature = q.signature
          /\ c[3].session = x
      BY <1>1, <3>1, ChainQuotes DEF TurnOf
    <3>5. \A i \in 3..Len(c) : i = 3
      <4>1. \A z \in RefSet \X RefSet \X RefSet : Len(z) = 3
        OBVIOUS
      <4>2. Len(c) = 3
        BY <3>1, <4>1
      <4> HIDE DEF c
      <4> QED
        BY <4>2
    <3> QED
      BY <3>2, <3>3, <3>4, <3>5
  <2>2. CASE /\ r.class = "harness.turn_completed"
             /\ CompletionSound(bus, stage, Whole, r)
    <3> DEFINE n == << c[1], c[2], c[3] >>
    <3>1. /\ ChainSound(bus, bus[r.id].workspace, x, r.delivery, n)
          /\ c \in RefSet \X RefSet \X RefSet \X RefSet
          /\ RefersTo(bus, c[4], StopHook, bus[r.id].workspace)
          /\ c[4].seq = r.id /\ c[3].seq < r.id
      BY <2>2 DEF CompletionSound
    <3>2. ExpectedNames(r.class) = CompletedChain
      BY <2>2 DEF ExpectedNames, EntryEvidence
    <3>3. ChainValid(c, CompletedChain, "bus")
      BY <1>1, <3>1, CompletionChainValid
    <3>4. n[2] = c[2] /\ n[3] = c[3]
      OBVIOUS
    <3>5. /\ c[2].binding = q.binding /\ c[2].signature = q.signature
          /\ c[3].session = x
      <4> HIDE DEF n, c, q, x
      <4>1. /\ n[2].binding = Turn[bus[n[2].seq].turn].marker.binding
            /\ n[2].signature = Turn[bus[n[2].seq].turn].marker.signature
            /\ n[3].session = x
        BY <1>1, <3>1, ChainQuotes
      <4>2. q = Turn[bus[c[2].seq].turn].marker
        BY DEF q, c, TurnOf
      <4> QED
        BY <3>4, <4>1, <4>2
    <3>6. c[4].session = x
      BY <1>1, <3>1, RefShape
    <3>7. \A i \in 3..Len(c) : i = 3 \/ i = 4
      <4>1. \A z \in RefSet \X RefSet \X RefSet \X RefSet : Len(z) = 4
        OBVIOUS
      <4>2. Len(c) = 4
        BY <3>1, <4>1
      <4> HIDE DEF c
      <4> QED
        BY <4>2
    <3> QED
      BY <3>2, <3>3, <3>5, <3>6, <3>7
  <2> QED
    BY <1>1, <2>1, <2>2
<1>4. SessionProofValid(r.proof, r, r.class, Registration, r.observed) <=>
         /\ MarkerValid(k, r, r.observed)
         /\ q.binding = r.binding /\ q.signature = k.signature
  BY <1>1, <1>2, <1>3 DEF SessionProofValid, ChainCorrelated
<1> QED
  BY <1>4

\* The validator's verdict on a receipt is about the prompt on the wire and
\* the marker in force, never about the correlation of the chain: every
\* chain that the producer reports passes it (receipt_producer.py:3,
\* receipt_emitter.py:95).
THEOREM WireCorrect == Spec => []WireMarkerIsJudged
  BY WireIsJudged, Inductive, PTL
=============================================================================
