-------------------------- MODULE TurnReportProofs --------------------------
(***************************************************************************)
(* Proofs that a turn which no other turn of its workspace disturbs is     *)
(* reported, for every number of turns, workspaces, relays and crashes.    *)
(*                                                                         *)
(* As long as everything since its input in its workspace is its own, what *)
(* a producer that saw the whole bus remembers of the workspace is known   *)
(* exactly at each stage of the turn: Followed.  When its Stop comes, the  *)
(* chain is closed, and nothing takes the report back: Closed.             *)
(***************************************************************************)
EXTENDS ReceiptEmitterProofs

\* ref refers to an event of turn t that no completed one of its kind
\* precedes.
FirstOf(b, t, name, ref) ==
    /\ ref.seq \in DOMAIN b
    /\ b[ref.seq].turn = t
    /\ \A j \in 1..(ref.seq - 1) :
          ~ (b[j].turn = t /\ b[j].name = name /\ b[j].phase = "completed")

\* events are the first of each kind of turn t.
Opens(b, t, events) ==
    /\ FirstOf(b, t, InputSent, events[1])
    /\ FirstOf(b, t, PromptSubmitted, events[2])
    /\ FirstOf(b, t, UserPromptSubmit, events[3])

\* Receipts of accepted prompts of turn t.
EntriesOf(b, m, t) ==
    {r \in m.emitted : /\ r.class = "harness.prompt_accepted"
                       /\ TurnAt(b, r.proof.events[2]) = t}

\* events are all that is reported as an accepted prompt of t, and its
\* prompt is no longer pending.
OnlyEntry(b, m, t, events) ==
    LET p == m.pending[Turn[t].workspace]
    IN  /\ \A r \in EntriesOf(b, m, t) : r.proof.events = events
        /\ p.prompt # None => TurnAt(b, p.prompt) # t

\* Turn t is reported as completed with the first event of each kind.
Closed(b, m, t) ==
    \E r \in m.emitted :
        LET events == r.proof.events
        IN  /\ r.class = "harness.turn_completed"
            /\ Opens(b, t, events)
            /\ FirstOf(b, t, StopHook, events[4])
            /\ OnlyEntry(b, m, t, << events[1], events[2], events[3] >>)

\* Since event i, the input of turn t, its workspace has events of t only.
Clear(b, t, i) ==
    /\ i \in DOMAIN b
    /\ b[i].turn = t /\ b[i].name = InputSent
    /\ \A j \in DOMAIN b :
          j >= i /\ b[j].workspace = Turn[t].workspace => b[j].turn = t

\* What is remembered of t's workspace when its events are the last ones, at
\* each stage of the turn.
AfterInput(b, m, t) ==
    LET w == Turn[t].workspace
        p == m.pending[w]
    IN  /\ m.chains[w].signature = None /\ m.chains[w].accepted = {}
        /\ p.input # None /\ FirstOf(b, t, InputSent, p.input)
        /\ p.prompt = None
        /\ EntriesOf(b, m, t) = {}

AfterPrompt(b, m, t) ==
    LET w == Turn[t].workspace
        p == m.pending[w]
    IN  /\ m.chains[w].signature = Signature(t)
        /\ m.chains[w].accepted = {<< PromptSubmitted, Signature(t) >>}
        /\ p.input # None /\ FirstOf(b, t, InputSent, p.input)
        /\ p.prompt # None /\ FirstOf(b, t, PromptSubmitted, p.prompt)
        /\ p.marker = Turn[t].marker
        /\ EntriesOf(b, m, t) = {}

AfterHook(b, m, t) ==
    LET w == Turn[t].workspace
        a == m.active[<< w, Turn[t].session >>]
    IN  /\ m.chains[w].signature = Signature(t)
        /\ m.chains[w].accepted = {<< PromptSubmitted, Signature(t) >>,
                                   << UserPromptSubmit, Signature(t) >>}
        /\ a # None
        /\ Opens(b, t, a.events)
        /\ OnlyEntry(b, m, t, a.events)

FollowedAt(b, s, m, t) ==
    /\ s[t] = "injected" => AfterInput(b, m, t)
    /\ s[t] = "prompted" => AfterPrompt(b, m, t)
    /\ s[t] = "running" => AfterHook(b, m, t)
    /\ s[t] = "stopped" => Closed(b, m, t)

Followed(b, s, m) ==
    \A t \in Turns : Reportable(t) /\ (\E i \in DOMAIN b : Clear(b, t, i))
                        => FollowedAt(b, s, m, t)

\* Undisturbed of any bus.
Untouched(b, t) ==
    \E i, k \in DOMAIN b :
        /\ b[i].turn = t /\ b[i].name = InputSent
        /\ b[k].turn = t /\ b[k].name = StopHook
        /\ \A j \in i..k : b[j].workspace = Turn[t].workspace
                              => b[j].turn = t

ReportInv(b, s, m) ==
    /\ \A i \in DOMAIN b : b[i].name = InputSent => s[b[i].turn] # "waiting"
    /\ Followed(b, s, m)
    /\ \A t \in Turns : Reportable(t) /\ Untouched(b, t) => Closed(b, m, t)
-----------------------------------------------------------------------------
(***************************************************************************)
(* Lemmas about first events and entries                                   *)
(***************************************************************************)
\* The reference to an event is not None, and neither is a chain.
LEMMA RefsAreNotNone ==
    /\ \A ref \in RefSet : ref # None
    /\ \A a \in ActiveSet : a # None
<1> DEFINE markers == {Turn[t].marker : t \in Turns} \ {None}
           refs == [name : {InputSent, PromptSubmitted} \cup Hooks,
                    id : Nat, seq : Nat, boot : {"boot"}, instance : {"bus"},
                    session : Sessions \cup {None},
                    binding : {k.binding : k \in markers} \cup {None},
                    signature : {k.signature : k \in markers} \cup {None}]
<1>1. ASSUME NEW e \in EventSet PROVE Ref(e) \in refs
  <2>1. /\ e.name \in {InputSent, PromptSubmitted} \cup Hooks
        /\ e.seq \in Nat /\ e.session \in Sessions \cup {None}
        /\ e.marker \in markers \cup {None}
    BY DEF EventSet, Names, Hooks, Markers
  <2>2. /\ (IF e.marker = None THEN None ELSE e.marker.binding)
              \in {k.binding : k \in markers} \cup {None}
        /\ (IF e.marker = None THEN None ELSE e.marker.signature)
              \in {k.signature : k \in markers} \cup {None}
    BY <2>1
  <2> QED
    BY <2>1, <2>2 DEF Ref
<1>2. RefSet \subseteq refs
  BY <1>1 DEF RefSet
<1>3. /\ None \notin refs
      /\ None \notin [delivery : Deliveries, events : refs \X refs \X refs]
  BY NoneAssumption
<1> HIDE DEF refs
<1>4. ActiveSet \subseteq
         [delivery : Deliveries, events : refs \X refs \X refs]
  BY <1>2 DEF ActiveSet
<1> QED
  BY <1>2, <1>3, <1>4

\* A first event stays the first.
LEMMA FirstPersists ==
    ASSUME NEW b \in Seq(EventSet), NEW e \in EventSet, NEW t, NEW n, NEW ref,
           FirstOf(b, t, n, ref)
    PROVE  FirstOf(Append(b, e), t, n, ref)
<1>1. ref.seq \in DOMAIN b /\ ref.seq \in 1..Len(b) /\ Len(b) \in Nat
  BY AppendedBus DEF FirstOf
<1>2. \A j \in 1..(ref.seq - 1) : j \in DOMAIN b
  BY <1>1
<1> QED
  BY <1>1, <1>2, AppendedBus DEF FirstOf

\* The latest event of t is the first of its kind.
LEMMA LatestIsFirst ==
    ASSUME NEW b \in Seq(EventSet), NEW e \in EventSet, e.seq = Len(b) + 1,
           NEW n, \A j \in DOMAIN b : ~ (/\ b[j].turn = e.turn /\ b[j].name = n
                                         /\ b[j].phase = "completed")
    PROVE  FirstOf(Append(b, e), e.turn, n, Ref(e))
<1>1. Ref(e).seq = Len(b) + 1 /\ Len(b) \in Nat /\ DOMAIN b = 1..Len(b)
  BY RefFields, AppendedBus
<1>2. Append(b, e)[Len(b) + 1] = e /\ Len(b) + 1 \in DOMAIN Append(b, e)
  BY AppendedBus
<1>3. \A j \in 1..(Len(b) + 1 - 1) : j \in DOMAIN b /\ Append(b, e)[j] = b[j]
  BY <1>1, AppendedBus
<1> QED
  BY <1>1, <1>2, <1>3 DEF FirstOf

\* The first events of a chain stay the first.
LEMMA OpensPersists ==
    ASSUME NEW b \in Seq(EventSet), NEW e \in EventSet, NEW t, NEW c,
           Opens(b, t, c)
    PROVE  Opens(Append(b, e), t, c)
  BY FirstPersists DEF Opens

\* An event adds at most one entry, of the turn whose prompt is pending.
LEMMA EntriesStep ==
    ASSUME NEW b, NEW s, NEW s2, NEW e, NEW m, BusInv(b, s, m),
           HostEmits(b, s, s2, e), NEW t \in Turns,
           NEW r \in EntriesOf(Append(b, e), Observed(m, e), t)
    PROVE  \/ r \in EntriesOf(b, m, t)
           \/ /\ Correlates(m, e)
              /\ r = HookReceipt(m, e)
              /\ Pending(m, e).prompt # None
              /\ TurnAt(b, Pending(m, e).prompt) = t
              /\ e.workspace = Turn[t].workspace
<1>1. /\ b \in Seq(EventSet) /\ e \in EventSet /\ m \in Memories
      /\ e.workspace \in Workspaces
  BY DEF BusInv, BusSound, HostEmits, EventSet
<1>2. /\ r \in EmittedAfter(m, e) /\ r.class = "harness.prompt_accepted"
      /\ TurnAt(Append(b, e), r.proof.events[2]) = t
  BY <1>1, ObservedParts DEF EntriesOf
<1>3. CASE r \in m.emitted
  <2>1. EntrySound(b, r)
    BY <1>2, <1>3 DEF BusInv, EmittedSound
  <2>2. TurnAt(Append(b, e), r.proof.events[2]) = TurnAt(b, r.proof.events[2])
    BY <2>1, <1>1, ChainPersists DEF EntrySound
  <2> QED
    BY <2>2, <1>2, <1>3 DEF EntriesOf
<1>4. CASE r \notin m.emitted
  <2>1. StopReceipt(m, e).class = "harness.turn_completed"
    BY ReceiptFields DEF StopReceipt
  <2>2. Correlates(m, e) /\ r = HookReceipt(m, e)
    BY <2>1, <1>2, <1>4 DEF EmittedAfter
  <2>3. r.proof.events[2] = Pending(m, e).prompt
    BY <2>2, ReceiptFields DEF HookReceipt, HookChain
  <2>4. Pending(m, e).prompt # None
    BY <2>2 DEF Correlates
  <2>5. RefersTo(b, Pending(m, e).prompt, PromptSubmitted, e.workspace)
    BY <2>4, <1>1 DEF BusInv, PendingSound, Pending
  <2>6. TurnAt(b, Pending(m, e).prompt) = t
    BY <2>3, <2>5, <1>1, <1>2, RefersToPersists
  <2>7. e.workspace = Turn[t].workspace
    BY <2>5, <2>6 DEF RefersTo, TurnAt, BusInv, BusSound
  <2> QED
    BY <2>2, <2>4, <2>6, <2>7
<1> QED
  BY <1>3, <1>4

\* Once the prompt of t is no longer pending no other entry of t is reported.
LEMMA OnlyEntryStep ==
    ASSUME NEW b, NEW s, NEW s2, NEW e, NEW m, BusInv(b, s, m),
           HostEmits(b, s, s2, e), NEW t \in Turns, NEW c,
           OnlyEntry(b, m, t, c),
           ~ (Emits(m, e) /\ e.name = PromptSubmitted /\ e.turn = t)
    PROVE  OnlyEntry(Append(b, e), Observed(m, e), t, c)
<1> DEFINE b2 == Append(b, e)
           o == Observed(m, e)
           w == Turn[t].workspace
<1>1. /\ b \in Seq(EventSet) /\ e \in EventSet /\ m \in Memories
      /\ e.workspace \in Workspaces /\ e.seq = Len(b) + 1 /\ w \in Workspaces
      /\ e.name \in Names
  BY DEF BusInv, BusSound, HostEmits, EventSet, Workspaces
<1>2. ASSUME NEW r \in EntriesOf(b2, o, t) PROVE r.proof.events = c
  <2>1. r \in EntriesOf(b, m, t)
    BY <1>2, EntriesStep DEF OnlyEntry, Pending
  <2> QED
    BY <2>1 DEF OnlyEntry
<1>3. ASSUME o.pending[w].prompt # None
      PROVE  TurnAt(b2, o.pending[w].prompt) # t
  <2>1. CASE o.pending[w] = m.pending[w]
    <3>1. /\ RefersTo(b, m.pending[w].prompt, PromptSubmitted, w)
          /\ TurnAt(b, m.pending[w].prompt) # t
      BY <1>1, <1>3, <2>1 DEF BusInv, PendingSound, OnlyEntry
    <3> QED
      BY <3>1, <2>1, <1>1, RefersToPersists
  <2>2. CASE o.pending[w] # m.pending[w]
    <3>1. w = e.workspace /\ Emits(m, e) /\ e.name # StopHook
      BY <2>2, <1>1, ElsewhereUntouched
    <3>2. o.pending[w] = IF e.name = InputSent
             THEN [input |-> Ref(e), prompt |-> None, marker |-> None]
             ELSE IF e.name = PromptSubmitted
             THEN [input |-> Pending(m, e).input, prompt |-> Ref(e),
                   marker |-> e.marker]
             ELSE NoPending
      <4>1. o.pending = PendingAfter(m, e) /\ m.pending \in [Workspaces -> PendingSet]
        BY <1>1, ObservedParts DEF Memories
      <4> QED
        BY <4>1, <3>1, <1>1 DEF PendingAfter
    <3>3. e.name = PromptSubmitted /\ o.pending[w].prompt = Ref(e)
      BY <3>2, <1>3 DEF NoPending
    <3>4. TurnAt(b2, Ref(e)) = e.turn
      BY <1>1, LatestRefers DEF TurnAt
    <3> QED
      BY <3>1, <3>3, <3>4
  <2> QED
    BY <2>1, <2>2
<1> QED
  BY <1>2, <1>3 DEF OnlyEntry

\* A report is not taken back.
LEMMA ClosedPersists ==
    ASSUME NEW b, NEW s, NEW s2, NEW e, NEW m, BusInv(b, s, m),
           HostEmits(b, s, s2, e), NEW t \in Turns, Closed(b, m, t),
           ~ (Emits(m, e) /\ e.name = PromptSubmitted /\ e.turn = t)
    PROVE  Closed(Append(b, e), Observed(m, e), t)
<1>1. b \in Seq(EventSet) /\ e \in EventSet /\ m \in Memories
  BY DEF BusInv, BusSound, HostEmits
<1>2. PICK r \in m.emitted :
          /\ r.class = "harness.turn_completed"
          /\ Opens(b, t, r.proof.events)
          /\ FirstOf(b, t, StopHook, r.proof.events[4])
          /\ OnlyEntry(b, m, t, << r.proof.events[1], r.proof.events[2],
                                   r.proof.events[3] >>)
  BY DEF Closed
<1>3. r \in Observed(m, e).emitted
  BY <1>1, EmittedGrows
<1>4. /\ Opens(Append(b, e), t, r.proof.events)
      /\ FirstOf(Append(b, e), t, StopHook, r.proof.events[4])
  BY <1>1, <1>2, OpensPersists, FirstPersists
<1>5. OnlyEntry(Append(b, e), Observed(m, e), t,
                << r.proof.events[1], r.proof.events[2], r.proof.events[3] >>)
  BY <1>2, OnlyEntryStep
<1> QED
  BY <1>2, <1>3, <1>4, <1>5 DEF Closed
-----------------------------------------------------------------------------
(***************************************************************************)
(* What an event does to what is remembered of a turn                      *)
(***************************************************************************)
\* An event that touches nothing of t's workspace.
LEMMA UnmovedStep ==
    ASSUME NEW b, NEW s, NEW s2, NEW e, NEW m, BusInv(b, s, m),
           HostEmits(b, s, s2, e), NEW t \in Turns, FollowedAt(b, s, m, t),
           s2[t] = s[t],
           Emits(m, e) => e.workspace # Turn[t].workspace,
           Observed(m, e).chains[Turn[t].workspace].signature =
              m.chains[Turn[t].workspace].signature,
           Observed(m, e).chains[Turn[t].workspace].accepted =
              m.chains[Turn[t].workspace].accepted,
           Observed(m, e).pending[Turn[t].workspace] =
              m.pending[Turn[t].workspace],
           Observed(m, e).active[<< Turn[t].workspace, Turn[t].session >>] =
              m.active[<< Turn[t].workspace, Turn[t].session >>]
    PROVE  FollowedAt(Append(b, e), s2, Observed(m, e), t)
<1> DEFINE b2 == Append(b, e)
           o == Observed(m, e)
<1>1. /\ b \in Seq(EventSet) /\ e \in EventSet
      /\ e.workspace = Turn[e.turn].workspace
  BY DEF BusInv, BusSound, HostEmits
<1>2. ~ (Emits(m, e) /\ e.name = PromptSubmitted /\ e.turn = t)
  BY <1>1
<1>3. EntriesOf(b2, o, t) \subseteq EntriesOf(b, m, t)
  BY EntriesStep DEF Correlates
<1> HIDE DEF b2, o
<1>4. \A n, ref : FirstOf(b, t, n, ref) => FirstOf(b2, t, n, ref)
  BY <1>1, FirstPersists DEF b2
<1>5. \A c : /\ Opens(b, t, c) => Opens(b2, t, c)
             /\ OnlyEntry(b, m, t, c) => OnlyEntry(b2, o, t, c)
  BY <1>1, <1>2, OpensPersists, OnlyEntryStep DEF b2, o
<1>6. AfterInput(b, m, t) => AfterInput(b2, o, t)
  BY <1>3, <1>4 DEF AfterInput, o
<1>7. AfterPrompt(b, m, t) => AfterPrompt(b2, o, t)
  BY <1>3, <1>4 DEF AfterPrompt, o
<1>8. AfterHook(b, m, t) => AfterHook(b2, o, t)
  BY <1>5 DEF AfterHook, o
<1>9. Closed(b, m, t) => Closed(b2, o, t)
  BY <1>2, ClosedPersists DEF b2, o
<1> QED
  BY <1>6, <1>7, <1>8, <1>9 DEF FollowedAt, b2, o

\* An event of another workspace.
LEMMA ElsewhereStep ==
    ASSUME NEW b, NEW s, NEW s2, NEW e, NEW m, BusInv(b, s, m),
           HostEmits(b, s, s2, e), NEW t \in Turns, Reportable(t),
           FollowedAt(b, s, m, t), e.workspace # Turn[t].workspace
    PROVE  FollowedAt(Append(b, e), s2, Observed(m, e), t)
<1>1. e \in EventSet /\ m \in Memories /\ e.turn # t /\ s2[t] = s[t]
  BY DEF BusInv, HostEmits
<1>2. Turn[t].workspace \in Workspaces /\ Turn[t].session \in Sessions
  BY DEF Workspaces, Sessions, Reportable
<1> QED
  BY <1>1, <1>2, ElsewhereUntouched, UnmovedStep

\* What the collapse makes of an event of the turn whose signature g the
\* workspace's chain has.
LEMMA OwnKey ==
    ASSUME NEW m \in Memories, NEW e \in EventSet, NEW g,
           m.chains[e.workspace].signature = g,
           e.name # InputSent, ~ Received(e),
           e.name = PromptSubmitted => Ref(e).signature = g
    PROVE  /\ Emits(m, e) = (<< e.name, g >> \notin m.chains[e.workspace].accepted)
           /\ Observed(m, e).chains[e.workspace].signature = g
           /\ Observed(m, e).chains[e.workspace].accepted =
                 m.chains[e.workspace].accepted \cup {<< e.name, g >>}
<1> DEFINE h == m.chains[e.workspace]
<1>1. e.workspace \in Workspaces /\ h \in ChainSet
  BY DEF EventSet, Memories
<1>2. NextSignature(h, e) = g /\ KeptKeys(h, e) = h.accepted
  BY DEF NextSignature, KeptKeys
<1>3. Observed(m, e).chains[e.workspace] = Collapsed(h, e).chain
  BY <1>1, ElsewhereUntouched
<1>4. Emits(m, e) = Collapsed(h, e).emit
  BY DEF Emits
<1> QED
  BY <1>1, <1>2, <1>3, <1>4, CollapsedFields DEF NextKey

\* What an event that the producer does not pass on leaves as it was.
LEMMA Unemitted ==
    ASSUME NEW m \in Memories, NEW e \in EventSet, ~ Emits(m, e)
    PROVE  /\ Observed(m, e).pending = m.pending
           /\ Observed(m, e).active = m.active
           /\ Observed(m, e).emitted = m.emitted
  BY ObservedParts DEF PendingAfter, ActiveAfter, EmittedAfter, Correlates,
     Closes

\* A relay of an event of t that was seen changes nothing.
LEMMA RelayStep ==
    ASSUME NEW b, NEW s, NEW s2, NEW e, NEW m, BusInv(b, s, m),
           HostEmits(b, s, s2, e), Reportable(e.turn),
           FollowedAt(b, s, m, e.turn), s2[e.turn] = s[e.turn],
           \/ Received(e)
           \/ /\ e.name # InputSent
              /\ e.name = PromptSubmitted =>
                    m.chains[e.workspace].signature = Signature(e.turn)
              /\ << e.name, m.chains[e.workspace].signature >>
                    \in m.chains[e.workspace].accepted
    PROVE  FollowedAt(Append(b, e), s2, Observed(m, e), e.turn)
<1> DEFINE h == m.chains[e.workspace]
           o == Observed(m, e)
<1>1. /\ e \in EventSet /\ m \in Memories /\ e.turn \in Turns
      /\ e.workspace = Turn[e.turn].workspace /\ e.workspace \in Workspaces
      /\ h \in ChainSet
  BY DEF BusInv, HostEmits, EventSet, Memories
<1>2. CASE Received(e)
  <2>1. ~ Emits(m, e) /\ o.chains[e.workspace] = h
    BY <1>1, <1>2, CollapsedFields, ElsewhereUntouched DEF Emits
  <2> QED
    BY <2>1, <1>1, Unemitted, UnmovedStep
<1>3. CASE ~ Received(e)
  <2>1. e.name = PromptSubmitted => Ref(e).signature = h.signature
    BY <1>3, QuotedSignature
  <2>2. /\ ~ Emits(m, e)
        /\ o.chains[e.workspace].signature = h.signature
        /\ o.chains[e.workspace].accepted = h.accepted
    <3>1. PICK g : g = h.signature
      OBVIOUS
    <3>2. << e.name, g >> \in h.accepted
      BY <1>3, <3>1
    <3>3. /\ Emits(m, e) = (<< e.name, g >> \notin h.accepted)
          /\ o.chains[e.workspace].signature = g
          /\ o.chains[e.workspace].accepted = h.accepted \cup {<< e.name, g >>}
      BY <1>1, <1>3, <2>1, <3>1, OwnKey
    <3> QED
      BY <3>1, <3>2, <3>3
  <2> QED
    BY <2>2, <1>1, Unemitted, UnmovedStep
<1> QED
  BY <1>2, <1>3

\* Before the prompt, or its input, is on the bus t has no entry.
LEMMA NoEntryBefore ==
    ASSUME NEW b, NEW s, NEW m, BusInv(b, s, m), NEW t \in Turns,
           s[t] \in {"waiting", "injected"}
    PROVE  EntriesOf(b, m, t) = {}
<1> SUFFICES ASSUME NEW r \in EntriesOf(b, m, t) PROVE FALSE
  OBVIOUS
<1>1. EntrySound(b, r) /\ TurnAt(b, r.proof.events[2]) = t
  BY DEF EntriesOf, BusInv, EmittedSound
<1>2. RefersTo(b, r.proof.events[2], PromptSubmitted, b[r.id].workspace)
  BY <1>1 DEF EntrySound, ChainSound
<1> QED
  BY <1>1, <1>2 DEF RefersTo, TurnAt, BusInv, StagesSound

\* The input of t begins its chain.
LEMMA InputStep ==
    ASSUME NEW b, NEW s, NEW s2, NEW e, NEW m, BusInv(b, s, m),
           HostEmits(b, s, s2, e), e.name = InputSent,
           \A i \in DOMAIN b : b[i].name = InputSent => s[b[i].turn] # "waiting"
    PROVE  FollowedAt(Append(b, e), s2, Observed(m, e), e.turn)
<1> DEFINE b2 == Append(b, e)
           o == Observed(m, e)
           w == e.workspace
<1>1. /\ b \in Seq(EventSet) /\ e \in EventSet /\ m \in Memories
      /\ e.turn \in Turns /\ w = Turn[e.turn].workspace /\ w \in Workspaces
      /\ m.chains[w] \in ChainSet /\ e.seq = Len(b) + 1
      /\ m.pending \in [Workspaces -> PendingSet]
  BY DEF BusInv, BusSound, HostEmits, EventSet, Memories
<1>2. s[e.turn] = "waiting" /\ s2[e.turn] = "injected"
  BY NamesDiffer DEF HostEmits
<1>3. Emits(m, e) /\ o.chains[w] = NewChain
  BY <1>1, CollapsedFields, ElsewhereUntouched DEF Emits
<1>4. o.pending[w] = [input |-> Ref(e), prompt |-> None, marker |-> None]
  <2>1. o.pending = PendingAfter(m, e)
    BY <1>1, ObservedParts
  <2> QED
    BY <2>1, <1>1, <1>3, NamesDiffer DEF PendingAfter
<1>5. FirstOf(b2, e.turn, InputSent, Ref(e))
  BY <1>1, <1>2, LatestIsFirst
<1>6. Ref(e) # None
  BY <1>1, RefsAreNotNone DEF RefSet
<1>7. EntriesOf(b2, o, e.turn) = {}
  <2>1. BusInv(b2, s2, o)
    BY BusInvStep
  <2> QED
    BY <2>1, <1>1, <1>2, NoEntryBefore
<1>8. AfterInput(b2, o, e.turn)
  BY <1>1, <1>3, <1>4, <1>5, <1>6, <1>7 DEF AfterInput, NewChain
<1> QED
  BY <1>2, <1>8 DEF FollowedAt

\* What the proofs about an event of the host start from.
OwnTypes(b, e, m) ==
    /\ b \in Seq(EventSet) /\ e \in EventSet /\ m \in Memories
    /\ e.turn \in Turns /\ e.seq = Len(b) + 1
    /\ e.workspace = Turn[e.turn].workspace /\ e.workspace \in Workspaces
    /\ e.session = IF e.name \in Hooks THEN Turn[e.turn].session ELSE None
    /\ m.chains[e.workspace] \in ChainSet
    /\ m.pending \in [Workspaces -> PendingSet]
    /\ m.active \in [Workspaces \X Sessions -> ActiveSet \cup {None}]
    /\ Ref(e) # None /\ Ref(e) \in RefSet

LEMMA OwnFacts ==
    ASSUME NEW b, NEW s, NEW s2, NEW e, NEW m, BusInv(b, s, m),
           HostEmits(b, s, s2, e)
    PROVE  OwnTypes(b, e, m)
<1>1. /\ b \in Seq(EventSet) /\ e \in EventSet /\ m \in Memories
  BY DEF BusInv, BusSound, HostEmits
<1>2. /\ e.turn \in Turns /\ e.seq = Len(b) + 1
      /\ e.workspace = Turn[e.turn].workspace /\ e.workspace \in Workspaces
      /\ e.session = IF e.name \in Hooks THEN Turn[e.turn].session ELSE None
  BY DEF HostEmits, EventSet
<1>3. Ref(e) \in RefSet
  BY <1>1 DEF RefSet
<1> QED
  BY <1>1, <1>2, <1>3, RefsAreNotNone DEF Memories, OwnTypes

\* The prompt of t follows its input.
LEMMA OwnPromptStep ==
    ASSUME NEW b, NEW s, NEW s2, NEW e, NEW m, BusInv(b, s, m),
           HostEmits(b, s, s2, e), AfterInput(b, m, e.turn),
           e.name = PromptSubmitted, s[e.turn] = "injected"
    PROVE  FollowedAt(Append(b, e), s2, Observed(m, e), e.turn)
<1> DEFINE b2 == Append(b, e)
           o == Observed(m, e)
           w == e.workspace
           h == m.chains[w]
           g == Signature(e.turn)
<1>0. /\ b \in Seq(EventSet) /\ e \in EventSet /\ m \in Memories
      /\ e.turn \in Turns /\ e.seq = Len(b) + 1
      /\ w = Turn[e.turn].workspace /\ w \in Workspaces
      /\ e.session = IF e.name \in Hooks THEN Turn[e.turn].session ELSE None
      /\ h \in ChainSet /\ m.pending \in [Workspaces -> PendingSet]
      /\ m.active \in [Workspaces \X Sessions -> ActiveSet \cup {None}]
      /\ Ref(e) # None /\ Ref(e) \in RefSet
  <2>1. OwnTypes(b, e, m)
    BY OwnFacts
  <2> QED
    BY <2>1 DEF OwnTypes
<1>p. /\ o.pending = PendingAfter(m, e) /\ o.active = ActiveAfter(m, e)
      /\ o.emitted = EmittedAfter(m, e)
  BY <1>0, ObservedParts
<1>1. /\ h.signature = None /\ h.accepted = {}
      /\ m.pending[w].input # None
      /\ FirstOf(b, e.turn, InputSent, m.pending[w].input)
      /\ EntriesOf(b, m, e.turn) = {}
  BY <1>0 DEF AfterInput
<1>2. s2[e.turn] = "prompted" /\ e.marker = Turn[e.turn].marker
  BY NamesDiffer DEF HostEmits, InTurn
<1>3. ~ Received(e) /\ e.name # InputSent
  BY NamesDiffer DEF Received
<1>4. NextSignature(h, e) = g /\ KeptKeys(h, e) = {}
  BY <1>1, QuotedSignature DEF NextSignature, KeptKeys
<1>5. o.chains[w] = Collapsed(h, e).chain
  BY <1>0, ElsewhereUntouched
<1>6. /\ Emits(m, e)
      /\ o.chains[w].signature = g
      /\ o.chains[w].accepted = {<< PromptSubmitted, g >>}
  <2>1. /\ Collapsed(h, e).emit = (NextKey(h, e) \notin KeptKeys(h, e))
        /\ Collapsed(h, e).chain.signature = NextSignature(h, e)
        /\ Collapsed(h, e).chain.accepted = KeptKeys(h, e) \cup {NextKey(h, e)}
    <3>1. h \in ChainSet /\ e \in EventSet
      BY <1>0
    <3> QED
      BY <3>1, <1>3, CollapsedFields
  <2>2. NextKey(h, e) = << PromptSubmitted, g >>
    BY <1>4 DEF NextKey
  <2>3. Emits(m, e) = Collapsed(h, e).emit
    BY DEF Emits
  <2>4. KeptKeys(h, e) \cup {NextKey(h, e)} = {<< PromptSubmitted, g >>}
    BY <1>4, <2>2
  <2>5. Emits(m, e)
    BY <2>1, <2>3, <1>4
  <2> HIDE DEF o, w, h, g
  <2> QED
    BY <2>1, <2>4, <2>5, <1>4, <1>5
<1>7. o.pending[w] = [input |-> m.pending[w].input, prompt |-> Ref(e),
                      marker |-> e.marker]
  BY <1>6, <1>0, <1>p, NamesDiffer DEF PendingAfter, Pending
<1>r. /\ o.pending[w].input = m.pending[w].input
      /\ o.pending[w].prompt = Ref(e)
      /\ o.pending[w].marker = Turn[e.turn].marker
  BY <1>2, <1>7
<1>8. FirstOf(b2, e.turn, InputSent, m.pending[w].input)
  BY <1>1, <1>0, FirstPersists
<1>9. FirstOf(b2, e.turn, PromptSubmitted, Ref(e))
  <2>1. \A j \in DOMAIN b :
           b[j].name = PromptSubmitted => s[b[j].turn] # "injected"
    BY DEF BusInv, StagesSound
  <2> QED
    BY <2>1, <1>0, LatestIsFirst
<1>10. EntriesOf(b2, o, e.turn) = {}
  BY <1>1, <1>0, EntriesStep, NamesDiffer DEF Correlates
<1> HIDE DEF b2, o
<1>11. AfterPrompt(b2, o, e.turn)
  BY <1>1, <1>6, <1>r, <1>8, <1>9, <1>10, <1>0 DEF AfterPrompt
<1> QED
  BY <1>2, <1>11 DEF FollowedAt, b2, o

\* The hook of t reports its prompt.
LEMMA OwnHookStep ==
    ASSUME NEW b, NEW s, NEW s2, NEW e, NEW m, BusInv(b, s, m),
           HostEmits(b, s, s2, e), Reportable(e.turn),
           AfterPrompt(b, m, e.turn),
           e.name = UserPromptSubmit, ~ Received(e), s[e.turn] = "prompted"
    PROVE  FollowedAt(Append(b, e), s2, Observed(m, e), e.turn)
<1> DEFINE b2 == Append(b, e)
           o == Observed(m, e)
           w == e.workspace
           h == m.chains[w]
           p == m.pending[w]
           g == Signature(e.turn)
           k == << w, Turn[e.turn].session >>
           c == << p.input, p.prompt, Ref(e) >>
<1>0. /\ b \in Seq(EventSet) /\ e \in EventSet /\ m \in Memories
      /\ e.turn \in Turns /\ e.seq = Len(b) + 1
      /\ w = Turn[e.turn].workspace /\ w \in Workspaces
      /\ e.session = IF e.name \in Hooks THEN Turn[e.turn].session ELSE None
      /\ h \in ChainSet /\ m.pending \in [Workspaces -> PendingSet]
      /\ m.active \in [Workspaces \X Sessions -> ActiveSet \cup {None}]
      /\ Ref(e) # None /\ Ref(e) \in RefSet
  <2>1. OwnTypes(b, e, m)
    BY OwnFacts
  <2> QED
    BY <2>1 DEF OwnTypes
<1>p. /\ o.pending = PendingAfter(m, e) /\ o.active = ActiveAfter(m, e)
      /\ o.emitted = EmittedAfter(m, e)
  BY <1>0, ObservedParts
<1>1. /\ h.signature = g /\ h.accepted = {<< PromptSubmitted, g >>}
      /\ p.input # None /\ FirstOf(b, e.turn, InputSent, p.input)
      /\ p.prompt # None /\ FirstOf(b, e.turn, PromptSubmitted, p.prompt)
      /\ p.marker = Turn[e.turn].marker
      /\ EntriesOf(b, m, e.turn) = {}
  BY <1>0 DEF AfterPrompt
<1>2. /\ s2[e.turn] = "running" /\ e.session = Turn[e.turn].session
      /\ e.session # None /\ e.session \in Sessions
  BY <1>0, NamesDiffer DEF HostEmits, Hooks, Reportable, Sessions
<1>3. /\ Emits(m, e)
      /\ o.chains[w].signature = g
      /\ o.chains[w].accepted = {<< PromptSubmitted, g >>,
                                 << UserPromptSubmit, g >>}
  <2> HIDE DEF g
  <2>1. /\ Emits(m, e) = (<< e.name, g >> \notin h.accepted)
        /\ o.chains[w].signature = g
        /\ o.chains[w].accepted = h.accepted \cup {<< e.name, g >>}
    <3>1. e.name # PromptSubmitted /\ e.name # InputSent
      BY NamesDiffer
    <3>2. PICK v : v = g
      OBVIOUS
    <3>3. m.chains[e.workspace].signature = v
      BY <1>1, <3>2
    <3>4. /\ Emits(m, e) = (<< e.name, v >> \notin h.accepted)
          /\ o.chains[w].signature = v
          /\ o.chains[w].accepted = h.accepted \cup {<< e.name, v >>}
      BY <3>1, <3>3, <1>0, OwnKey
    <3> QED
      BY <3>2, <3>4
  <2> QED
    BY <2>1, <1>1, NamesDiffer
<1>4. Correlates(m, e)
  BY <1>1, <1>2, <1>3 DEF Correlates, Pending, Reportable
<1>5. /\ o.pending[w] = NoPending
      /\ o.active[k] = [delivery |-> p.marker.delivery, events |-> c]
      /\ o.emitted = m.emitted \cup {HookReceipt(m, e)}
  <2>1. o.pending[w] = NoPending
    BY <1>3, <1>0, <1>p, NamesDiffer DEF PendingAfter
  <2>2. /\ o.active = [m.active EXCEPT ![k] =
              [delivery |-> p.marker.delivery, events |-> c]]
        /\ o.emitted = m.emitted \cup {HookReceipt(m, e)}
    BY <1>2, <1>4, <1>0, <1>p
       DEF ActiveAfter, EmittedAfter, Pending, HookChain
  <2>3. k \in Workspaces \X Sessions
    BY <1>2, <1>0
  <2> QED
    BY <2>1, <2>2, <2>3, <1>0
<1>6. o.active[k] # None
  <2>1. [delivery |-> p.marker.delivery, events |-> c] \in ActiveSet
    BY <1>1, <1>0 DEF ActiveSet, PendingSet, Reportable
  <2> QED
    BY <2>1, <1>5, RefsAreNotNone
<1>7. c[1] = p.input /\ c[2] = p.prompt /\ c[3] = Ref(e)
  OBVIOUS
<1>8. Opens(b2, e.turn, c)
  <2>1. FirstOf(b2, e.turn, UserPromptSubmit, Ref(e))
    <3>1. \A j \in DOMAIN b :
             b[j].name = UserPromptSubmit /\ b[j].phase = "completed" =>
                s[b[j].turn] # "prompted"
      BY DEF BusInv, StagesSound
    <3> QED
      BY <3>1, <1>0, LatestIsFirst
  <2>2. /\ FirstOf(b2, e.turn, InputSent, p.input)
        /\ FirstOf(b2, e.turn, PromptSubmitted, p.prompt)
    BY <1>1, <1>0, FirstPersists
  <2> HIDE DEF c
  <2> QED
    BY <2>1, <2>2, <1>7 DEF Opens
<1>9. OnlyEntry(b2, o, e.turn, c)
  <2>1. ASSUME NEW r \in EntriesOf(b2, o, e.turn) PROVE r.proof.events = c
    <3>1. r = HookReceipt(m, e)
      BY <1>1, <2>1, <1>0, EntriesStep
    <3>2. HookReceipt(m, e).proof.events = HookChain(m, e)
      BY ReceiptFields DEF HookReceipt
    <3>3. HookChain(m, e) = c
      BY DEF HookChain, Pending
    <3> QED
      BY <3>1, <3>2, <3>3
  <2>2. o.pending[Turn[e.turn].workspace].prompt = None
    BY <1>5, <1>0 DEF NoPending
  <2> QED
    BY <2>1, <2>2 DEF OnlyEntry
<1>10. AfterHook(b2, o, e.turn)
  <2>1. o.active[k].events = c
    BY <1>5
  <2> HIDE DEF b2, o, c
  <2> QED
    BY <2>1, <1>3, <1>6, <1>8, <1>9, <1>0 DEF AfterHook
<1> QED
  BY <1>2, <1>10 DEF FollowedAt

\* The Stop of t closes its chain.
LEMMA OwnStopStep ==
    ASSUME NEW b, NEW s, NEW s2, NEW e, NEW m, BusInv(b, s, m),
           HostEmits(b, s, s2, e), Reportable(e.turn),
           AfterHook(b, m, e.turn), e.name = StopHook, s[e.turn] = "running"
    PROVE  Closed(Append(b, e), Observed(m, e), e.turn)
<1> DEFINE b2 == Append(b, e)
           o == Observed(m, e)
           w == e.workspace
           h == m.chains[w]
           g == Signature(e.turn)
           k == << w, Turn[e.turn].session >>
           a == m.active[k]
           c == Append(a.events, Ref(e))
           r == StopReceipt(m, e)
<1>0. /\ b \in Seq(EventSet) /\ e \in EventSet /\ m \in Memories
      /\ e.turn \in Turns /\ e.seq = Len(b) + 1
      /\ w = Turn[e.turn].workspace /\ w \in Workspaces
      /\ e.session = IF e.name \in Hooks THEN Turn[e.turn].session ELSE None
      /\ h \in ChainSet /\ m.pending \in [Workspaces -> PendingSet]
      /\ m.active \in [Workspaces \X Sessions -> ActiveSet \cup {None}]
      /\ Ref(e) # None /\ Ref(e) \in RefSet
  <2>1. OwnTypes(b, e, m)
    BY OwnFacts
  <2> QED
    BY <2>1 DEF OwnTypes
<1>p. /\ o.pending = PendingAfter(m, e) /\ o.active = ActiveAfter(m, e)
      /\ o.emitted = EmittedAfter(m, e)
  BY <1>0, ObservedParts
<1>1. /\ h.signature = g
      /\ h.accepted = {<< PromptSubmitted, g >>, << UserPromptSubmit, g >>}
      /\ a # None /\ Opens(b, e.turn, a.events)
      /\ OnlyEntry(b, m, e.turn, a.events)
  BY <1>0 DEF AfterHook
<1>2. /\ ~ Received(e) /\ e.session = Turn[e.turn].session
      /\ e.session # None /\ e.session \in Sessions
  BY <1>0, NamesDiffer DEF HostEmits, Hooks, Reportable, Sessions
<1>3. Emits(m, e)
  <2> HIDE DEF g
  <2>1. Emits(m, e) = (<< e.name, g >> \notin h.accepted)
    BY <1>1, <1>2, <1>0, OwnKey, NamesDiffer
  <2> QED
    BY <2>1, <1>1, NamesDiffer
<1>4. Closes(m, e) /\ ~ Correlates(m, e)
  BY <1>1, <1>2, <1>3, NamesDiffer DEF Closes, Correlates
<1>5. o.emitted = m.emitted \cup {r}
  BY <1>4, <1>p DEF EmittedAfter
<1>6. r.class = "harness.turn_completed" /\ r.proof.events = c
  <2>1. a = m.active[<< e.workspace, e.session >>]
    BY <1>2
  <2>2. r = Receipt(a.delivery, c, e, "harness.turn_completed")
    BY <2>1 DEF StopReceipt
  <2>3. PICK d, q : r = Receipt(d, q, e, "harness.turn_completed") /\ q = c
    BY <2>2
  <2> HIDE DEF r, c
  <2> QED
    BY <2>3, ReceiptFields
<1>7. a \in ActiveSet /\ a.events \in RefSet \X RefSet \X RefSet
  <2>1. k \in Workspaces \X Sessions
    BY <1>2, <1>0
  <2> QED
    BY <2>1, <1>1, <1>0 DEF ActiveSet
<1>9. /\ c[1] = a.events[1] /\ c[2] = a.events[2] /\ c[3] = a.events[3]
      /\ c[4] = Ref(e) /\ << c[1], c[2], c[3] >> = a.events
  <2>1. PICK q, f : q = a.events /\ f = Ref(e) /\ c = Append(q, f)
    OBVIOUS
  <2>2. /\ Append(q, f) = << q[1], q[2], q[3], f >>
        /\ q = << q[1], q[2], q[3] >>
    <3>1. q \in RefSet \X RefSet \X RefSet /\ f \in RefSet
      BY <2>1, <1>7, <1>0
    <3> QED
      BY <3>1, TripleIsSequence
  <2> HIDE DEF c, a
  <2>3. /\ c[1] = q[1] /\ c[2] = q[2] /\ c[3] = q[3] /\ c[4] = f
        /\ << c[1], c[2], c[3] >> = q
    BY <2>1, <2>2
  <2> QED
    BY <2>1, <2>3
<1> HIDE DEF c
<1>10. Opens(b2, e.turn, c)
  <2>1. Opens(b2, e.turn, a.events)
    BY <1>1, <1>0, OpensPersists
  <2> QED
    BY <2>1, <1>9 DEF Opens
<1>11. FirstOf(b2, e.turn, StopHook, c[4])
  <2>1. \A j \in DOMAIN b : b[j].name = StopHook => s[b[j].turn] = "stopped"
    BY DEF BusInv, StagesSound
  <2> QED
    BY <2>1, <1>9, <1>0, LatestIsFirst
<1>12. OnlyEntry(b2, o, e.turn, << c[1], c[2], c[3] >>)
  BY <1>1, <1>9, <1>0, OnlyEntryStep, NamesDiffer
<1> HIDE DEF b2, o, r
<1> QED
  BY <1>5, <1>6, <1>10, <1>11, <1>12 DEF Closed, b2, o
\* The Stop of a turn that was followed closes it.
LEMMA FollowedStop ==
    ASSUME NEW b, NEW s, NEW s2, NEW e, NEW m, BusInv(b, s, m),
           HostEmits(b, s, s2, e), Reportable(e.turn), e.name = StopHook,
           FollowedAt(b, s, m, e.turn)
    PROVE  Closed(Append(b, e), Observed(m, e), e.turn)
<1>1. s[e.turn] \in {"running", "stopped"} /\ e.turn \in Turns
  BY NamesDiffer DEF HostEmits, EventSet
<1>2. CASE s[e.turn] = "running"
  BY <1>2, OwnStopStep DEF FollowedAt
<1>3. CASE s[e.turn] = "stopped"
  BY <1>1, <1>3, ClosedPersists, NamesDiffer DEF FollowedAt
<1> QED
  BY <1>1, <1>2, <1>3

\* Any event of t after its input.
LEMMA OwnStep ==
    ASSUME NEW b, NEW s, NEW s2, NEW e, NEW m, BusInv(b, s, m),
           HostEmits(b, s, s2, e), Reportable(e.turn), e.name # InputSent,
           s[e.turn] # "waiting", FollowedAt(b, s, m, e.turn)
    PROVE  FollowedAt(Append(b, e), s2, Observed(m, e), e.turn)
<1> DEFINE t == e.turn
           w == e.workspace
           h == m.chains[w]
           g == Signature(t)
<1>1. OwnTypes(b, e, m)
  BY OwnFacts
<1>2. w = Turn[t].workspace /\ t \in Turns /\ e.name \in Names
  BY <1>1 DEF OwnTypes, EventSet
<1>3. InTurn(s, t) <=> s[t] = "prompted" \/ s[t] = "running"
  BY DEF InTurn
<1>4. CASE e.name = PromptSubmitted
  <2>1. \/ s[t] = "injected"
        \/ s[t] \in {"prompted", "running"} /\ s2[t] = s[t]
    BY <1>3, <1>4, NamesDiffer DEF HostEmits
  <2>2. CASE s[t] = "injected"
    BY <1>4, <2>2, OwnPromptStep DEF FollowedAt
  <2>3. CASE s[t] \in {"prompted", "running"} /\ s2[t] = s[t]
    <3>1. h.signature = g /\ << PromptSubmitted, g >> \in h.accepted
      BY <2>3, <1>2 DEF FollowedAt, AfterPrompt, AfterHook
    <3> QED
      BY <3>1, <2>3, <1>4, RelayStep
  <2> QED
    BY <2>1, <2>2, <2>3
<1>5. CASE e.name = UserPromptSubmit
  <2>1. /\ s[t] \in {"prompted", "running"}
        /\ s2[t] = IF Received(e) THEN s[t] ELSE "running"
    BY <1>3, <1>5, NamesDiffer DEF HostEmits
  <2>2. CASE Received(e)
    BY <2>1, <2>2, RelayStep
  <2>3. CASE ~ Received(e) /\ s[t] = "prompted"
    BY <1>5, <2>3, OwnHookStep DEF FollowedAt
  <2>4. CASE ~ Received(e) /\ s[t] = "running"
    <3>1. h.signature = g /\ << UserPromptSubmit, g >> \in h.accepted
      BY <2>4, <1>2 DEF FollowedAt, AfterHook
    <3> QED
      BY <3>1, <2>1, <2>4, <1>5, RelayStep, NamesDiffer
  <2> QED
    BY <2>1, <2>2, <2>3, <2>4
<1>6. CASE e.name = StopHook
  <2>1. s[t] \in {"running", "stopped"} /\ s2[t] = "stopped"
    BY <1>6, NamesDiffer DEF HostEmits
  <2>2. Closed(Append(b, e), Observed(m, e), t)
    BY <1>6, FollowedStop
  <2> QED
    BY <2>1, <2>2 DEF FollowedAt
<1> QED
  BY <1>2, <1>4, <1>5, <1>6 DEF Names

\* An event of the host keeps what is remembered of turns.
LEMMA ReportStep ==
    ASSUME NEW b, NEW s, NEW s2, NEW e, NEW m, BusInv(b, s, m),
           HostEmits(b, s, s2, e), ReportInv(b, s, m)
    PROVE  ReportInv(Append(b, e), s2, Observed(m, e))
<1> DEFINE b2 == Append(b, e)
           o == Observed(m, e)
           n == Len(b) + 1
<1>1. /\ b \in Seq(EventSet) /\ e \in EventSet /\ e.turn \in Turns
      /\ e.workspace = Turn[e.turn].workspace
  BY OwnFacts DEF OwnTypes
<1>2. /\ Len(b) \in Nat /\ DOMAIN b = 1..Len(b)
      /\ DOMAIN b2 = 1..n /\ b2[n] = e
      /\ \A i \in DOMAIN b : b2[i] = b[i]
  BY <1>1, AppendedBus
<1>3. \A i \in DOMAIN b : /\ b[i].turn \in Turns
                          /\ b[i].workspace = Turn[b[i].turn].workspace
  <2>1. \A i \in DOMAIN b : b[i] \in EventSet
    BY <1>1
  <2> QED
    BY <2>1 DEF BusInv, BusSound, EventSet
<1>4. /\ \A i \in DOMAIN b : b[i].name = InputSent => s[b[i].turn] # "waiting"
      /\ Followed(b, s, m)
      /\ \A t \in Turns : Reportable(t) /\ Untouched(b, t) => Closed(b, m, t)
  BY DEF ReportInv
<1>5. /\ \A u \in Turns : u # e.turn => s2[u] = s[u]
      /\ s2[e.turn] # "waiting"
      /\ e.name = InputSent => s[e.turn] = "waiting"
  <2>1. InTurn(s, e.turn) => s[e.turn] # "waiting"
    BY DEF InTurn
  <2> QED
    BY <2>1, NamesDiffer DEF HostEmits
<1> HIDE DEF b2, o
<1>6. \A i \in DOMAIN b2 : b2[i].name = InputSent => s2[b2[i].turn] # "waiting"
  <2> SUFFICES ASSUME NEW i \in DOMAIN b2, b2[i].name = InputSent
               PROVE  s2[b2[i].turn] # "waiting"
    OBVIOUS
  <2>1. CASE i = n
    BY <2>1, <1>2, <1>5
  <2>2. CASE i # n
    <3>1. i \in DOMAIN b /\ b2[i] = b[i]
      BY <2>2, <1>2
    <3> QED
      BY <3>1, <1>3, <1>4, <1>5
  <2> QED
    BY <2>1, <2>2
<1>7. \A t \in Turns, i \in DOMAIN b :
         Clear(b2, t, i) => /\ Clear(b, t, i)
                            /\ e.workspace = Turn[t].workspace => e.turn = t
  <2> SUFFICES ASSUME NEW t \in Turns, NEW i \in DOMAIN b, Clear(b2, t, i)
               PROVE  /\ Clear(b, t, i)
                      /\ e.workspace = Turn[t].workspace => e.turn = t
    OBVIOUS
  <2>1. n \in DOMAIN b2 /\ n >= i /\ DOMAIN b \subseteq DOMAIN b2
    BY <1>2
  <2> QED
    BY <2>1, <1>2 DEF Clear
<1>8. ASSUME NEW t \in Turns, Reportable(t), NEW i \in DOMAIN b2,
             Clear(b2, t, i)
      PROVE  FollowedAt(b2, s2, o, t)
  <2>1. CASE i = n
    <3>1. e.turn = t /\ e.name = InputSent
      BY <1>2, <1>8, <2>1 DEF Clear
    <3> QED
      BY <3>1, <1>4, InputStep DEF b2, o
  <2>2. CASE i # n
    <3>1. i \in DOMAIN b
      BY <2>2, <1>2
    <3>2. Clear(b, t, i) /\ (e.workspace = Turn[t].workspace => e.turn = t)
      BY <3>1, <1>7, <1>8
    <3>3. FollowedAt(b, s, m, t)
      BY <3>1, <3>2, <1>4, <1>8 DEF Followed
    <3>4. s[t] # "waiting"
      BY <3>1, <3>2, <1>4 DEF Clear
    <3>5. CASE e.workspace # Turn[t].workspace
      BY <3>3, <3>5, <1>8, ElsewhereStep DEF b2, o
    <3>6. CASE e.turn = t
      <4>1. e.name # InputSent
        BY <3>4, <3>6, <1>5
      <4> QED
        BY <4>1, <3>3, <3>4, <3>6, <1>8, OwnStep DEF b2, o
    <3> QED
      BY <3>2, <3>5, <3>6
  <2> QED
    BY <2>1, <2>2
<1>9. ASSUME NEW t \in Turns, Reportable(t), Untouched(b2, t)
      PROVE  Closed(b2, o, t)
  <2>1. PICK i \in DOMAIN b2, k \in DOMAIN b2 :
            /\ b2[i].turn = t /\ b2[i].name = InputSent
            /\ b2[k].turn = t /\ b2[k].name = StopHook
            /\ \A j \in i..k : b2[j].workspace = Turn[t].workspace
                                  => b2[j].turn = t
    BY <1>9 DEF Untouched
  <2>2. \A j \in DOMAIN b : b[j].name = StopHook => s[b[j].turn] = "stopped"
    BY DEF BusInv, StagesSound
  <2>3. i \in DOMAIN b
    <3> SUFFICES ASSUME i \notin DOMAIN b PROVE FALSE
      OBVIOUS
    <3>1. i = n /\ e.turn = t /\ e.name = InputSent
      BY <2>1, <1>2
    <3>2. k \in DOMAIN b /\ b2[k] = b[k]
      BY <3>1, <2>1, <1>2, NamesDiffer
    <3> QED
      BY <3>1, <3>2, <2>1, <2>2, <1>5
  <2>4. CASE k \in DOMAIN b
    <3>1. \A j \in i..k : j \in DOMAIN b /\ b2[j] = b[j]
      BY <2>3, <2>4, <1>2
    <3>2. Untouched(b, t)
      BY <2>1, <2>3, <2>4, <3>1, <1>2 DEF Untouched
    <3>3. Closed(b, m, t) /\ s[t] = "stopped"
      BY <3>2, <2>1, <2>2, <2>4, <1>2, <1>4, <1>9
    <3>4. ~ (e.name = PromptSubmitted /\ e.turn = t)
      BY <3>3, NamesDiffer DEF HostEmits, InTurn
    <3> QED
      BY <3>3, <3>4, ClosedPersists DEF b2, o
  <2>5. CASE k \notin DOMAIN b
    <3>1. k = n /\ e.turn = t /\ e.name = StopHook
      BY <2>1, <2>5, <1>2
    <3>2. \A j \in DOMAIN b : j >= i => j \in i..k /\ b2[j] = b[j]
      BY <2>3, <3>1, <1>2
    <3>3. Clear(b, t, i)
      BY <2>1, <2>3, <3>2, <1>2 DEF Clear
    <3>4. FollowedAt(b, s, m, t)
      BY <2>3, <3>3, <1>4, <1>9 DEF Followed
    <3> QED
      BY <3>1, <3>4, <1>9, FollowedStop DEF b2, o
  <2> QED
    BY <2>4, <2>5
<1>10. Followed(b2, s2, o)
  BY <1>8 DEF Followed
<1> QED
  BY <1>6, <1>9, <1>10 DEF ReportInv, b2, o
-----------------------------------------------------------------------------
(***************************************************************************)
(* The theorems                                                            *)
(***************************************************************************)
\* The invariant about the bus, and that about the turns on it.
ReportIInv == IInv /\ ReportInv(bus, stage, Whole)

\* The resident's own steps change nothing of the whole bus.
LEMMA ResidentKeepsWhole ==
    ASSUME IInv, Start \/ Observe \/ Commit \/ Again \/ Crash \/ UNCHANGED vars
    PROVE  bus' = bus /\ stage' = stage /\ Whole' = Whole
<1>1. bus' = bus /\ stage' = stage
  BY DEF Start, Observe, Commit, Again, Crash, vars, host
<1>2. CASE Commit
  <2>1. /\ pc = "commit" /\ cursor' = cursor + 1
        /\ steady' = Observed(steady, bus[cursor + 1])
    BY <1>2 DEF Commit
  <2>2. cursor < Len(bus)
    BY <2>1 DEF IInv, Types
  <2>3. Whole = steady' /\ cursor' = Len(bus)
    BY <2>1, <2>2, ResidentFacts
  <2> QED
    BY <1>1, <2>3, ResidentFacts DEF Whole
<1>3. CASE Start \/ Observe \/ Again \/ Crash \/ UNCHANGED vars
  <2>1. cursor' = cursor /\ steady' = steady
    BY <1>3 DEF Start, Observe, Again, Crash, vars, resident
  <2> QED
    BY <1>1, <2>1 DEF Whole
<1> QED
  BY <1>1, <1>2, <1>3

\* An interrupted turn is no longer followed, and the others are.
LEMMA InterruptReports ==
    ASSUME NEW b, NEW s, NEW m, NEW s2, NEW t \in Turns, BusInv(b, s, m),
           s2 = [s EXCEPT ![t] = "interrupted"], ReportInv(b, s, m)
    PROVE  ReportInv(b, s2, m)
<1>1. s \in [Turns -> Stages]
  BY DEF BusInv, StagesSound
<1>2. /\ s2[t] = "interrupted"
      /\ \A u \in Turns : u # t => s2[u] = s[u]
  BY <1>1
<1>3. \A i \in DOMAIN b : b[i].turn \in Turns
  <2>1. b \in Seq(EventSet)
    BY DEF BusInv, BusSound
  <2>2. \A i \in DOMAIN b : b[i] \in EventSet
    BY <2>1
  <2> QED
    BY <2>2 DEF EventSet
<1>4. \A i \in DOMAIN b : b[i].name = InputSent => s2[b[i].turn] # "waiting"
  BY <1>2, <1>3 DEF ReportInv
<1>5. \A u \in Turns : FollowedAt(b, s, m, u) => FollowedAt(b, s2, m, u)
  BY <1>2 DEF FollowedAt
<1> QED
  BY <1>4, <1>5 DEF ReportInv, Followed

\* At each stage of a turn that nothing else in its workspace disturbs, the
\* producer remembers the first event of each kind and nothing else, however
\* often events are relayed, repeated and replayed (receipt_producer.py:
\* 89-134, receipt_emitter.py:68-164).
THEOREM TurnsAreFollowed == Spec => []ReportIInv
<1>1. Init => ReportInv(bus, stage, Whole)
  <2> SUFFICES ASSUME Init PROVE ReportInv(bus, stage, Whole)
    OBVIOUS
  <2>1. bus = <<>>
    BY DEF Init
  <2>2. DOMAIN bus = {}
    BY <2>1
  <2> QED
    BY <2>2 DEF ReportInv, Followed, Untouched
<1>2. ASSUME ReportIInv, IInv', [Next]_vars PROVE ReportIInv'
  <2>1. IInv /\ ReportInv(bus, stage, Whole)
    BY <1>2 DEF ReportIInv
  <2>2. CASE \E t \in Turns : Emission(t)
    <3>1. PICK t \in Turns : Emission(t)
      BY <2>2
    <3>2. PICK name, phase :
              /\ Emit(t, name, phase)
              /\ HostEmits(bus, stage, stage', Event(t, name, phase))
      BY <2>1, <3>1, EmissionEvent
    <3>3. PICK e : e = Event(t, name, phase)
      OBVIOUS
    <3>4. /\ CaughtUp /\ bus' = Append(bus, e)
          /\ cursor' = cursor /\ steady' = steady
      BY <3>2, <3>3 DEF Emit, resident
    <3>5. /\ Whole = steady /\ cursor = Len(bus) /\ Len(bus) \in Nat
          /\ bus \in Seq(EventSet) /\ BusInv(bus, stage, steady)
      BY <2>1, <3>4, AtRest
    <3>6. e \in EventSet
      BY <3>2, <3>3 DEF HostEmits
    <3>7. Len(bus') = Len(bus) + 1 /\ bus'[Len(bus) + 1] = e
      BY <3>4, <3>5, <3>6
    <3>8. Whole' = Observed(steady, e)
      BY <3>4, <3>5, <3>7 DEF Whole
    <3>9. ReportInv(Append(bus, e), stage', Observed(steady, e))
      BY <2>1, <3>2, <3>3, <3>5, ReportStep
    <3> QED
      BY <1>2, <3>4, <3>8, <3>9 DEF ReportIInv
  <2>3. CASE \E t \in Turns : Interrupt(t)
    <3>1. PICK t \in Turns : Interrupt(t)
      BY <2>3
    <3>2. /\ stage' = [stage EXCEPT ![t] = "interrupted"]
          /\ bus' = bus /\ cursor' = cursor /\ steady' = steady
      BY <3>1 DEF Interrupt, resident
    <3>3. Whole' = Whole
      BY <3>2 DEF Whole
    <3>4. BusInv(bus, stage, Whole)
      BY <2>1 DEF IInv
    <3>5. ReportInv(bus, stage', Whole)
      BY <2>1, <3>2, <3>4, InterruptReports
    <3> QED
      BY <1>2, <3>2, <3>3, <3>5 DEF ReportIInv
  <2>4. CASE Start \/ Observe \/ Commit \/ Again \/ Crash \/ UNCHANGED vars
    <3>1. bus' = bus /\ stage' = stage /\ Whole' = Whole
      BY <2>1, <2>4, ResidentKeepsWhole
    <3> QED
      BY <1>2, <2>1, <3>1 DEF ReportIInv
  <2> QED
    BY <1>2, <2>2, <2>3, <2>4 DEF Next, Emission
<1>3. Init => ReportIInv
  BY <1>1, Initially DEF ReportIInv
<1> QED
  BY <1>2, <1>3, Inductive, PTL DEF Spec

\* A turn that no other turn of its workspace disturbs is reported as soon
\* as its events are in the outbox, with the first event of each kind,
\* whatever happened before it and however often the resident died
\* (receipt_producer.py:89-96).  UndisturbedTurnIsReported follows from it
\* and from the resident's progress.
THEOREM ReportCorrect ==
    Spec => [](cursor = Len(bus) => TurnsAreReported)
<1>1. ReportIInv => (cursor = Len(bus) => TurnsAreReported)
  <2> SUFFICES ASSUME ReportIInv, cursor = Len(bus), NEW t \in Turns,
                      Reportable(t), Undisturbed(t)
               PROVE  Reported(t)
    BY DEF TurnsAreReported
  <2>1. IInv /\ ReportInv(bus, stage, Whole)
    BY DEF ReportIInv
  <2>2. Whole = steady /\ steady.emitted \subseteq sent
    BY <2>1, ResidentFacts DEF IInv, SentSound
  <2>3. Untouched(bus, t)
    BY DEF Undisturbed, Untouched
  <2>4. Closed(bus, Whole, t)
    BY <2>1, <2>3 DEF ReportInv
  <2>5. PICK r \in sent :
            /\ r.class = "harness.turn_completed"
            /\ Opens(bus, t, r.proof.events)
            /\ FirstOf(bus, t, StopHook, r.proof.events[4])
    BY <2>2, <2>4 DEF Closed
  <2>6. /\ CompletedChain[1] = InputSent
        /\ CompletedChain[2] = PromptSubmitted
        /\ CompletedChain[3] = UserPromptSubmit
        /\ CompletedChain[4] = StopHook
    BY DEF CompletedChain, PromptChain, InputSent, PromptSubmitted,
       UserPromptSubmit, StopHook
  <2>7. \A i \in 1..4 : FirstOf(bus, t, CompletedChain[i], r.proof.events[i])
    BY <2>5, <2>6 DEF Opens
  <2>8. r \in Completions
    BY <2>5 DEF Completions
  <2> QED
    BY <2>7, <2>8 DEF Reported, FirstOf, TurnOf
<1> QED
  BY <1>1, TurnsAreFollowed, PTL
=============================================================================
