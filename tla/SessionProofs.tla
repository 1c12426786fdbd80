---------------------------- MODULE SessionProofs ----------------------------
(***************************************************************************)
(* Theorems about Session, for every number of cycles and streams and      *)
(* every order in which events, commands and deaths of circuits meet.      *)
(***************************************************************************)
EXTENDS Session, FiniteSetTheorems, SequenceTheorems, TLAPS

Workers == {"boot", "rest", "poll", "install", "check", "serve", "leave", "close", "over"}

InCycle(w) == w \notin {"boot", "rest", "over"}

SessionTypes ==
    /\ stream \in [Streams -> {"none", "dialled", "waiting", "attached", "closed"}]
    /\ token \in [Streams -> Gens \union {None}]
    /\ on \in [Streams -> Gens \union {None}]
    /\ worker \in Workers
    /\ gen \in 0 .. Cycles

(* A token is given to a stream when it is dialled and never changes: no   *)
(* stream that exists is dialled again, not even that of a later IP check. *)
TokenOnce ==
    /\ \A s \in Streams : stream[s] = "none" => token[s] = None /\ on[s] = None
    /\ InCycle(worker) => gen \in Gens
    /\ \A g \in Gens : (g > gen \/ (g = gen /\ worker \in {"poll", "install"}))
                           => stream[Check(g)] = "none"

(* The decision to attach stays right while the command is under way.      *)
DecisionStands ==
    handler.do = "attach" /\ handler.stream \in Streams =>
        token[handler.stream] = handler.gen /\ handler.gen # None

SInv == SessionTypes /\ TokenOnce /\ DecisionStands /\ AttachedToOwn

LEMMA CheckStreams ==
    /\ \A g \in Gens : Check(g) \in Streams
    /\ \A g, h \in Gens : Check(g) = Check(h) => g = h
    /\ \A g \in Gens : Check(g) \notin Users /\ Check(g) \notin Internals
<1>1. \A g \in Gens : Check(g) \in Streams BY DEF Streams
<1>2. ASSUME NEW g \in Gens, NEW h \in Gens, Check(g) = Check(h) PROVE g = h
  <2>1. Check(g).check = g /\ Check(h).check = h BY DEF Check
  <2> QED BY <1>2, <2>1
<1> QED BY <1>1, <1>2, StreamAssumption

LEMMA SInvInit == ASSUME Init PROVE SInv
<1> USE DEF Init
<1>1. SessionTypes BY CycleAssumption DEF SessionTypes, Workers
<1>2. TokenOnce BY CheckStreams DEF TokenOnce, InCycle
<1>3. DecisionStands BY DEF DecisionStands, Idle
<1>4. AttachedToOwn BY DEF AttachedToOwn
<1> QED BY <1>1, <1>2, <1>3, <1>4 DEF SInv

(* Steps that dial no stream: none comes to be, and the worker's cycle     *)
(* does not enter its polls.                                               *)
LEMMA NoDial ==
    ASSUME SInv, SessionTypes',
           UNCHANGED <<token, on, gen>>,
           \A s \in Streams : stream[s] = "none" => stream'[s] = "none" \/ s \in Internals,
           \A s \in Streams : stream'[s] = "none" => stream[s] = "none",
           worker' \in {"poll", "install"} => worker \in {"poll", "install"},
           InCycle(worker') => InCycle(worker),
           DecisionStands'
    PROVE  SInv'
<1>1. TokenOnce' BY CheckStreams DEF SInv, TokenOnce, SessionTypes, InCycle
<1>2. AttachedToOwn' BY DEF SInv, AttachedToOwn
<1> QED BY <1>1, <1>2 DEF SInv

LEMMA TorSteps ==
    ASSUME SInv,
           \/ \E s \in Internals : InternalOpens(s) \/ InternalDetaches(s)
           \/ \E s \in Streams : StreamCloses(s) \/ StreamArrives(s)
           \/ \E g \in Gens : CircuitBuilt(g) \/ CircuitDies(g)
           \/ LinkLost
    PROVE  SInv'
<1> USE DEF SInv, SessionTypes, DecisionStands, session, cycle
<1>1. CASE \E s \in Internals : InternalOpens(s) \/ InternalDetaches(s)
      BY <1>1, NoDial DEF InternalOpens, InternalDetaches, Set, Streams
<1>2. CASE \E s \in Streams : StreamCloses(s) \/ StreamArrives(s)
      BY <1>2, NoDial DEF StreamCloses, StreamArrives, Set
<1>3. CASE \E g \in Gens : CircuitBuilt(g) \/ CircuitDies(g)
      BY <1>3, NoDial DEF CircuitBuilt, CircuitDies, Death, Riding
<1>4. CASE LinkLost BY <1>4, NoDial DEF LinkLost, tor
<1> QED BY <1>1, <1>2, <1>3, <1>4

LEMMA DialSteps ==
    ASSUME SInv, (\E s \in Users : UserDials(s)) \/ Install
    PROVE  SInv'
<1> USE DEF SInv, SessionTypes, session, cycle
<1>1. PICK s \in Streams :
         /\ stream[s] = "none" /\ Set(s, "dialled")
         /\ token' = [token EXCEPT ![s] = gen]
         /\ gen \in Gens
         /\ UNCHANGED <<on, gen, handler>>
         /\ \A g \in Gens : s = Check(g) => worker' = "check" /\ g = gen
         /\ worker' \in Workers /\ worker' \notin {"poll", "install"}
  <2>1. CASE Install
    <3>1. worker = "install" /\ worker' = "check" BY <2>1 DEF Install, WorkerGoto
    <3>2. gen \in Gens BY <3>1 DEF TokenOnce, InCycle
    <3>3. Check(gen) \in Streams /\ stream[Check(gen)] = "none"
          BY <3>1, <3>2, CheckStreams DEF TokenOnce
    <3>4. \A g \in Gens : Check(gen) = Check(g) => g = gen BY <3>2, CheckStreams
    <3> QED BY <2>1, <3>1, <3>2, <3>3, <3>4 DEF Install, WorkerGoto, Workers
  <2>2. ASSUME NEW u \in Users, UserDials(u)
        PROVE  /\ u \in Streams /\ stream[u] = "none" /\ Set(u, "dialled")
               /\ token' = [token EXCEPT ![u] = gen]
               /\ gen \in Gens
               /\ UNCHANGED <<on, gen, handler>>
               /\ \A g \in Gens : u # Check(g)
               /\ worker' = "serve"
    <3>1. worker = "serve" BY <2>2 DEF UserDials
    <3>2. gen \in Gens BY <3>1 DEF TokenOnce, InCycle
    <3> QED BY <2>2, <3>1, <3>2, CheckStreams DEF UserDials, Streams
  <2> QED BY <2>1, <2>2 DEF Workers
<1>2. token[s] = None /\ on[s] = None BY <1>1 DEF TokenOnce
<1>3. gen # None BY <1>1, StreamAssumption
<1>4. SessionTypes' BY <1>1 DEF Set
<1>5. TokenOnce'
  <2>1. \A t \in Streams : stream'[t] = "none" =>
            t # s /\ stream[t] = "none" /\ token'[t] = token[t] /\ on'[t] = on[t]
        BY <1>1 DEF Set
  <2>2. ASSUME NEW g \in Gens, g > gen PROVE stream'[Check(g)] = "none"
    <3>1. Check(g) # s /\ Check(g) \in Streams /\ stream[Check(g)] = "none"
          BY <1>1, <2>2, CheckStreams DEF TokenOnce, Gens
    <3> QED BY <1>1, <3>1 DEF Set
  <2> QED BY <1>1, <2>1, <2>2 DEF TokenOnce
<1>6. DecisionStands' BY <1>1, <1>2, <1>3 DEF DecisionStands
<1>7. AttachedToOwn' BY <1>1, <1>2 DEF AttachedToOwn
<1> QED BY <1>4, <1>5, <1>6, <1>7

(* torSession.events decides on the token it reads, and only it attaches.  *)
LEMMA HandlerSteps ==
    ASSUME SInv, HandlerStep
    PROVE  SInv'
<1> USE DEF SInv, SessionTypes, DecisionStands, session, cycle, tor
<1>1. CASE TakeEvent
  <2>1. ASSUME NEW e, Settle(e), handler'.do = "attach", handler' # handler
        PROVE  /\ handler'.stream = e.id /\ handler'.gen = token[e.id]
               /\ handler'.gen # None
        BY <2>1 DEF Settle, Then, Refuse, Belongs
  <2>2. DecisionStands' BY <1>1, <2>1 DEF TakeEvent, HandleCirc, HandleStream
  <2> QED BY <1>1, <2>2, NoDial DEF TakeEvent
<1>2. CASE Attach
  <2>1. CASE Attachable
    <3>1. \A s \in Streams : on'[s] # None => on'[s] = token'[s]
          BY <1>2, <2>1 DEF Attach, AttachedToOwn
    <3>2. on' \in [Streams -> Gens \union {None}]
      <4>1. handler.stream \in Streams => handler.gen \in Gens \union {None}
            BY <1>2 DEF Attach
      <4> QED BY <1>2, <2>1, <4>1 DEF Attach
    <3>3. SessionTypes' BY <1>2, <2>1, <3>2 DEF Attach, Set
    <3>4. \A s \in Streams : stream'[s] = "none" => stream[s] = "none" /\ on'[s] = on[s]
          BY <1>2, <2>1 DEF Attach, Attachable, Set
    <3>5. \A s \in Streams : stream[s] = "none" => stream'[s] = "none"
          BY <1>2, <2>1 DEF Attach, Attachable, Set
    <3>6. TokenOnce' BY <1>2, <2>1, <3>4, <3>5, CheckStreams DEF Attach, TokenOnce
    <3>7. DecisionStands' BY <1>2, <2>1 DEF Attach, Idle
    <3> QED BY <3>1, <3>3, <3>6, <3>7 DEF AttachedToOwn
  <2>2. CASE ~ Attachable BY <1>2, <2>2, NoDial DEF Attach, Then
  <2> QED BY <2>1, <2>2
<1>3. CASE CloseStream BY <1>3, NoDial DEF CloseStream, Set, Idle
<1>4. CASE CommandFails BY <1>4, NoDial DEF CommandFails, Idle
<1>5. CASE SessionEnds BY <1>5, NoDial DEF SessionEnds, Then
<1> QED BY <1>1, <1>2, <1>3, <1>4, <1>5 DEF HandlerStep

LEMMA WorkerSteps ==
    ASSUME SInv, WorkerStep \/ ServingEnds(TRUE), ~ Install
    PROVE  SInv'
<1> USE DEF SInv, SessionTypes, DecisionStands, session, cycle, tor, WorkerGoto, Workers, InCycle
<1>1. CASE Subscribe BY <1>1, NoDial DEF Subscribe
<1>2. CASE Extend
  <2>1. SessionTypes' BY <1>2, CycleAssumption DEF Extend
  <2>2. gen + 1 \in Gens BY <1>2, CycleAssumption DEF Extend, Gens
  <2>3. \A g \in Gens : g > gen + 1 \/ g = gen + 1 => g > gen BY DEF Gens
  <2>4. TokenOnce' BY <1>2, <2>2, <2>3 DEF Extend, TokenOnce
  <2>5. DecisionStands' /\ AttachedToOwn' BY <1>2 DEF Extend, AttachedToOwn
  <2> QED BY <2>1, <2>4, <2>5
<1>3. CASE PollBuilt BY <1>3, NoDial DEF PollBuilt
<1>4. CASE CheckPasses BY <1>4, NoDial DEF CheckPasses, Set, Riding
<1>5. CASE GiveUp BY <1>5, NoDial DEF GiveUp
<1>6. CASE ServingEnds(TRUE) \/ ServingEnds(CircuitGone) BY <1>6, NoDial DEF ServingEnds
<1>7. CASE Uninstall BY <1>7, NoDial DEF Uninstall
<1>8. CASE CloseCircuit BY <1>8, NoDial DEF CloseCircuit, Death, Riding
<1>9. CASE WorkerEnds BY <1>9, NoDial DEF WorkerEnds
<1> QED BY <1>1, <1>2, <1>3, <1>4, <1>5, <1>6, <1>7, <1>8, <1>9 DEF WorkerStep

LEMMA SInvStep == ASSUME SInv, [Next]_vars PROVE SInv'
<1>1. CASE Next BY <1>1, TorSteps, DialSteps, HandlerSteps, WorkerSteps DEF Next, WorkerStep
<1>2. CASE UNCHANGED vars
      BY <1>2 DEF vars, tor, session, cycle, SInv, SessionTypes, TokenOnce, DecisionStands,
                  AttachedToOwn
<1> QED BY <1>1, <1>2

(* A stream is only ever attached to the circuit of the endpoint through   *)
(* which it was dialled (tor.go:100-117): the token events compares cannot *)
(* be that of another stream, nor change while the command is under way.   *)
THEOREM OwnCircuit == Spec => []AttachedToOwn
<1>1. SInv => AttachedToOwn BY DEF SInv
<1> QED BY <1>1, SInvInit, SInvStep, PTL DEF Spec
----------------------------------------------------------------------------
(* A second inductive invariant: what is on its way from Tor to events     *)

Events == {CircEvent(g, s) : g \in Gens, s \in Fatal}
          \union {StreamEvent(s, t) : s \in Streams, t \in {"NEW", "DETACHED", "CLOSED"}}

IsOf(e, s) == e.kind = "STREAM" /\ e.id = s
Opened == {s \in Streams : stream[s] # "none"}

QueueTypes ==
    /\ circ \in [Gens -> {"none", "building", "built", "dead"}]
    /\ cancelled \in [Gens -> BOOLEAN]
    /\ queue \in Seq(Events)
    /\ reported \subseteq Internals
    /\ internal \subseteq Streams

(* The endpoint of the circuit that is checked or serves is in place, and  *)
(* Tor reports deaths; so that of a circuit that serves is on its way.     *)
InPlace ==
    /\ worker # "boot" => subscribed
    /\ worker \in {"check", "serve"} => current = gen
    /\ DeathKnown

(* Events and decisions are about streams that exist, and finitely many    *)
(* exist at any moment, however many are opened.                           *)
Existing ==
    /\ \A i \in 1 .. Len(queue) : queue[i].kind = "STREAM" => stream[queue[i].id] # "none"
    /\ IF handler.do \in {"attach", "close"}
       THEN handler.stream \in Streams /\ stream[handler.stream] # "none"
       ELSE handler.stream = None
    /\ IsFiniteSet(Opened)

(* A reported stream of Tor: its NEW is ahead of whatever else is reported *)
(* of it, or was handled and is remembered; its CLOSED is the last.        *)
NewBefore(s, n) == \E j \in 1 .. n : IsOf(queue[j], s) /\ queue[j].status = "NEW"

Remembered(s) ==
    /\ stream[s] \in {"waiting", "attached", "closed"} /\ on[s] = None
    /\ link /\ stream[s] # "closed" => s \in internal \/ NewBefore(s, Len(queue))
    /\ \A i \in 1 .. Len(queue) : IsOf(queue[i], s) =>
         /\ queue[i].status # "NEW" => s \in internal \/ NewBefore(s, i - 1)
         /\ queue[i].status = "CLOSED" =>
              /\ stream[s] = "closed"
              /\ \A j \in i + 1 .. Len(queue) : ~ IsOf(queue[j], s)

QInv ==
    /\ SInv /\ QueueTypes /\ InPlace /\ Existing
    /\ InternalLeftAlone
    /\ \A s \in reported : Remembered(s)

LEMMA EventFacts ==
    /\ \A e \in Events : \/ e.kind = "CIRC" /\ e.id \in Gens /\ e.status \in Fatal
                         \/ /\ e.kind = "STREAM" /\ e.id \in Streams
                            /\ e.status \in {"NEW", "DETACHED", "CLOSED"}
    /\ \A g \in Gens, s \in Fatal : CircEvent(g, s) \in Events
    /\ \A s \in Streams, t \in {"NEW", "DETACHED", "CLOSED"} : StreamEvent(s, t) \in Events
<1>1. ASSUME NEW g \in Gens, NEW s \in Fatal
      PROVE  /\ CircEvent(g, s) \in Events
             /\ CircEvent(g, s).kind = "CIRC" /\ CircEvent(g, s).id = g
             /\ CircEvent(g, s).status = s
      BY DEF Events, CircEvent
<1>2. ASSUME NEW s \in Streams, NEW t \in {"NEW", "DETACHED", "CLOSED"}
      PROVE  /\ StreamEvent(s, t) \in Events
             /\ StreamEvent(s, t).kind = "STREAM" /\ StreamEvent(s, t).id = s
             /\ StreamEvent(s, t).status = t
      BY DEF Events, StreamEvent
<1>3. ASSUME NEW e \in Events
      PROVE  \/ \E g \in Gens, s \in Fatal : e = CircEvent(g, s)
             \/ \E s \in Streams, t \in {"NEW", "DETACHED", "CLOSED"} : e = StreamEvent(s, t)
      BY DEF Events
<1> QED BY <1>1, <1>2, <1>3

----------------------------------------------------------------------------
(* The queue grows at its end                                              *)

Longer(E) ==
    /\ queue' \in Seq(Events)
    /\ Len(queue') \in Nat /\ Len(queue) \in Nat /\ Len(queue) <= Len(queue')
    /\ \A i \in 1 .. Len(queue) : queue'[i] = queue[i]
    /\ \A i \in Len(queue) + 1 .. Len(queue') : queue'[i] \in E

LEMMA NothingNew == ASSUME QueueTypes, queue' = queue PROVE Longer({})
<1>1. Len(queue) \in Nat BY LenProperties DEF QueueTypes
<1> QED BY <1>1 DEF QueueTypes, Longer

LEMMA Reported ==
    ASSUME QueueTypes, NEW E \in SUBSET Events, IsFiniteSet(E), Report(E)
    PROVE  /\ Longer(E)
           /\ Len(queue') <= Len(queue) + Cardinality(E)
           /\ ~ link => queue' = queue
           /\ subscribed /\ link => \A e \in E : \E i \in 1 .. Len(queue') : queue'[i] = e
<1>1. Cardinality(E) \in Nat BY FS_CardinalityType
<1>2. CASE ~ (subscribed /\ link)
  <2>1. queue' = queue BY <1>2 DEF Report
  <2>2. Longer({}) BY <2>1, NothingNew
  <2> QED BY <1>1, <1>2, <2>1, <2>2 DEF Longer
<1>3. CASE subscribed /\ link
  <2>1. PICK es \in Orders(E) : queue' = queue \o es BY <1>3 DEF Report
  <2>2. es \in [1 .. Cardinality(E) -> E] /\ \A e \in E : \E i \in 1 .. Cardinality(E) : es[i] = e
        BY <2>1 DEF Orders
  <2>3. es \in Seq(Events) /\ es \in Seq(E) /\ Len(es) = Cardinality(E)
        BY <1>1, <2>2, IsASeq
  <2>4. queue \in Seq(Events) /\ Len(queue) \in Nat BY LenProperties DEF QueueTypes
  <2>5. /\ queue' \in Seq(Events) /\ Len(queue') = Len(queue) + Cardinality(E)
        /\ \A i \in 1 .. Len(queue') :
             queue'[i] = IF i <= Len(queue) THEN queue[i] ELSE es[i - Len(queue)]
    <3>1. queue \in Seq(Events) /\ es \in Seq(Events) BY <2>3, <2>4
    <3>2. /\ queue \o es \in Seq(Events) /\ Len(queue \o es) = Len(queue) + Len(es)
          /\ \A i \in 1 .. Len(queue) + Len(es) :
               (queue \o es)[i] = IF i <= Len(queue) THEN queue[i] ELSE es[i - Len(queue)]
          BY <3>1, ConcatProperties
    <3> QED BY <2>1, <2>3, <3>2
  <2>6. ASSUME NEW i \in Len(queue) + 1 .. Len(queue') PROVE queue'[i] \in E
    <3>1. i - Len(queue) \in 1 .. Cardinality(E) BY <1>1, <2>4, <2>5
    <3>2. queue'[i] = es[i - Len(queue)] BY <2>4, <2>5
    <3> QED BY <2>2, <3>1, <3>2
  <2>7. ASSUME NEW e \in E PROVE \E i \in 1 .. Len(queue') : queue'[i] = e
    <3>1. PICK i \in 1 .. Cardinality(E) : es[i] = e BY <2>2
    <3>2. /\ Len(queue) + i \in 1 .. Len(queue') /\ ~ Len(queue) + i <= Len(queue)
          /\ Len(queue) + i - Len(queue) = i
          BY <1>1, <2>4, <2>5
    <3> QED BY <2>5, <3>1, <3>2
  <2> QED BY <1>1, <1>3, <2>4, <2>5, <2>6, <2>7 DEF Longer
<1> QED BY <1>2, <1>3

LEMMA ReportedOne ==
    ASSUME QueueTypes, NEW s \in Streams, NEW t \in {"NEW", "DETACHED", "CLOSED"},
           Report({StreamEvent(s, t)})
    PROVE  /\ Longer({StreamEvent(s, t)})
           /\ Len(queue') <= Len(queue) + 1
           /\ ~ link => queue' = queue
           /\ subscribed /\ link => \E i \in 1 .. Len(queue') : queue'[i] = StreamEvent(s, t)
<1>1. {StreamEvent(s, t)} \in SUBSET Events BY EventFacts
<1>2. IsFiniteSet({StreamEvent(s, t)}) /\ Cardinality({StreamEvent(s, t)}) = 1 BY FS_Singleton
<1> QED BY <1>1, <1>2, Reported

----------------------------------------------------------------------------
(* What a step does not disturb                                            *)

LEMMA StillRemembered ==
    ASSUME QueueTypes, NEW E \in SUBSET Events, Longer(E),
           NEW s, Remembered(s), stream'[s] = stream[s], on'[s] = on[s],
           internal' = internal, link' => link,
           \A e \in E : ~ IsOf(e, s)
    PROVE  Remembered(s)'
<1> USE DEF Longer, Remembered, NewBefore
<1>1. Len(queue) \in Nat /\ Len(queue') \in Nat /\ Len(queue) <= Len(queue') OBVIOUS
<1>2. \A i \in 1 .. Len(queue) : queue'[i] = queue[i] OBVIOUS
<1>3. \A i \in 1 .. Len(queue') : IsOf(queue'[i], s) => i \in 1 .. Len(queue) BY <1>1
<1>4. link' /\ stream'[s] # "closed" => s \in internal' \/ NewBefore(s, Len(queue))'
      BY <1>1, <1>2
<1>5. ASSUME NEW i \in 1 .. Len(queue'), IsOf(queue'[i], s)
      PROVE  /\ queue'[i].status # "NEW" => s \in internal' \/
                    \E j \in 1 .. i - 1 : IsOf(queue'[j], s) /\ queue'[j].status = "NEW"
             /\ queue'[i].status = "CLOSED" =>
                    stream'[s] = "closed" /\ \A j \in i + 1 .. Len(queue') : ~ IsOf(queue'[j], s)
  <2>1. i \in 1 .. Len(queue) /\ queue'[i] = queue[i] BY <1>2, <1>3, <1>5
  <2>2. \A j \in 1 .. i - 1 : queue'[j] = queue[j] BY <1>1, <1>2, <2>1
  <2>3. \A j \in i + 1 .. Len(queue') :
           IsOf(queue'[j], s) => j \in i + 1 .. Len(queue) /\ queue'[j] = queue[j]
        BY <1>1, <1>2, <1>3, <2>1
  <2> QED BY <1>5, <2>1, <2>2, <2>3
<1> QED BY <1>4, <1>5

LEMMA StillExisting ==
    ASSUME QueueTypes, Existing, NEW E \in SUBSET Events, Longer(E),
           NEW x, Opened' \subseteq Opened \union {x},
           \A s \in Streams : stream[s] # "none" => stream'[s] # "none",
           \A e \in E : e.kind = "STREAM" => stream'[e.id] # "none",
           \/ handler' = handler
           \/ handler'.do \notin {"attach", "close"} /\ handler'.stream = None
           \/ handler.do \in {"attach", "close"} /\ handler'.stream = handler.stream
              /\ handler'.do = "close"
    PROVE  Existing'
<1>1. IsFiniteSet(Opened') BY FS_AddElement, FS_Subset DEF Existing
<1>2. ASSUME NEW i \in 1 .. Len(queue'), queue'[i].kind = "STREAM"
      PROVE  stream'[queue'[i].id] # "none"
  <2>1. CASE i \in 1 .. Len(queue)
    <3>1. queue'[i] = queue[i] /\ queue[i] \in Events
          BY <2>1, ElementOfSeq DEF Longer, QueueTypes
    <3>2. queue[i].id \in Streams BY <1>2, <3>1, EventFacts
    <3> QED BY <1>2, <2>1, <3>1, <3>2 DEF Existing
  <2>2. CASE i \notin 1 .. Len(queue)
    <3>1. queue'[i] \in E BY <2>2 DEF Longer
    <3> QED BY <1>2, <3>1
  <2> QED BY <2>1, <2>2
<1> QED BY <1>1, <1>2 DEF Existing

LEMMA StillKnown ==
    ASSUME DeathKnown, NEW E \in SUBSET Events, Longer(E),
           worker' = "serve" => worker = "serve" /\ gen' = gen /\ (circ'[gen] = "dead" => circ[gen] = "dead"),
           link' => link, cancelled[gen] => cancelled'[gen]
    PROVE  DeathKnown'
<1> SUFFICES ASSUME worker' = "serve", circ'[gen'] = "dead", link', ~ cancelled'[gen']
             PROVE  \E i \in 1 .. Len(queue') : queue'[i].kind = "CIRC" /\ queue'[i].id = gen'
    BY DEF DeathKnown
<1>1. PICK i \in 1 .. Len(queue) : queue[i].kind = "CIRC" /\ queue[i].id = gen BY DEF DeathKnown
<1>2. i \in 1 .. Len(queue') /\ queue'[i] = queue[i] BY DEF Longer
<1> QED BY <1>1, <1>2

(* Steps that move neither the worker nor its circuits.                    *)
LEMMA SameCycle ==
    ASSUME InPlace, NEW E \in SUBSET Events, Longer(E),
           UNCHANGED <<worker, gen, current, circ, cancelled, subscribed>>, link' => link
    PROVE  InPlace'
BY StillKnown DEF InPlace

LEMMA OtherStream ==
    ASSUME NEW s \in Streams, NEW t, NEW r, r # s PROVE ~ IsOf(StreamEvent(s, t), r)
BY DEF IsOf, StreamEvent

----------------------------------------------------------------------------
(* Steps that report nothing                                               *)

LEMMA InitQInv == Init => QInv
<1> SUFFICES ASSUME Init PROVE QInv OBVIOUS
<1> USE DEF Init
<1>1. QueueTypes BY EmptySeq DEF QueueTypes
<1>2. InPlace BY DEF InPlace, DeathKnown
<1>3. Len(queue) = 0 /\ Opened = {} BY DEF Opened
<1>4. Existing BY <1>3, FS_EmptySet DEF Existing, Idle
<1>5. InternalLeftAlone /\ \A s \in reported : Remembered(s) BY DEF InternalLeftAlone
<1> QED BY <1>1, <1>2, <1>4, <1>5, SInvInit DEF QInv

LEMMA NoneAlone == ASSUME QueueTypes PROVE None \notin reported
BY StreamAssumption DEF QueueTypes, Streams

LEMMA QueueAsIs ==
    ASSUME QInv, SInv', QueueTypes', InPlace', UNCHANGED <<queue, reported, internal>>,
           link' => link,
           NEW x, Opened' \subseteq Opened \union {x},
           \A s \in Streams : stream[s] # "none" => stream'[s] # "none",
           \A s \in reported : stream'[s] = stream[s] /\ on'[s] = on[s],
           \/ handler' = handler
           \/ handler'.do \notin {"attach", "close"} /\ handler'.stream = None
           \/ handler.do \in {"attach", "close"} /\ handler'.stream = handler.stream
              /\ handler'.do = "close"
    PROVE  QInv'
<1> USE DEF QInv
<1>1. Longer({}) BY NothingNew
<1>2. Existing' BY <1>1, StillExisting
<1>3. InternalLeftAlone' BY NoneAlone DEF InternalLeftAlone
<1>4. ASSUME NEW s \in reported PROVE Remembered(s)' BY <1>1, <1>4, StillRemembered
<1> QED BY <1>2, <1>3, <1>4

LEMMA HandlerQuiet ==
    ASSUME QInv, SInv', Attach \/ CommandFails \/ SessionEnds
    PROVE  QInv'
<1> USE DEF QInv, session, cycle, tor
<1>0. Longer({})
  <2>1. queue' = queue BY DEF Attach, CommandFails, SessionEnds
  <2> QED BY <2>1, NothingNew
<1>1. CASE Attach
  <2>1. handler.stream \in Streams /\ handler.stream \notin reported
        BY <1>1 DEF Attach, Existing, InternalLeftAlone
  <2>2. stream \in [Streams -> {"none", "dialled", "waiting", "attached", "closed"}]
        BY DEF SInv, SessionTypes
  <2>3. /\ \A s \in Streams : stream'[s] = stream[s] \/ (s = handler.stream /\ stream'[s] = "attached")
        /\ \A s \in Streams : s # handler.stream => on'[s] = on[s]
        BY <1>1, <2>2 DEF Attach, Set, SInv, SessionTypes
  <2>4. reported \subseteq Streams BY DEF QueueTypes, Streams
  <2>5. Opened' \subseteq Opened \union {handler.stream} BY <2>3 DEF Opened
  <2>6. QueueTypes' BY <1>1 DEF Attach, QueueTypes
  <2>7. InPlace' BY <1>0, <1>1, SameCycle DEF Attach
  <2>8. \/ handler'.do \notin {"attach", "close"} /\ handler'.stream = None
        \/ handler'.stream = handler.stream /\ handler'.do = "close"
        BY <1>1 DEF Attach, Idle, Then
  <2> QED BY <1>1, <2>1, <2>3, <2>4, <2>5, <2>6, <2>7, <2>8, QueueAsIs DEF Attach
<1>2. CASE CommandFails
  <2>1. QueueTypes' /\ InPlace' BY <1>0, <1>2, SameCycle DEF CommandFails, QueueTypes
  <2> QED BY <1>2, <2>1, QueueAsIs DEF CommandFails, Idle, Opened
<1>3. CASE SessionEnds
  <2>1. QueueTypes' BY <1>3 DEF SessionEnds, QueueTypes
  <2>2. InPlace' BY <1>3 DEF SessionEnds, InPlace, DeathKnown
  <2> QED BY <1>3, <2>1, <2>2, QueueAsIs DEF SessionEnds, Then, Opened
<1> QED BY <1>1, <1>2, <1>3

(* A dial: the stream is one of a user or of a check.                      *)
LEMMA DialQuiet ==
    ASSUME QInv, SInv', (\E s \in Users : UserDials(s)) \/ Install
    PROVE  QInv'
<1> USE DEF QInv, session, cycle
<1>0. Longer({})
  <2>1. queue' = queue BY DEF UserDials, Install
  <2> QED BY <2>1, NothingNew
<1>1. PICK s \in Streams : s \notin Internals /\ Set(s, "dialled")
  <2>1. CASE Install
    <3>1. worker = "install" BY <2>1 DEF Install, WorkerGoto
    <3>2. gen \in Gens BY <3>1 DEF SInv, TokenOnce, InCycle
    <3> QED BY <2>1, <3>2, CheckStreams DEF Install
  <2>2. ASSUME NEW u \in Users, UserDials(u) PROVE u \in Streams \ Internals /\ Set(u, "dialled")
        BY <2>2, StreamAssumption DEF UserDials, Streams
  <2> QED BY <2>1, <2>2
<1>2. \A r \in Streams : stream'[r] = IF r = s THEN "dialled" ELSE stream[r]
      BY <1>1 DEF Set, SInv, SessionTypes
<1>3. Opened' \subseteq Opened \union {s} BY <1>2 DEF Opened
<1>4. QueueTypes' BY DEF UserDials, Install, QueueTypes
<1>5. InPlace'
  <2>1. CASE Install BY <2>1 DEF Install, WorkerGoto, InPlace, DeathKnown
  <2>2. CASE \E u \in Users : UserDials(u) BY <1>0, <2>2, SameCycle DEF UserDials
  <2> QED BY <2>1, <2>2
<1>6. /\ UNCHANGED <<queue, reported, internal, link, on>> /\ handler' = handler
      BY DEF UserDials, Install
<1>7. \A r \in reported : r # s /\ r \in Streams BY <1>1 DEF QueueTypes, Streams
<1> QED BY <1>2, <1>3, <1>4, <1>5, <1>6, <1>7, QueueAsIs

LEMMA WorkerQuiet ==
    ASSUME QInv, SInv',
           \/ Subscribe \/ Extend \/ PollBuilt \/ GiveUp \/ ServingEnds(TRUE)
           \/ ServingEnds(CircuitGone) \/ Uninstall \/ WorkerEnds
           \/ LinkLost \/ \E g \in Gens : CircuitBuilt(g)
    PROVE  QInv'
<1> USE DEF QInv, session, cycle, tor
<1>0. /\ UNCHANGED <<queue, reported, internal, stream, on, handler>> /\ (link' => link)
      BY DEF Subscribe, Extend, PollBuilt, GiveUp, ServingEnds, Uninstall, WorkerEnds, LinkLost,
             CircuitBuilt
<1>1. Longer({}) BY <1>0, NothingNew
<1>2. QueueTypes'
  <2>1. CASE Extend
    <3>1. gen + 1 \in Gens BY <2>1, CycleAssumption DEF Extend, Gens, SInv, SessionTypes
    <3> QED BY <2>1, <3>1 DEF Extend, QueueTypes
  <2>2. CASE Uninstall BY <2>2 DEF Uninstall, QueueTypes
  <2>3. ASSUME NEW g \in Gens, CircuitBuilt(g) PROVE QueueTypes'
        BY <2>3 DEF CircuitBuilt, QueueTypes
  <2>4. CASE \/ Subscribe \/ PollBuilt \/ GiveUp \/ ServingEnds(TRUE)
             \/ ServingEnds(CircuitGone) \/ WorkerEnds \/ LinkLost
        BY <2>4 DEF Subscribe, PollBuilt, GiveUp, ServingEnds, WorkerEnds, LinkLost, QueueTypes
  <2> QED BY <2>1, <2>2, <2>3, <2>4
<1>3. InPlace'
  <2>1. CASE \/ Subscribe \/ Extend \/ PollBuilt \/ GiveUp \/ ServingEnds(TRUE)
             \/ ServingEnds(CircuitGone) \/ Uninstall \/ WorkerEnds
        BY <2>1 DEF Subscribe, Extend, PollBuilt, GiveUp, ServingEnds, Uninstall, WorkerEnds,
                    WorkerGoto, InPlace, DeathKnown
  <2>2. CASE LinkLost BY <1>1, <2>2, SameCycle DEF LinkLost
  <2>3. ASSUME NEW g \in Gens, CircuitBuilt(g) PROVE InPlace'
    <3>1. circ'[gen] = "dead" => circ[gen] = "dead" BY <2>3 DEF CircuitBuilt, QueueTypes
    <3> QED BY <1>1, <2>3, <3>1, StillKnown DEF CircuitBuilt, InPlace
  <2> QED BY <2>1, <2>2, <2>3
<1> QED BY <1>0, <1>2, <1>3, QueueAsIs DEF Opened

----------------------------------------------------------------------------
(* Steps that Tor reports                                                  *)

(* An event of the stream itself, not its first.                           *)
LEMMA OwnEvent ==
    ASSUME QInv, NEW s \in Streams, Remembered(s), stream[s] # "closed",
           NEW t \in {"DETACHED", "CLOSED"}, Report({StreamEvent(s, t)}),
           UNCHANGED <<on, internal, link>>,
           stream'[s] \in {"waiting", "closed"}, t = "CLOSED" <=> stream'[s] = "closed"
    PROVE  Remembered(s)'
<1> USE DEF QInv
<1>1. /\ Longer({StreamEvent(s, t)}) /\ Len(queue') <= Len(queue) + 1
      /\ ~ link => queue' = queue
      BY ReportedOne
<1>2. \A i \in 1 .. Len(queue) : IsOf(queue[i], s) => queue[i].status # "CLOSED"
      BY DEF Remembered
<1>3. /\ Len(queue) \in Nat /\ Len(queue') \in Nat /\ Len(queue) <= Len(queue')
      /\ \A i \in 1 .. Len(queue) : queue'[i] = queue[i]
      BY <1>1 DEF Longer
<1>4. link' /\ stream'[s] # "closed" => s \in internal' \/ NewBefore(s, Len(queue))'
      BY <1>3 DEF Remembered, NewBefore
<1>5. ASSUME NEW i \in 1 .. Len(queue'), IsOf(queue'[i], s)
      PROVE  /\ queue'[i].status # "NEW" => s \in internal' \/
                    \E j \in 1 .. i - 1 : IsOf(queue'[j], s) /\ queue'[j].status = "NEW"
             /\ queue'[i].status = "CLOSED" =>
                    stream'[s] = "closed" /\ \A j \in i + 1 .. Len(queue') : ~ IsOf(queue'[j], s)
  <2>1. CASE i \in 1 .. Len(queue)
    <3>1. queue'[i] = queue[i] /\ \A j \in 1 .. i - 1 : queue'[j] = queue[j] BY <1>3, <2>1
    <3> QED BY <1>2, <1>5, <2>1, <3>1 DEF Remembered, NewBefore
  <2>2. CASE i \notin 1 .. Len(queue)
    <3>1. i = Len(queue) + 1 /\ i = Len(queue') BY <1>1, <1>3, <2>2
    <3>2. queue'[i] = StreamEvent(s, t) BY <1>1, <3>1 DEF Longer
    <3>3. link BY <1>1, <2>2
    <3>4. s \in internal \/ NewBefore(s, Len(queue)) BY <3>3 DEF Remembered
    <3>5. queue'[i].status = "CLOSED" => stream'[s] = "closed" BY <3>2 DEF StreamEvent
    <3> QED BY <1>3, <3>1, <3>4, <3>5 DEF NewBefore
  <2> QED BY <2>1, <2>2
<1> QED BY <1>4, <1>5 DEF Remembered, NewBefore

(* The events of the streams of others do not matter to a stream of Tor.   *)
LEMMA StreamReports ==
    ASSUME QInv, SInv', NEW s \in Streams, NEW t \in {"NEW", "DETACHED", "CLOSED"},
           Report({StreamEvent(s, t)}),
           NEW to \in {"waiting", "attached", "closed"}, Set(s, to),
           UNCHANGED <<circ, on, reported, link, internal>>,
           \A g \in Gens : cancelled'[g] = cancelled[g], cancelled' \in [Gens -> BOOLEAN],
           InPlace',
           handler' = handler \/ handler' = Idle,
           s \in reported => Remembered(s)'
    PROVE  QInv'
<1> USE DEF QInv
<1>1. Longer({StreamEvent(s, t)}) BY ReportedOne
<1>2. {StreamEvent(s, t)} \in SUBSET Events /\ StreamEvent(s, t).id = s
      BY EventFacts DEF StreamEvent
<1>3. \A r \in Streams : stream'[r] = IF r = s THEN to ELSE stream[r]
      BY DEF Set, SInv, SessionTypes
<1>4. QueueTypes' BY <1>1 DEF QueueTypes, Longer
<1>5. Existing'
  <2>1. Opened' \subseteq Opened \union {s} BY <1>3 DEF Opened
  <2>2. \A r \in Streams : stream[r] # "none" => stream'[r] # "none" BY <1>3
  <2>3. \/ handler' = handler
        \/ handler'.do \notin {"attach", "close"} /\ handler'.stream = None
        BY DEF Idle
  <2> QED BY <1>1, <1>2, <1>3, <2>1, <2>2, <2>3, StillExisting
<1>6. InternalLeftAlone' BY NoneAlone DEF InternalLeftAlone, Idle
<1>7. ASSUME NEW r \in reported, r # s PROVE Remembered(r)'
  <2>1. r \in Streams BY DEF QueueTypes, Streams
  <2>2. \A e \in {StreamEvent(s, t)} : ~ IsOf(e, r) BY <1>7, OtherStream
  <2> QED BY <1>1, <1>2, <1>3, <1>7, <2>1, <2>2, StillRemembered
<1> QED BY <1>4, <1>5, <1>6, <1>7

LEMMA InternalOpensQInv ==
    ASSUME QInv, SInv', NEW s \in Internals, InternalOpens(s)
    PROVE  QInv'
<1> USE DEF QInv, InternalOpens, session, cycle
<1>0. s \in Streams BY DEF Streams
<1>1. /\ Longer({StreamEvent(s, "NEW")}) /\ Len(queue') <= Len(queue) + 1
      /\ subscribed /\ link => \E i \in 1 .. Len(queue') : queue'[i] = StreamEvent(s, "NEW")
      BY <1>0, ReportedOne
<1>2. /\ {StreamEvent(s, "NEW")} \in SUBSET Events
      /\ IsOf(StreamEvent(s, "NEW"), s) /\ StreamEvent(s, "NEW").status = "NEW"
      /\ StreamEvent(s, "NEW").id = s
      BY <1>0, EventFacts DEF StreamEvent, IsOf
<1>3. \A r \in Streams : stream'[r] = IF r = s THEN "attached" ELSE stream[r]
      BY DEF Set, SInv, SessionTypes
<1>4. QueueTypes' BY <1>1 DEF QueueTypes, Longer
<1>5. Existing'
  <2>1. Opened' \subseteq Opened \union {s} BY <1>3 DEF Opened
  <2>2. \A r \in Streams : stream[r] # "none" => stream'[r] # "none" BY <1>3
  <2> QED BY <1>0, <1>1, <1>2, <1>3, <2>1, <2>2, StillExisting
<1>6. InPlace' BY <1>1, <1>2, SameCycle
<1>7. InternalLeftAlone'
  <2>1. handler.stream # s BY <1>0, StreamAssumption DEF Existing
  <2> QED BY <2>1 DEF InternalLeftAlone
<1>8. ASSUME NEW r \in reported, r # s PROVE Remembered(r)'
  <2>1. r \in Streams BY DEF QueueTypes, Streams
  <2>2. \A e \in {StreamEvent(s, "NEW")} : ~ IsOf(e, r) BY <1>0, <1>8, OtherStream
  <2> QED BY <1>1, <1>2, <1>3, <1>8, <2>1, <2>2, StillRemembered
<1>9. subscribed => Remembered(s)'
  <2> SUFFICES ASSUME subscribed PROVE Remembered(s)' OBVIOUS
  <2>1. on'[s] = None /\ stream'[s] = "attached" BY <1>0, <1>3 DEF SInv, TokenOnce
  <2>2. \A i \in 1 .. Len(queue') : IsOf(queue'[i], s) => queue'[i].status = "NEW"
    <3> SUFFICES ASSUME NEW i \in 1 .. Len(queue'), IsOf(queue'[i], s)
                 PROVE  queue'[i].status = "NEW"
        OBVIOUS
    <3>1. CASE i \in 1 .. Len(queue) BY <3>1, <1>1 DEF Longer, Existing, IsOf
    <3>2. CASE i \notin 1 .. Len(queue) BY <3>2, <1>1, <1>2 DEF Longer
    <3> QED BY <3>1, <3>2
  <2>3. link => NewBefore(s, Len(queue))' BY <1>1, <1>2 DEF NewBefore
  <2> QED BY <2>1, <2>2, <2>3 DEF Remembered
<1>10. s \notin reported BY DEF Remembered
<1>11. ASSUME NEW r, r \in reported' PROVE Remembered(r)'
  <2>1. r \in reported \/ (subscribed /\ r = s) BY <1>11
  <2> QED BY <1>8, <1>9, <1>10, <2>1
<1> QED BY <1>4, <1>5, <1>6, <1>7, <1>11

LEMMA StreamQInv ==
    ASSUME QInv, SInv', NEW s \in Streams,
           (s \in Internals /\ InternalDetaches(s)) \/ StreamCloses(s) \/ StreamArrives(s)
    PROVE  QInv'
<1> USE DEF QInv, session, cycle
<1>1. /\ UNCHANGED <<circ, on, reported, link, internal, handler, cancelled>>
      /\ UNCHANGED <<worker, gen, current, subscribed>>
      BY DEF InternalDetaches, StreamCloses, StreamArrives
<1>2. PICK t \in {"NEW", "DETACHED", "CLOSED"}, to \in {"waiting", "closed"} :
         /\ Report({StreamEvent(s, t)}) /\ Set(s, to)
         /\ s \in reported => t # "NEW" /\ stream[s] # "closed" /\ (t = "CLOSED" <=> to = "closed")
  <2>1. s \in reported => stream[s] # "dialled" BY DEF Remembered
  <2> QED BY <2>1 DEF InternalDetaches, StreamCloses, StreamArrives
<1>3. stream'[s] = to BY <1>2 DEF Set, SInv, SessionTypes
<1>4. s \in reported => Remembered(s)' BY <1>1, <1>2, <1>3, OwnEvent
<1>5. Longer({StreamEvent(s, t)}) /\ {StreamEvent(s, t)} \in SUBSET Events
      BY <1>2, ReportedOne, EventFacts
<1>6. InPlace' BY <1>1, <1>5, SameCycle
<1> QED BY <1>1, <1>2, <1>4, <1>6, StreamReports DEF QueueTypes

LEMMA CheckPassesQInv ==
    ASSUME QInv, SInv', CheckPasses
    PROVE  QInv'
<1> USE DEF QInv, session, CheckPasses, WorkerGoto
<1>1. gen \in Gens BY DEF SInv, TokenOnce, InCycle
<1>2. Check(gen) \in Streams /\ Check(gen) \notin reported
      BY <1>1, CheckStreams DEF QueueTypes
<1>3. InPlace' BY DEF InPlace, DeathKnown
<1> QED BY <1>2, <1>3, StreamReports DEF QueueTypes

LEMMA CloseStreamQInv ==
    ASSUME QInv, SInv', CloseStream
    PROVE  QInv'
<1> USE DEF QInv, cycle, CloseStream
<1>1. handler.stream \in Streams /\ handler.stream \notin reported
      BY DEF Existing, InternalLeftAlone
<1>2. CASE stream[handler.stream] \in {"waiting", "attached"}
  <2>0. PICK s \in Streams : s = handler.stream BY <1>1
  <2>1. Report({StreamEvent(s, "CLOSED")}) /\ Set(s, "closed") BY <1>2, <2>0
  <2>2. Longer({StreamEvent(s, "CLOSED")}) /\ {StreamEvent(s, "CLOSED")} \in SUBSET Events
        BY <2>1, ReportedOne, EventFacts
  <2>3. InPlace' BY <2>2, SameCycle
  <2>4. /\ cancelled' \in [Gens -> BOOLEAN] /\ \A g \in Gens : cancelled'[g] = cancelled[g]
        /\ UNCHANGED <<circ, on, reported, link, internal>> /\ handler' = Idle
        /\ s \notin reported
        BY <1>1, <2>0 DEF QueueTypes
  <2> QED BY <2>1, <2>3, <2>4, StreamReports
<1>3. CASE stream[handler.stream] \notin {"waiting", "attached"}
  <2>1. UNCHANGED <<stream, queue>> BY <1>3
  <2>2. Longer({}) BY <2>1, NothingNew
  <2>3. QueueTypes' /\ InPlace' BY <2>1, <2>2, SameCycle DEF QueueTypes
  <2> QED BY <2>1, <2>3, QueueAsIs DEF Idle, Opened
<1> QED BY <1>2, <1>3

(* A circuit dies: what is reported concerns it and the streams on it,     *)
(* none of which is a reported stream of Tor.                              *)
LEMMA DeathQInv ==
    ASSUME QInv, SInv', NEW g \in Gens, NEW status \in Fatal, NEW fate \in {"CLOSED", "DETACHED"},
           Death(g, status, fate), UNCHANGED <<link, session, gen, current, cancelled>>,
           worker' = worker \/ (worker' = "rest" /\ worker = "close")
    PROVE  QInv'
<1> USE DEF QInv, Death, session
<1> DEFINE E == {CircEvent(g, status)} \union {StreamEvent(s, fate) : s \in Riding(g)}
<1>1. Riding(g) \subseteq Opened BY DEF Riding, Opened
<1>2. IsFiniteSet(E)
  <2> DEFINE Fates == {StreamEvent(s, fate) : s \in Riding(g)}
             f == [s \in Riding(g) |-> StreamEvent(s, fate)]
  <2>1. IsFiniteSet(Riding(g)) BY <1>1, FS_Subset DEF Existing
  <2>2. f \in Surjection(Riding(g), Fates) BY DEF Surjection
  <2>3. IsFiniteSet(Fates)
    <3> HIDE DEF f, Fates
    <3> QED BY <2>1, <2>2, FS_Surjection
  <2> QED BY <2>3, FS_Singleton, FS_Union
<1>3. E \in SUBSET Events
  <2>1. \A s \in Riding(g) : StreamEvent(s, fate) \in Events BY EventFacts DEF Riding
  <2>2. CircEvent(g, status) \in Events BY EventFacts
  <2> QED BY <2>1, <2>2
<1>4. /\ Longer(E)
      /\ subscribed /\ link => \E i \in 1 .. Len(queue') : queue'[i] = CircEvent(g, status)
  <2>1. Report(E) OBVIOUS
  <2>2. CircEvent(g, status) \in E OBVIOUS
  <2> HIDE DEF E
  <2> QED BY <1>2, <1>3, <2>1, <2>2, Reported
<1>5. \A s \in Streams : stream'[s] = IF s \in Riding(g)
                              THEN IF fate = "CLOSED" THEN "closed" ELSE "waiting" ELSE stream[s]
      OBVIOUS
<1>6. \A e \in E : \/ e.kind = "CIRC"
                   \/ \E s \in Riding(g) : e = StreamEvent(s, fate) /\ e.kind = "STREAM" /\ e.id = s
      BY DEF CircEvent, StreamEvent
<1>7. Riding(g) \subseteq Streams BY DEF Riding
<1> HIDE DEF E
<1>8. QueueTypes' BY <1>4 DEF QueueTypes, Longer
<1>9. InPlace'
  <2>1. CASE worker' = "serve" /\ gen = g
    <3>1. subscribed /\ worker = "serve" /\ current = gen BY <2>1 DEF InPlace
    <3>2. CircEvent(g, status).kind = "CIRC" /\ CircEvent(g, status).id = g BY DEF CircEvent
    <3>3. DeathKnown' BY <1>4, <2>1, <3>1, <3>2 DEF DeathKnown
    <3> QED BY <3>1, <3>3 DEF InPlace
  <2>2. CASE worker' = "serve" /\ gen # g
    <3>1. circ'[gen] = "dead" => circ[gen] = "dead" BY <2>2 DEF QueueTypes
    <3>2. DeathKnown' BY <1>3, <1>4, <2>2, <3>1, StillKnown DEF InPlace
    <3> QED BY <2>2, <3>2 DEF InPlace
  <2>3. CASE worker' # "serve" BY <2>3 DEF InPlace, DeathKnown
  <2> QED BY <2>1, <2>2, <2>3
<1>10. Existing'
  <2>1. Opened' \subseteq Opened \union {None} BY <1>1, <1>5 DEF Opened
  <2>2. \A s \in Streams : stream[s] # "none" => stream'[s] # "none" BY <1>5
  <2>3. \A e \in E : e.kind = "STREAM" => stream'[e.id] # "none"
        BY <1>5, <1>6, <1>7
  <2> QED BY <1>3, <1>4, <2>1, <2>2, <2>3, StillExisting
<1>11. ASSUME NEW r \in reported PROVE Remembered(r)'
  <2>1. r \in Streams /\ r \notin Riding(g)
        BY StreamAssumption DEF QueueTypes, Streams, Remembered, Riding
  <2>2. \A e \in E : ~ IsOf(e, r) BY <1>6, <2>1 DEF IsOf
  <2> QED BY <1>3, <1>4, <1>5, <2>1, <2>2, StillRemembered
<1> QED BY <1>8, <1>9, <1>10, <1>11 DEF InternalLeftAlone

LEMMA DyingQInv ==
    ASSUME QInv, SInv', (\E g \in Gens : CircuitDies(g)) \/ CloseCircuit
    PROVE  QInv'
<1>1. ASSUME NEW g \in Gens, CircuitDies(g) PROVE QInv'
  <2>1. PICK status \in Fatal, fate \in {"CLOSED", "DETACHED"} : Death(g, status, fate)
        BY <1>1 DEF CircuitDies, Fatal
  <2>2. UNCHANGED <<link, session, gen, current, cancelled>> /\ worker' = worker
        BY <1>1 DEF CircuitDies, cycle
  <2> QED BY <2>1, <2>2, DeathQInv
<1>2. CASE CloseCircuit
  <2>1. gen \in Gens /\ worker = "close" /\ worker' = "rest" /\ gen' = gen
        BY <1>2 DEF CloseCircuit, WorkerGoto, QInv, SInv, TokenOnce, InCycle
  <2>2. PICK g \in Gens : g = gen BY <2>1
  <2>3. CASE Death(g, "CLOSED", "CLOSED")
        BY <1>2, <2>1, <2>3, DeathQInv DEF CloseCircuit, Fatal
  <2>4. CASE UNCHANGED <<tor, queue>>
    <3> USE <1>2, <2>1, <2>4 DEF CloseCircuit, tor, session, QInv
    <3>1. QueueTypes' BY DEF QueueTypes
    <3>2. InPlace' BY DEF InPlace, DeathKnown
    <3> QED BY <3>1, <3>2, QueueAsIs DEF Opened
  <2> QED BY <1>2, <2>2, <2>3, <2>4 DEF CloseCircuit
<1> QED BY <1>1, <1>2

----------------------------------------------------------------------------
(* events takes the next one                                               *)

LEMMA QueueShifts ==
    ASSUME QueueTypes, queue # <<>>, queue' = Tail(queue)
    PROVE  /\ queue' \in Seq(Events)
           /\ Len(queue) \in Nat /\ Len(queue) >= 1 /\ Len(queue') = Len(queue) - 1
           /\ queue[1] \in Events /\ Head(queue) = queue[1]
           /\ \A i \in 1 .. Len(queue') : queue'[i] = queue[i + 1]
<1>1. queue \in Seq(Events) BY DEF QueueTypes
<1> QED BY <1>1, HeadTailProperties, ElementOfSeq, LenProperties

(* A stream is remembered from its NEW to its CLOSED.                      *)
LEMMA ShiftRemembered ==
    ASSUME QueueTypes, queue # <<>>, queue' = Tail(queue), NEW s, Remembered(s),
           UNCHANGED <<stream, on, link>>,
           IsOf(queue[1], s) /\ queue[1].status = "NEW" => s \in internal',
           s \in internal => s \in internal' \/ (IsOf(queue[1], s) /\ queue[1].status = "CLOSED")
    PROVE  Remembered(s)'
<1>1. /\ Len(queue) \in Nat /\ Len(queue) >= 1 /\ Len(queue') = Len(queue) - 1
      /\ \A i \in 1 .. Len(queue') : queue'[i] = queue[i + 1]
      BY QueueShifts
<1>2. \A i \in 1 .. Len(queue') : i + 1 \in 2 .. Len(queue) BY <1>1
<1>3. ASSUME NEW n \in 1 .. Len(queue), NewBefore(s, n), s \notin internal'
      PROVE  \E j \in 1 .. n - 1 : IsOf(queue'[j], s) /\ queue'[j].status = "NEW"
  <2>1. PICK j \in 1 .. n : IsOf(queue[j], s) /\ queue[j].status = "NEW" BY <1>3 DEF NewBefore
  <2>2. j # 1 BY <1>3, <2>1
  <2>3. j - 1 \in 1 .. n - 1 /\ j - 1 \in 1 .. Len(queue') /\ (j - 1) + 1 = j BY <1>1, <2>2
  <2>4. queue'[j - 1] = queue[j] BY <1>1, <2>3
  <2> QED BY <2>1, <2>3, <2>4
<1>4. ASSUME s \in internal, s \notin internal'
      PROVE  stream[s] = "closed" /\ \A j \in 2 .. Len(queue) : ~ IsOf(queue[j], s)
  <2>1. 1 \in 1 .. Len(queue) BY <1>1
  <2> QED BY <1>4, <2>1 DEF Remembered
<1>5. link' /\ stream'[s] # "closed" => s \in internal' \/ NewBefore(s, Len(queue))'
  <2> SUFFICES ASSUME link, stream[s] # "closed", s \notin internal'
               PROVE  NewBefore(s, Len(queue))'
      OBVIOUS
  <2>1. NewBefore(s, Len(queue)) /\ Len(queue) \in 1 .. Len(queue) BY <1>1, <1>4 DEF Remembered
  <2>2. \E j \in 1 .. Len(queue) - 1 : IsOf(queue'[j], s) /\ queue'[j].status = "NEW"
        BY <1>3, <2>1
  <2> QED BY <1>1, <2>2 DEF NewBefore
<1>6. ASSUME NEW i \in 1 .. Len(queue'), IsOf(queue'[i], s)
      PROVE  /\ queue'[i].status # "NEW" => s \in internal' \/
                    \E j \in 1 .. i - 1 : IsOf(queue'[j], s) /\ queue'[j].status = "NEW"
             /\ queue'[i].status = "CLOSED" =>
                    stream'[s] = "closed" /\ \A j \in i + 1 .. Len(queue') : ~ IsOf(queue'[j], s)
  <2>1. queue'[i] = queue[i + 1] /\ i + 1 \in 2 .. Len(queue) /\ i + 1 \in 1 .. Len(queue)
        BY <1>1, <1>2
  <2>2. IsOf(queue[i + 1], s) BY <1>6, <2>1
  <2>3. ASSUME queue[i + 1].status # "NEW", s \notin internal'
        PROVE  \E j \in 1 .. i - 1 : IsOf(queue'[j], s) /\ queue'[j].status = "NEW"
    <3>1. s \notin internal BY <1>4, <2>1, <2>2, <2>3
    <3>2. NewBefore(s, i) /\ i \in 1 .. Len(queue)
      <4>1. (i + 1) - 1 = i /\ i \in 1 .. Len(queue) BY <1>1
      <4>2. NewBefore(s, (i + 1) - 1) BY <2>1, <2>2, <2>3, <3>1 DEF Remembered
      <4> QED BY <4>1, <4>2
    <3> QED BY <1>3, <2>3, <3>2
  <2>4. ASSUME queue[i + 1].status = "CLOSED"
        PROVE  stream[s] = "closed" /\ \A j \in i + 1 .. Len(queue') : ~ IsOf(queue'[j], s)
    <3>1. /\ stream[s] = "closed"
          /\ \A j \in (i + 1) + 1 .. Len(queue) : ~ IsOf(queue[j], s)
          BY <2>1, <2>2, <2>4 DEF Remembered
    <3>2. \A j \in i + 1 .. Len(queue') : j + 1 \in (i + 1) + 1 .. Len(queue) /\ j \in 1 .. Len(queue')
          BY <1>1
    <3> QED BY <1>1, <3>1, <3>2
  <2> QED BY <2>1, <2>3, <2>4
<1> QED BY <1>5, <1>6 DEF Remembered, NewBefore

LEMMA TakeEventQInv ==
    ASSUME QInv, SInv', TakeEvent
    PROVE  QInv'
<1> USE DEF QInv, TakeEvent, tor, cycle
<1>1. /\ queue' \in Seq(Events) /\ Len(queue) \in Nat /\ Len(queue) >= 1
      /\ Len(queue') = Len(queue) - 1 /\ queue[1] \in Events /\ Head(queue) = queue[1]
      /\ \A i \in 1 .. Len(queue') : queue'[i] = queue[i + 1]
      BY QueueShifts
<1>2. PICK e \in Events : e = queue[1] BY <1>1
<1>3. \/ e.kind = "CIRC" /\ e.id \in Gens /\ e.status \in Fatal
      \/ e.kind = "STREAM" /\ e.id \in Streams /\ e.status \in {"NEW", "DETACHED", "CLOSED"}
      BY EventFacts
<1>4. HandleCirc(e) \/ HandleStream(e) BY <1>1, <1>2
<1>5. QueueTypes'
  <2>1. CASE HandleCirc(e) BY <1>1, <2>1 DEF HandleCirc, QueueTypes, session
  <2>2. CASE HandleStream(e)
        BY <1>1, <1>3, <2>2 DEF HandleStream, InternalAfter, QueueTypes, Streams
  <2> QED BY <1>4, <2>1, <2>2
<1>6. \A g \in Gens : cancelled[g] => cancelled'[g]
      BY <1>3, <1>4 DEF HandleCirc, HandleStream, QueueTypes
<1>7. InPlace'
  <2> SUFFICES ASSUME worker = "serve", circ[gen] = "dead", link, ~ cancelled'[gen]
               PROVE  \E i \in 1 .. Len(queue') : queue'[i].kind = "CIRC" /\ queue'[i].id = gen
      BY DEF InPlace, DeathKnown
  <2>1. gen \in Gens BY DEF SInv, TokenOnce, InCycle
  <2>2. PICK i \in 1 .. Len(queue) : queue[i].kind = "CIRC" /\ queue[i].id = gen
        BY <1>6, <2>1 DEF InPlace, DeathKnown
  <2>3. i # 1
    <3> SUFFICES ASSUME i = 1 PROVE FALSE OBVIOUS
    <3>1. e.kind = "CIRC" /\ e.id = gen BY <1>2, <2>2
    <3>2. HandleCirc(e) /\ e.status \in Fatal /\ current = gen
          BY <1>3, <1>4, <3>1 DEF HandleStream, InPlace
    <3> QED BY <2>1, <3>1, <3>2 DEF HandleCirc, QueueTypes
  <2>4. i - 1 \in 1 .. Len(queue') /\ (i - 1) + 1 = i BY <1>1, <2>3
  <2>5. queue'[i - 1] = queue[i] BY <1>1, <2>4
  <2> QED BY <2>2, <2>4, <2>5
<1>8. \/ handler' = handler
      \/ /\ e.kind = "STREAM" /\ handler'.do \in {"attach", "close"} /\ handler'.stream = e.id
         /\ e.status # "CLOSED" /\ ~ Skipped(e)
      BY <1>4 DEF HandleCirc, HandleStream, Settle, Then, Refuse, session
<1>9. Existing'
  <2>1. \A i \in 1 .. Len(queue') : queue'[i].kind = "STREAM" => stream'[queue'[i].id] # "none"
    <3>1. \A i \in 1 .. Len(queue') : i + 1 \in 1 .. Len(queue) BY <1>1
    <3> QED BY <1>1, <3>1 DEF Existing
  <2>2. e.kind = "STREAM" => stream[e.id] # "none" BY <1>1, <1>2 DEF Existing
  <2>3. IsFiniteSet(Opened)' BY DEF Existing, Opened
  <2> QED BY <1>3, <1>8, <2>1, <2>2, <2>3 DEF Existing
<1>10. InternalLeftAlone'
  <2>1. ASSUME e.kind = "STREAM", e.id \in reported, e.status # "CLOSED" PROVE Skipped(e)
    <3>1. 1 \in 1 .. Len(queue) /\ IsOf(queue[1], e.id) BY <1>1, <1>2, <2>1 DEF IsOf
    <3>2. ~ NewBefore(e.id, 1 - 1) BY DEF NewBefore
    <3>3. e.status # "NEW" => e.id \in internal BY <1>2, <2>1, <3>1, <3>2 DEF Remembered
    <3> QED BY <2>1, <3>3 DEF Skipped, QueueTypes
  <2> QED BY <1>8, <2>1 DEF InternalLeftAlone
<1>11. ASSUME NEW s \in reported PROVE Remembered(s)'
  <2>1. s \in Internals BY DEF QueueTypes
  <2>2. /\ IsOf(queue[1], s) /\ queue[1].status = "NEW" => s \in internal'
        /\ s \in internal => s \in internal' \/ (IsOf(queue[1], s) /\ queue[1].status = "CLOSED")
    <3>1. CASE HandleCirc(e) BY <1>2, <3>1 DEF HandleCirc, session, IsOf
    <3>2. CASE HandleStream(e) BY <1>2, <2>1, <3>2 DEF HandleStream, InternalAfter, IsOf
    <3> QED BY <1>4, <3>1, <3>2
  <2> QED BY <2>2, ShiftRemembered
<1> QED BY <1>5, <1>7, <1>9, <1>10, <1>11

----------------------------------------------------------------------------
LEMMA QInvStep == QInv /\ [Next]_vars => QInv'
<1> SUFFICES ASSUME QInv, [Next]_vars PROVE QInv' OBVIOUS
<1>1. SInv' BY SInvStep DEF QInv
<1>2. ASSUME NEW s \in Internals, InternalOpens(s) \/ InternalDetaches(s) PROVE QInv'
      BY <1>1, <1>2, InternalOpensQInv, StreamQInv DEF Streams
<1>3. ASSUME NEW s \in Streams, StreamCloses(s) \/ StreamArrives(s) PROVE QInv'
      BY <1>1, <1>3, StreamQInv
<1>4. CASE HandlerStep
      BY <1>1, <1>4, TakeEventQInv, HandlerQuiet, CloseStreamQInv DEF HandlerStep
<1>5. CASE \/ WorkerStep \/ ServingEnds(TRUE) \/ LinkLost
           \/ \E s \in Users : UserDials(s)
           \/ \E g \in Gens : CircuitBuilt(g) \/ CircuitDies(g)
      BY <1>1, <1>5, WorkerQuiet, DialQuiet, DyingQInv, CheckPassesQInv DEF WorkerStep
<1>6. CASE UNCHANGED vars
  <2> USE <1>6 DEF vars, tor, session, cycle, QInv
  <2>1. QueueTypes' /\ InPlace' BY DEF QueueTypes, InPlace, DeathKnown
  <2> QED BY <1>1, <2>1, QueueAsIs DEF Opened
<1> QED BY <1>2, <1>3, <1>4, <1>5, <1>6 DEF Next

LEMMA QInductive == Spec => []QInv
<1> QED BY InitQInv, QInvStep, PTL DEF Spec

(* A circuit that serves and dies is cancelled, or the event that will     *)
(* cancel it waits in the queue: events ignores the death of a circuit     *)
(* that is not in place yet, but the check that comes after setEndpoint    *)
(* needs it alive (tor.go:79-84, 409-414).                                 *)
THEOREM NoDeathMissed == Spec => []DeathKnown
<1>1. QInv => DeathKnown BY DEF QInv, InPlace
<1> QED BY <1>1, QInductive, PTL

(* A stream of Tor whose NEW was reported is remembered until it is        *)
(* closed, so that its later events, which do not tell its purpose, do not *)
(* make the session attach or close it (tor.go:88-99).                     *)
THEOREM TorIsLeftAlone == Spec => []InternalLeftAlone
<1>1. QInv => InternalLeftAlone BY DEF QInv
<1> QED BY <1>1, QInductive, PTL
----------------------------------------------------------------------------
(* Types                                                                   *)

(* What the two invariants leave out: where the handler is, and that the   *)
(* endpoint in place is that of the present cycle and is taken out again.  *)
RestTypes ==
    /\ subscribed \in BOOLEAN /\ link \in BOOLEAN
    /\ handler \in [do : {"idle", "attach", "close", "over"}, stream : Streams \union {None},
                    gen : Gens \union {None}]
    /\ current \in {None, gen} /\ (worker \in {"boot", "rest", "close", "over"} => current = None)

LEMMA SettleTypes ==
    ASSUME QInv, RestTypes, queue # <<>>,
           HandleCirc(Head(queue)) \/ HandleStream(Head(queue))
    PROVE  handler' \in [do : {"idle", "attach", "close", "over"},
                         stream : Streams \union {None}, gen : Gens \union {None}]
<1>1. Head(queue) \in Events
  <2>1. queue \in Seq(Events) BY DEF QInv, QueueTypes
  <2> QED BY <2>1, HeadTailProperties
<1>2. CASE HandleCirc(Head(queue)) BY <1>2 DEF HandleCirc, session, RestTypes
<1>3. CASE HandleStream(Head(queue))
  <2>1. Head(queue).id \in Streams BY <1>1, <1>3, EventFacts DEF HandleStream
  <2>2. current # None => current \in Gens
    <3>1. current # None => InCycle(worker) /\ current = gen BY DEF RestTypes, InCycle
    <3> QED BY <3>1 DEF QInv, SInv, TokenOnce
  <2> QED BY <1>3, <2>1, <2>2
      DEF HandleStream, Settle, Belongs, Refuse, Then, RestTypes
<1> QED BY <1>2, <1>3

LEMMA RestTypesStep == ASSUME QInv, RestTypes, [Next]_vars PROVE RestTypes'
<1>1. CASE HandlerStep
  <2>1. handler' \in [do : {"idle", "attach", "close", "over"},
                      stream : Streams \union {None}, gen : Gens \union {None}]
    <3>1. CASE TakeEvent BY <3>1, SettleTypes DEF TakeEvent
    <3>2. CASE Attach \/ CloseStream \/ CommandFails \/ SessionEnds
          BY <3>2 DEF Attach, CloseStream, CommandFails, SessionEnds, Then, Idle, RestTypes
    <3> QED BY <1>1, <3>1, <3>2 DEF HandlerStep
  <2>2. UNCHANGED <<subscribed, link, current, gen, worker>>
        BY <1>1 DEF HandlerStep, TakeEvent, Attach, CloseStream, CommandFails, SessionEnds,
                    tor, cycle
  <2> QED BY <2>1, <2>2 DEF RestTypes
<1>2. CASE WorkerStep
  <2> USE DEF RestTypes, WorkerGoto, tor, session
  <2>1. CASE Subscribe \/ Extend \/ PollBuilt \/ Install
        BY <2>1 DEF Subscribe, Extend, PollBuilt, Install
  <2>2. CASE CheckPasses \/ GiveUp \/ ServingEnds(CircuitGone)
        BY <2>2 DEF CheckPasses, GiveUp, ServingEnds
  <2>3. CASE Uninstall \/ CloseCircuit \/ WorkerEnds
        BY <2>3 DEF Uninstall, CloseCircuit, WorkerEnds, NoEndpoint, Death
  <2> QED BY <1>2, <2>1, <2>2, <2>3 DEF WorkerStep
<1>3. CASE UNCHANGED <<subscribed, handler, current, gen, worker>> /\ link' \in BOOLEAN
      BY <1>3 DEF RestTypes
<1>4. CASE UNCHANGED vars BY <1>3, <1>4 DEF vars, tor, session, cycle, RestTypes
<1>5. CASE \/ \E s \in Internals : InternalOpens(s) \/ InternalDetaches(s)
           \/ \E s \in Streams : StreamCloses(s) \/ StreamArrives(s)
           \/ \E s \in Users : UserDials(s)
      BY <1>3, <1>5 DEF InternalOpens, InternalDetaches, StreamCloses, StreamArrives, UserDials,
                        session, cycle, RestTypes
<1>6. CASE \/ \E g \in Gens : CircuitBuilt(g) \/ CircuitDies(g)
           \/ LinkLost
      BY <1>3, <1>6 DEF CircuitBuilt, CircuitDies, Death, LinkLost, tor, session, cycle, RestTypes
<1>7. CASE ServingEnds(TRUE)
      BY <1>7 DEF ServingEnds, WorkerGoto, tor, session, RestTypes
<1> QED BY <1>1, <1>2, <1>4, <1>5, <1>6, <1>7 DEF Next

(* Every variable of a session keeps its type, the events on their way and *)
(* the command under way included.                                         *)
THEOREM SessionTyped == Spec => []TypeOK
<1>1. QInv /\ RestTypes => TypeOK
  <2> SUFFICES ASSUME QInv, RestTypes PROVE TypeOK OBVIOUS
  <2>1. handler.do \in {"attach", "close"} <=> handler.stream # None
        BY StreamAssumption DEF QInv, Existing
  <2> QED BY <2>1 DEF TypeOK, QInv, SInv, SessionTypes, QueueTypes, RestTypes, Workers, Events,
                      Fatal
<1>2. Init => RestTypes
  <2>1. Idle \in [do : {"idle", "attach", "close", "over"}, stream : Streams \union {None},
                  gen : Gens \union {None}]
        BY DEF Idle
  <2> QED BY <2>1 DEF Init, RestTypes
<1> QED BY <1>1, <1>2, RestTypesStep, QInductive, PTL DEF Spec
=============================================================================
