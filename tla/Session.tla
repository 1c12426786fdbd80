------------------------------- MODULE Session -------------------------------
(***************************************************************************)
(* How streams come to circuits (tor.go:30-132) while the worker goes from *)
(* one circuit to the next (tor.go:347-415): torSession.events takes Tor's *)
(* events off the queue one by one and answers them with ATTACHSTREAM and  *)
(* CLOSESTREAM; cycle extends, polls, installs and closes circuits.        *)
(*                                                                         *)
(* Generation g is the g-th cycle: its circuit, its endpoint and its token *)
(* all go by that number.  A command is executed by Tor and answered in    *)
(* one step, since commands are serialised (module Control), but later     *)
(* than the decision to send it.  The control connection may go at any     *)
(* moment (LinkLost), an overflow of the queue included.                   *)
(* Operators named Bad... are plausible mistakes that nothing uses         *)
(* (README, "Mutants").                                                    *)
(***************************************************************************)
EXTENDS Integers, Sequences, FiniteSets

CONSTANTS
    Cycles,         \* bound: generations
    Users,          \* streams of users, each opened once
    Internals,      \* streams of Tor itself, each opened once
    MaxQueue,       \* bound: events waiting when Tor reports more
    None

ASSUME CycleAssumption == Cycles \in Nat /\ MaxQueue \in Nat

Gens == 1 .. Cycles
Check(g) == [check |-> g]              \* the stream of the IP check
Streams == {Check(g) : g \in Gens} \union Users \union Internals

ASSUME StreamAssumption ==
    /\ Users \intersect Internals = {}
    /\ \A g \in Gens : Check(g) \notin Users \union Internals
    /\ None \notin Gens /\ None \notin Streams

VARIABLES
    circ,           \* circ[g]: the circuit, in Tor
    stream,         \* stream[s]: the stream, in Tor; dialled: on its way there
    token,          \* token[s]: the generation whose dialer opened it
    on,             \* on[s]: the circuit it was attached to last
    queue,          \* ctrl.events
    subscribed,     \* SETEVENTS has been executed
    link,           \* the control connection is open (not ctrl.done)
    handler,        \* events: idle, about to send a command, over
    internal,       \* internalStreams
    worker,         \* where cycle is
    gen,            \* the number of the present cycle
    current,        \* s.current
    cancelled,      \* cancelled[g]: ep.ctx
    reported        \* history: internal streams whose NEW was reported

tor == <<circ, stream, token, on, subscribed, reported>>
session == <<handler, internal>>
cycle == <<worker, gen>>
vars == <<tor, queue, link, session, cycle, current, cancelled>>

CircEvent(g, s) == [kind |-> "CIRC", id |-> g, status |-> s]
StreamEvent(s, status) == [kind |-> "STREAM", id |-> s, status |-> status]
Idle == [do |-> "idle", stream |-> None, gen |-> None]

TypeOK ==
    /\ circ \in [Gens -> {"none", "building", "built", "dead"}]
    /\ stream \in [Streams -> {"none", "dialled", "waiting", "attached", "closed"}]
    /\ token \in [Streams -> Gens \union {None}]
    /\ on \in [Streams -> Gens \union {None}]
    /\ queue \in Seq({CircEvent(g, s) : g \in Gens, s \in {"CLOSED", "FAILED"}}
                     \union {StreamEvent(s, t) : s \in Streams, t \in {"NEW", "DETACHED", "CLOSED"}})
    /\ subscribed \in BOOLEAN /\ link \in BOOLEAN
    /\ handler \in [do : {"idle", "attach", "close", "over"}, stream : Streams \union {None},
                    gen : Gens \union {None}]
    /\ (handler.do \in {"attach", "close"} <=> handler.stream # None)
    /\ internal \subseteq Streams
    /\ worker \in {"boot", "rest", "poll", "install", "check", "serve", "leave", "close", "over"}
    /\ gen \in 0 .. Cycles
    /\ current \in {None, gen} /\ (worker \in {"boot", "rest", "close", "over"} => current = None)
    /\ cancelled \in [Gens -> BOOLEAN]
    /\ reported \subseteq Internals

Init ==
    /\ circ = [g \in Gens |-> "none"]
    /\ stream = [s \in Streams |-> "none"]
    /\ token = [s \in Streams |-> None] /\ on = [s \in Streams |-> None]
    /\ queue = <<>> /\ subscribed = FALSE /\ link = TRUE
    /\ handler = Idle /\ internal = {}
    /\ worker = "boot" /\ gen = 0
    /\ current = None /\ cancelled = [g \in Gens |-> FALSE]
    /\ reported = {}

(* Tor reports what is subscribed to; what happens at once, in any order.  *)
Orders(E) == {es \in [1 .. Cardinality(E) -> E] : \A e \in E : \E i \in DOMAIN es : es[i] = e}

Report(E) == \E es \in Orders(E) : queue' = IF subscribed /\ link THEN queue \o es ELSE queue

(* Bound: Tor adds nothing of its own while MaxQueue events wait.          *)
Room == Len(queue) < MaxQueue

Set(s, state) == stream' = [stream EXCEPT ![s] = state]

----------------------------------------------------------------------------
(* Tor                                                                     *)

InternalOpens(s) ==
    /\ stream[s] = "none"
    /\ Room
    /\ Set(s, "attached")
    /\ Report({StreamEvent(s, "NEW")})
    /\ reported' = IF subscribed THEN reported \union {s} ELSE reported
    /\ UNCHANGED <<circ, token, on, subscribed, link, session, cycle, current, cancelled>>

InternalDetaches(s) ==
    /\ stream[s] = "attached"
    /\ Room
    /\ Set(s, "waiting")
    /\ Report({StreamEvent(s, "DETACHED")})
    /\ UNCHANGED <<circ, token, on, subscribed, reported, link, session, cycle, current, cancelled>>

(* A stream ends: Tor's own, or one whose client hangs up.                 *)
StreamCloses(s) ==
    /\ stream[s] \in {"waiting", "attached"}
    /\ Room
    /\ Set(s, "closed")
    /\ Report({StreamEvent(s, "CLOSED")})
    /\ UNCHANGED <<circ, token, on, subscribed, reported, link, session, cycle, current, cancelled>>

CircuitBuilt(g) ==
    /\ circ[g] = "building"
    /\ circ' = [circ EXCEPT ![g] = "built"]
    /\ UNCHANGED <<stream, token, on, subscribed, reported, queue, link, session, cycle,
                   current, cancelled>>

(* A circuit dies; its streams are closed, or detached to be tried again.  *)
Riding(g) == {s \in Streams : stream[s] = "attached" /\ on[s] = g}

Death(g, status, fate) ==
    /\ circ[g] \in {"building", "built"}
    /\ circ' = [circ EXCEPT ![g] = "dead"]
    /\ stream' = [s \in Streams |-> IF s \in Riding(g)
                      THEN IF fate = "CLOSED" THEN "closed" ELSE "waiting" ELSE stream[s]]
    /\ Report({CircEvent(g, status)} \union {StreamEvent(s, fate) : s \in Riding(g)})
    /\ UNCHANGED <<token, on, subscribed, reported>>

CircuitDies(g) ==
    /\ Room
    /\ \E status \in {"CLOSED", "FAILED"}, fate \in {"CLOSED", "DETACHED"} : Death(g, status, fate)
    /\ UNCHANGED <<link, session, cycle, current, cancelled>>

(* SOCKS: a user dials with a lease of the serving endpoint, which may     *)
(* have moved on when the stream gets to Tor.                              *)
UserDials(s) ==
    /\ worker = "serve" /\ ~ cancelled[gen]
    /\ stream[s] = "none"
    /\ Set(s, "dialled")
    /\ token' = [token EXCEPT ![s] = gen]
    /\ UNCHANGED <<circ, on, subscribed, reported, queue, link, session, cycle, current, cancelled>>

StreamArrives(s) ==
    /\ stream[s] = "dialled"
    /\ Room
    /\ Set(s, "waiting")
    /\ Report({StreamEvent(s, "NEW")})
    /\ UNCHANGED <<circ, token, on, subscribed, reported, link, session, cycle, current, cancelled>>

LinkLost ==
    /\ link /\ link' = FALSE
    /\ UNCHANGED <<tor, queue, session, cycle, current, cancelled>>

----------------------------------------------------------------------------
(* torSession.events                                                       *)

Then(do, s, g) == handler' = [do |-> do, stream |-> s, gen |-> g]

BadFatal == {"CLOSED"}

Fatal == {"CLOSED", "FAILED"}

(* The purpose of a stream is told only when it is new.                    *)
BadInternalAfter(e) == internal \ {e.id}

InternalAfter(e) ==
    IF e.status = "NEW" THEN internal \union ({e.id} \intersect Internals)
    ELSE IF e.status = "CLOSED" THEN internal \ {e.id} ELSE internal

Skipped(e) == e.id \in internal \/ (e.id \in Internals /\ e.status = "NEW")

(* A new stream belongs to the endpoint in place if it carries its token.  *)
BadBelongs(s) == current # None /\ ~ cancelled[current]

Belongs(s) == current # None /\ ~ cancelled[current] /\ token[s] = current

BadRefuse(s) == UNCHANGED handler

Refuse(s) == Then("close", s, None)

Settle(e) ==
    IF Skipped(e) \/ e.status = "CLOSED" THEN UNCHANGED handler
    ELSE IF e.status = "NEW" /\ Belongs(e.id) THEN Then("attach", e.id, current)
    ELSE Refuse(e.id)

HandleCirc(e) ==
    /\ e.kind = "CIRC"
    /\ cancelled' = [cancelled EXCEPT ![e.id] = @ \/ (current = e.id /\ e.status \in Fatal)]
    /\ UNCHANGED session

HandleStream(e) ==
    /\ e.kind = "STREAM"
    /\ internal' = InternalAfter(e)
    /\ Settle(e)
    /\ UNCHANGED cancelled

TakeEvent ==
    /\ handler.do = "idle" /\ queue # <<>>
    /\ HandleCirc(Head(queue)) \/ HandleStream(Head(queue))
    /\ queue' = Tail(queue)
    /\ UNCHANGED <<tor, link, cycle, current>>

(* ATTACHSTREAM; when Tor refuses it, the stream is closed.                *)
Attachable == stream[handler.stream] = "waiting" /\ circ[handler.gen] = "built"

Attach ==
    /\ handler.do = "attach" /\ link
    /\ IF Attachable
       THEN /\ Set(handler.stream, "attached")
            /\ on' = [on EXCEPT ![handler.stream] = handler.gen]
            /\ handler' = Idle
       ELSE Then("close", handler.stream, None) /\ UNCHANGED <<stream, on>>
    /\ UNCHANGED <<circ, token, subscribed, reported, queue, link, internal, cycle, current, cancelled>>

(* CLOSESTREAM, whatever the answer.                                       *)
CloseStream ==
    /\ handler.do = "close" /\ link
    /\ IF stream[handler.stream] \in {"waiting", "attached"}
       THEN Set(handler.stream, "closed") /\ Report({StreamEvent(handler.stream, "CLOSED")})
       ELSE UNCHANGED <<stream, queue>>
    /\ handler' = Idle
    /\ UNCHANGED <<circ, token, on, subscribed, reported, link, internal, cycle, current, cancelled>>

(* Without the connection every command fails.                             *)
CommandFails ==
    /\ handler.do \in {"attach", "close"} /\ ~ link
    /\ handler' = Idle
    /\ UNCHANGED <<tor, queue, link, internal, cycle, current, cancelled>>

(* done: the deferred cancel of the endpoint in place.                     *)
SessionEnds ==
    /\ ~ link /\ handler.do = "idle"
    /\ Then("over", None, None)
    /\ cancelled' = [g \in Gens |-> cancelled[g] \/ g = current]
    /\ UNCHANGED <<tor, queue, link, internal, cycle, current>>

----------------------------------------------------------------------------
(* superviseTor and cycle                                                  *)

WorkerGoto(from, to) == worker = from /\ worker' = to /\ UNCHANGED gen

Subscribe ==
    /\ WorkerGoto("boot", "rest")
    /\ link
    /\ subscribed' = TRUE
    /\ UNCHANGED <<circ, stream, token, on, reported, queue, link, session, current, cancelled>>

Extend ==
    /\ worker = "rest" /\ link /\ gen < Cycles
    /\ gen' = gen + 1
    /\ circ' = [circ EXCEPT ![gen + 1] = "building"]
    /\ worker' = "poll"
    /\ UNCHANGED <<stream, token, on, subscribed, reported, queue, link, session, current, cancelled>>

PollBuilt ==
    /\ WorkerGoto("poll", "install")
    /\ link /\ circ[gen] = "built"
    /\ UNCHANGED <<tor, queue, link, session, current, cancelled>>

(* setEndpoint(ep), and the dial of the IP check.                          *)
Install ==
    /\ WorkerGoto("install", "check")
    /\ current' = gen
    /\ Set(Check(gen), "dialled")
    /\ token' = [token EXCEPT ![Check(gen)] = gen]
    /\ UNCHANGED <<circ, on, subscribed, reported, queue, link, session, cancelled>>

(* The check was answered over its stream; publish needs the context.      *)
CheckPasses ==
    /\ WorkerGoto("check", "serve")
    /\ Check(gen) \in Riding(gen) /\ circ[gen] = "built"
    /\ ~ cancelled[gen]
    /\ Set(Check(gen), "closed")
    /\ Report({StreamEvent(Check(gen), "CLOSED")})
    /\ UNCHANGED <<circ, token, on, subscribed, reported, link, session, current, cancelled>>

(* A time-out or an error of the poll or the check.                        *)
GiveUp ==
    /\ WorkerGoto("poll", "leave") \/ WorkerGoto("check", "leave")
    /\ UNCHANGED <<tor, queue, link, session, current, cancelled>>

(* The lease is finished, or the circuit or the connection is gone.        *)
ServingEnds(reason) ==
    /\ WorkerGoto("serve", "leave")
    /\ reason
    /\ UNCHANGED <<tor, queue, link, session, current, cancelled>>

(* The deferred calls: setEndpoint(nil), the cancel, CLOSECIRCUIT.         *)
NoEndpoint == None

Uninstall ==
    /\ WorkerGoto("leave", "close")
    /\ current' = NoEndpoint
    /\ cancelled' = [cancelled EXCEPT ![gen] = TRUE]
    /\ UNCHANGED <<tor, queue, link, session>>

CloseCircuit ==
    /\ WorkerGoto("close", "rest")
    /\ \/ link /\ Death(gen, "CLOSED", "CLOSED")
       \/ (circ[gen] = "dead" \/ ~ link) /\ UNCHANGED <<tor, queue>>
    /\ UNCHANGED <<link, session, current, cancelled>>

WorkerEnds ==
    /\ WorkerGoto("rest", "over") /\ ~ link
    /\ UNCHANGED <<tor, queue, link, session, current, cancelled>>

HandlerStep == TakeEvent \/ Attach \/ CloseStream \/ CommandFails \/ SessionEnds

CircuitGone == cancelled[gen] \/ ~ link

WorkerStep ==
    \/ Subscribe \/ Extend \/ PollBuilt \/ Install \/ CheckPasses \/ GiveUp
    \/ ServingEnds(CircuitGone) \/ Uninstall \/ CloseCircuit \/ WorkerEnds

Next ==
    \/ \E s \in Internals : InternalOpens(s) \/ InternalDetaches(s)
    \/ \E s \in Streams : StreamCloses(s) \/ StreamArrives(s)
    \/ \E s \in Users : UserDials(s)
    \/ \E g \in Gens : CircuitBuilt(g) \/ CircuitDies(g)
    \/ LinkLost \/ HandlerStep \/ WorkerStep \/ ServingEnds(TRUE)

Spec == Init /\ [][Next]_vars

(* Goroutines are scheduled, and Tor answers commands.  That a lease is    *)
(* finished is not needed.                                                 *)
FairSpec == Spec /\ WF_vars(HandlerStep) /\ WF_vars(WorkerStep)

----------------------------------------------------------------------------
(* Properties                                                              *)

(* "temporary generation tags to prevent late streams from attaching to a  *)
(* newer circuit" (README:150): a stream is only ever attached to the      *)
(* circuit of the endpoint through which it was dialled.                   *)
AttachedToOwn == \A s \in Streams : on[s] # None => on[s] = token[s]

(* A circuit that died before its endpoint was in place is ignored by      *)
(* events; yet a circuit that serves and is dead is known or about to be   *)
(* known to be, because the IP check needed it alive after setEndpoint.    *)
DeathKnown ==
    worker = "serve" /\ circ[gen] = "dead" /\ link =>
        \/ cancelled[gen]
        \/ \E i \in 1 .. Len(queue) : queue[i].kind = "CIRC" /\ queue[i].id = gen

(* A stream of Tor whose NEW was reported is never attached or closed by   *)
(* the session (tor.go:88).                                                *)
InternalLeftAlone == handler.stream \notin reported

(* No client waits for ever: its stream is attached or closed, unless the  *)
(* connection to Tor is gone.                                              *)
StreamSettled ==
    \A s \in Users : stream[s] = "waiting" ~> stream[s] \in {"attached", "closed"} \/ ~ link

(* "Interfering with them prevents consensus downloads" (tor.go:89): no    *)
(* stream of Tor itself is attached or closed by the session.              *)
NoInterference == handler.stream \notin Internals
=============================================================================
