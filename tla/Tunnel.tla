------------------------------- MODULE Tunnel -------------------------------
(***************************************************************************)
(* One client connection that becomes a CONNECT tunnel: the deadlines of   *)
(* idleConn (proxy.go:17-85), which Accept puts around the socket and      *)
(* connectAttempt once more around what Hijack returns, and relayTunnel    *)
(* (proxy.go:338-354) with its two copying goroutines.                     *)
(*                                                                         *)
(* Time is a clock of ticks.  A deadline is the number of ticks left: 0 is *)
(* expired, Never is the zero time.Time.  A deadline that expired has its  *)
(* effect when the blocked call gets to run, or none if it was set anew    *)
(* before.  net/http, the peers and the circuit are the environment.       *)
(* Operators named Bad... are plausible mistakes that nothing uses         *)
(* (README, "Mutants").                                                    *)
(***************************************************************************)
EXTENDS Naturals

CONSTANTS
    IdleTimeout,        \* IDLE_TIMEOUT in ticks
    HeaderTimeout       \* ReadHeaderTimeout of the server (run.go:55)

ASSUME TimeoutAssumption == IdleTimeout \in Nat \ {0} /\ HeaderTimeout \in Nat \ {0}

VARIABLES
    phase,      \* reading the header, dialling, relaying, hanging up, over
    raw,        \* raw[c]: read and write deadline of the socket c
    limit,      \* readLimit and writeLimit of the inner idleConn of the client
    open,       \* open[c]: socket c is not closed
    copy,       \* copy[d]: the goroutine that copies in direction d
    cause,      \* why the first of them ended
    circuit,    \* ep.ctx of the lease
    age,        \* history: ticks spent in the header
    since       \* history: since[d]: ticks without a byte arriving for d

vars == <<phase, raw, limit, open, copy, cause, circuit, age, since>>

Never == IdleTimeout + HeaderTimeout + 1
Sockets == {"client", "upstream"}
Directions == {"up", "down"}            \* up: client to upstream
Deadline == 0 .. IdleTimeout + HeaderTimeout \union {Never}
Deadlines == [r : Deadline, w : Deadline]

TypeOK ==
    /\ phase \in {"header", "dial", "relay", "hangup", "over"}
    /\ raw \in [Sockets -> [r : 0 .. IdleTimeout \union {Never}, w : 0 .. IdleTimeout \union {Never}]]
    /\ phase = "relay" => \A c \in Sockets : raw[c].r # Never
    /\ limit \in Deadlines
    /\ open \in [Sockets -> BOOLEAN]
    /\ copy \in [Directions -> {"none", "read", "write", "ended"}]
    /\ cause \in {"none", "peer", "quiet", "stalled", "closed"}
    /\ circuit \in BOOLEAN
    /\ age \in 0 .. HeaderTimeout
    /\ since \in [Directions -> 0 .. IdleTimeout]

NoLimit == [r |-> Never, w |-> Never]
Source(d) == IF d = "up" THEN "client" ELSE "upstream"
Target(d) == IF d = "up" THEN "upstream" ELSE "client"

(* earlier: no limit is later than every deadline.                         *)
BadEarlier(a, b) == a

Earlier(a, b) == IF b < a THEN b ELSE a

(* touch: a Read or a Write sets both deadlines anew, whichever it is.     *)
BadTouched(old, l, op) == [old EXCEPT ![op] = Earlier(IdleTimeout, l[op])]

Touched(old, l, op) == [r |-> Earlier(IdleTimeout, l.r), w |-> Earlier(IdleTimeout, l.w)]

(* A Read of the client goes to the inner idleConn: net/http's buffer was  *)
(* made before Hijack.                                                     *)
ReadClient == /\ raw' = [raw EXCEPT !["client"] = Touched(@, limit, "r")]
              /\ UNCHANGED limit

(* A Write goes to the outer one.  Its touch calls SetReadDeadline and     *)
(* SetWriteDeadline of the inner one, which keeps them as its limits.      *)
WriteClient(l) ==
    /\ limit' = Touched(l, NoLimit, "w")
    /\ raw' = [raw EXCEPT !["client"] = Touched(Touched(@, NoLimit, "w"), limit', "w")]

TouchUpstream(op) == /\ raw' = [raw EXCEPT !["upstream"] = Touched(@, NoLimit, op)]
                     /\ UNCHANGED limit

BeginRead(d) == IF d = "up" THEN ReadClient ELSE TouchUpstream("r")
BeginWrite(d) == IF d = "up" THEN TouchUpstream("w") ELSE WriteClient(limit)

----------------------------------------------------------------------------
(* Until the tunnel                                                        *)

(* net/http sets its limit for the header, through SetReadDeadline.        *)
HeaderLimit == [r |-> HeaderTimeout, w |-> Never]

Init ==
    /\ phase = "header"
    /\ limit = HeaderLimit
    /\ raw = [c \in Sockets |-> IF c = "client" THEN Touched(NoLimit, HeaderLimit, "r")
                                                ELSE NoLimit]
    /\ open = [c \in Sockets |-> TRUE]
    /\ copy = [d \in Directions |-> "none"]
    /\ cause = "none"
    /\ circuit = TRUE
    /\ age = 0
    /\ since = [d \in Directions |-> 0]

(* Some bytes of the header; the next Read waits for more.                 *)
HeaderBytes ==
    /\ phase = "header" /\ raw["client"].r > 0
    /\ ReadClient
    /\ UNCHANGED <<phase, open, copy, cause, circuit, age, since>>

(* All of it: the limit is lifted, and net/http goes on reading in the     *)
(* background while the handler runs.                                      *)
HeaderEnds ==
    /\ phase = "header" /\ raw["client"].r > 0
    /\ phase' = "dial"
    /\ limit' = NoLimit
    /\ raw' = [raw EXCEPT !["client"] = Touched(NoLimit, NoLimit, "r")]
    /\ UNCHANGED <<open, copy, cause, circuit, age, since>>

(* A Read failed before there was a tunnel, or the handler gave up.        *)
NoTunnel ==
    /\ \/ phase = "header" /\ raw["client"].r = 0
       \/ phase = "dial"
    /\ phase' = "over"
    /\ open' = [c \in Sockets |-> FALSE]
    /\ UNCHANGED <<raw, limit, copy, cause, circuit, age, since>>

(* Hijack, SetDeadline(time.Time{}), the outer idleConn, the 200, and both *)
(* goroutines at their first Read.                                         *)
Establish ==
    /\ phase = "dial" /\ open["client"]
    /\ phase' = "relay"
    /\ limit' = Touched(NoLimit, NoLimit, "w")
    /\ raw' = [c \in Sockets |-> IF c = "client"
                   THEN Touched(Touched(NoLimit, NoLimit, "w"), limit', "r")
                   ELSE Touched(NoLimit, NoLimit, "r")]
    /\ copy' = [d \in Directions |-> "read"]
    /\ since' = [d \in Directions |-> 0]
    /\ UNCHANGED <<open, cause, circuit, age>>

----------------------------------------------------------------------------
(* io.CopyBuffer in direction d                                            *)

At(d) == IF copy[d] = "read" THEN Source(d) ELSE Target(d)
Side(d) == IF copy[d] = "read" THEN "r" ELSE "w"
Copying(d) == copy[d] \in {"read", "write"}
Usable(d) == open[At(d)] /\ raw[At(d)][Side(d)] > 0

Arrive(d) ==
    /\ copy[d] = "read" /\ Usable(d)
    /\ copy' = [copy EXCEPT ![d] = "write"]
    /\ since' = [since EXCEPT ![d] = 0]
    /\ BeginWrite(d)
    /\ UNCHANGED <<phase, open, cause, circuit, age>>

Forward(d) ==
    /\ copy[d] = "write" /\ Usable(d)
    /\ copy' = [copy EXCEPT ![d] = "read"]
    /\ BeginRead(d)
    /\ UNCHANGED <<phase, open, cause, circuit, age, since>>

(* The peer ends or breaks its stream, a deadline expired, or the socket   *)
(* was closed under the call.                                              *)
End(d, why) ==
    /\ Copying(d)
    /\ copy' = [copy EXCEPT ![d] = "ended"]
    /\ cause' = IF cause = "none" THEN why ELSE cause
    /\ UNCHANGED <<phase, raw, limit, open, circuit, age, since>>

PeerEnds(d) == open[At(d)] /\ End(d, "peer")
TimesOut(d) == /\ open[At(d)] /\ raw[At(d)][Side(d)] = 0
               /\ End(d, IF copy[d] = "read" THEN "quiet" ELSE "stalled")
Broken(d)   == ~ open[At(d)] /\ End(d, "closed")

----------------------------------------------------------------------------
(* relayTunnel after the first result: close both ends, wait for the other *)
(* goroutine, return; then serveConnect finishes the lease.                *)
Ended == {d \in Directions : copy[d] = "ended"}

Close(S) == open' = [c \in Sockets |-> open[c] /\ c \notin S]

BadHangUp == UNCHANGED open

HangUp == Close(Sockets)

FirstResult ==
    /\ phase = "relay" /\ Ended # {}
    /\ phase' = "hangup"
    /\ HangUp
    /\ UNCHANGED <<raw, limit, copy, cause, circuit, age, since>>

BadBothDone == Ended # {}

BothDone == Ended = Directions

Return ==
    /\ phase = "hangup" /\ BothDone
    /\ phase' = "over"
    /\ UNCHANGED <<raw, limit, open, copy, cause, circuit, age, since>>

(* The circuit dies; context.AfterFunc of guardConnection closes the       *)
(* upstream socket.  Shutdown may close the client's (closeConnections).   *)
CircuitLost ==
    /\ circuit /\ phase \in {"relay", "hangup"}
    /\ circuit' = FALSE
    /\ UNCHANGED <<phase, raw, limit, open, copy, cause, age, since>>

GuardFires ==
    /\ ~ circuit /\ open["upstream"]
    /\ Close({"upstream"})
    /\ UNCHANGED <<phase, raw, limit, copy, cause, circuit, age, since>>

Shutdown ==
    /\ open["client"]
    /\ Close({"client"})
    /\ UNCHANGED <<phase, raw, limit, copy, cause, circuit, age, since>>

----------------------------------------------------------------------------
Less(t) == IF t \in {0, Never} THEN t ELSE t - 1
LessBoth(p) == [r |-> Less(p.r), w |-> Less(p.w)]
More(t, most) == IF t < most THEN t + 1 ELSE t

Tick ==
    /\ phase # "over"
    /\ raw' = [c \in Sockets |-> LessBoth(raw[c])]
    /\ limit' = LessBoth(limit)
    /\ age' = IF phase = "header" THEN More(age, HeaderTimeout) ELSE age
    /\ since' = [d \in Directions |-> More(since[d], IdleTimeout)]
    /\ UNCHANGED <<phase, open, copy, cause, circuit>>

CopyEnds(d) == TimesOut(d) \/ Broken(d)

Next ==
    \/ HeaderBytes \/ HeaderEnds \/ NoTunnel \/ Establish
    \/ \E d \in Directions : Arrive(d) \/ Forward(d) \/ PeerEnds(d) \/ CopyEnds(d)
    \/ FirstResult \/ Return \/ CircuitLost \/ GuardFires \/ Shutdown \/ Tick

Spec == Init /\ [][Next]_vars

(* Time passes; a call on a closed socket or past its deadline returns;    *)
(* goroutines are scheduled.  Nothing is assumed of the peers.             *)
FairSpec ==
    /\ Spec
    /\ WF_vars(FirstResult) /\ WF_vars(Return) /\ WF_vars(GuardFires)
    /\ WF_vars(Tick)
    /\ \A d \in Directions : WF_vars(CopyEnds(d))

----------------------------------------------------------------------------
(* Properties                                                              *)

(* "A download keeps the tunnel alive even when the upload direction is    *)
(* quiet" (proxy.go:17): no Read of either direction runs out of time      *)
(* within IDLE_TIMEOUT of a byte from the target.                          *)
DownloadKeepsAlive ==
    [][cause # "quiet" /\ cause' = "quiet" => since["down"] = IdleTimeout]_vars

(* "(and vice versa)" (proxy.go:18): nor within it of a byte from the      *)
(* client.                                                                 *)
UploadKeepsAlive ==
    [][cause # "quiet" /\ cause' = "quiet" => since["up"] = IdleTimeout]_vars

(* The caller's own limit wins (proxy.go:27): a client that sends its      *)
(* header byte by byte has no longer than ReadHeaderTimeout for it.        *)
HeaderBounded == phase = "header" => raw["client"].r + age <= HeaderTimeout

(* relayTunnel returns, and the lease is finished, only after both copies  *)
(* have ended: no byte uses a circuit whose lease was given back.          *)
NoByteAfterReturn == [][phase = "over" => UNCHANGED copy]_vars

(* One end is enough to end a tunnel, and so is its circuit, even if the   *)
(* other peer never stops sending.                                         *)
EndsTogether ==
    (phase = "relay" /\ (Ended # {} \/ ~ circuit)) ~> (phase = "over")
=============================================================================
