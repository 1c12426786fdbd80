------------------------------- MODULE Proxy -------------------------------
(***************************************************************************)
(* The proxy front end (proxy.go:87-331) on top of the lease scheduler:    *)
(* serveForward and serveConnect of each request, with forwardAttempt and  *)
(* connectAttempt.  A request makes one call of Acquire after the other;   *)
(* its k-th one is the client <<r, k>> of Pool, whose steps are taken here *)
(* by the handler that makes them.                                         *)
(*                                                                         *)
(* net/http, the client and the target are the environment: a dial, a      *)
(* round trip and a copy have outcomes.  502 and 504 are one answer, and   *)
(* headers are left out.  Operators named Bad... are plausible mistakes    *)
(* that nothing uses (README, "Mutants").                                  *)
(***************************************************************************)
EXTENDS Pool

CONSTANTS
    Requests,       \* requests to the proxy, each served once
    Kinds           \* what they may be, of "get", "post", "connect" and "bad"

ASSUME CallAssumption == Clients = Requests \X (1 .. N)
ASSUME KindAssumption == Kinds \subseteq {"get", "post", "connect", "bad"}

VARIABLES
    kind,       \* kind[r]: no body, a body, CONNECT, or refused by ServeHTTP
    handler,    \* handler[r]: where the goroutine of request r is
    attempt,    \* attempt[r]: its calls of Acquire, counted from 1
    lastErr,    \* lastErr[r]: an attempt has failed
    dialed,     \* dialed[r]: in this attempt the dial succeeded
    err,        \* err[r]: this attempt failed
    answer,     \* answer[r]: what was written to the client
    body,       \* body[r]: r.Body, which net/http may have closed
    context,    \* context[r]: r.Context()
    reached,    \* history: how often the target may have seen the request
    blamed      \* history: the instances that failed for the request

front == <<kind, handler, attempt, lastErr, dialed, err, answer, body, context,
           reached, blamed>>
pvars == <<vars, front>>

Answers == {"none", "refused", "unavailable", "notpersisted", "gateway", "headers",
            "complete", "aborted", "tunnel", "closed", "empty", "panicked"}

ProxyTypeOK ==
    /\ kind \in [Requests -> {"get", "post", "connect", "bad"}]
    /\ handler \in [Requests -> {"idle", "loop", "acquire", "dial", "exchange", "copy",
                                 "finish", "done"}]
    /\ attempt \in [Requests -> 0 .. N]
    /\ lastErr \in [Requests -> BOOLEAN]
    /\ dialed \in [Requests -> BOOLEAN]
    /\ err \in [Requests -> BOOLEAN]
    /\ \A r \in Requests : handler[r] \in {"acquire", "dial"} => ~ dialed[r] /\ ~ err[r]
    /\ answer \in [Requests -> Answers]
    /\ body \in [Requests -> {"open", "sent", "closed"}]
    /\ context \in [Requests -> {"live", "left", "stopped"}]
    /\ reached \in [Requests -> 0 .. N]
    /\ blamed \in [Requests -> SUBSET Slots]

ProxyInit ==
    /\ Init
    /\ kind \in [Requests -> Kinds]
    /\ handler = [r \in Requests |-> "idle"]
    /\ attempt = [r \in Requests |-> 0]
    /\ lastErr = [r \in Requests |-> FALSE]
    /\ dialed = [r \in Requests |-> FALSE]
    /\ err = [r \in Requests |-> FALSE]
    /\ answer = [r \in Requests |-> "none"]
    /\ body = [r \in Requests |-> "open"]
    /\ context = [r \in Requests |-> "live"]
    /\ reached = [r \in Requests |-> 0]
    /\ blamed = [r \in Requests |-> {}]

Call(r) == <<r, attempt[r]>>            \* the current call of Acquire
HasBody(r) == kind[r] = "post"          \* r.ContentLength # 0
Alive(r) == context[r] = "live"
Instance(r) == ep[lease[Call(r)]].id

Goto(r, h) == handler' = [handler EXCEPT ![r] = h]
Reply(r, a) == answer' = [answer EXCEPT ![r] = a]
End(r, a) == Goto(r, "done") /\ Reply(r, a)

----------------------------------------------------------------------------
(* ServeHTTP: a request that is refused takes no lease.                    *)
Arrive(r) ==
    /\ handler[r] = "idle"
    /\ IF kind[r] = "bad" THEN End(r, "refused")
                          ELSE Goto(r, "loop") /\ UNCHANGED answer
    /\ UNCHANGED <<vars, kind, attempt, lastErr, dialed, err, body, context, reached, blamed>>

(* The head of the loop over Pool.Size() attempts: stop when all are used, *)
(* or when the context ended after a failure.  A handler that returns      *)
(* without a word makes net/http answer 200 with an empty body.            *)
GivenUp(r) == lastErr[r] /\ ~ Alive(r)

Exhausted(r) == attempt[r] = N

StopLoop(r) ==
    /\ handler[r] = "loop"
    /\ \/ Exhausted(r) /\ End(r, "gateway")
       \/ ~ Exhausted(r) /\ GivenUp(r) /\ End(r, "empty")
    /\ UNCHANGED <<vars, kind, attempt, lastErr, dialed, err, body, context, reached, blamed>>

(* dialed and err are results of one attempt, not of the request.          *)
Fresh(r) == err' = [err EXCEPT ![r] = FALSE] /\ dialed' = [dialed EXCEPT ![r] = FALSE]

NextAttempt(r) ==
    /\ handler[r] = "loop"
    /\ ~ Exhausted(r) /\ ~ GivenUp(r)
    /\ attempt' = [attempt EXCEPT ![r] = @ + 1]
    /\ Fresh(r)
    /\ Goto(r, "acquire")
    /\ CallAcquire(<<r, attempt[r] + 1>>)
    /\ UNCHANGED <<kind, lastErr, answer, body, context, reached, blamed>>

----------------------------------------------------------------------------
(* Acquire.  With an ended context nothing can be consumed, and a waiting  *)
(* call returns.                                                           *)
Acquiring(r) == handler[r] = "acquire"

AcquireGoesOn(r) ==
    /\ Acquiring(r)
    /\ \/ ScanFindsNone(Call(r)) \/ Rescan(Call(r)) \/ GiveUp(Call(r))
    /\ UNCHANGED front

GetLease(r) ==
    /\ Acquiring(r)
    /\ Alive(r)
    /\ \E k \in Slots : GrantUnique(Call(r), k) \/ GrantReuse(Call(r), k)
    /\ Goto(r, "dial")
    /\ UNCHANGED <<kind, attempt, lastErr, dialed, err, answer, body, context, reached, blamed>>

(* acquireError: ErrNoReady is reported as the failure before it, if any;  *)
(* every other error, also that of an ended context, as a failure to       *)
(* persist.                                                                *)
NoneReady(r) ==
    /\ Acquiring(r)
    /\ CountRejected(Call(r))
    /\ End(r, IF lastErr[r] THEN "gateway" ELSE "unavailable")
    /\ UNCHANGED <<kind, attempt, lastErr, dialed, err, body, context, reached, blamed>>

AcquireFails(r) ==
    /\ Acquiring(r)
    /\ \/ \E k \in Slots : ScanFails(Call(r), k)
       \/ ~ Alive(r) /\ ContextEnds(Call(r))
    /\ End(r, "notpersisted")
    /\ UNCHANGED <<kind, attempt, lastErr, dialed, err, body, context, reached, blamed>>

----------------------------------------------------------------------------
(* forwardAttempt and connectAttempt                                       *)

BadFail(r) == err' = [err EXCEPT ![r] = TRUE] /\ Goto(r, "loop")

Fail(r) == err' = [err EXCEPT ![r] = TRUE] /\ Goto(r, "finish")

(* A failed dial.  The transport closes the request's body on every error. *)
CloseBody(r) == body' = [body EXCEPT ![r] = IF HasBody(r) THEN "closed" ELSE @]

DialFails(r) ==
    /\ handler[r] = "dial"
    /\ Fail(r)
    /\ CloseBody(r)
    /\ UNCHANGED <<vars, kind, attempt, lastErr, dialed, answer, context, reached, blamed>>

(* The endpoint's context is checked first; the circuit carries the dial.  *)
DialSucceeds(r) ==
    /\ handler[r] = "dial"
    /\ ~ ep[lease[Call(r)]].cancelled
    /\ Alive(r)
    /\ dialed' = [dialed EXCEPT ![r] = TRUE]
    /\ Goto(r, "exchange")
    /\ UNCHANGED <<vars, kind, attempt, lastErr, err, answer, body, context, reached, blamed>>

(* A body that was closed cannot be sent: then nothing leaves.             *)
Sendable(r) == body[r] # "closed"

(* RoundTrip fails after the dial, with or without the request on its way. *)
ExchangeFails(r) ==
    /\ handler[r] = "exchange" /\ kind[r] # "connect"
    /\ Fail(r)
    /\ CloseBody(r)
    /\ \/ UNCHANGED reached
       \/ Sendable(r) /\ reached' = [reached EXCEPT ![r] = @ + 1]
    /\ UNCHANGED <<vars, kind, attempt, lastErr, dialed, answer, context, blamed>>

(* RoundTrip succeeds, and the headers are passed on.                      *)
Respond(r) ==
    /\ handler[r] = "exchange" /\ kind[r] # "connect"
    /\ Alive(r)
    /\ Sendable(r)
    /\ reached' = [reached EXCEPT ![r] = @ + 1]
    /\ body' = [body EXCEPT ![r] = "sent"]

ResponseBegins(r) ==
    /\ Respond(r)
    /\ Goto(r, "copy") /\ Reply(r, "headers")
    /\ UNCHANGED <<vars, kind, attempt, lastErr, dialed, err, context, blamed>>

(* WriteHeader panics on a status code below 100, which a response may     *)
(* carry; net/http recovers, and serveForward never gets to Finish.        *)
ResponsePanics(r) ==
    /\ Respond(r)
    /\ End(r, "panicked")
    /\ UNCHANGED <<vars, kind, attempt, lastErr, dialed, err, context, blamed>>

(* Hijacking the client's connection or writing the 200 may fail.          *)
HijackFails(r) ==
    /\ handler[r] = "exchange" /\ kind[r] = "connect"
    /\ Fail(r)
    /\ UNCHANGED <<vars, kind, attempt, lastErr, dialed, answer, body, context, reached, blamed>>

TunnelBegins(r) ==
    /\ handler[r] = "exchange" /\ kind[r] = "connect"
    /\ Goto(r, "copy") /\ Reply(r, "tunnel")
    /\ UNCHANGED <<vars, kind, attempt, lastErr, dialed, err, body, context, reached, blamed>>

(* The response was copied to its end, or the relay of a tunnel is over.   *)
CopyEnds(r) ==
    /\ handler[r] = "copy"
    /\ \/ Goto(r, "finish") /\ UNCHANGED err
       \/ Fail(r)
    /\ UNCHANGED <<vars, kind, attempt, lastErr, dialed, answer, body, context, reached, blamed>>

(* lease.Finish(err)                                                       *)
FinishLease(r) ==
    /\ handler[r] = "finish"
    /\ \/ FinishUnique(Call(r), ~ err[r])
       \/ ~ err[r] /\ FinishReuse(Call(r))
       \/ err[r] /\ FailReuse(Call(r))
    /\ blamed' = IF err[r] THEN [blamed EXCEPT ![r] = @ \union {Instance(r)}] ELSE blamed
    /\ UNCHANGED <<kind, handler, attempt, lastErr, dialed, err, answer, body, context, reached>>

CloseLease(r) == handler[r] = "finish" /\ CloseDone(Call(r)) /\ UNCHANGED front

(* What follows Finish: success, an aborted response, a body that may have *)
(* left, a tunnel that was begun, or the next instance.                    *)
Responded(r) == answer[r] = "headers"

BadSpent(r) == HasBody(r) /\ Responded(r)

Spent(r) == HasBody(r) /\ dialed[r]

Tunneled(r) == kind[r] = "connect" /\ dialed[r]

BadConcluded(r) == ~ err[r] \/ Spent(r) \/ Tunneled(r)

Concluded(r) == ~ err[r] \/ Responded(r) \/ Spent(r) \/ Tunneled(r)

Verdict(r) == IF Tunneled(r) THEN "closed"
              ELSE IF ~ err[r] THEN "complete"
              ELSE IF Responded(r) THEN "aborted" ELSE "gateway"

AfterFinish(r) ==
    /\ handler[r] = "finish" /\ client[Call(r)] = "gone"
    /\ lastErr' = [lastErr EXCEPT ![r] = err[r]]
    /\ IF Concluded(r) THEN End(r, Verdict(r)) ELSE Goto(r, "loop") /\ UNCHANGED answer
    /\ UNCHANGED <<vars, kind, attempt, dialed, err, body, context, reached, blamed>>

----------------------------------------------------------------------------
(* The environment: a client disconnects, the application shuts down       *)
(* (BaseContext), or the process dies and all its requests with it.        *)
ContextEnd(R, why) ==
    /\ context' = [r \in Requests |-> IF r \in R /\ Alive(r) THEN why ELSE context[r]]
    /\ UNCHANGED <<vars, kind, handler, attempt, lastErr, dialed, err, answer, body,
                   reached, blamed>>

ClientLeaves(r) == handler[r] \notin {"idle", "done"} /\ Alive(r) /\ ContextEnd({r}, "left")

Stop == (\E r \in Requests : Alive(r)) /\ ContextEnd(Requests, "stopped")

ProxyCrash ==
    /\ Crash
    /\ handler' = [r \in Requests |-> IF handler[r] = "idle" THEN "idle" ELSE "done"]
    /\ context' = [r \in Requests |-> "live"]
    /\ UNCHANGED <<kind, attempt, lastErr, dialed, err, answer, body, reached, blamed>>

HandlerStep(r) ==
    \/ StopLoop(r) \/ NextAttempt(r)
    \/ AcquireGoesOn(r) \/ GetLease(r) \/ NoneReady(r) \/ AcquireFails(r)
    \/ DialFails(r) \/ DialSucceeds(r) \/ ExchangeFails(r)
    \/ ResponseBegins(r) \/ ResponsePanics(r) \/ HijackFails(r) \/ TunnelBegins(r)
    \/ CopyEnds(r) \/ FinishLease(r) \/ CloseLease(r) \/ AfterFinish(r)

InstanceStep(i) == (WorkerStep(i) \/ CircuitLost(i) \/ ControlLost(i)) /\ UNCHANGED front

ProxyNext ==
    \/ \E i \in Slots : InstanceStep(i)
    \/ \E r \in Requests : Arrive(r) \/ HandlerStep(r) \/ ClientLeaves(r)
    \/ Stop \/ ProxyCrash

ProxySpec == ProxyInit /\ [][ProxyNext]_pvars

(* Each handler is a goroutine; the deadline of Acquire is absolute; dials *)
(* and response headers are bounded by CONNECT_TIMEOUT.  That a copy ends  *)
(* is an assumption about the peers, as in Pool.                           *)
ProxyFairSpec ==
    /\ ProxySpec
    /\ \A i \in Slots : WF_pvars(InstanceStep(i))
    /\ \A r \in Requests : /\ WF_pvars(HandlerStep(r))
                           /\ SF_pvars(Acquiring(r) /\ GiveUp(Call(r)) /\ UNCHANGED front)

----------------------------------------------------------------------------
(* Properties                                                              *)

(* Once the body of a request may have reached a target no other instance  *)
(* is tried (proxy.go:160): a state-changing request is not executed twice *)
(* by failover.                                                            *)
BodyOnce ==
    [][\A r \in Requests : HasBody(r) /\ reached[r] > 0 => attempt'[r] = attempt[r]]_pvars

(* A request has one lease at a time, and has given it back before it      *)
(* tries the next instance and when it is over, however it ends; a panic   *)
(* of the handler is the exception.                                        *)
OneLeaseAtATime ==
    \A r \in Requests, k \in 1 .. N :
        client[<<r, k>>] \in {"leased", "closing"} /\ answer[r] # "panicked"
            => k = attempt[r] /\ handler[r] \in {"dial", "exchange", "copy", "finish"}

(* Once bytes of a response or a tunnel have gone to the client, no other  *)
(* instance is tried: two responses are never spliced together.            *)
NoSplice ==
    [][\A r \in Requests : answer[r] \in {"headers", "tunnel"} => attempt'[r] = attempt[r]]_pvars

(* Every request is answered or dropped, whatever the instances do: at     *)
(* most Size attempts, each with a lease or an answer in bounded time.     *)
RequestEnds == \A r \in Requests : handler[r] = "loop" ~> handler[r] = "done"

(* "Requests with a body are replayed only when the body provably never    *)
(* left" (README:145): an attempt that reaches a target has its body.      *)
ReplayCarriesBody == \A r \in Requests : handler[r] = "exchange" => Sendable(r)

(* "requests are not automatically replayed on failure" (README:156).      *)
NotReplayed == \A r \in Requests : reached[r] <= 1

(* "only when every instance fails (or none is ready) does the client see  *)
(* an error" (proxy.go:134): when the attempts are used up, no instance is *)
(* ready that was not tried.                                               *)
EveryInstanceTried ==
    [][\A r \in Requests : handler[r] = "loop" /\ answer'[r] = "gateway"
           => \A i \in Slots : Eligible(i) => i \in blamed[r]]_pvars

(* "The client went away" (proxy.go:141): only then may a request end      *)
(* without an answer, which net/http turns into an empty 200.              *)
OnlyForThoseWhoLeft == \A r \in Requests : answer[r] = "empty" => context[r] = "left"

(* "after the HTTP response body finishes, the HTTPS tunnel closes, or the *)
(* request fails, close the old circuit and start rotation" (README:146):  *)
(* a request that is over holds no lease.                                  *)
LeaseReturned ==
    \A r \in Requests, k \in 1 .. N :
        handler[r] = "done" => client[<<r, k>>] \notin {"leased", "closing"}
=============================================================================
