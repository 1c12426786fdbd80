-------------------------------- MODULE Pool --------------------------------
(***************************************************************************)
(* The lease scheduler (pool.go) with the two parties that drive it: the   *)
(* worker of each instance, which builds circuits, publishes and withdraws *)
(* them (cycle and cycleReuse of tor.go), and the proxy's calls of Acquire *)
(* and Lease.Finish.  Every step is one critical section of Pool.mu, or    *)
(* one of the steps the code takes outside it: a receive from done, the    *)
(* close of done, a branch of a select, the death of the process.          *)
(*                                                                         *)
(* What the dashboard reads (views, events, revision) is left out, and so  *)
(* are the labels superviseTor sets between two cycles (module Worker).    *)
(* Operators named Bad... are plausible mistakes, each written before the  *)
(* definition it would replace; nothing uses them (README, "Mutants").     *)
(***************************************************************************)
EXTENDS Store, Integers, FiniteSets

CONSTANTS
    N,              \* TOR_COUNT: the number of instances
    Clients,        \* calls of Acquire, each made at most once
    Endpoints,      \* identities of endpoint objects, reused once unreachable
    Modes,          \* the values UNIQUE_IP may have, from process to process
    MaxFailures,    \* maxConsecutiveServeFailures
    None

ASSUME CountAssumption == N \in Nat \ {0} /\ MaxFailures \in Nat \ {0}
ASSUME ModeAssumption  == Modes # {} /\ Modes \subseteq BOOLEAN
ASSUME NoneAssumption  == None \notin IPs \union Clients \union Endpoints

Slots == 0 .. N-1                       \* slot i belongs to the instance i+1

VARIABLES
    unique,     \* UNIQUE_IP of the running process
    slot,       \* slot[i]: its state, published endpoint, failures in a row
    reserved,   \* reserved[a]: the endpoint that holds address a
    next,       \* where the next scan starts
    count,      \* requests, completed, failed and rejected
    ep,         \* ep[e]: the fields of endpoint e
    phase,      \* phase[i]: where worker i is in its cycle
    cur,        \* cur[i]: the endpoint of that cycle
    verdict,    \* verdict[i]: what the worker made of the serving result
    lost,       \* lost[i]: the control connection of worker i is gone (ctrl.done)
    client,     \* client[c]: where call c is
    lease,      \* lease[c]: the endpoint c was given
    granted,    \* history: the address call c was given (survives restarts)
    bypass,     \* history: grants that went past slot i since it was ready
    tried       \* history: circuits that failed since the last success, up to 2

store == <<ips, unique>>
work  == <<phase, cur, verdict, lost>>
past  == <<granted, bypass, tried>>
vars  == <<store, slot, reserved, next, count, ep, work, client, lease, past>>

----------------------------------------------------------------------------
(* Types                                                                   *)

EndpointType == [id : Slots, ip : IPs \union {None}, cancelled : BOOLEAN,
                 done : BOOLEAN, lastErr : Clients \union {None}, active : Nat]

SlotType == [state : {"Starting", "Checking", "Ready", "Busy", "Rotating"},
             ep : Endpoints \union {None}, fails : 0 .. MaxFailures]

TypeOK ==
    /\ StoreTypeOK
    /\ unique \in BOOLEAN
    /\ slot \in [Slots -> SlotType]
    /\ reserved \in [IPs -> Endpoints \union {None}]
    /\ next \in Slots
    /\ count \in [requests : Nat, completed : Nat, failed : Nat, rejected : Nat]
    /\ ep \in [Endpoints -> EndpointType]
    /\ phase \in [Slots -> {"rest", "check", "serve", "judge", "drain", "withdraw"}]
    /\ cur \in [Slots -> Endpoints \union {None}]
    /\ verdict \in [Slots -> {"none", "rotate", "rebuild"}]
    /\ lost \in [Slots -> BOOLEAN]
    /\ client \in [Clients -> {"new", "scan", "parked", "woken", "final",
                               "rejecting", "leased", "closing", "gone"}]
    /\ lease \in [Clients -> Endpoints \union {None}]
    /\ granted \in [Clients -> IPs \union {None}]
    /\ bypass \in [Slots -> Nat]
    /\ tried \in [Slots -> 0 .. 2]

(* An endpoint nobody refers to: the zero value, free to be allocated.     *)
Blank == [id |-> 0, ip |-> None, cancelled |-> FALSE, done |-> FALSE,
          lastErr |-> None, active |-> 0]

Held(e) == \/ \E i \in Slots : cur[i] = e \/ slot[i].ep = e
           \/ \E a \in IPs : reserved[a] = e
           \/ \E c \in Clients : lease[c] = e

(* The garbage collector: an endpoint that lost its last reference.        *)
Collect(new) == ep' = [e \in Endpoints |-> IF Held(e)' THEN new[e] ELSE Blank]

----------------------------------------------------------------------------
(* NewPool: the memory of a process that has just started.                 *)

FreshSlot  == [i \in Slots |-> [state |-> "Starting", ep |-> None, fails |-> 0]]
FreshCount == [requests |-> 0, completed |-> 0, failed |-> 0, rejected |-> 0]
NoEndpoint(S) == [x \in S |-> None]
Zero == [i \in Slots |-> 0]

NewPool ==
    /\ slot = FreshSlot
    /\ reserved = NoEndpoint(IPs)
    /\ next = 0
    /\ count = FreshCount
    /\ ep = [e \in Endpoints |-> Blank]
    /\ phase = [i \in Slots |-> "rest"]
    /\ cur = NoEndpoint(Slots)
    /\ verdict = [i \in Slots |-> "none"]
    /\ lost = [i \in Slots |-> FALSE]
    /\ lease = NoEndpoint(Clients)
    /\ bypass = Zero
    /\ tried = Zero

Init == /\ StoreInit
        /\ unique \in Modes
        /\ NewPool
        /\ client = [c \in Clients |-> "new"]
        /\ granted = [c \in Clients |-> None]

----------------------------------------------------------------------------
(* The worker of instance i: one round of cycle / cycleReuse               *)

(* superviseTor enters a cycle, which builds a circuit and its endpoint.   *)
(* Without a control connection it gets no circuit.                        *)
StartCycle(i) ==
    /\ phase[i] = "rest"
    /\ ~ lost[i]
    /\ \E e \in Endpoints :
         /\ ~ Held(e)
         /\ cur' = [cur EXCEPT ![i] = e]
         /\ ep' = [ep EXCEPT ![e] = [Blank EXCEPT !.id = i]]
    /\ slot' = [slot EXCEPT ![i].state = "Checking"]
    /\ phase' = [phase EXCEPT ![i] = "check"]
    /\ UNCHANGED <<store, reserved, next, count, verdict, lost, client, lease, past>>

(* The cycle returns before anything was published.                        *)
LeaveUnpublished(i) ==
    /\ phase[i] = "check"
    /\ phase' = [phase EXCEPT ![i] = "rest"]
    /\ cur' = [cur EXCEPT ![i] = None]
    /\ UNCHANGED <<unique, slot, reserved, next, count, verdict, lost, client, lease, past>>
    /\ Collect(ep)

(* No circuit, no token, no dialer, or the IP check failed.                *)
CheckFails(i) == LeaveUnpublished(i) /\ UNCHANGED ips

(* publish, when the IP check answered a.  The three guards of the code:   *)
(* the history, the reservations and the endpoint's own context.           *)
BadMayPublish(i, a) == (unique => Unused(a)) /\ ~ ep[cur[i]].cancelled

MayPublish(i, a) == /\ unique => Unused(a) /\ reserved[a] = None
                    /\ ~ ep[cur[i]].cancelled

(* broadcastLocked: whoever waits on the old channel is woken.             *)
BadBroadcast == UNCHANGED client

Broadcast == client' = [c \in Clients |-> IF client[c] = "parked" THEN "woken" ELSE client[c]]

PublishReady(i, a) ==
    /\ phase[i] = "check"
    /\ MayPublish(i, a)
    /\ Observe(a)
    /\ slot' = [slot EXCEPT ![i].state = "Ready", ![i].ep = cur[i]]
    /\ reserved' = IF unique THEN [reserved EXCEPT ![a] = cur[i]] ELSE reserved
    /\ ep' = [ep EXCEPT ![cur[i]].ip = a]
    /\ phase' = [phase EXCEPT ![i] = "serve"]
    /\ bypass' = [bypass EXCEPT ![i] = 0]
    /\ Broadcast
    /\ UNCHANGED <<unique, next, count, cur, verdict, lost, lease, granted, tried>>

PublishRefused(i, a) == LeaveUnpublished(i) /\ ~ MayPublish(i, a) /\ Observe(a)

PublishFails(i, a) == LeaveUnpublished(i) /\ ObserveFails(a)

(* torSession.events ends the endpoint's context under the worker: Tor     *)
(* reports the circuit CLOSED or FAILED, or the connection to Tor is gone. *)
CircuitLost(i) ==
    /\ cur[i] # None
    /\ ~ ep[cur[i]].cancelled
    /\ ep' = [ep EXCEPT ![cur[i]].cancelled = TRUE]
    /\ UNCHANGED <<store, slot, reserved, next, count, work, client, lease, past>>

(* The control connection goes, in a cycle or between two.  That cancels   *)
(* only the endpoint events knows of at that moment, if any, and later     *)
(* than the worker may see it.                                             *)
ControlLost(i) ==
    /\ ~ lost[i]
    /\ lost' = [lost EXCEPT ![i] = TRUE]
    /\ UNCHANGED <<store, slot, reserved, next, count, ep, phase, cur, verdict, client, lease, past>>

(* The worker has restarted Tor (module Worker) and is connected again.    *)
NewSession(i) ==
    /\ phase[i] = "rest"
    /\ lost[i]
    /\ lost' = [lost EXCEPT ![i] = FALSE]
    /\ UNCHANGED <<store, slot, reserved, next, count, ep, phase, cur, verdict, client, lease, past>>

Advance(i, from, to) ==
    /\ phase[i] = from
    /\ phase' = [phase EXCEPT ![i] = to]
    /\ UNCHANGED <<store, slot, reserved, next, count, ep, cur, verdict, lost, client, lease, past>>

(* The select of the serving worker.  Of the branches that are ready, any  *)
(* is taken.                                                               *)
Cut(i) == ep[cur[i]].cancelled \/ lost[i]

DoneSeen(i)    == Advance(i, "serve", "judge") /\ ep[cur[i]].done
Interrupted(i) == Advance(i, "serve", "withdraw") /\ Cut(i)

(* lastErr and consecutiveFailures decide between a rotation and           *)
(* errServeFailures.  Reuse mode drains in either case.                    *)
Condemned(i) == ep[cur[i]].lastErr # None /\ slot[i].fails >= MaxFailures

Judge(i) ==
    /\ phase[i] = "judge"
    /\ verdict' = [verdict EXCEPT ![i] = IF Condemned(i) THEN "rebuild" ELSE "rotate"]
    /\ phase' = [phase EXCEPT ![i] = IF unique THEN "withdraw" ELSE "drain"]
    /\ UNCHANGED <<store, slot, reserved, next, count, ep, cur, lost, client, lease, past>>

(* drainReuse polls the number of outstanding leases; it gives up when the *)
(* circuit or the control connection is gone.                              *)
BadDrainOver(i) == ep[cur[i]].active <= 1 \/ Cut(i)

DrainOver(i) == ep[cur[i]].active = 0 \/ Cut(i)

Drained(i) == Advance(i, "drain", "withdraw") /\ DrainOver(i)

(* withdraw clears the slot if it still holds the endpoint ...             *)
Unpublish(i) ==
    slot' = IF slot[i].ep = cur[i]
            THEN [slot EXCEPT ![i].ep = None, ![i].state = "Rotating"]
            ELSE slot

(* ... with its reservation, and the cycle returns.                        *)
Withdraw(i) ==
    LET e == cur[i] IN
    /\ phase[i] = "withdraw"
    /\ reserved' = [a \in IPs |-> IF a = ep[e].ip /\ reserved[a] = e THEN None ELSE reserved[a]]
    /\ Unpublish(i)
    /\ phase' = [phase EXCEPT ![i] = "rest"]
    /\ cur' = [cur EXCEPT ![i] = None]
    /\ verdict' = [verdict EXCEPT ![i] = "none"]
    /\ UNCHANGED <<store, next, count, lost, client, lease, past>>
    /\ Collect([ep EXCEPT ![e].cancelled = TRUE])

WorkerStep(i) ==
    \/ NewSession(i) \/ StartCycle(i) \/ CheckFails(i)
    \/ \E a \in IPs : PublishReady(i, a) \/ PublishRefused(i, a) \/ PublishFails(i, a)
    \/ DoneSeen(i) \/ Interrupted(i) \/ Judge(i) \/ Drained(i) \/ Withdraw(i)

----------------------------------------------------------------------------
(* Acquire                                                                 *)

CallAcquire(c) ==
    /\ client[c] = "new"
    /\ client' = [client EXCEPT ![c] = "scan"]
    /\ UNCHANGED <<store, slot, reserved, next, count, ep, work, lease, past>>

(* acquireLocked goes round the slots from next.                           *)
SlotAt(k) == (next + k) % N

Eligible(i) == /\ slot[i].state = "Ready"
               /\ slot[i].ep # None
               /\ ~ ep[slot[i].ep].cancelled

AddressOf(i) == ep[slot[i].ep].ip

(* The endpoints it passed on its way to offset k: their address could not *)
(* be consumed, which can only be what a failed Consume left behind.       *)
Passed(k) == {slot[SlotAt(j)].ep : j \in {j \in 0 .. k-1 : Eligible(SlotAt(j))}}

Reaches(k) == \A j \in 0 .. k-1 :
                  Eligible(SlotAt(j)) => ~ Consumable(AddressOf(SlotAt(j)), unique)

(* acquireLocked leaves reuse mode to acquireReuseLocked, whose Consume is  *)
(* the unguarded one.                                                      *)
BadReuseMode == TRUE

ReuseMode == ~ unique

Cancel(E) == [e \in Endpoints |-> [ep[e] EXCEPT !.cancelled = IF e \in E THEN TRUE ELSE @]]

Scanning(c) == client[c] \in {"scan", "final"}

(* The round-robin pointer after a grant at slot i.                        *)
BadAfter(i) == next

After(i) == (i + 1) % N

(* History: every other slot that is still eligible was passed over.       *)
PassedOver(i, k) == [j \in Slots |->
    IF j # i /\ Eligible(j) /\ slot[j].ep \notin Passed(k) THEN bypass[j] + 1 ELSE 0]

Assign(c, k, guarded) ==
    LET i == SlotAt(k) IN
    /\ Scanning(c)
    /\ Reaches(k)
    /\ Eligible(i)
    /\ Consume(AddressOf(i), guarded)
    /\ count' = [count EXCEPT !.requests = @ + 1]
    /\ next' = After(i)
    /\ client' = [client EXCEPT ![c] = "leased"]
    /\ lease' = [lease EXCEPT ![c] = slot[i].ep]
    /\ granted' = [granted EXCEPT ![c] = AddressOf(i)]
    /\ bypass' = PassedOver(i, k)
    /\ UNCHANGED <<unique, reserved, work, tried>>

(* Unique mode: the slot is Busy until its lease is finished.              *)
GrantUnique(c, k) ==
    /\ unique
    /\ Assign(c, k, TRUE)
    /\ slot' = [slot EXCEPT ![SlotAt(k)].state = "Busy"]
    /\ ep' = Cancel(Passed(k))

(* Reuse mode: the slot stays Ready and counts its leases.                 *)
GrantReuse(c, k) ==
    /\ ReuseMode
    /\ Assign(c, k, FALSE)
    /\ ep' = [Cancel(Passed(k)) EXCEPT ![slot[SlotAt(k)].ep].active = @ + 1]
    /\ UNCHANGED slot

(* Consume failed at offset k: the call returns the error.                 *)
ScanFails(c, k) ==
    /\ Scanning(c)
    /\ Reaches(k)
    /\ Eligible(SlotAt(k))
    /\ ConsumeFails(AddressOf(SlotAt(k)), unique)
    /\ ep' = Cancel(Passed(k))
    /\ client' = [client EXCEPT ![c] = "gone"]
    /\ UNCHANGED <<unique, slot, reserved, next, count, work, lease, past>>

(* Nothing was left: the first time the call waits, after its final scan   *)
(* it gives up.                                                            *)
BadAfterEmptyScan(c) == "parked"

AfterEmptyScan(c) == IF client[c] = "scan" THEN "parked" ELSE "rejecting"

(* ErrNoReady.  A call that waits does so on the channel it read in the    *)
(* same critical section.                                                  *)
ScanFindsNone(c) ==
    /\ Scanning(c)
    /\ Reaches(N)
    /\ ep' = Cancel(Passed(N))
    /\ client' = [client EXCEPT ![c] = AfterEmptyScan(c)]
    /\ UNCHANGED <<store, slot, reserved, next, count, work, lease, past>>

Move(c, from, to) ==
    /\ client[c] \in from
    /\ client' = [client EXCEPT ![c] = to]
    /\ UNCHANGED <<store, slot, reserved, next, count, ep, work, lease, past>>

(* The select of a waiting call: a closed channel, the timer, its context. *)
Waiting == {"parked", "woken"}

Rescan(c)         == Move(c, {"woken"}, "scan")
TimerFires(c)     == Move(c, Waiting, "final")
DeadlinePassed(c) == Move(c, Waiting, "rejecting")     \* remaining <= 0
ContextEnds(c)    == Move(c, Waiting, "gone")

CountRejected(c) ==
    /\ client[c] = "rejecting"
    /\ client' = [client EXCEPT ![c] = "gone"]
    /\ count' = [count EXCEPT !.rejected = @ + 1]
    /\ UNCHANGED <<store, slot, reserved, next, ep, work, lease, past>>

----------------------------------------------------------------------------
(* Lease.Finish                                                            *)

(* fails is only compared with MaxFailures, so it saturates there.         *)
AfterFailure(n) == IF n < MaxFailures THEN n + 1 ELSE n

Leased(c) == client[c] = "leased"

(* History: a circuit counts once, however many of its leases failed.      *)
CountCircuit(i, e, ok) ==
    tried' = [tried EXCEPT ![i] =
        IF ok THEN 0 ELSE IF ep[e].lastErr = None /\ @ < 2 THEN @ + 1 ELSE @]

CountResult(ok) ==
    count' = IF ok THEN [count EXCEPT !.completed = @ + 1]
                   ELSE [count EXCEPT !.failed = @ + 1]

(* Unique mode (the closure of acquireLocked): the slot is withdrawn from  *)
(* scans whatever the result, unless the worker has already moved on; done *)
(* is closed after the lock is released (CloseDone).                       *)
BadRetire(i, e, ok) ==
    slot' = [slot EXCEPT ![i] = [state |-> "Rotating", ep |-> @.ep,
                                 fails |-> IF ok THEN 0 ELSE AfterFailure(@.fails)]]

Retire(i, e, ok) ==
    slot' = [slot EXCEPT ![i] = [state |-> IF @.ep = e THEN "Rotating" ELSE @.state,
                                 ep    |-> @.ep,
                                 fails |-> IF ok THEN 0 ELSE AfterFailure(@.fails)]]

FinishUnique(c, ok) ==
    LET e == lease[c]
        i == ep[e].id
    IN  /\ unique
        /\ Leased(c)
        /\ ep' = [ep EXCEPT ![e].lastErr = IF ok THEN None ELSE c]
        /\ CountResult(ok)
        /\ CountCircuit(i, e, ok)
        /\ Retire(i, e, ok)
        /\ client' = [client EXCEPT ![c] = "closing"]
        /\ UNCHANGED <<store, reserved, next, work, lease, granted, bypass>>

(* finishReuse, success: the endpoint stays in service.                    *)
BadRelease(n) == n

Release(n) == IF n > 0 THEN n - 1 ELSE n

FinishReuse(c) ==
    LET e == lease[c]
        i == ep[e].id
    IN  /\ ~ unique
        /\ Leased(c)
        /\ CountResult(TRUE)
        /\ CountCircuit(i, e, TRUE)
        /\ slot' = [slot EXCEPT ![i].fails = 0]
        /\ client' = [client EXCEPT ![c] = "gone"]
        /\ lease' = [lease EXCEPT ![c] = None]
        /\ UNCHANGED <<store, reserved, next, work, granted, bypass>>
        /\ Collect([ep EXCEPT ![e].active = Release(@)])

(* finishReuse, failure: the endpoint leaves the slot at once, so that no  *)
(* new lease joins it while the worker drains the others.                  *)
Detach(i, e) ==
    slot' = [slot EXCEPT ![i] = [state |-> IF @.ep = e THEN "Rotating" ELSE @.state,
                                 ep    |-> IF @.ep = e THEN None ELSE @.ep,
                                 fails |-> AfterFailure(@.fails)]]

FailReuse(c) ==
    LET e == lease[c]
        i == ep[e].id
    IN  /\ ~ unique
        /\ Leased(c)
        /\ ep' = [ep EXCEPT ![e].active = Release(@), ![e].lastErr = c]
        /\ CountResult(FALSE)
        /\ CountCircuit(i, e, FALSE)
        /\ Detach(i, e)
        /\ client' = [client EXCEPT ![c] = "closing"]
        /\ UNCHANGED <<store, reserved, next, work, lease, granted, bypass>>

(* close(ep.done), outside the lock; once.Do makes later calls no-ops.     *)
CloseDone(c) ==
    /\ client[c] = "closing"
    /\ client' = [client EXCEPT ![c] = "gone"]
    /\ lease' = [lease EXCEPT ![c] = None]
    /\ UNCHANGED <<store, slot, reserved, next, count, work, past>>
    /\ Collect([ep EXCEPT ![lease[c]].done = TRUE])

----------------------------------------------------------------------------
(* The process dies and the next one starts on the history it left, perhaps *)
(* in the other mode.  Calls in flight die with it; history variables and   *)
(* the table remain.                                                        *)
Crash ==
    /\ unique' \in Modes
    /\ client' = [c \in Clients |-> IF client[c] = "new" THEN "new" ELSE "gone"]
    /\ slot' = FreshSlot
    /\ reserved' = NoEndpoint(IPs)
    /\ next' = 0
    /\ count' = FreshCount
    /\ ep' = [e \in Endpoints |-> Blank]
    /\ phase' = [i \in Slots |-> "rest"]
    /\ cur' = NoEndpoint(Slots)
    /\ verdict' = [i \in Slots |-> "none"]
    /\ lost' = [i \in Slots |-> FALSE]
    /\ lease' = NoEndpoint(Clients)
    /\ bypass' = Zero
    /\ tried' = Zero
    /\ UNCHANGED <<ips, granted>>

AcquireStep(c) ==
    \/ \E k \in Slots : GrantUnique(c, k) \/ GrantReuse(c, k) \/ ScanFails(c, k)
    \/ ScanFindsNone(c) \/ Rescan(c) \/ CountRejected(c)

GiveUp(c) == TimerFires(c) \/ DeadlinePassed(c)

FinishStep(c) ==
    \/ \E ok \in BOOLEAN : FinishUnique(c, ok)
    \/ FinishReuse(c) \/ FailReuse(c) \/ CloseDone(c)

Next ==
    \/ \E i \in Slots : WorkerStep(i) \/ CircuitLost(i) \/ ControlLost(i)
    \/ \E c \in Clients : \/ CallAcquire(c) \/ AcquireStep(c) \/ GiveUp(c)
                          \/ ContextEnds(c) \/ FinishStep(c)
    \/ Crash

Spec == Init /\ [][Next]_vars

(* Workers and calls are goroutines that never block for ever on the lock. *)
(* The deadline of Acquire is absolute, so a call that comes back to its   *)
(* select again and again finds it passed.  A lease is finished because    *)
(* its connection is bounded by IDLE_TIMEOUT and its circuit: an           *)
(* assumption about the proxy and its peers.                               *)
FairSpec ==
    /\ Spec
    /\ \A i \in Slots : WF_vars(WorkerStep(i))
    /\ \A c \in Clients : /\ WF_vars(AcquireStep(c))
                          /\ SF_vars(GiveUp(c))
                          /\ WF_vars(FinishStep(c))

----------------------------------------------------------------------------
(* Properties                                                              *)

Serving(i) == phase[i] \in {"serve", "judge", "drain", "withdraw"}

(* The pool hands out addresses as module Assignment promises: in unique   *)
(* mode never one that was ever handed out before, by this process or an   *)
(* earlier one in either mode, and never before it is on record as used.   *)
Promise == INSTANCE Assignment WITH used <- Used
PromiseSpec == Promise!ASpec

(* What the pool sees of each instance is what its worker (module Worker)  *)
(* does with it: both implement TorInstance.                               *)
Tor(i) ==
    INSTANCE TorInstance WITH
        stage <- IF phase[i] = "rest" THEN "rest" ELSE "cycle",
        lost <- lost[i], fails <- slot[i].fails, verdict <- verdict[i]

TorSpec == \A i \in Slots : Tor(i)!ISpec

(* In unique mode one circuit carries at most one user: two calls never    *)
(* hold the same endpoint.                                                 *)
LeaseExclusive ==
    unique => \A c, d \in Clients : lease[c] = lease[d] /\ lease[c] # None => c = d

(* Reservations are exact: an address is reserved by an endpoint if and    *)
(* only if a worker is serving that address with it.  So no address stays  *)
(* blocked by a dead circuit and no two instances serve the same one.      *)
ReservationsExact ==
    \A a \in IPs, e \in Endpoints :
        reserved[a] = e <=> unique /\ \E i \in Slots : Serving(i) /\ cur[i] = e /\ ep[e].ip = a

(* What a slot publishes is what its worker serves: a scan never meets the *)
(* endpoint of a cycle that is over.                                       *)
PublishedIsServed ==
    \A i \in Slots : slot[i].ep # None => Serving(i) /\ slot[i].ep = cur[i]

(* No instance is lost: a worker that waits on a healthy circuit nobody    *)
(* has finished with has it on offer, or Busy with the call that will free *)
(* it, whatever late Finish calls of earlier circuits did to the slot.     *)
NoInstanceLost ==
    \A i \in Slots :
        /\ phase[i] = "serve"
        /\ ~ ep[cur[i]].done
        /\ ~ \E c \in Clients : client[c] = "closing" /\ lease[c] = cur[i]
        => /\ slot[i].ep = cur[i]
           /\ \/ slot[i].state = "Ready"
              \/ slot[i].state = "Busy" /\ \E c \in Clients : Leased(c) /\ lease[c] = cur[i]

(* A call asleep on the current channel is right to sleep: no wake-up is   *)
(* lost between its scan and its wait.                                     *)
NoLostWakeup ==
    \A c \in Clients : client[c] = "parked" => \A i \in Slots : ~ Eligible(i)

(* The books balance over lost circuits, late results and rotations: every *)
(* assignment is completed, failed or still out, and active is what        *)
(* drainReuse believes it is.                                              *)
LeasesCounted ==
    /\ count.requests = count.completed + count.failed + Cardinality({c \in Clients : Leased(c)})
    /\ ~ unique => \A i \in Slots : cur[i] # None =>
          ep[cur[i]].active = Cardinality({c \in Clients : Leased(c) /\ lease[c] = cur[i]})

(* The worker closes a healthy circuit only when no call is using it.      *)
NoCloseUnderLease ==
    \A i \in Slots : phase[i] = "withdraw" /\ ~ Cut(i) =>
        \A c \in Clients : Leased(c) => lease[c] # cur[i]

(* Round robin: a ready instance is passed over by at most N - 1 grants.   *)
BoundedBypass == \A i \in Slots : Eligible(i) => bypass[i] < N

(* errServeFailures is raised when "rotation did not help" (tor.go:44): at *)
(* least two circuits of the instance have failed since the last success.  *)
RotationTried ==
    [][\A i \in Slots : verdict'[i] = "rebuild" /\ verdict[i] # "rebuild" => tried[i] >= 2]_vars

(* lastErr is settled before done is closed (pool.go:61).                  *)
LastErrSettled ==
    [][\A e \in Endpoints : ep[e].done /\ ep'[e].done => ep'[e].lastErr = ep[e].lastErr]_vars

(* A circuit whose serving ended is given up and replaced: the worker gets *)
(* round to the next check or, when the control connection goes first, out *)
(* of the cycle at least.                                                  *)
RotationCompletes ==
    \A i \in Slots : phase[i] = "judge" ~> phase[i] = "check" \/ (phase[i] = "rest" /\ lost[i])

(* Acquire returns: a lease, an error or a rejection.                      *)
AcquireReturns == \A c \in Clients : client[c] = "scan" ~> client[c] \in {"leased", "gone"}
=============================================================================
