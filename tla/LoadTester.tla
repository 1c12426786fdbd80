----------------------------- MODULE LoadTester -----------------------------
(***************************************************************************)
(* The built-in test runner (loadtest.go): Start and Stop as the dashboard *)
(* calls them, the goroutine run with the requests it sends, record, and   *)
(* Wait as Run calls it at shutdown.  A critical section of LoadTester.mu  *)
(* is one step.  Options, latencies, status codes and the rate of the last *)
(* second are left out; a tick of the rate may come at any moment.         *)
(* Operators named Bad... are plausible mistakes that nothing uses         *)
(* (README, "Mutants").                                                    *)
(***************************************************************************)
EXTENDS Naturals, FiniteSets

CONSTANTS
    Goroutines,     \* identities of the request goroutines of a run
    MaxSlots,       \* capacity of slots: 128
    MaxTicks,       \* bound: ticks of one run
    None

Runs == {1, 2}                          \* identities of runs, used in turn

ASSUME SlotAssumption == MaxSlots \in Nat \ {0} /\ MaxSlots < Cardinality(Goroutines)
ASSUME TickAssumption == MaxTicks \in Nat /\ None \notin Runs

VARIABLES
    state,      \* stats.State
    stats,      \* the counters of stats
    cur,        \* the run whose cancel and done the tester holds
    run,        \* run[k]: where the goroutine of run k is
    cancelled,  \* cancelled[k]: its context
    done,       \* done[k]: its channel is closed
    req,        \* req[k][g]: where its request goroutine g is
    parent,     \* the application's context is cancelled
    waiter      \* the call of Wait: not made, what it waits for, returned

vars == <<state, stats, cur, run, cancelled, done, req, parent, waiter>>

Counters == {"sent", "success", "failed", "unavailable", "canceled", "skipped", "inflight"}
Results == {"success", "failed", "unavailable", "canceled"}

TypeOK ==
    /\ state \in {"idle", "running", "stopping", "stopped"}
    /\ stats \in [Counters -> 0 .. MaxTicks]
    /\ cur \in Runs \union {None}
    /\ run \in [Runs -> {"none", "select", "tick", "drain"}]
    /\ cancelled \in [Runs -> BOOLEAN]
    /\ done \in [Runs -> BOOLEAN]
    /\ req \in [Runs -> [Goroutines -> {"free", "do", "release"} \union Results]]
    /\ parent \in BOOLEAN
    /\ waiter \in {"no", "waiting", "returned"}

Zero == [x \in Counters |-> 0]

Init ==
    /\ state = "idle" /\ stats = Zero /\ cur = None
    /\ run = [k \in Runs |-> "none"]
    /\ cancelled = [k \in Runs |-> FALSE]
    /\ done = [k \in Runs |-> FALSE]
    /\ req = [k \in Runs |-> [g \in Goroutines |-> "free"]]
    /\ parent = FALSE /\ waiter = "no"

----------------------------------------------------------------------------
(* Start: refused during shutdown and while a test is active.              *)
BadActive == state = "running"

Active == state \in {"running", "stopping"}

MayStart == ~ parent /\ ~ Active

Start(k) ==
    /\ MayStart
    /\ run[k] = "none" /\ k # cur
    /\ state' = "running"
    /\ stats' = Zero
    /\ cur' = k
    /\ run' = [run EXCEPT ![k] = "select"]
    /\ cancelled' = [cancelled EXCEPT ![k] = parent]
    /\ done' = [done EXCEPT ![k] = FALSE]
    /\ UNCHANGED <<req, parent, waiter>>

BadCancel == UNCHANGED cancelled

Cancel == cancelled' = [cancelled EXCEPT ![cur] = TRUE]     \* t.cancel()

Stop ==
    /\ state = "running"
    /\ state' = "stopping"
    /\ Cancel
    /\ UNCHANGED <<stats, cur, run, done, req, parent, waiter>>

----------------------------------------------------------------------------
(* run                                                                     *)

Goto(k, pc) == run' = [run EXCEPT ![k] = pc]

(* The outer select: the context, or a tick that finds it alive.           *)
Leave(k) ==
    /\ run[k] = "select" /\ cancelled[k]
    /\ Goto(k, "drain")
    /\ UNCHANGED <<state, stats, cur, cancelled, done, req, parent, waiter>>

Tick(k) ==
    /\ run[k] = "select" /\ ~ cancelled[k]
    /\ stats.sent + stats.skipped < MaxTicks
    /\ Goto(k, "tick")
    /\ UNCHANGED <<state, stats, cur, cancelled, done, req, parent, waiter>>

(* A goroutine keeps its slot until its result is recorded.                *)
Holding(k) == {g \in Goroutines : req[k][g] # "free"}

Full(k) == Cardinality(Holding(k)) >= MaxSlots

Send(k, g) ==
    /\ run[k] = "tick" /\ ~ Full(k)
    /\ req[k][g] = "free"
    /\ stats' = [stats EXCEPT !.sent = @ + 1, !.inflight = @ + 1]
    /\ req' = [req EXCEPT ![k][g] = "do"]
    /\ Goto(k, "select")
    /\ UNCHANGED <<state, cur, cancelled, done, parent, waiter>>

Skip(k) ==
    /\ run[k] = "tick" /\ Full(k)
    /\ stats' = [stats EXCEPT !.skipped = @ + 1]
    /\ Goto(k, "select")
    /\ UNCHANGED <<state, cur, cancelled, done, req, parent, waiter>>

(* The deferred end: wait for the requests, then in one critical section   *)
(* the state, the cancellation of the present run, and done.               *)
BadQuiet(k) == TRUE

Quiet(k) == \A g \in Goroutines : req[k][g] = "free"

CloseDone(k) == done' = [done EXCEPT ![k] = TRUE]

RunEnds(k) ==
    /\ run[k] = "drain" /\ Quiet(k)
    /\ state' = "stopped"
    /\ Cancel
    /\ CloseDone(k)
    /\ Goto(k, "none")
    /\ UNCHANGED <<stats, cur, req, parent, waiter>>

----------------------------------------------------------------------------
(* A request.  Whether it counts as cancelled is read off the context when *)
(* it is over, before record takes the lock.                               *)
Finished(k, g, result) ==
    /\ req[k][g] = "do"
    /\ result = "canceled" <=> cancelled[k]
    /\ req' = [req EXCEPT ![k][g] = result]
    /\ UNCHANGED <<state, stats, cur, run, cancelled, done, parent, waiter>>

(* record: a 503 is a failure and is counted as unavailable besides.       *)
Counted(result) ==
    IF result = "unavailable" THEN {"unavailable", "failed"} ELSE {result}

BadRecorded(result) ==
    [x \in Counters |-> IF x \in Counted(result) THEN stats[x] + 1
                        ELSE IF x = "inflight" /\ result # "canceled" THEN stats[x] - 1
                        ELSE stats[x]]

Recorded(result) ==
    [x \in Counters |-> IF x \in Counted(result) THEN stats[x] + 1
                        ELSE IF x = "inflight" THEN stats[x] - 1 ELSE stats[x]]

Record(k, g) ==
    /\ req[k][g] \in Results
    /\ stats' = Recorded(req[k][g])
    /\ req' = [req EXCEPT ![k][g] = "release"]
    /\ UNCHANGED <<state, cur, run, cancelled, done, parent, waiter>>

(* <-slots and requests.Done()                                             *)
Release(k, g) ==
    /\ req[k][g] = "release"
    /\ req' = [req EXCEPT ![k][g] = "free"]
    /\ UNCHANGED <<state, stats, cur, run, cancelled, done, parent, waiter>>

----------------------------------------------------------------------------
(* Run cancels the application's context, and with it that of every run,   *)
(* before it calls Wait.                                                   *)
Shutdown ==
    /\ ~ parent
    /\ parent' = TRUE
    /\ cancelled' = [k \in Runs |-> TRUE]
    /\ UNCHANGED <<state, stats, cur, run, done, req, waiter>>

Wait ==
    /\ parent /\ waiter = "no"
    /\ waiter' = IF cur = None THEN "returned" ELSE "waiting"
    /\ UNCHANGED <<state, stats, cur, run, cancelled, done, req, parent>>

WaitReturns ==
    /\ waiter = "waiting" /\ done[cur]
    /\ waiter' = "returned"
    /\ UNCHANGED <<state, stats, cur, run, cancelled, done, req, parent>>

RunStep(k) == \/ Leave(k) \/ Tick(k) \/ Skip(k) \/ RunEnds(k)
              \/ \E g \in Goroutines : Send(k, g)

RequestStep(k, g) == \/ \E x \in Results : Finished(k, g, x)
                     \/ Record(k, g) \/ Release(k, g)

Next ==
    \/ \E k \in Runs : \/ Start(k) \/ RunStep(k)
                       \/ \E g \in Goroutines : RequestStep(k, g)
    \/ Stop \/ Shutdown \/ Wait \/ WaitReturns

(* Goroutines are scheduled; a request ends because client.Timeout and its *)
(* context bound it; Run goes on to Wait.                                  *)
Spec ==
    /\ Init /\ [][Next]_vars
    /\ \A k \in Runs : WF_vars(RunStep(k))
    /\ \A k \in Runs, g \in Goroutines : WF_vars(RequestStep(k, g))
    /\ WF_vars(Wait) /\ WF_vars(WaitReturns)

----------------------------------------------------------------------------
(* Properties                                                              *)

(* The counters the dashboard shows are of one run and balance at every    *)
(* moment: what was sent is answered, cancelled or in flight, and never    *)
(* more is in flight than there are slots.                                 *)
Balance ==
    /\ stats.sent = stats.success + stats.failed + stats.canceled + stats.inflight
    /\ stats.inflight <= MaxSlots

(* "stopped" is final, and so is the return of Wait: no request is left to *)
(* change the counters of this run or of the next, or to use the proxy.    *)
StoppedIsFinal ==
    state = "stopped" \/ waiter = "returned" =>
        stats.inflight = 0 /\ \A k \in Runs : run[k] = "none" /\ Quiet(k)

(* A run is cancelled by a Stop meant for it, by shutdown, or at its own   *)
(* end; never by the end of the run before it.                             *)
CancelsOwn ==
    [][\A k \in Runs : ~ cancelled[k] /\ cancelled'[k]
           => (state' = "stopping" /\ cur = k) \/ parent' \/ run'[k] = "none"]_vars

(* A test that was stopped ends, and shutdown gets past Wait.              *)
RunsEnd ==
    /\ state = "stopping" ~> state = "stopped"
    /\ parent ~> waiter = "returned"
=============================================================================
