------------------------------- MODULE Worker -------------------------------
(***************************************************************************)
(* The goroutine that keeps one Tor instance alive: the loop of RunWorkers *)
(* around runTor (start and reap the child process), superviseTor (connect,*)
(* bootstrap, run cycles) and resetInstanceData.  Of a cycle only what it  *)
(* returns is modelled, and the moment a result of serving is read off     *)
(* slot.fails; module Pool opens it, TorInstance is what the two agree on. *)
(*                                                                         *)
(* Around it: the application shuts down, Tor dies, the control connection *)
(* is lost, each at any moment.  Instances share no state but the pool, so *)
(* one is enough.  Operators named Bad... are plausible mistakes that      *)
(* nothing uses (README, "Mutants").                                       *)
(***************************************************************************)
EXTENDS Naturals

CONSTANTS UniqueIP,         \* UNIQUE_IP
          MaxUsedIPRetries, \* MAX_USED_IP_RETRIES
          MaxFailures       \* maxConsecutiveServeFailures

ASSUME WorkerAssumption == /\ UniqueIP \in BOOLEAN
                           /\ MaxUsedIPRetries \in Nat \ {0}
                           /\ MaxFailures \in Nat \ {0}

VARIABLES
    ctx,        \* the application's context
    pc,         \* where the goroutine is
    child,      \* the Tor process; "none" also once cmd.Wait has returned
    ctrl,       \* the control connection
    data,       \* the instance's Tor data directory
    err,        \* what runTor is returning, or returned last
    result,     \* what the last cycle returned
    streak,     \* usedStreak
    fails,      \* slot.fails, saturating at MaxFailures
    backoff,    \* backoff of RunWorkers, in seconds
    retry,      \* backoff of superviseTor
    delay,      \* the pause in progress, without its jitter
    label,      \* the state the dashboard shows
    bootEnd,    \* history: how the bootstrap failed, by itself or by a shutdown
    rebuild,    \* history: a start from scratch was asked for, and there was none since
    usedRun     \* history: used-IP results since the last other result, in this process

vars == <<ctx, pc, child, ctrl, data, err, result, streak, fails, backoff, retry,
          delay, label, bootEnd, rebuild, usedRun>>
session == <<result, streak, fails, retry, usedRun>>    \* what cycles change
outer   == <<data, backoff, bootEnd, rebuild>>

Fresh == {"fresh", "stuck", "serve"}
Errors == {"nil", "other", "control", "used"} \union Fresh
InCycle == {"cycle", "drain"}
InSession == InCycle \union {"after", "retrying", "newnym"}

TypeOK ==
    /\ ctx \in {"live", "done"}
    /\ pc \in {"spread", "loop", "prepare", "dial", "subscribe", "boot", "reap",
               "returned", "wipe", "backoff", "end"} \union InSession
    /\ child \in {"none", "running"}
    /\ ctrl \in {"none", "open", "lost"}
    /\ data \in {"clean", "dirty"}
    /\ err \in Errors
    /\ result \in Errors
    /\ streak \in 0 .. MaxUsedIPRetries
    /\ fails \in 0 .. MaxFailures
    /\ backoff \in 10 .. 60
    /\ retry \in 10 .. 60
    /\ delay \in 0 .. 60
    /\ label \in {"Starting", "Bootstrapping", "Checking", "Retrying", "Rotating",
                  "Restarting", "Error", "Stopped"}
    /\ bootEnd \in {"none", "failed", "stopped"}
    /\ rebuild \in {"none", "owed"}
    /\ usedRun \in Nat

(* The data directory may be left over from an earlier run.                *)
Init ==
    /\ ctx = "live" /\ pc = "spread" /\ child = "none" /\ ctrl = "none"
    /\ data \in {"clean", "dirty"}
    /\ err = "nil" /\ result = "nil" /\ streak = 0 /\ fails = 0
    /\ backoff = 10 /\ retry = 10 /\ delay = 0
    /\ label = "Starting" /\ bootEnd = "none" /\ rebuild = "none" /\ usedRun = 0

Live == ctx = "live"
Doubled(n) == IF 2 * n < 60 THEN 2 * n ELSE 60

Goto(p) == pc' = p

----------------------------------------------------------------------------
(* The environment                                                         *)

Shutdown == /\ Live
            /\ ctx' = "done"
            /\ UNCHANGED <<pc, child, ctrl, err, delay, label, session, outer>>

TorExits == /\ child = "running"
            /\ child' = "none"
            /\ UNCHANGED <<ctx, pc, ctrl, err, delay, label, session, outer>>

ControlLost == /\ ctrl = "open"
               /\ ctrl' = "lost"
               /\ UNCHANGED <<ctx, pc, child, err, delay, label, session, outer>>

----------------------------------------------------------------------------
(* RunWorkers                                                              *)

(* Startup is spread over two seconds; a shutdown during them ends the     *)
(* worker without a trace on the dashboard.                                *)
Spread == /\ pc = "spread"
          /\ Goto(IF Live THEN "loop" ELSE "end")
          /\ UNCHANGED <<ctx, child, ctrl, err, delay, label, session, outer>>

Stop == Goto("end") /\ label' = "Stopped"

Loop == /\ pc = "loop"
        /\ IF Live THEN Goto("prepare") /\ UNCHANGED label ELSE Stop
        /\ UNCHANGED <<ctx, child, ctrl, err, delay, session, outer>>

(* runTor has returned and its deferred reaping is over.  The check of the *)
(* context comes first: a shutdown also makes a bootstrap look stuck.      *)
BadHeedShutdown == FALSE

HeedShutdown == ~ Live

NeedsFreshRestart == err \in Fresh

BadAfterError == "end"

AfterError == "backoff"

Returned ==
    /\ pc = "returned"
    /\ \/ HeedShutdown /\ Stop /\ UNCHANGED <<delay, backoff, rebuild>>
       \/ /\ ~ HeedShutdown
          /\ IF NeedsFreshRestart
             THEN /\ Goto("wipe") /\ label' = "Restarting"
                  /\ rebuild' = "owed"
                  /\ UNCHANGED <<delay, backoff>>
             ELSE /\ Goto(AfterError) /\ label' = "Error"
                  /\ delay' = backoff /\ backoff' = Doubled(backoff)
                  /\ UNCHANGED rebuild
    /\ UNCHANGED <<ctx, child, ctrl, err, session, data, bootEnd>>

(* resetInstanceData; if the directory cannot be removed, the worker gives *)
(* the instance up for good.                                               *)
BadWiped == data

Wiped == "clean"

Wipe ==
    /\ pc = "wipe"
    /\ \/ /\ data' = Wiped
          /\ backoff' = 10 /\ delay' = 10
          /\ Goto("backoff") /\ UNCHANGED label
       \/ /\ Goto("end") /\ label' = "Error"
          /\ UNCHANGED <<data, backoff, delay>>
    /\ UNCHANGED <<ctx, child, ctrl, err, session, bootEnd, rebuild>>

Backoff == /\ pc = "backoff"
           /\ IF Live THEN Goto("loop") /\ UNCHANGED label ELSE Stop
           /\ delay' = 0
           /\ UNCHANGED <<ctx, child, ctrl, err, session, outer>>

----------------------------------------------------------------------------
(* runTor                                                                  *)

(* Directories, stale sockets, torrc: any of them may fail, before there   *)
(* is a child.                                                             *)
PrepareFails == /\ pc = "prepare"
                /\ Goto("returned") /\ err' = "other"
                /\ UNCHANGED <<ctx, child, ctrl, delay, label, session, outer>>

(* cmd.Start, and the locals of superviseTor.                              *)
Start == /\ pc = "prepare"
         /\ child' = "running" /\ data' = "dirty"
         /\ streak' = 0 /\ retry' = 10
         /\ bootEnd' = "none" /\ rebuild' = "none" /\ usedRun' = 0
         /\ label' = "Bootstrapping"
         /\ Goto("dial")
         /\ UNCHANGED <<ctx, ctrl, err, delay, result, fails, backoff>>

(* superviseTor returns e; its deferred calls close the control connection.*)
Return(e) == /\ Goto("reap") /\ err' = e /\ ctrl' = "none"
             /\ delay' = 0
             /\ UNCHANGED <<ctx, child, label, data, backoff, rebuild>>

(* The deferred function of runTor: SIGTERM, five seconds, SIGKILL, and in *)
(* every case a wait for the child.                                        *)
BadReaped == child

Reaped == "none"

Reap == /\ pc = "reap"
        /\ child' = Reaped
        /\ Goto("returned")
        /\ UNCHANGED <<ctx, ctrl, err, delay, label, session, outer>>

----------------------------------------------------------------------------
(* superviseTor: bootstrap                                                 *)

(* BOOTSTRAP_TIMEOUT, the end of the application, a dead child, a refused  *)
(* or unanswered command: all are reported as errBootstrapStuck.           *)
BootstrapFails == /\ pc \in {"dial", "subscribe", "boot"}
                  /\ Return("stuck")
                  /\ bootEnd' = IF Live THEN "failed" ELSE "stopped"
                  /\ UNCHANGED session

Dial == /\ pc = "dial" /\ child = "running"
        /\ ctrl' = "open" /\ Goto("subscribe")
        /\ UNCHANGED <<ctx, child, err, delay, label, session, outer>>

(* AUTHENTICATE, SETEVENTS.                                                *)
Subscribe == /\ pc = "subscribe" /\ ctrl = "open"
             /\ Goto("boot")
             /\ UNCHANGED <<ctx, child, ctrl, err, delay, label, session, outer>>

EnterCycle == Goto("cycle") /\ label' = "Checking"

(* Progress 100; then the head of the loop of cycles.                      *)
Bootstrapped == /\ pc = "boot" /\ ctrl = "open"
                /\ IF Live THEN EnterCycle /\ UNCHANGED <<ctrl, err, delay, outer>>
                           ELSE Return("other") /\ UNCHANGED bootEnd
                /\ UNCHANGED <<ctx, child, session>>

----------------------------------------------------------------------------
(* superviseTor: cycles                                                    *)

(* A lease of this instance is finished (Lease.Finish), perhaps one of an  *)
(* earlier circuit or session: slot.fails outlives both.                   *)
AfterResult(ok) == IF ok THEN 0 ELSE IF fails < MaxFailures THEN fails + 1 ELSE fails

LeaseFinished(ok) == /\ fails' = AfterResult(ok)
                     /\ UNCHANGED <<ctx, pc, child, ctrl, err, delay, label, result,
                                    streak, retry, usedRun, outer>>

CycleStays == UNCHANGED <<ctx, child, ctrl, err, delay, label, streak, fails, retry, outer>>

(* The cycle returns without a result of serving.  errUsedIP: only unique  *)
(* mode refuses a used address; anything else, at any time.                *)
Unserved == {"other"} \union (IF UniqueIP THEN {"used"} ELSE {})

CycleEnds(r) == /\ pc = "cycle"
                /\ result' = r
                /\ usedRun' = IF r = "used" THEN usedRun + 1 ELSE 0
                /\ Goto("after")
                /\ CycleStays

(* The circuit is done: after one lease in unique mode, which may have     *)
(* succeeded, after a failed one in reuse mode.  errServeFailures is read  *)
(* off slot.fails now; leases may finish while reuse mode still drains.    *)
Served(failed) == IF ~ failed THEN "nil" ELSE IF fails >= MaxFailures THEN "serve" ELSE "other"

Judge(failed) == /\ pc = "cycle"
                 /\ failed \/ UniqueIP
                 /\ result' = Served(failed)
                 /\ usedRun' = 0
                 /\ Goto("drain")
                 /\ CycleStays

Withdrawn == /\ pc = "drain"
             /\ Goto("after")
             /\ UNCHANGED <<result, usedRun>> /\ CycleStays

(* shouldRestartForUsedIP: the new streak, and whether it is long enough.  *)
BadNextStreak == IF result = "used" THEN streak + 1 ELSE streak

NextStreak == IF UniqueIP /\ result = "used" THEN streak + 1 ELSE 0

TooManyUsed == UniqueIP /\ NextStreak >= MaxUsedIPRetries

(* The cycle returned.  A shutdown, then a lost control connection, then   *)
(* the used-IP policy end the session; every other error is retried in     *)
(* place.                                                                  *)
After ==
    /\ pc = "after"
    /\ \/ ~ Live /\ Return("other") /\ UNCHANGED <<streak, retry>>
       \/ Live /\ ctrl = "lost" /\ Return("control") /\ UNCHANGED <<streak, retry>>
       \/ /\ Live /\ ctrl = "open"
          /\ streak' = NextStreak
          /\ \/ TooManyUsed /\ Return("fresh") /\ UNCHANGED retry
             \/ /\ ~ TooManyUsed
                /\ retry' = IF result = "nil" THEN 10 ELSE Doubled(retry)
                /\ delay' = retry'
                /\ label' = IF result = "nil" THEN "Rotating" ELSE "Retrying"
                /\ Goto("retrying")
                /\ UNCHANGED <<ctx, child, ctrl, err, data, backoff, rebuild>>
    /\ UNCHANGED <<result, fails, usedRun, bootEnd>>

Retrying ==
    /\ pc = "retrying"
    /\ \/ /\ Live
          /\ delay' = 0 /\ Goto("newnym")
          /\ UNCHANGED <<ctx, child, ctrl, err, label, data, backoff, rebuild>>
       \/ ~ Live /\ Return("other")
    /\ UNCHANGED <<session, bootEnd>>

(* SIGNAL NEWNYM, whose failure ends the session, and the loop again.      *)
NewNym ==
    /\ pc = "newnym"
    /\ \/ /\ Live /\ ctrl = "open"
          /\ EnterCycle
          /\ UNCHANGED <<ctx, child, ctrl, err, delay, data, backoff, rebuild>>
       \/ Return("other")
    /\ UNCHANGED <<session, bootEnd>>

----------------------------------------------------------------------------
(* Steps the goroutine takes by itself; a healthy cycle may last for ever, *)
(* but not once the application stops or the control connection is lost.   *)
Own == \/ Spread \/ Loop \/ Returned \/ Wipe \/ Backoff \/ PrepareFails \/ Start
       \/ Reap \/ BootstrapFails \/ Dial \/ Subscribe \/ Bootstrapped
       \/ After \/ Retrying \/ NewNym

CycleStep == \/ \E r \in Unserved : CycleEnds(r)
             \/ \E failed \in BOOLEAN : Judge(failed)
             \/ Withdrawn

Next == \/ Own \/ CycleStep
        \/ Shutdown \/ TorExits \/ ControlLost
        \/ \E ok \in BOOLEAN : LeaseFinished(ok)

Spec == Init /\ [][Next]_vars

(* The control connection of a dead Tor reports the end of its stream.     *)
FairSpec == /\ Spec
            /\ WF_vars(Own)
            /\ WF_vars(CycleStep /\ (~ Live \/ ctrl = "lost"))
            /\ WF_vars(ControlLost /\ child = "none")

----------------------------------------------------------------------------
(* Properties                                                              *)

(* The instance the pool sees (TorInstance).                               *)
Tor ==
    INSTANCE TorInstance WITH
        stage <- IF pc \in InCycle THEN "cycle" ELSE "rest",
        lost <- ctrl = "lost",
        verdict <- IF pc # "drain" THEN "none"
                   ELSE IF result = "serve" THEN "rebuild" ELSE "rotate"

TorSpec == Tor!ISpec

(* A child is reaped before anything that assumes it is gone: new sockets  *)
(* and a new child (tor.go:183), the removal of its data, the end; and the *)
(* control connection to it is closed.                                     *)
ReapedFirst ==
    pc \in {"spread", "loop", "prepare", "returned", "wipe", "backoff", "end"}
        => child = "none" /\ ctrl = "none"

(* A bootstrap that was cut short by a shutdown does not cost the instance *)
(* its Tor state: errBootstrapStuck leads to a wipe only when the          *)
(* bootstrap failed while the application was running.                     *)
NoWipeOnShutdown == pc = "wipe" /\ err = "stuck" => bootEnd = "failed"

(* The used-IP policy is exact: a rebuild for used addresses comes after   *)
(* exactly MAX_USED_IP_RETRIES of them in a row, and no cycle starts once  *)
(* that many have been met.                                                *)
UsedPolicyExact ==
    /\ pc = "wipe" /\ err = "fresh" => usedRun = MaxUsedIPRetries
    /\ pc = "cycle" => usedRun < MaxUsedIPRetries

(* "From scratch" is meant (tor.go:150-160): once an error has asked for   *)
(* it, no process is started but on an empty directory, however many       *)
(* attempts fail before one starts.                                        *)
FreshMeansFresh == pc = "prepare" /\ rebuild = "owed" => data = "clean"

(* errServeFailures: "the worker wipes its Tor state and starts it over    *)
(* instead of retrying the same broken setup" (tor.go:44).                 *)
ServeFailuresRebuild == pc = "retrying" => result # "serve"

(* "Retry delays after failures grow from approximately 10 to 60 seconds"  *)
(* (README:147): the first failure after a success waits ten.              *)
RetryStartsAtTen ==
    [][pc = "after" /\ retry = 10 /\ pc' = "retrying" => delay' = 10]_vars

(* Shutdown: the worker ends, and leaves no Tor process behind.            *)
ShutdownCompletes == ~ Live ~> pc = "end" /\ child = "none"

(* An instance whose Tor died while it was serving is brought to its next  *)
(* attempt, unless the application stops or the used-IP policy wipes it.   *)
DeadTorReplaced ==
    pc \in InSession /\ child = "none" ~> pc \in {"prepare", "wipe"} \/ ~ Live
=============================================================================
