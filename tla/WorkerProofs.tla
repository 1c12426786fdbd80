---------------------------- MODULE WorkerProofs ----------------------------
(* Theorems about Worker, for every value of its constants.                *)
EXTENDS Worker, TLAPS

Booting == {"dial", "subscribe", "boot"}
Leaving == {"reap", "returned", "wipe"}

(* While a session runs, usedStreak is the length of the run of used       *)
(* results; between the return of a cycle and its judgement it lags by it. *)
StreakCounts ==
    /\ pc \in Booting => streak = 0 /\ usedRun = 0
    /\ pc \in {"cycle", "retrying", "newnym"} => streak = usedRun
    /\ pc \in InSession => streak < MaxUsedIPRetries
    /\ pc \in {"drain", "after"} =>
          /\ result = "used" => UniqueIP
          /\ usedRun = IF result = "used" THEN streak + 1 ELSE 0

(* Why the worker is on its way to a wipe.                                 *)
CauseKnown ==
    /\ pc \in {"reap", "returned"} /\ err = "stuck" => bootEnd = "failed" \/ ~ Live
    /\ pc = "wipe" /\ err = "stuck" => bootEnd = "failed"
    /\ pc \in Leaving /\ err = "fresh" => usedRun = MaxUsedIPRetries

(* A start from scratch that is still owed: the directory was removed, and *)
(* failed attempts, whose error is another one, have not filled it again.  *)
CleanStart == pc \notin {"wipe", "end"} /\ rebuild = "owed" => data = "clean"

Connected == /\ pc \in {"dial", "reap"} => ctrl = "none"
             /\ pc = "spread" => err = "nil"

IInv == TypeOK /\ ReapedFirst /\ Connected /\ StreakCounts /\ CauseKnown /\ CleanStart

(* The facts every step below starts from.                                 *)
LEMMA InitIInv == Init => IInv
BY WorkerAssumption
   DEF Init, IInv, TypeOK, ReapedFirst, Connected, StreakCounts, CauseKnown, CleanStart,
       Errors, Fresh, InCycle, InSession, Booting, Leaving, Live

(* Every step of the worker and of its surroundings keeps the invariant.   *)
LEMMA StepIInv == IInv /\ [Next]_vars => IInv'
<1> SUFFICES ASSUME IInv, [Next]_vars PROVE IInv'
  OBVIOUS
<1> USE WorkerAssumption
        DEF IInv, TypeOK, ReapedFirst, Connected, StreakCounts, CauseKnown, CleanStart,
            Errors, Fresh, InCycle, InSession, Booting, Leaving, Live, Goto, Stop, session, outer
<1>1. CASE Shutdown      BY <1>1 DEF Shutdown
<1>2. CASE TorExits      BY <1>2 DEF TorExits
<1>3. CASE ControlLost   BY <1>3 DEF ControlLost
<1>4. CASE Spread        BY <1>4 DEF Spread
<1>5. CASE Loop          BY <1>5 DEF Loop
<1>6. CASE Returned      BY <1>6 DEF Returned, HeedShutdown, NeedsFreshRestart, AfterError, Doubled
<1>7. CASE Wipe          BY <1>7 DEF Wipe, Wiped
<1>8. CASE Backoff       BY <1>8 DEF Backoff
<1>9. CASE PrepareFails  BY <1>9 DEF PrepareFails
<1>10. CASE Start        BY <1>10 DEF Start
<1>11. CASE Reap         BY <1>11 DEF Reap, Reaped
<1>12. CASE BootstrapFails BY <1>12 DEF BootstrapFails, Return
<1>13. CASE Dial         BY <1>13 DEF Dial
<1>14. CASE Subscribe    BY <1>14 DEF Subscribe
<1>15. CASE Bootstrapped BY <1>15 DEF Bootstrapped, EnterCycle, Return
<1>16. CASE After
       BY <1>16 DEF After, Return, NextStreak, TooManyUsed, Doubled
<1>17. CASE Retrying     BY <1>17 DEF Retrying, Return
<1>18. CASE NewNym       BY <1>18 DEF NewNym, EnterCycle, Return
<1>19. ASSUME NEW r \in Unserved, CycleEnds(r) PROVE IInv'
       BY <1>19 DEF CycleEnds, Unserved, CycleStays
<1>22. ASSUME NEW failed \in BOOLEAN, Judge(failed) PROVE IInv'
       BY <1>22 DEF Judge, Served, CycleStays
<1>23. CASE Withdrawn    BY <1>23 DEF Withdrawn, CycleStays
<1>20. ASSUME NEW ok \in BOOLEAN, LeaseFinished(ok) PROVE IInv'
       BY <1>20 DEF LeaseFinished, AfterResult
<1>21. CASE UNCHANGED vars BY <1>21 DEF vars
<1> QED BY <1>1, <1>2, <1>3, <1>4, <1>5, <1>6, <1>7, <1>8, <1>9, <1>10, <1>11, <1>12, <1>13,
           <1>14, <1>15, <1>16, <1>17, <1>18, <1>19, <1>20, <1>21, <1>22, <1>23
    DEF Next, Own, CycleStep

(* The invariant the theorems below are read off.                          *)
LEMMA Inductive == Spec => []IInv
BY InitIInv, StepIInv, PTL DEF Spec

(* Every variable keeps its type: the delays stay between 10 and 60        *)
(* seconds and usedStreak never passes MAX_USED_IP_RETRIES.                *)
THEOREM WorkerTypes == Spec => []TypeOK
<1>1. IInv => TypeOK BY DEF IInv
<1> QED BY Inductive, <1>1, PTL

(* A child is reaped before a new one is started, before its data          *)
(* directory is removed and before the worker ends.                        *)
THEOREM ReapsFirst == Spec => []ReapedFirst
<1>1. IInv => ReapedFirst BY DEF IInv
<1> QED BY Inductive, <1>1, PTL

(* A shutdown never makes a worker destroy its instance's Tor state.       *)
THEOREM ShutdownSparesData == Spec => []NoWipeOnShutdown
<1>1. IInv => NoWipeOnShutdown BY DEF IInv, CauseKnown, NoWipeOnShutdown
<1> QED BY Inductive, <1>1, PTL

(* A rebuild for used addresses happens after exactly the configured       *)
(* number of consecutive used results.                                     *)
THEOREM UsedPolicy == Spec => []UsedPolicyExact
<1>1. IInv => UsedPolicyExact
      BY DEF IInv, TypeOK, StreakCounts, CauseKnown, UsedPolicyExact, InCycle, InSession, Leaving
<1> QED BY Inductive, <1>1, PTL

(* A rebuild starts from an empty directory, also when the first attempts  *)
(* after the removal fail (tor.go:150-199).                                *)
THEOREM RebuildIsFresh == Spec => []FreshMeansFresh
<1>1. IInv => FreshMeansFresh BY DEF IInv, CleanStart, FreshMeansFresh
<1> QED BY Inductive, <1>1, PTL
----------------------------------------------------------------------------
(* Worker implements TorInstance                                           *)

LEMMA StartsAsInstance == Init => Tor!IInit
BY DEF Init, Tor!IInit, InCycle

LEMMA StepsAsInstance ==
    ASSUME IInv, [Next]_vars
    PROVE  [Tor!INext]_(Tor!instance)
<1> DEFINE stage == IF pc \in InCycle THEN "cycle" ELSE "rest"
           verdict == IF pc # "drain" THEN "none"
                      ELSE IF result = "serve" THEN "rebuild" ELSE "rotate"
<1> USE DEF InCycle, Goto, Stop, session, outer, Live
<1>1. ASSUME NEW ok \in BOOLEAN, LeaseFinished(ok) PROVE Tor!Finish(ok)
      BY <1>1 DEF LeaseFinished, AfterResult, Tor!Finish
<1>2. CASE ControlLost
  <2>1. Tor!Lose BY <1>2 DEF ControlLost, Tor!Lose
  <2> QED BY <2>1 DEF Tor!INext
<1>3. ASSUME NEW r \in Unserved, CycleEnds(r) PROVE Tor!End
      BY <1>3 DEF CycleEnds, CycleStays, Tor!End
<1>4. ASSUME NEW failed \in BOOLEAN, Judge(failed)
      PROVE  Tor!Decide(IF Served(failed) = "serve" THEN "rebuild" ELSE "rotate")
      BY <1>4 DEF Judge, Served, CycleStays, Tor!Decide
<1>5. CASE Withdrawn
  <2>1. Tor!End BY <1>5 DEF Withdrawn, CycleStays, Tor!End
  <2> QED BY <2>1 DEF Tor!INext
<1>6. CASE UNCHANGED vars BY <1>6 DEF vars, Tor!instance
<1>7. CASE Own
  <2>1. /\ UNCHANGED fails /\ pc \notin InCycle
        /\ \/ pc' = "cycle" /\ ctrl = "open" /\ ctrl' = "open"
           \/ pc' \notin InCycle /\ ctrl' = "none"
           \/ pc' \notin InCycle /\ (ctrl' = "lost" <=> ctrl = "lost")
        BY <1>7 DEF Own, Spread, Loop, Returned, Wipe, Backoff, PrepareFails, Start, Reap,
                    BootstrapFails, Dial, Subscribe, Bootstrapped, After, Retrying, NewNym,
                    EnterCycle, Return, AfterError, IInv, Connected
  <2>2. CASE pc' = "cycle" /\ ctrl = "open" /\ ctrl' = "open"
    <3>1. Tor!Begin BY <2>1, <2>2 DEF Tor!Begin
    <3> QED BY <3>1 DEF Tor!INext
  <2>3. CASE pc' \notin InCycle /\ ctrl' = "none" /\ ctrl = "lost"
    <3>1. Tor!Reconnect BY <2>1, <2>3 DEF Tor!Reconnect
    <3> QED BY <3>1 DEF Tor!INext
  <2>4. CASE pc' \notin InCycle /\ (ctrl' = "lost" <=> ctrl = "lost")
        BY <2>1, <2>4 DEF Tor!instance
  <2> QED BY <2>1, <2>2, <2>3, <2>4
<1>8. CASE Shutdown \/ TorExits BY <1>8 DEF Shutdown, TorExits, Tor!instance
<1>9. CASE \E ok \in BOOLEAN : LeaseFinished(ok) BY <1>1, <1>9 DEF Tor!INext
<1>10. CASE \E r \in Unserved : CycleEnds(r) BY <1>3, <1>10 DEF Tor!INext
<1>11. CASE \E failed \in BOOLEAN : Judge(failed) BY <1>4, <1>11 DEF Tor!INext
<1> QED BY <1>2, <1>5, <1>6, <1>7, <1>8, <1>9, <1>10, <1>11 DEF Next, CycleStep

(* What the pool assumes of its workers is what the supervision of an      *)
(* instance does: a cycle begins only on a living control connection,      *)
(* which is replaced only between two cycles, and errServeFailures is      *)
(* returned only by a cycle that found slot.fails at its limit.            *)
THEOREM WorkerIsInstance == Spec => TorSpec
<1>1. Init => Tor!IInit BY StartsAsInstance
<1>2. IInv /\ [Next]_vars => [Tor!INext]_(Tor!instance) BY StepsAsInstance
<1> QED BY <1>1, <1>2, Inductive, PTL DEF Spec, TorSpec, Tor!ISpec
=============================================================================
