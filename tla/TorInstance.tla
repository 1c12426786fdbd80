----------------------------- MODULE TorInstance -----------------------------
(***************************************************************************)
(* What the scheduler and the supervisor of one Tor instance, which are    *)
(* modelled apart, have to agree on: Pool sees many instances and of each  *)
(* only its cycles, Worker sees one instance and of its cycles only what   *)
(* they return.  Both implement this module, so that what Pool assumes of  *)
(* its workers is what Worker does, and the results Worker assumes are     *)
(* those the cycles of Pool have.                                          *)
(***************************************************************************)
EXTENDS Naturals

CONSTANT MaxFailures    \* maxConsecutiveServeFailures

VARIABLES
    stage,      \* a cycle is under way, or the instance is between two
    lost,       \* its control connection is gone (ctrl.done)
    fails,      \* slot.fails, saturating at MaxFailures
    verdict     \* what the cycle has read off fails

instance == <<stage, lost, fails, verdict>>

IInit == stage = "rest" /\ lost = FALSE /\ fails = 0 /\ verdict = "none"

(* A cycle begins on a living connection, and none outlives its cycle by a *)
(* second one: the connection is replaced between two cycles.              *)
Begin == /\ stage = "rest" /\ ~ lost
         /\ stage' = "cycle"
         /\ UNCHANGED <<lost, fails, verdict>>

Lose == /\ ~ lost
        /\ lost' = TRUE
        /\ UNCHANGED <<stage, fails, verdict>>

Reconnect == /\ stage = "rest" /\ lost
             /\ lost' = FALSE
             /\ UNCHANGED <<stage, fails, verdict>>

(* A lease is finished, of this cycle or of an earlier one, at any moment. *)
Finish(ok) ==
    /\ fails' = IF ok THEN 0 ELSE IF fails < MaxFailures THEN fails + 1 ELSE fails
    /\ UNCHANGED <<stage, lost, verdict>>

(* A cycle that served is judged once; leases that finish after that, while*)
(* it drains, change nothing about it.                                     *)
Decide(v) == /\ stage = "cycle" /\ verdict = "none"
             /\ v = "rebuild" => fails >= MaxFailures
             /\ verdict' = v
             /\ UNCHANGED <<stage, lost, fails>>

End == /\ stage = "cycle"
       /\ stage' = "rest" /\ verdict' = "none"
       /\ UNCHANGED <<lost, fails>>

(* The process dies and another one starts.                                *)
Restart == IInit'

INext == \/ Begin \/ Lose \/ Reconnect \/ End \/ Restart
         \/ \E ok \in BOOLEAN : Finish(ok)
         \/ \E v \in {"rotate", "rebuild"} : Decide(v)

ISpec == IInit /\ [][INext]_instance
=============================================================================
