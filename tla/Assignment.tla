----------------------------- MODULE Assignment -----------------------------
(***************************************************************************)
(* What the proxy promises its users about exit addresses (README: "Unique *)
(* IPs by default", store.go:62): a client gets at most one address per    *)
(* Acquire; the address is on record as used from the moment it is handed  *)
(* out, for ever and across restarts; and in unique mode it was not on     *)
(* record before.  Pool implements this specification.                     *)
(***************************************************************************)
CONSTANTS IPs, Clients, None, Modes

VARIABLES
    used,       \* the addresses on record as used
    granted,    \* granted[c]: the address handed to Acquire call c
    unique      \* the mode of the running process

avars == <<used, granted, unique>>

AInit == /\ used \in SUBSET IPs
         /\ granted = [c \in Clients |-> None]
         /\ unique \in Modes

Grant(c, a) == /\ granted[c] = None
               /\ unique => a \notin used
               /\ granted' = [granted EXCEPT ![c] = a]
               /\ used' = used \union {a}
               /\ UNCHANGED unique

(* An address may be spent on a call that then fails: delivery cannot be   *)
(* inferred after a failure, so it stays on record.                        *)
Spend(a) == /\ used' = used \union {a}
            /\ UNCHANGED <<granted, unique>>

(* The next process may run in the other mode on the same history.         *)
Restart == /\ unique' \in Modes
           /\ UNCHANGED <<used, granted>>

ANext == \/ \E c \in Clients, a \in IPs : Grant(c, a)
         \/ \E a \in IPs : Spend(a)
         \/ Restart

ASpec == AInit /\ [][ANext]_avars
=============================================================================
