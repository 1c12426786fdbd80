------------------------------- MODULE Store -------------------------------
(***************************************************************************)
(* The persistent address history (store.go): the SQLite table             *)
(* ips(ip PRIMARY KEY, used).  A row that does not exist is "absent".  The *)
(* module has no behaviour of its own: Pool EXTENDS it and takes the steps *)
(* below under the pool lock, as the code does.                            *)
(***************************************************************************)

CONSTANT IPs            \* the public IPv4 addresses of the exits

VARIABLE ips            \* ips[a]: what the table says of address a

StoreTypeOK == ips \in [IPs -> {"absent", "unused", "used"}]

(* OpenStore keeps whatever an earlier process committed.                  *)
StoreInit == StoreTypeOK

Used == {a \in IPs : ips[a] = "used"}

----------------------------------------------------------------------------
(* Observe: INSERT ... ON CONFLICT DO NOTHING, then SELECT used.           *)

Observed(a) == [ips EXCEPT ![a] = IF @ = "absent" THEN "unused" ELSE @]

Unused(a) == ips[a] # "used"          \* the answer of a successful Observe

Observe(a) == ips' = Observed(a)

(* The INSERT commits on its own: when the call fails it may be there.     *)
ObserveFails(a) == ips' \in {ips, Observed(a)}

----------------------------------------------------------------------------
(* Consume: UPDATE ... SET used=1, guarded by used=0 in unique mode.  It    *)
(* succeeds when it changed one row.                                       *)

BadConsumable(a, unique) == ips[a] # "absent"

Consumable(a, unique) == IF unique THEN ips[a] = "unused" ELSE ips[a] # "absent"

Consumed(a) == [ips EXCEPT ![a] = "used"]

Consume(a, unique) == Consumable(a, unique) /\ ips' = Consumed(a)

(* An error (the caller's context ends, the disk fails) says nothing about *)
(* the UPDATE: it may have committed.                                      *)
ConsumeFails(a, unique) ==
    ips' \in {ips, IF Consumable(a, unique) THEN Consumed(a) ELSE ips}

=============================================================================
