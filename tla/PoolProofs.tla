----------------------------- MODULE PoolProofs -----------------------------
(***************************************************************************)
(* Theorems about Pool, for every number of instances, addresses, calls    *)
(* and endpoint identities, in either mode and across restarts.            *)
(***************************************************************************)
EXTENDS Pool, FiniteSetTheorems, TLAPS

----------------------------------------------------------------------------
(* The ring of slots                                                       *)

(* The modulus as the scan uses it: it wraps at most once.                 *)
LEMMA Wrap ==
    ASSUME NEW n \in Nat \ {0}, NEW x \in 0 .. n-1
    PROVE  x % n = x /\ (x + n) % n = x
<1>1. x % n = x BY Z3
<1>2. (x + n) % n = x BY Z3
<1> QED BY <1>1, <1>2

(* Every offset leads to a slot.                                           *)
LEMMA SlotAtType ==
    ASSUME next \in Slots, NEW k \in Slots
    PROVE  SlotAt(k) \in Slots /\ After(SlotAt(k)) \in Slots
<1> USE CountAssumption DEF Slots
<1>1. \A x \in Nat : x % N \in 0 .. N-1
      BY Z3
<1>2. SlotAt(k) \in Slots
      BY <1>1 DEF SlotAt
<1> QED BY <1>1, <1>2 DEF After

(* From n it takes Dist(n, i) steps round the ring to reach i.             *)
Dist(n, i) == IF i >= n THEN i - n ELSE i - n + N

(* A scan of N slots meets every slot, slot i after Dist(next, i) others.  *)
LEMMA ScanCovers ==
    ASSUME next \in Slots, NEW i \in Slots
    PROVE  Dist(next, i) \in Slots /\ SlotAt(Dist(next, i)) = i
<1> USE CountAssumption DEF Slots
<1>1. CASE i >= next
  <2>1. Dist(next, i) = i - next /\ i - next \in 0 .. N-1 /\ next + (i - next) = i
        BY <1>1 DEF Dist
  <2> QED BY <2>1, Wrap DEF SlotAt
<1>2. CASE i < next
  <2>1. /\ Dist(next, i) = i - next + N /\ i - next + N \in 0 .. N-1
        /\ next + (i - next + N) = i + N
        BY <1>2 DEF Dist
  <2> QED BY <2>1, Wrap DEF SlotAt
<1> QED BY <1>1, <1>2

(* A grant at offset k brings every slot behind it k + 1 steps closer.     *)
LEMMA TurnsCloser ==
    ASSUME next \in Slots, NEW k \in Slots, NEW j \in Slots, Dist(next, j) > k
    PROVE  Dist(After(SlotAt(k)), j) = Dist(next, j) - k - 1
<1> USE CountAssumption DEF Slots
<1>1. SlotAt(k) = IF next + k < N THEN next + k ELSE next + k - N
  <2>1. CASE next + k < N
    <3>1. next + k \in 0 .. N-1 BY <2>1
    <3> QED BY <2>1, <3>1, Wrap DEF SlotAt
  <2>2. CASE next + k >= N
    <3> DEFINE x == next + k - N
    <3>1. x \in 0 .. N-1 /\ next + k = x + N BY <2>2
    <3>2. (x + N) % N = x
      <4> HIDE DEF x
      <4> QED BY <3>1, Wrap
    <3> QED BY <2>2, <3>1, <3>2 DEF SlotAt
  <2> QED BY <2>1, <2>2
<1>2. SlotAt(k) \in 0 .. N-1 BY SlotAtType
<1>3. After(SlotAt(k)) = IF SlotAt(k) + 1 < N THEN SlotAt(k) + 1 ELSE 0
  <2>1. CASE SlotAt(k) + 1 < N
    <3>1. SlotAt(k) + 1 \in 0 .. N-1 BY <1>2, <2>1
    <3> QED BY <2>1, <3>1, Wrap DEF After
  <2>2. CASE SlotAt(k) + 1 = N
    <3>1. (0 + N) % N = 0 BY Wrap
    <3> QED BY <2>2, <3>1 DEF After
  <2> QED BY <1>2, <2>1, <2>2
<1> QED BY <1>1, <1>3 DEF Dist

----------------------------------------------------------------------------
(* The inductive invariant                                                 *)

(* A worker owns the endpoint of its cycle, no other worker does, and what *)
(* a slot publishes is its worker's.                                       *)
Ownership ==
    /\ \A i \in Slots : cur[i] = None <=> phase[i] = "rest"
    /\ \A i, j \in Slots : cur[i] = cur[j] /\ cur[i] # None => i = j
    /\ \A i \in Slots : cur[i] # None => ep[cur[i]].id = i
    /\ \A i \in Slots : Serving(i) => ep[cur[i]].ip # None
    /\ PublishedIsServed

(* A call holds an endpoint exactly from its grant to the close of done,   *)
(* and never one that was not published.                                   *)
LeaseStates ==
    /\ \A c \in Clients : lease[c] # None <=> client[c] \in {"leased", "closing"}
    /\ \A c \in Clients, i \in Slots : lease[c] = cur[i] /\ cur[i] # None => Serving(i)

Core == TypeOK /\ Ownership /\ LeaseStates

(* In unique mode nobody holds what is on offer.                           *)
Exclusive ==
    /\ LeaseExclusive
    /\ unique => \A i \in Slots : slot[i].state = "Ready" /\ slot[i].ep # None =>
                     \A c \in Clients : lease[c] # slot[i].ep

(* What was handed out is on record; who has not been served holds nothing.*)
OnRecord ==
    /\ \A c \in Clients : granted[c] # None => ips[granted[c]] = "used"
    /\ \A c \in Clients : client[c] \in {"new", "scan", "parked", "woken", "final", "rejecting"}
                              => granted[c] = None

(* The grants that went past a ready slot and those that still can.        *)
RoundRobin == \A i \in Slots : Eligible(i) => bypass[i] + Dist(next, i) < N

IInv == /\ Core
        /\ Exclusive
        /\ OnRecord
        /\ ReservationsExact
        /\ NoLostWakeup
        /\ RoundRobin

----------------------------------------------------------------------------
(* Types                                                                   *)

(* The collector returns well-typed endpoints and leaves held ones alone.  *)
LEMMA CollectType ==
    ASSUME NEW new \in [Endpoints -> EndpointType], Collect(new)
    PROVE  /\ ep' \in [Endpoints -> EndpointType]
           /\ \A e \in Endpoints : Held(e)' => ep'[e] = new[e]
<1>1. Blank \in EndpointType
      BY CountAssumption DEF Blank, EndpointType, Slots
<1> QED BY <1>1 DEF Collect

(* What the steps below need of the types.                                 *)
LEMMA TypeFacts ==
    ASSUME TypeOK
    PROVE  /\ ep \in [Endpoints -> EndpointType]
           /\ slot \in [Slots -> SlotType]
           /\ \A e \in Endpoints : /\ ep[e] \in EndpointType
                                   /\ ep[e].id \in Slots
                                   /\ ep[e].ip \in IPs \union {None}
                                   /\ ep[e].active \in Nat
           /\ \A i \in Slots : /\ slot[i] \in SlotType
                               /\ slot[i].ep \in Endpoints \union {None}
                               /\ slot[i].fails \in 0 .. MaxFailures
                               /\ cur[i] \in Endpoints \union {None}
           /\ \A c \in Clients : lease[c] \in Endpoints \union {None}
           /\ \A a \in IPs : reserved[a] \in Endpoints \union {None}
BY DEF TypeOK, EndpointType, SlotType

(* Assigning a field keeps an endpoint well typed, and the other fields.   *)
LEMMA FieldTypes ==
    ASSUME NEW r \in EndpointType
    PROVE  /\ \A a \in IPs : [r EXCEPT !.ip = a] \in EndpointType
           /\ [r EXCEPT !.cancelled = TRUE] \in EndpointType
           /\ [r EXCEPT !.done = TRUE] \in EndpointType
           /\ \A x \in Clients \union {None} : [r EXCEPT !.lastErr = x] \in EndpointType
           /\ \A n \in Nat : [r EXCEPT !.active = n] \in EndpointType
BY DEF EndpointType

LEMMA SlotFieldTypes ==
    ASSUME NEW r \in SlotType,
           NEW s \in {"Starting", "Checking", "Ready", "Busy", "Rotating"}
    PROVE  /\ [r EXCEPT !.state = s] \in SlotType
           /\ \A x \in Endpoints \union {None} : [r EXCEPT !.state = s, !.ep = x] \in SlotType
           /\ \A n \in 0 .. MaxFailures : [r EXCEPT !.fails = n] \in SlotType
BY DEF SlotType

LEMMA CancelType ==
    ASSUME TypeOK, NEW k
    PROVE  /\ Cancel(Passed(k)) \in [Endpoints -> EndpointType]
           /\ \A e \in Endpoints :
                 /\ Cancel(Passed(k))[e].id = ep[e].id
                 /\ Cancel(Passed(k))[e].ip = ep[e].ip
                 /\ Cancel(Passed(k))[e].cancelled =
                       IF e \in Passed(k) THEN TRUE ELSE ep[e].cancelled
<1> DEFINE E == Passed(k)
<1> HIDE DEF E
<1>1. ep \in [Endpoints -> EndpointType] BY DEF TypeOK
<1>2. ASSUME NEW e \in Endpoints
      PROVE  /\ Cancel(E)[e] = [ep[e] EXCEPT !.cancelled = IF e \in E THEN TRUE ELSE @]
             /\ Cancel(E)[e] \in EndpointType
  <2>1. Cancel(E)[e] = [ep[e] EXCEPT !.cancelled = IF e \in E THEN TRUE ELSE @] BY DEF Cancel
  <2>2. ep[e] \in EndpointType BY <1>1
  <2>3. CASE e \in E BY <2>1, <2>2, <2>3 DEF EndpointType
  <2>4. CASE e \notin E BY <2>1, <2>2, <2>4 DEF EndpointType
  <2> QED BY <2>1, <2>3, <2>4
<1>3. \A e \in Endpoints : ep[e] \in EndpointType BY <1>1
<1>4. /\ Cancel(E) \in [Endpoints -> EndpointType]
      /\ \A e \in Endpoints : /\ Cancel(E)[e].id = ep[e].id
                              /\ Cancel(E)[e].ip = ep[e].ip
                              /\ Cancel(E)[e].cancelled = IF e \in E THEN TRUE ELSE ep[e].cancelled
      BY <1>2, <1>3 DEF Cancel, EndpointType
<1> QED BY <1>4 DEF E

LEMMA InitIInv == Init => IInv
BY CountAssumption, ModeAssumption, NoneAssumption
   DEF Init, NewPool, StoreInit, StoreTypeOK, FreshSlot, FreshCount, NoEndpoint, Zero, Blank,
       IInv, Core, TypeOK, EndpointType, SlotType, Ownership, LeaseStates, PublishedIsServed, Serving, Slots,
       Exclusive, LeaseExclusive, OnRecord, ReservationsExact, NoLostWakeup, RoundRobin, Eligible

----------------------------------------------------------------------------
(* What most steps leave alone                                             *)

(* A step that moves no cycle, publishes nothing and keeps every cycle's   *)
(* endpoint, except that contexts may end.                                 *)
Sedate ==
    /\ UNCHANGED <<unique, reserved, cur>>
    /\ \A j \in Slots : /\ phase'[j] = "rest" <=> phase[j] = "rest"
                        /\ Serving(j)' <=> Serving(j)
                        /\ slot'[j].ep # None => slot'[j].ep = slot[j].ep
                        /\ slot'[j].state = "Ready" => slot[j].state = "Ready"
                        /\ cur[j] # None => /\ ep'[cur[j]].id = ep[cur[j]].id
                                            /\ ep'[cur[j]].ip = ep[cur[j]].ip
                                            /\ ep[cur[j]].cancelled => ep'[cur[j]].cancelled

LEMMA SedateKeeps ==
    ASSUME IInv, Sedate
    PROVE  /\ Ownership' /\ ReservationsExact'
           /\ \A j \in Slots : Eligible(j)' => Eligible(j) /\ slot'[j].ep = slot[j].ep
<1>1. TypeOK /\ Ownership /\ ReservationsExact BY DEF IInv, Core
<1>2. Ownership'
  <2>1. \A i \in Slots : cur'[i] = None <=> phase'[i] = "rest"
        BY <1>1 DEF Sedate, Ownership
  <2>2. \A i, j \in Slots : cur'[i] = cur'[j] /\ cur'[i] # None => i = j
        BY <1>1 DEF Sedate, Ownership
  <2>3. \A i \in Slots : cur'[i] # None => ep'[cur'[i]].id = i
        BY <1>1 DEF Sedate, Ownership
  <2>4. \A i \in Slots : Serving(i)' => ep'[cur'[i]].ip # None
        BY <1>1 DEF Sedate, Ownership, Serving
  <2>5. PublishedIsServed'
        BY <1>1 DEF Sedate, Ownership, PublishedIsServed
  <2> QED BY <2>1, <2>2, <2>3, <2>4, <2>5 DEF Ownership
<1>3. ReservationsExact'
  <2> SUFFICES ASSUME NEW a \in IPs, NEW e \in Endpoints
               PROVE  (reserved[a] = e <=>
                        unique /\ \E i \in Slots : Serving(i) /\ cur[i] = e /\ ep[e].ip = a)'
      BY DEF ReservationsExact
  <2>1. \A i \in Slots : (Serving(i) /\ cur[i] = e /\ ep[e].ip = a)'
                           <=> Serving(i) /\ cur[i] = e /\ ep[e].ip = a
        BY <1>1, NoneAssumption DEF Sedate
  <2> QED BY <1>1, <2>1 DEF Sedate, ReservationsExact
<1>4. ASSUME NEW j \in Slots, Eligible(j)' PROVE Eligible(j) /\ slot'[j].ep = slot[j].ep
  <2>1. slot'[j].ep = slot[j].ep /\ slot[j].ep # None /\ slot[j].ep = cur[j]
        BY <1>1, <1>4 DEF Eligible, Sedate, Ownership, PublishedIsServed
  <2> QED BY <1>4, <2>1 DEF Eligible, Sedate
<1> QED BY <1>2, <1>3, <1>4

(* ... and that also gives no lease, parks no call and grants nothing.     *)
LEMMA SedateFrame ==
    ASSUME IInv, Sedate, UNCHANGED <<next, bypass>>,
           \A c \in Clients : /\ lease'[c] # None => lease'[c] = lease[c]
                              /\ client'[c] = "parked" => client[c] = "parked"
    PROVE  Ownership' /\ ReservationsExact' /\ Exclusive' /\ NoLostWakeup' /\ RoundRobin'
<1>1. /\ Exclusive /\ NoLostWakeup /\ RoundRobin BY DEF IInv
<1>2. Exclusive'
      BY <1>1 DEF Exclusive, LeaseExclusive, Sedate
<1>3. NoLostWakeup'
      BY <1>1, SedateKeeps DEF NoLostWakeup
<1>4. RoundRobin'
      BY <1>1, SedateKeeps DEF RoundRobin, Dist
<1> QED BY SedateKeeps, <1>2, <1>3, <1>4

----------------------------------------------------------------------------
(* One lemma per action, one step per part of the invariant                *)

LEMMA StartCycleIInv ==
    ASSUME IInv, NEW i \in Slots, StartCycle(i)
    PROVE  IInv'
<1> USE CountAssumption, NoneAssumption DEF IInv, Core, store, work, past
<1> PICK e \in Endpoints :
       /\ ~ Held(e)
       /\ cur' = [cur EXCEPT ![i] = e]
       /\ ep' = [ep EXCEPT ![e] = [Blank EXCEPT !.id = i]]
    BY DEF StartCycle
<1>0. [Blank EXCEPT !.id = i] \in EndpointType /\ [Blank EXCEPT !.id = i].id = i
      BY DEF Blank, EndpointType
<1>s. slot' = [slot EXCEPT ![i] = [slot[i] EXCEPT !.state = "Checking"]]
      BY DEF StartCycle
<1>t. slot \in [Slots -> SlotType] /\ slot' \in [Slots -> SlotType]
      BY <1>s, SlotFieldTypes DEF TypeOK
<1>1. TypeOK'
      BY <1>0, <1>t DEF StartCycle, TypeOK, StoreTypeOK
<1>2. Ownership'
      BY <1>0, <1>1 DEF StartCycle, Ownership, PublishedIsServed, Serving, Held, TypeOK
<1>3. LeaseStates'
      BY <1>1 DEF StartCycle, LeaseStates, Serving, Held, TypeOK
<1>4. Exclusive'
      BY DEF StartCycle, Exclusive, LeaseExclusive, TypeOK
<1>5. OnRecord'
      BY DEF StartCycle, OnRecord
<1>6. ReservationsExact'
      BY DEF StartCycle, ReservationsExact, Serving, Held, TypeOK, Ownership
<1>7. \A j \in Slots : Eligible(j)' => Eligible(j)
      BY DEF StartCycle, Eligible, Held, TypeOK
<1>8. NoLostWakeup' /\ RoundRobin'
      BY <1>7 DEF StartCycle, NoLostWakeup, RoundRobin, Dist
<1> QED BY <1>1, <1>2, <1>3, <1>4, <1>5, <1>6, <1>8

(* The ways out of a cycle that published nothing differ in the history    *)
(* only, and that only grows.                                              *)
LEMMA LeaveIInv ==
    ASSUME IInv, NEW i \in Slots, LeaveUnpublished(i),
           StoreTypeOK', \A a \in IPs : ips[a] = "used" => ips'[a] = "used"
    PROVE  IInv'
<1> USE NoneAssumption DEF IInv, Core, store, work, past
<1>0. /\ ep' \in [Endpoints -> EndpointType]
      /\ \A e \in Endpoints : Held(e)' => ep'[e] = ep[e]
      BY CollectType DEF LeaveUnpublished, TypeOK
<1>1. TypeOK'
      BY <1>0 DEF LeaveUnpublished, TypeOK
<1>a. /\ cur'[i] = None /\ phase'[i] = "rest"
      /\ \A j \in Slots : j # i => cur'[j] = cur[j] /\ phase'[j] = phase[j]
      /\ UNCHANGED <<slot, reserved, lease, unique>>
      BY DEF LeaveUnpublished, TypeOK
<1>b. \A j \in Slots : cur'[j] # None => cur'[j] \in Endpoints /\ ep'[cur'[j]] = ep[cur'[j]]
      BY <1>0, <1>1 DEF Held, TypeOK
<1>2. Ownership'
      BY <1>a, <1>b, i \in Slots DEF Ownership, PublishedIsServed, Serving, LeaveUnpublished
<1>3. LeaseStates'
      BY DEF LeaveUnpublished, LeaseStates, Serving, TypeOK
<1>4. Exclusive'
      BY DEF LeaveUnpublished, Exclusive, LeaseExclusive
<1>5. OnRecord'
      BY DEF LeaveUnpublished, OnRecord, TypeOK
<1>6. ReservationsExact'
      BY <1>a, <1>b DEF LeaveUnpublished, ReservationsExact, Serving
<1>7. ASSUME NEW j \in Slots, Eligible(j)' PROVE Eligible(j)
  <2>1. slot'[j].ep = slot[j].ep /\ slot'[j].state = slot[j].state BY <1>a
  <2>2. slot[j].ep \in Endpoints /\ Held(slot[j].ep)'
        BY <1>7, <1>a, <2>1, TypeFacts DEF Eligible, Held
  <2> QED BY <1>0, <1>7, <2>1, <2>2 DEF Eligible
<1>8. NoLostWakeup' /\ RoundRobin'
      BY <1>7 DEF LeaveUnpublished, NoLostWakeup, RoundRobin, Dist
<1> QED BY <1>1, <1>2, <1>3, <1>4, <1>5, <1>6, <1>8

LEMMA PublishReadyIInv ==
    ASSUME IInv, NEW i \in Slots, NEW a \in IPs, PublishReady(i, a)
    PROVE  IInv'
<1> USE NoneAssumption DEF IInv, Core, store, work, past
<1> DEFINE e == cur[i]
<1>0. e \in Endpoints /\ \A c \in Clients : lease[c] # e
      BY DEF PublishReady, TypeOK, Ownership, LeaseStates, Serving
<1>a. ep' \in [Endpoints -> EndpointType]
  <2>1. ep \in [Endpoints -> EndpointType] BY DEF TypeOK
  <2>2. ep' = [ep EXCEPT ![e] = [ep[e] EXCEPT !.ip = a]] BY DEF PublishReady
  <2>3. [ep[e] EXCEPT !.ip = a] \in EndpointType BY <1>0, <2>1, FieldTypes
  <2> QED BY <2>1, <2>2, <2>3
<1>b. StoreTypeOK'
      BY DEF PublishReady, TypeOK, StoreTypeOK, Observe, Observed
<1>c. client' \in [Clients -> {"new", "scan", "parked", "woken", "final",
                               "rejecting", "leased", "closing", "gone"}]
      BY DEF PublishReady, TypeOK, Broadcast
<1>d. slot' \in [Slots -> SlotType]
  <2>1. slot \in [Slots -> SlotType] BY DEF TypeOK
  <2>2. slot' = [slot EXCEPT ![i] = [slot[i] EXCEPT !.state = "Ready", !.ep = e]]
        BY <2>1 DEF PublishReady, SlotType
  <2>3. [slot[i] EXCEPT !.state = "Ready", !.ep = e] \in SlotType
        BY <1>0, <2>1, SlotFieldTypes
  <2> QED BY <2>1, <2>2, <2>3
<1>1. TypeOK'
      BY <1>0, <1>a, <1>b, <1>c, <1>d DEF PublishReady, TypeOK
<1>2. Ownership'
      BY <1>0 DEF PublishReady, Ownership, PublishedIsServed, Serving, TypeOK, EndpointType
<1>3. LeaseStates'
      BY DEF PublishReady, LeaseStates, Serving, TypeOK, Broadcast
<1>4. Exclusive'
      BY <1>0 DEF PublishReady, Exclusive, LeaseExclusive, TypeOK
<1>5. OnRecord'
      BY DEF PublishReady, OnRecord, TypeOK, StoreTypeOK, Observe, Observed, Broadcast
<1>6. ReservationsExact'
      BY <1>0 DEF PublishReady, ReservationsExact, Serving, TypeOK, EndpointType, Ownership, MayPublish
<1>7. \A j \in Slots : j # i /\ Eligible(j)' => Eligible(j)
      BY <1>0 DEF PublishReady, Eligible, TypeOK, EndpointType
<1>8. NoLostWakeup'
      BY DEF PublishReady, NoLostWakeup, Broadcast, TypeOK
<1>9. RoundRobin'
      BY <1>7, CountAssumption DEF PublishReady, RoundRobin, Dist, TypeOK, Slots
<1> QED BY <1>1, <1>2, <1>3, <1>4, <1>5, <1>6, <1>8, <1>9

LEMMA CircuitLostIInv ==
    ASSUME IInv, NEW i \in Slots, CircuitLost(i)
    PROVE  IInv'
<1> DEFINE e == cur[i]
<1>1. TypeOK /\ LeaseStates /\ OnRecord BY DEF IInv, Core
<1>2. /\ e \in Endpoints
      /\ ep' = [ep EXCEPT ![e] = [ep[e] EXCEPT !.cancelled = TRUE]]
      BY <1>1, TypeFacts DEF CircuitLost
<1>3. TypeOK'
  <2>1. ep' \in [Endpoints -> EndpointType] BY <1>1, <1>2, TypeFacts, FieldTypes
  <2> QED BY <1>1, <2>1 DEF TypeOK, StoreTypeOK, CircuitLost, store, work, past
<1>4. \A x \in Endpoints : /\ ep'[x].id = ep[x].id /\ ep'[x].ip = ep[x].ip
                           /\ ep[x].cancelled => ep'[x].cancelled
      BY <1>1, <1>2, TypeFacts DEF EndpointType
<1>5. Sedate
      BY <1>1, <1>4, TypeFacts DEF Sedate, CircuitLost, Serving, store, work
<1>6. LeaseStates' /\ OnRecord'
      BY <1>1 DEF LeaseStates, OnRecord, CircuitLost, Serving, store, work, past
<1>7. Ownership' /\ ReservationsExact' /\ Exclusive' /\ NoLostWakeup' /\ RoundRobin'
      BY <1>5, SedateFrame DEF CircuitLost, past
<1> QED BY <1>3, <1>6, <1>7 DEF IInv, Core

(* A worker that goes from one serving phase to another disturbs nobody.   *)
LEMMA PhaseIInv ==
    ASSUME IInv, NEW i \in Slots, Serving(i),
           NEW to \in {"judge", "drain", "withdraw"},
           phase' = [phase EXCEPT ![i] = to],
           verdict' \in [Slots -> {"none", "rotate", "rebuild"}],
           UNCHANGED <<store, slot, reserved, next, count, ep, cur, lost, client, lease, past>>
    PROVE  IInv'
<1>1. TypeOK /\ LeaseStates /\ OnRecord BY DEF IInv, Core
<1>2. TypeOK'
      BY <1>1 DEF TypeOK, StoreTypeOK, store, past
<1>3. \A j \in Slots : Serving(j)' <=> Serving(j)
      BY <1>1 DEF Serving, TypeOK
<1>4. Sedate
      BY <1>1, <1>3 DEF Sedate, Serving, TypeOK, store
<1>5. LeaseStates' /\ OnRecord'
      BY <1>1, <1>3 DEF LeaseStates, OnRecord, Serving, store, past
<1>6. Ownership' /\ ReservationsExact' /\ Exclusive' /\ NoLostWakeup' /\ RoundRobin'
      BY <1>4, SedateFrame DEF past
<1> QED BY <1>2, <1>5, <1>6 DEF IInv, Core

(* So does the loss of a control connection, until the worker or events    *)
(* act on it.                                                              *)
LEMMA SessionIInv ==
    ASSUME IInv, NEW i \in Slots, ControlLost(i) \/ NewSession(i)
    PROVE  IInv'
<1>1. TypeOK /\ LeaseStates /\ OnRecord BY DEF IInv, Core
<1>2. /\ lost' \in [Slots -> BOOLEAN]
      /\ UNCHANGED <<store, slot, reserved, next, count, ep, phase, cur, verdict, client,
                     lease, past>>
  <2>1. lost \in [Slots -> BOOLEAN] BY <1>1 DEF TypeOK
  <2> QED BY <2>1 DEF ControlLost, NewSession
<1>3. TypeOK'
      BY <1>1, <1>2 DEF TypeOK, StoreTypeOK, store, past
<1>4. Sedate
      BY <1>1, <1>2 DEF Sedate, Serving, TypeOK, store
<1>5. LeaseStates' /\ OnRecord'
      BY <1>1, <1>2 DEF LeaseStates, OnRecord, Serving, store, past
<1>6. Ownership' /\ ReservationsExact' /\ Exclusive' /\ NoLostWakeup' /\ RoundRobin'
      BY <1>2, <1>4, SedateFrame DEF past
<1> QED BY <1>3, <1>5, <1>6 DEF IInv, Core

LEMMA JudgeIInv ==
    ASSUME IInv, NEW i \in Slots, Judge(i)
    PROVE  IInv'
<1>1. verdict' \in [Slots -> {"none", "rotate", "rebuild"}]
      BY DEF IInv, Core, TypeOK, Judge
<1>2. CASE unique
      BY <1>1, <1>2, PhaseIInv DEF Judge, Serving
<1>3. CASE ~ unique
      BY <1>1, <1>3, PhaseIInv DEF Judge, Serving
<1> QED BY <1>2, <1>3

LEMMA AdvanceIInv ==
    ASSUME IInv, NEW i \in Slots, DoneSeen(i) \/ Interrupted(i) \/ Drained(i)
    PROVE  IInv'
<1>1. verdict \in [Slots -> {"none", "rotate", "rebuild"}]
      BY DEF IInv, Core, TypeOK
<1>2. CASE DoneSeen(i)    BY <1>1, <1>2, PhaseIInv DEF DoneSeen, Advance, Serving
<1>3. CASE Interrupted(i) BY <1>1, <1>3, PhaseIInv DEF Interrupted, Advance, Serving
<1>4. CASE Drained(i)     BY <1>1, <1>4, PhaseIInv DEF Drained, Advance, Serving
<1> QED BY <1>2, <1>3, <1>4

LEMMA WithdrawIInv ==
    ASSUME IInv, NEW i \in Slots, Withdraw(i)
    PROVE  IInv'
<1> DEFINE e == cur[i]
           new == [ep EXCEPT ![e] = [ep[e] EXCEPT !.cancelled = TRUE]]
<1> USE NoneAssumption
<1>1. TypeOK /\ Ownership /\ LeaseStates /\ OnRecord /\ Exclusive /\ ReservationsExact
        /\ NoLostWakeup /\ RoundRobin
      BY DEF IInv, Core
<1>2. /\ e \in Endpoints
      /\ new \in [Endpoints -> EndpointType]
      /\ \A x \in Endpoints : /\ new[x].id = ep[x].id /\ new[x].ip = ep[x].ip
                              /\ x # e => new[x] = ep[x]
  <2>1. e \in Endpoints BY <1>1, TypeFacts DEF Withdraw, Ownership
  <2>2. [ep[e] EXCEPT !.cancelled = TRUE] \in EndpointType BY <1>1, <2>1, TypeFacts, FieldTypes
  <2>3. new \in [Endpoints -> EndpointType] BY <1>1, <2>2, TypeFacts
  <2>4. \A x \in Endpoints : x # e => new[x] = ep[x] BY <1>1, TypeFacts
  <2>5. new[e].id = ep[e].id /\ new[e].ip = ep[e].ip BY <1>1, <2>1, TypeFacts DEF EndpointType
  <2> QED BY <2>1, <2>3, <2>4, <2>5
<1>3. /\ ep' \in [Endpoints -> EndpointType]
      /\ \A x \in Endpoints : Held(x)' => ep'[x] = new[x]
      BY <1>2, CollectType DEF Withdraw
<1>4. /\ cur'[i] = None /\ phase'[i] = "rest" /\ slot'[i].ep = None
      /\ \A j \in Slots : j # i => /\ cur'[j] = cur[j] /\ phase'[j] = phase[j]
                                  /\ slot'[j] = slot[j]
  <2>1. slot' = IF slot[i].ep = e THEN [slot EXCEPT ![i] = [slot[i] EXCEPT !.state = "Rotating", !.ep = None]]
                                  ELSE slot
        BY <1>1, TypeFacts DEF Withdraw, Unpublish, SlotType
  <2>2. slot[i].ep # e => slot[i].ep = None
        BY <1>1 DEF Ownership, PublishedIsServed
  <2>3. slot \in [Slots -> SlotType] BY <1>1, TypeFacts
  <2>4. slot'[i].ep = None
        BY <2>1, <2>2, <2>3 DEF SlotType
  <2>5. \A j \in Slots : j # i => slot'[j] = slot[j]
        BY <2>1, <2>3
  <2> QED BY <1>1, <2>4, <2>5 DEF Withdraw, TypeOK
<1>5. \A j \in Slots : cur'[j] # None => /\ j # i /\ cur[j] # e /\ cur[j] \in Endpoints
                                         /\ ep'[cur[j]] = ep[cur[j]]
      BY <1>1, <1>2, <1>3, <1>4, TypeFacts DEF Held, Ownership
<1>6. TypeOK'
  <2>1. slot' \in [Slots -> SlotType]
    <3>1. slot' = slot \/ slot' = [slot EXCEPT ![i] = [slot[i] EXCEPT !.state = "Rotating", !.ep = None]]
          BY <1>1, TypeFacts DEF Withdraw, Unpublish, SlotType
    <3>2. [slot[i] EXCEPT !.state = "Rotating", !.ep = None] \in SlotType
          BY <1>1, TypeFacts, SlotFieldTypes
    <3> QED BY <1>1, <3>1, <3>2, TypeFacts
  <2> QED BY <1>1, <1>3, <2>1 DEF Withdraw, TypeOK, StoreTypeOK, store, past
<1>7. Ownership'
      BY <1>1, <1>4, <1>5 DEF Ownership, PublishedIsServed, Serving
<1>8. LeaseStates'
      BY <1>1, <1>4, <1>5 DEF LeaseStates, Serving, Withdraw
<1>9. Exclusive'
      BY <1>1, <1>4 DEF Exclusive, LeaseExclusive, Withdraw, store
<1>10. OnRecord'
      BY <1>1 DEF OnRecord, Withdraw, store, past
<1>11. ReservationsExact'
  <2> SUFFICES ASSUME NEW a \in IPs, NEW x \in Endpoints
               PROVE  (reserved[a] = x <=>
                        unique /\ \E j \in Slots : Serving(j) /\ cur[j] = x /\ ep[x].ip = a)'
      BY DEF ReservationsExact
  <2>1. CASE x = e
    <3>1. reserved'[a] # e
          BY <1>1, <1>2 DEF Withdraw, ReservationsExact
    <3>2. \A j \in Slots : cur'[j] # e
          BY <1>4, <1>5, <1>2
    <3> QED BY <2>1, <3>1, <3>2
  <2>2. CASE x # e
    <3>1. reserved'[a] = x <=> reserved[a] = x
          BY <1>2, <2>2 DEF Withdraw
    <3>2. \A j \in Slots : (Serving(j) /\ cur[j] = x /\ ep[x].ip = a)'
                             <=> Serving(j) /\ cur[j] = x /\ ep[x].ip = a
          BY <1>4, <1>5, <2>2 DEF Serving
    <3> QED BY <1>1, <3>1, <3>2 DEF Withdraw, store, ReservationsExact
  <2> QED BY <2>1, <2>2
<1>12. ASSUME NEW j \in Slots, Eligible(j)' PROVE Eligible(j)
  <2>1. j # i /\ slot'[j] = slot[j] /\ slot[j].ep = cur'[j] /\ cur'[j] = cur[j]
        BY <1>4, <1>7, <1>12 DEF Eligible, Ownership, PublishedIsServed
  <2> QED BY <1>5, <1>12, <2>1 DEF Eligible
<1>13. NoLostWakeup' /\ RoundRobin'
      BY <1>1, <1>12 DEF NoLostWakeup, RoundRobin, Dist, Withdraw, past
<1> QED BY <1>6, <1>7, <1>8, <1>9, <1>10, <1>11, <1>13 DEF IInv, Core

(* Both grants, whatever else they do to the slot and its endpoint.        *)
LEMMA AssignIInv ==
    ASSUME IInv, NEW c \in Clients, NEW k \in Slots, NEW guarded, Assign(c, k, guarded),
           ep' \in [Endpoints -> EndpointType],
           \A x \in Endpoints : /\ ep'[x].id = ep[x].id /\ ep'[x].ip = ep[x].ip
                                /\ ep[x].cancelled \/ x \in Passed(k) => ep'[x].cancelled,
           slot' \in [Slots -> SlotType],
           \A j \in Slots : /\ slot'[j].ep = slot[j].ep
                            /\ slot'[j].state = "Ready" => slot[j].state = "Ready",
           unique => slot'[SlotAt(k)].state # "Ready"
    PROVE  IInv'
<1> DEFINE i == SlotAt(k)
           e == slot[i].ep
           a == AddressOf(i)
<1> USE NoneAssumption
<1>1. TypeOK /\ Ownership /\ LeaseStates /\ OnRecord /\ Exclusive /\ ReservationsExact
        /\ NoLostWakeup /\ RoundRobin
      BY DEF IInv, Core
<1>2. next \in Slots /\ i \in Slots /\ After(i) \in Slots
      BY <1>1, SlotAtType DEF TypeOK
<1>3. /\ e \in Endpoints /\ Serving(i) /\ cur[i] = e /\ slot[i].state = "Ready"
      /\ a \in IPs /\ a = ep[e].ip
  <2>1. e # None /\ slot[i].state = "Ready" BY DEF Assign, Eligible
  <2>2. e \in Endpoints BY <1>1, <1>2, <2>1, TypeFacts
  <2>3. Serving(i) /\ cur[i] = e BY <1>1, <1>2, <2>1 DEF Ownership, PublishedIsServed
  <2>4. ep[e].ip \in IPs BY <1>1, <1>2, <2>2, <2>3, TypeFacts DEF Ownership
  <2> QED BY <2>1, <2>2, <2>3, <2>4 DEF AddressOf
<1>4. ips' = [ips EXCEPT ![a] = "used"]
      BY DEF Assign, Consume, Consumed
<1>5. /\ client' = [client EXCEPT ![c] = "leased"]
      /\ lease' = [lease EXCEPT ![c] = e]
      /\ granted' = [granted EXCEPT ![c] = a]
      /\ next' = After(i)
      BY DEF Assign
<1>6. TypeOK'
  <2>1. bypass' \in [Slots -> Nat]
        BY <1>1 DEF Assign, PassedOver, TypeOK
  <2>2. count' \in [requests : Nat, completed : Nat, failed : Nat, rejected : Nat]
    <3>1. count \in [requests : Nat, completed : Nat, failed : Nat, rejected : Nat]
          BY <1>1 DEF TypeOK
    <3>2. count' = [count EXCEPT !.requests = count.requests + 1] BY DEF Assign
    <3> QED BY <3>1, <3>2
  <2> QED BY <1>1, <1>2, <1>3, <1>4, <1>5, <2>1, <2>2 DEF Assign, TypeOK, StoreTypeOK, work
<1>7. Sedate
      BY <1>1, TypeFacts DEF Assign, Sedate, Serving, work
<1>8. /\ Ownership' /\ ReservationsExact'
      /\ \A j \in Slots : Eligible(j)' => Eligible(j) /\ slot'[j].ep = slot[j].ep
      BY <1>7, SedateKeeps
<1>9. LeaseStates'
  <2>1. \A j \in Slots : Serving(j)' <=> Serving(j) BY DEF Assign, Serving, work
  <2>2. \A j \in Slots : cur'[j] = cur[j] BY DEF Assign, work
  <2> QED BY <1>1, <1>2, <1>3, <1>5, <2>1, <2>2 DEF LeaseStates, Ownership, TypeOK
<1>10. Exclusive'
  <2>1. unique' = unique BY DEF Assign
  <2>2. unique => \A d \in Clients : lease[d] # e
        BY <1>1, <1>2, <1>3 DEF Exclusive
  <2>3. LeaseExclusive'
        BY <1>1, <1>5, <2>1, <2>2 DEF Exclusive, LeaseExclusive, TypeOK
  <2>4. ASSUME unique, NEW j \in Slots, slot'[j].state = "Ready", slot'[j].ep # None,
               NEW d \in Clients
        PROVE  lease'[d] # slot'[j].ep
    <3>1. j # i /\ slot[j].state = "Ready" /\ slot[j].ep = slot'[j].ep BY <2>4
    <3>2. slot[j].ep # e BY <1>1, <1>2, <1>3, <2>4, <3>1 DEF Ownership, PublishedIsServed
    <3> QED BY <1>1, <1>5, <2>4, <3>1, <3>2 DEF Exclusive, TypeOK
  <2> QED BY <2>1, <2>3, <2>4 DEF Exclusive
<1>11. OnRecord'
      BY <1>1, <1>3, <1>4, <1>5 DEF OnRecord, TypeOK, StoreTypeOK
<1>12. NoLostWakeup'
      BY <1>1, <1>5, <1>8 DEF NoLostWakeup, TypeOK
<1>13. RoundRobin'
  <2> SUFFICES ASSUME NEW j \in Slots, Eligible(j)'
               PROVE  bypass'[j] + Dist(After(i), j) < N
      BY <1>5 DEF RoundRobin, Dist
  <2>1. CASE j = i \/ slot[j].ep \in Passed(k)
    <3>1. bypass'[j] = 0 BY <2>1 DEF Assign, PassedOver
    <3> QED BY <1>2, <3>1, CountAssumption DEF Dist, Slots
  <2>2. CASE j # i /\ slot[j].ep \notin Passed(k)
    <3>1. Eligible(j) BY <1>8
    <3>2. bypass'[j] = bypass[j] + 1 BY <2>2, <3>1 DEF Assign, PassedOver
    <3>3. Dist(next, j) \in Slots /\ SlotAt(Dist(next, j)) = j BY <1>2, ScanCovers
    <3>4. ~ Dist(next, j) < k
          BY <2>2, <3>1, <3>3, CountAssumption DEF Passed, Slots
    <3>5. Dist(next, j) # k BY <2>2, <3>3
    <3>6. Dist(next, j) > k BY <3>3, <3>4, <3>5, CountAssumption DEF Slots
    <3>7. Dist(After(i), j) = Dist(next, j) - k - 1 BY <1>2, <3>6, TurnsCloser
    <3>8. bypass[j] \in Nat /\ bypass[j] + Dist(next, j) < N
          BY <1>1, <3>1 DEF RoundRobin, TypeOK
    <3> QED BY <3>2, <3>3, <3>7, <3>8, CountAssumption DEF Slots
  <2> QED BY <2>1, <2>2
<1> QED BY <1>6, <1>8, <1>9, <1>10, <1>11, <1>12, <1>13 DEF IInv, Core

LEMMA GrantUniqueIInv ==
    ASSUME IInv, NEW c \in Clients, NEW k \in Slots, GrantUnique(c, k)
    PROVE  IInv'
<1> DEFINE i == SlotAt(k)
<1>1. TypeOK BY DEF IInv, Core
<1>2. i \in Slots BY <1>1, SlotAtType DEF TypeOK
<1>3. Assign(c, k, TRUE) /\ unique BY DEF GrantUnique
<1>4. /\ ep' \in [Endpoints -> EndpointType]
      /\ \A x \in Endpoints : /\ ep'[x].id = ep[x].id /\ ep'[x].ip = ep[x].ip
                              /\ ep[x].cancelled \/ x \in Passed(k) => ep'[x].cancelled
      BY <1>1, CancelType DEF GrantUnique
<1>5. slot' = [slot EXCEPT ![i] = [slot[i] EXCEPT !.state = "Busy"]]
      BY DEF GrantUnique
<1>6. slot' \in [Slots -> SlotType]
      BY <1>1, <1>2, <1>5, TypeFacts, SlotFieldTypes
<1>7. /\ \A j \in Slots : /\ slot'[j].ep = slot[j].ep
                          /\ slot'[j].state = "Ready" => slot[j].state = "Ready"
      /\ slot'[i].state # "Ready"
  <2>1. slot'[i].ep = slot[i].ep /\ slot'[i].state = "Busy"
        BY <1>1, <1>2, <1>5, TypeFacts DEF SlotType
  <2>2. \A j \in Slots : j # i => slot'[j] = slot[j]
        BY <1>1, <1>5, TypeFacts
  <2> QED BY <2>1, <2>2
<1> QED BY <1>3, <1>4, <1>6, <1>7, AssignIInv

LEMMA GrantReuseIInv ==
    ASSUME IInv, NEW c \in Clients, NEW k \in Slots, GrantReuse(c, k)
    PROVE  IInv'
<1> DEFINE e == slot[SlotAt(k)].ep
           old == Cancel(Passed(k))
<1>1. TypeOK BY DEF IInv, Core
<1>2. Assign(c, k, FALSE) /\ ~ unique /\ slot' = slot
      BY DEF GrantReuse, ReuseMode
<1>3. e \in Endpoints
  <2>1. SlotAt(k) \in Slots BY <1>1, SlotAtType DEF TypeOK
  <2>2. e # None BY <1>2 DEF Assign, Eligible
  <2> QED BY <1>1, <2>1, <2>2, TypeFacts
<1>4. /\ old \in [Endpoints -> EndpointType]
      /\ \A x \in Endpoints : /\ old[x].id = ep[x].id /\ old[x].ip = ep[x].ip
                              /\ ep[x].cancelled \/ x \in Passed(k) => old[x].cancelled
      BY <1>1, CancelType
<1>5. ep' = [old EXCEPT ![e] = [old[e] EXCEPT !.active = old[e].active + 1]]
      BY DEF GrantReuse
<1> HIDE DEF old
<1>6. old[e] \in EndpointType /\ old[e].active + 1 \in Nat
      BY <1>3, <1>4 DEF EndpointType
<1>7. [old[e] EXCEPT !.active = old[e].active + 1] \in EndpointType
      BY <1>6, FieldTypes
<1>8. ep' \in [Endpoints -> EndpointType]
      BY <1>4, <1>5, <1>7
<1>9. \A x \in Endpoints : /\ ep'[x].id = old[x].id /\ ep'[x].ip = old[x].ip
                           /\ old[x].cancelled => ep'[x].cancelled
      BY <1>3, <1>4, <1>5, <1>6 DEF EndpointType
<1>10. slot' \in [Slots -> SlotType]
      BY <1>1, <1>2, TypeFacts
<1> QED BY <1>2, <1>4, <1>8, <1>9, <1>10, AssignIInv

(* A scan that grants nothing: it cancelled the endpoints it went past.    *)
LEMMA CancelSedate ==
    ASSUME IInv, NEW k, ep' = Cancel(Passed(k)), UNCHANGED <<unique, slot, reserved, work>>
    PROVE  Sedate /\ ep' \in [Endpoints -> EndpointType]
<1>1. TypeOK BY DEF IInv, Core
<1>2. /\ ep' \in [Endpoints -> EndpointType]
      /\ \A x \in Endpoints : /\ ep'[x].id = ep[x].id /\ ep'[x].ip = ep[x].ip
                              /\ ep[x].cancelled => ep'[x].cancelled
      BY <1>1, CancelType
<1> QED BY <1>1, <1>2, TypeFacts DEF Sedate, Serving, work

LEMMA ScanFailsIInv ==
    ASSUME IInv, NEW c \in Clients, NEW k \in Slots, ScanFails(c, k)
    PROVE  IInv'
<1>1. TypeOK /\ LeaseStates /\ OnRecord BY DEF IInv, Core
<1>2. Sedate /\ ep' \in [Endpoints -> EndpointType]
      BY CancelSedate DEF ScanFails
<1>3. /\ client' = [client EXCEPT ![c] = "gone"] /\ client[c] \in {"scan", "final"}
      /\ UNCHANGED <<unique, slot, reserved, next, count, work, lease, past>>
      BY DEF ScanFails, Scanning
<1>4. StoreTypeOK' /\ \A a \in IPs : ips[a] = "used" => ips'[a] = "used"
      BY <1>1 DEF ScanFails, ConsumeFails, Consumed, TypeOK, StoreTypeOK
<1>5. TypeOK'
      BY <1>1, <1>2, <1>3, <1>4 DEF TypeOK, work, past
<1>6. LeaseStates'
      BY <1>1, <1>3 DEF LeaseStates, Serving, TypeOK, work
<1>7. OnRecord'
      BY <1>1, <1>3, <1>4 DEF OnRecord, TypeOK, past
<1>8. \A d \in Clients : client'[d] = "parked" => client[d] = "parked"
      BY <1>1, <1>3 DEF TypeOK
<1>9. Ownership' /\ ReservationsExact' /\ Exclusive' /\ NoLostWakeup' /\ RoundRobin'
      BY <1>2, <1>3, <1>8, SedateFrame DEF past
<1> QED BY <1>5, <1>6, <1>7, <1>9 DEF IInv, Core

(* A call that goes to sleep has met every slot, and cancelled the ones    *)
(* that looked eligible: none is left.                                     *)
LEMMA ScanFindsNoneIInv ==
    ASSUME IInv, NEW c \in Clients, ScanFindsNone(c)
    PROVE  IInv'
<1>1. TypeOK /\ LeaseStates /\ OnRecord /\ Exclusive /\ NoLostWakeup /\ RoundRobin
      BY DEF IInv, Core
<1>2. Sedate /\ ep' \in [Endpoints -> EndpointType]
      BY CancelSedate DEF ScanFindsNone, store
<1>3. /\ client' \in [Clients -> {"new", "scan", "parked", "woken", "final",
                                  "rejecting", "leased", "closing", "gone"}]
      /\ client'[c] \in {"parked", "rejecting"} /\ client[c] \in {"scan", "final"}
      /\ \A d \in Clients : d # c => client'[d] = client[d]
      /\ UNCHANGED <<store, slot, reserved, next, count, work, lease, past>>
      BY <1>1 DEF ScanFindsNone, Scanning, AfterEmptyScan, TypeOK
<1>4. TypeOK'
      BY <1>1, <1>2, <1>3 DEF TypeOK, StoreTypeOK, store, work, past
<1>5. LeaseStates'
      BY <1>1, <1>3 DEF LeaseStates, Serving, work
<1>6. OnRecord'
      BY <1>1, <1>3 DEF OnRecord, store, past
<1>7. /\ Ownership' /\ ReservationsExact'
      /\ \A j \in Slots : Eligible(j)' => Eligible(j) /\ slot'[j].ep = slot[j].ep
      BY <1>2, SedateKeeps
<1>8. Exclusive'
      BY <1>1, <1>3 DEF Exclusive, LeaseExclusive, store
<1>9. ASSUME NEW j \in Slots PROVE ~ Eligible(j)'
  <2> SUFFICES ASSUME Eligible(j)' PROVE FALSE OBVIOUS
  <2>1. Eligible(j) /\ slot'[j].ep = slot[j].ep BY <1>7
  <2>2. next \in Slots BY <1>1 DEF TypeOK
  <2>3. Dist(next, j) \in 0 .. N-1 /\ SlotAt(Dist(next, j)) = j
        BY <2>2, ScanCovers DEF Slots
  <2>4. slot[j].ep \in Passed(N) BY <2>1, <2>3 DEF Passed
  <2>5. slot[j].ep \in Endpoints BY <1>1, <2>1, TypeFacts DEF Eligible
  <2>6. ep'[slot[j].ep].cancelled
        BY <1>1, <2>4, <2>5, CancelType DEF ScanFindsNone
  <2> QED BY <2>1, <2>6 DEF Eligible
<1>10. NoLostWakeup' /\ RoundRobin'
      BY <1>9 DEF NoLostWakeup, RoundRobin
<1> QED BY <1>4, <1>5, <1>6, <1>7, <1>8, <1>10 DEF IInv, Core

(* The moves of a call that has no lease and gets none.                    *)
LEMMA MoveIInv ==
    ASSUME IInv, NEW c \in Clients,
           client[c] \in {"new", "scan", "parked", "woken", "final", "rejecting"},
           NEW to \in {"scan", "final", "rejecting", "gone"},
           client' = [client EXCEPT ![c] = to],
           count' \in [requests : Nat, completed : Nat, failed : Nat, rejected : Nat],
           UNCHANGED <<store, slot, reserved, next, ep, work, lease, past>>
    PROVE  IInv'
<1>1. TypeOK /\ LeaseStates /\ OnRecord BY DEF IInv, Core
<1>2. TypeOK'
      BY <1>1 DEF TypeOK, StoreTypeOK, store, work, past
<1>3. LeaseStates'
      BY <1>1 DEF LeaseStates, Serving, TypeOK, work
<1>4. OnRecord'
      BY <1>1 DEF OnRecord, TypeOK, store, past
<1>5. Sedate
      BY DEF Sedate, Serving, store, work
<1>6. \A d \in Clients : client'[d] = "parked" => client[d] = "parked"
      BY <1>1 DEF TypeOK
<1>7. Ownership' /\ ReservationsExact' /\ Exclusive' /\ NoLostWakeup' /\ RoundRobin'
      BY <1>5, <1>6, SedateFrame DEF past
<1> QED BY <1>2, <1>3, <1>4, <1>7 DEF IInv, Core

LEMMA ClientIInv ==
    ASSUME IInv, NEW c \in Clients,
           \/ CallAcquire(c) \/ Rescan(c) \/ GiveUp(c) \/ ContextEnds(c) \/ CountRejected(c)
    PROVE  IInv'
<1>1. count \in [requests : Nat, completed : Nat, failed : Nat, rejected : Nat]
      BY DEF IInv, Core, TypeOK
<1>2. CASE CallAcquire(c) BY <1>1, <1>2, MoveIInv DEF CallAcquire
<1>3. CASE Rescan(c) BY <1>1, <1>3, MoveIInv DEF Rescan, Move
<1>4. CASE GiveUp(c)
  <2>1. CASE TimerFires(c) BY <1>1, <2>1, MoveIInv DEF TimerFires, Move, Waiting
  <2>2. CASE DeadlinePassed(c) BY <1>1, <2>2, MoveIInv DEF DeadlinePassed, Move, Waiting
  <2> QED BY <1>4, <2>1, <2>2 DEF GiveUp
<1>5. CASE ContextEnds(c) BY <1>1, <1>5, MoveIInv DEF ContextEnds, Move, Waiting
<1>6. CASE CountRejected(c)
  <2>1. count' \in [requests : Nat, completed : Nat, failed : Nat, rejected : Nat]
        BY <1>1, <1>6 DEF CountRejected
  <2> QED BY <1>6, <2>1, MoveIInv DEF CountRejected
<1> QED BY <1>2, <1>3, <1>4, <1>5, <1>6

(* The result of a lease: its call no longer counts as serving, the slot of *)
(* its endpoint may leave the scans, and nothing else moves.               *)
LEMMA FinishIInv ==
    ASSUME IInv, NEW c \in Clients, Leased(c),
           ep' \in [Endpoints -> EndpointType],
           slot' \in [Slots -> SlotType],
           count' \in [requests : Nat, completed : Nat, failed : Nat, rejected : Nat],
           tried' \in [Slots -> 0 .. 2],
           \A j \in Slots : /\ slot'[j].ep # None => slot'[j].ep = slot[j].ep
                            /\ slot'[j].state = "Ready" => slot[j].state = "Ready"
                            /\ cur[j] # None => /\ ep'[cur[j]].id = ep[cur[j]].id
                                                /\ ep'[cur[j]].ip = ep[cur[j]].ip
                                                /\ ep[cur[j]].cancelled => ep'[cur[j]].cancelled,
           \/ client' = [client EXCEPT ![c] = "closing"] /\ lease' = lease
           \/ client' = [client EXCEPT ![c] = "gone"] /\ lease' = [lease EXCEPT ![c] = None],
           UNCHANGED <<store, reserved, next, work, granted, bypass>>
    PROVE  IInv'
<1>1. TypeOK /\ LeaseStates /\ OnRecord BY DEF IInv, Core
<1>2. TypeOK'
      BY <1>1 DEF TypeOK, StoreTypeOK, store, work
<1>3. Sedate
      BY DEF Sedate, Serving, store, work
<1>4. LeaseStates'
      BY <1>1, NoneAssumption DEF LeaseStates, Serving, TypeOK, work, Leased
<1>5. OnRecord'
      BY <1>1 DEF OnRecord, TypeOK, store, Leased
<1>6. \A d \in Clients : /\ lease'[d] # None => lease'[d] = lease[d]
                         /\ client'[d] = "parked" => client[d] = "parked"
      BY <1>1, NoneAssumption DEF TypeOK
<1>7. Ownership' /\ ReservationsExact' /\ Exclusive' /\ NoLostWakeup' /\ RoundRobin'
      BY <1>3, <1>6, SedateFrame
<1> QED BY <1>2, <1>4, <1>5, <1>7 DEF IInv, Core

(* Whatever the result, the counters and the histories stay in range.      *)
LEMMA ResultTypes ==
    ASSUME TypeOK, NEW ok \in BOOLEAN, NEW i \in Slots, NEW n \in 0 .. MaxFailures
    PROVE  /\ CountResult(ok) =>
                count' \in [requests : Nat, completed : Nat, failed : Nat, rejected : Nat]
           /\ \A e : CountCircuit(i, e, ok) => tried' \in [Slots -> 0 .. 2]
           /\ AfterFailure(n) \in 0 .. MaxFailures
           /\ 0 \in 0 .. MaxFailures
<1>1. CountResult(ok) =>
         count' \in [requests : Nat, completed : Nat, failed : Nat, rejected : Nat]
      BY DEF CountResult, TypeOK
<1>2. ASSUME NEW e, CountCircuit(i, e, ok) PROVE tried' \in [Slots -> 0 .. 2]
  <2>1. tried \in [Slots -> 0 .. 2] BY DEF TypeOK
  <2>2. PICK n0 \in 0 .. 2 : tried' = [tried EXCEPT ![i] = n0]
    <3>1. tried[i] \in 0 .. 2 BY <2>1
    <3>2. CASE ok BY <1>2, <3>2 DEF CountCircuit
    <3>3. CASE ~ ok /\ ep[e].lastErr = None /\ tried[i] < 2
      <4>1. tried[i] + 1 \in 0 .. 2 BY <3>1, <3>3
      <4> QED BY <1>2, <3>3, <4>1 DEF CountCircuit
    <3>4. CASE ~ ok /\ ~ (ep[e].lastErr = None /\ tried[i] < 2)
          BY <1>2, <3>1, <3>4 DEF CountCircuit
    <3> QED BY <3>2, <3>3, <3>4
  <2> QED BY <2>1, <2>2
<1>3. AfterFailure(n) \in 0 .. MaxFailures /\ 0 \in 0 .. MaxFailures
      BY CountAssumption DEF AfterFailure
<1> QED BY <1>1, <1>2, <1>3

LEMMA FinishUniqueIInv ==
    ASSUME IInv, NEW c \in Clients, NEW ok \in BOOLEAN, FinishUnique(c, ok)
    PROVE  IInv'
<1> DEFINE e == lease[c]
           i == ep[e].id
           x == IF ok THEN None ELSE c
           n == IF ok THEN 0 ELSE AfterFailure(slot[i].fails)
           new == [state |-> IF slot[i].ep = e THEN "Rotating" ELSE slot[i].state,
                   ep |-> slot[i].ep, fails |-> n]
<1>1. TypeOK /\ LeaseStates BY DEF IInv, Core
<1>2. e \in Endpoints /\ i \in Slots
  <2>1. e # None BY <1>1 DEF FinishUnique, Leased, LeaseStates
  <2>2. e \in Endpoints BY <1>1, <2>1, TypeFacts
  <2> QED BY <1>1, <2>2, TypeFacts
<1>3. /\ Leased(c) /\ CountResult(ok) /\ CountCircuit(i, e, ok)
      /\ ep' = [ep EXCEPT ![e] = [ep[e] EXCEPT !.lastErr = x]]
      /\ slot' = [slot EXCEPT ![i] = new]
      /\ client' = [client EXCEPT ![c] = "closing"] /\ lease' = lease
      /\ UNCHANGED <<store, reserved, next, work, granted, bypass>>
      BY DEF FinishUnique, Retire
<1>4. slot[i].fails \in 0 .. MaxFailures BY <1>1, <1>2, TypeFacts
<1>5. /\ count' \in [requests : Nat, completed : Nat, failed : Nat, rejected : Nat]
      /\ tried' \in [Slots -> 0 .. 2]
      /\ n \in 0 .. MaxFailures
      BY <1>1, <1>2, <1>3, <1>4, ResultTypes
<1>6. new \in SlotType
      BY <1>1, <1>2, <1>5, TypeFacts DEF SlotType
<1>7. /\ slot' \in [Slots -> SlotType]
      /\ slot'[i] = new /\ \A j \in Slots : j # i => slot'[j] = slot[j]
      BY <1>1, <1>2, <1>3, <1>6, TypeFacts
<1>8. \A j \in Slots : /\ slot'[j].ep # None => slot'[j].ep = slot[j].ep
                       /\ slot'[j].state = "Ready" => slot[j].state = "Ready"
      BY <1>7
<1>9. x \in Clients \union {None} OBVIOUS
<1>10. ep[e] \in EndpointType /\ [ep[e] EXCEPT !.lastErr = x] \in EndpointType
  <2>1. ep[e] \in EndpointType BY <1>1, <1>2, TypeFacts
  <2> QED BY <1>9, <2>1, FieldTypes
<1>11. /\ ep' \in [Endpoints -> EndpointType]
       /\ \A y \in Endpoints : /\ ep'[y].id = ep[y].id /\ ep'[y].ip = ep[y].ip
                               /\ ep[y].cancelled => ep'[y].cancelled
  <2> HIDE DEF x, e
  <2>1. ep' \in [Endpoints -> EndpointType] BY <1>1, <1>2, <1>3, <1>10, TypeFacts
  <2> QED BY <1>1, <1>2, <1>3, <1>10, <2>1, TypeFacts DEF EndpointType
<1>12. \A j \in Slots : cur[j] # None => cur[j] \in Endpoints BY <1>1, TypeFacts
<1> QED BY <1>3, <1>5, <1>7, <1>8, <1>11, <1>12, FinishIInv

LEMMA FinishReuseIInv ==
    ASSUME IInv, NEW c \in Clients, FinishReuse(c)
    PROVE  IInv'
<1> DEFINE e == lease[c]
           i == ep[e].id
           n == Release(ep[e].active)
           new == [ep EXCEPT ![e] = [ep[e] EXCEPT !.active = n]]
<1>1. TypeOK /\ LeaseStates BY DEF IInv, Core
<1>2. e \in Endpoints /\ i \in Slots /\ n \in Nat
  <2>1. e # None BY <1>1 DEF FinishReuse, Leased, LeaseStates
  <2>2. e \in Endpoints BY <1>1, <2>1, TypeFacts
  <2>3. ep[e].active \in Nat BY <1>1, <2>2, TypeFacts
  <2>4. n \in Nat BY <2>3 DEF Release
  <2> QED BY <1>1, <2>2, <2>4, TypeFacts
<1>3. /\ Leased(c) /\ CountResult(TRUE) /\ CountCircuit(i, e, TRUE)
      /\ slot' = [slot EXCEPT ![i] = [slot[i] EXCEPT !.fails = 0]]
      /\ client' = [client EXCEPT ![c] = "gone"] /\ lease' = [lease EXCEPT ![c] = None]
      /\ UNCHANGED <<store, reserved, next, work, granted, bypass>>
      /\ Collect(new)
      BY DEF FinishReuse
<1>4. slot[i].fails \in 0 .. MaxFailures BY <1>1, <1>2, TypeFacts
<1>5. /\ count' \in [requests : Nat, completed : Nat, failed : Nat, rejected : Nat]
      /\ tried' \in [Slots -> 0 .. 2]
      /\ 0 \in 0 .. MaxFailures
      BY <1>1, <1>2, <1>3, <1>4, ResultTypes
<1>6. [slot[i] EXCEPT !.fails = 0] \in SlotType /\ slot[i] \in SlotType
  <2>1. slot[i] \in SlotType BY <1>1, <1>2, TypeFacts
  <2> QED BY <1>5, <2>1, SlotFieldTypes
<1>7. /\ slot' \in [Slots -> SlotType]
      /\ slot'[i] = [slot[i] EXCEPT !.fails = 0] /\ \A j \in Slots : j # i => slot'[j] = slot[j]
      BY <1>1, <1>2, <1>3, <1>6, TypeFacts
<1>8. \A j \in Slots : /\ slot'[j].ep # None => slot'[j].ep = slot[j].ep
                       /\ slot'[j].state = "Ready" => slot[j].state = "Ready"
      BY <1>6, <1>7 DEF SlotType
<1>9. ep[e] \in EndpointType /\ [ep[e] EXCEPT !.active = n] \in EndpointType
  <2>1. ep[e] \in EndpointType BY <1>1, <1>2, TypeFacts
  <2> QED BY <1>2, <2>1, FieldTypes
<1>10. /\ new \in [Endpoints -> EndpointType]
       /\ \A y \in Endpoints : /\ new[y].id = ep[y].id /\ new[y].ip = ep[y].ip
                               /\ ep[y].cancelled => new[y].cancelled
  <2> HIDE DEF n, e
  <2>1. new \in [Endpoints -> EndpointType] BY <1>1, <1>2, <1>9, TypeFacts
  <2> QED BY <1>1, <1>2, <1>9, <2>1, TypeFacts DEF EndpointType
<1>11. ep' \in [Endpoints -> EndpointType] /\ \A y \in Endpoints : Held(y)' => ep'[y] = new[y]
  <2> HIDE DEF new
  <2> QED BY <1>3, <1>10, CollectType
<1>12. \A j \in Slots : cur[j] # None => cur[j] \in Endpoints BY <1>1, TypeFacts
<1>13. \A j \in Slots : cur[j] # None => /\ ep'[cur[j]].id = ep[cur[j]].id
                                         /\ ep'[cur[j]].ip = ep[cur[j]].ip
                                         /\ ep[cur[j]].cancelled => ep'[cur[j]].cancelled
  <2> HIDE DEF new, e, n
  <2> SUFFICES ASSUME NEW j \in Slots, cur[j] # None
               PROVE  /\ ep'[cur[j]].id = ep[cur[j]].id
                      /\ ep'[cur[j]].ip = ep[cur[j]].ip
                      /\ ep[cur[j]].cancelled => ep'[cur[j]].cancelled
      OBVIOUS
  <2>1. cur[j] \in Endpoints /\ ep'[cur[j]] = new[cur[j]] BY <1>3, <1>11, <1>12 DEF Held, work
  <2> QED BY <1>10, <2>1
<1> QED BY <1>3, <1>5, <1>7, <1>8, <1>11, <1>13, FinishIInv

LEMMA FailReuseIInv ==
    ASSUME IInv, NEW c \in Clients, FailReuse(c)
    PROVE  IInv'
<1> DEFINE e == lease[c]
           i == ep[e].id
           a == Release(ep[e].active)
           new == [state |-> IF slot[i].ep = e THEN "Rotating" ELSE slot[i].state,
                   ep |-> IF slot[i].ep = e THEN None ELSE slot[i].ep,
                   fails |-> AfterFailure(slot[i].fails)]
<1>1. TypeOK /\ LeaseStates BY DEF IInv, Core
<1>2. e \in Endpoints /\ i \in Slots /\ a \in Nat
  <2>1. e # None BY <1>1 DEF FailReuse, Leased, LeaseStates
  <2>2. e \in Endpoints BY <1>1, <2>1, TypeFacts
  <2>3. ep[e].active \in Nat BY <1>1, <2>2, TypeFacts
  <2>4. a \in Nat BY <2>3 DEF Release
  <2> QED BY <1>1, <2>2, <2>4, TypeFacts
<1>3. /\ Leased(c) /\ CountResult(FALSE) /\ CountCircuit(i, e, FALSE)
      /\ slot' = [slot EXCEPT ![i] = new]
      /\ client' = [client EXCEPT ![c] = "closing"] /\ lease' = lease
      /\ UNCHANGED <<store, reserved, next, work, granted, bypass>>
      BY DEF FailReuse, Detach
<1>4. slot[i].fails \in 0 .. MaxFailures BY <1>1, <1>2, TypeFacts
<1>5. /\ count' \in [requests : Nat, completed : Nat, failed : Nat, rejected : Nat]
      /\ tried' \in [Slots -> 0 .. 2]
      /\ AfterFailure(slot[i].fails) \in 0 .. MaxFailures
      BY <1>1, <1>2, <1>3, <1>4, ResultTypes
<1>6. new \in SlotType
      BY <1>1, <1>2, <1>5, TypeFacts DEF SlotType
<1>7. /\ slot' \in [Slots -> SlotType]
      /\ slot'[i] = new /\ \A j \in Slots : j # i => slot'[j] = slot[j]
      BY <1>1, <1>2, <1>3, <1>6, TypeFacts
<1>8. \A j \in Slots : /\ slot'[j].ep # None => slot'[j].ep = slot[j].ep
                       /\ slot'[j].state = "Ready" => slot[j].state = "Ready"
      BY <1>7
<1>9. ep[e] \in EndpointType /\ [ep[e] EXCEPT !.active = a, !.lastErr = c] \in EndpointType
  <2>1. ep[e] \in EndpointType BY <1>1, <1>2, TypeFacts
  <2>2. [ep[e] EXCEPT !.active = a] \in EndpointType BY <1>2, <2>1, FieldTypes
  <2>3. [[ep[e] EXCEPT !.active = a] EXCEPT !.lastErr = c] \in EndpointType BY <2>2, FieldTypes
  <2> QED BY <2>1, <2>3
<1>10. ep' = [ep EXCEPT ![e] = [ep[e] EXCEPT !.active = a, !.lastErr = c]]
      BY <1>1, <1>2, TypeFacts DEF FailReuse
<1>11. /\ ep' \in [Endpoints -> EndpointType]
       /\ \A y \in Endpoints : /\ ep'[y].id = ep[y].id /\ ep'[y].ip = ep[y].ip
                               /\ ep[y].cancelled => ep'[y].cancelled
  <2> HIDE DEF a, e
  <2>1. ep' \in [Endpoints -> EndpointType] BY <1>1, <1>2, <1>9, <1>10, TypeFacts
  <2> QED BY <1>1, <1>2, <1>9, <1>10, <2>1, TypeFacts DEF EndpointType
<1>12. \A j \in Slots : cur[j] # None => cur[j] \in Endpoints BY <1>1, TypeFacts
<1> QED BY <1>3, <1>5, <1>7, <1>8, <1>11, <1>12, FinishIInv

LEMMA CloseDoneIInv ==
    ASSUME IInv, NEW c \in Clients, CloseDone(c)
    PROVE  IInv'
<1> DEFINE e == lease[c]
           new == [ep EXCEPT ![e] = [ep[e] EXCEPT !.done = TRUE]]
<1>1. TypeOK /\ LeaseStates /\ OnRecord BY DEF IInv, Core
<1>2. e \in Endpoints
  <2>1. e # None BY <1>1 DEF CloseDone, LeaseStates
  <2> QED BY <1>1, <2>1, TypeFacts
<1>3. /\ client[c] = "closing" /\ client' = [client EXCEPT ![c] = "gone"]
      /\ lease' = [lease EXCEPT ![c] = None]
      /\ UNCHANGED <<store, slot, reserved, next, count, work, past>>
      /\ Collect(new)
      BY DEF CloseDone
<1>4. ep[e] \in EndpointType /\ [ep[e] EXCEPT !.done = TRUE] \in EndpointType
  <2>1. ep[e] \in EndpointType BY <1>1, <1>2, TypeFacts
  <2> QED BY <2>1, FieldTypes
<1>5. /\ new \in [Endpoints -> EndpointType]
      /\ \A y \in Endpoints : /\ new[y].id = ep[y].id /\ new[y].ip = ep[y].ip
                              /\ ep[y].cancelled => new[y].cancelled
  <2> HIDE DEF e
  <2>1. new \in [Endpoints -> EndpointType] BY <1>1, <1>2, <1>4, TypeFacts
  <2> QED BY <1>1, <1>2, <1>4, <2>1, TypeFacts DEF EndpointType
<1> HIDE DEF new, e
<1>6. ep' \in [Endpoints -> EndpointType] /\ \A y \in Endpoints : Held(y)' => ep'[y] = new[y]
      BY <1>3, <1>5, CollectType
<1>7. \A j \in Slots : cur[j] # None => cur[j] \in Endpoints BY <1>1, TypeFacts
<1>8. ASSUME NEW j \in Slots, cur[j] # None
      PROVE  /\ ep'[cur[j]].id = ep[cur[j]].id
             /\ ep'[cur[j]].ip = ep[cur[j]].ip
             /\ ep[cur[j]].cancelled => ep'[cur[j]].cancelled
  <2>1. cur[j] \in Endpoints /\ ep'[cur[j]] = new[cur[j]] BY <1>3, <1>6, <1>7, <1>8 DEF Held, work
  <2> QED BY <1>5, <2>1
<1>9. TypeOK'
      BY <1>1, <1>3, <1>6 DEF TypeOK, StoreTypeOK, store, work, past
<1>10. Sedate
      BY <1>3, <1>8 DEF Sedate, Serving, store, work
<1>11. LeaseStates'
      BY <1>1, <1>3, NoneAssumption DEF LeaseStates, Serving, TypeOK, work
<1>12. OnRecord'
      BY <1>1, <1>3 DEF OnRecord, TypeOK, store, past
<1>13. \A d \in Clients : /\ lease'[d] # None => lease'[d] = lease[d]
                          /\ client'[d] = "parked" => client[d] = "parked"
      BY <1>1, <1>3, NoneAssumption DEF TypeOK
<1>14. Ownership' /\ ReservationsExact' /\ Exclusive' /\ NoLostWakeup' /\ RoundRobin'
      BY <1>3, <1>10, <1>13, SedateFrame DEF past
<1> QED BY <1>9, <1>11, <1>12, <1>14 DEF IInv, Core

(* A restart forgets everything but the history, where all that was handed *)
(* out is on record.                                                       *)
LEMMA CrashIInv ==
    ASSUME IInv, Crash
    PROVE  IInv'
<1>1. TypeOK /\ OnRecord BY DEF IInv, Core
<1>2. TypeOK'
      BY <1>1, CountAssumption, ModeAssumption, NoneAssumption
      DEF Crash, TypeOK, StoreTypeOK, FreshSlot, FreshCount, NoEndpoint, Zero, Blank,
          EndpointType, SlotType, Slots
<1>3. /\ \A i \in Slots : /\ cur'[i] = None /\ phase'[i] = "rest"
                          /\ slot'[i].ep = None /\ slot'[i].state = "Starting"
      /\ \A c \in Clients : lease'[c] = None /\ client'[c] \in {"new", "gone"}
      /\ \A a \in IPs : reserved'[a] = None
      BY DEF Crash, FreshSlot, NoEndpoint
<1>4. Ownership' /\ LeaseStates'
      BY <1>3 DEF Ownership, LeaseStates, PublishedIsServed, Serving
<1>5. Exclusive' /\ NoLostWakeup' /\ RoundRobin'
      BY <1>3 DEF Exclusive, LeaseExclusive, NoLostWakeup, RoundRobin, Eligible
<1>6. OnRecord'
      BY <1>1 DEF OnRecord, Crash
<1>7. ReservationsExact'
      BY <1>3, NoneAssumption DEF ReservationsExact, Serving
<1> QED BY <1>2, <1>4, <1>5, <1>6, <1>7 DEF IInv, Core

LEMMA StutterIInv ==
    ASSUME IInv, UNCHANGED vars
    PROVE  IInv'
<1>1. TypeOK'
      BY DEF IInv, Core, vars, store, work, past, TypeOK, StoreTypeOK
<1>2. Ownership' /\ LeaseStates' /\ ReservationsExact'
      BY DEF IInv, Core, vars, store, work, past, Ownership, PublishedIsServed, Serving,
             LeaseStates, ReservationsExact
<1>3. Exclusive' /\ OnRecord' /\ NoLostWakeup' /\ RoundRobin'
      BY DEF IInv, vars, store, work, past, Exclusive, LeaseExclusive, OnRecord,
             NoLostWakeup, RoundRobin, Eligible, Dist
<1> QED BY <1>1, <1>2, <1>3 DEF IInv, Core

----------------------------------------------------------------------------
(* The steps together                                                      *)

LEMMA WorkerIInv ==
    ASSUME IInv, NEW i \in Slots, WorkerStep(i)
    PROVE  IInv'
<1>1. TypeOK BY DEF IInv, Core
<1>2. CASE StartCycle(i) BY <1>2, StartCycleIInv
<1>3. CASE CheckFails(i)
  <2>1. StoreTypeOK' /\ \A a \in IPs : ips[a] = "used" => ips'[a] = "used"
        BY <1>1, <1>3 DEF CheckFails, TypeOK, StoreTypeOK
  <2> QED BY <1>3, <2>1, LeaveIInv DEF CheckFails
<1>4. CASE \E a \in IPs : PublishReady(i, a) \/ PublishRefused(i, a) \/ PublishFails(i, a)
  <2> PICK a \in IPs : PublishReady(i, a) \/ PublishRefused(i, a) \/ PublishFails(i, a)
      BY <1>4
  <2>1. CASE PublishReady(i, a) BY <2>1, PublishReadyIInv
  <2>2. CASE PublishRefused(i, a) \/ PublishFails(i, a)
    <3>1. StoreTypeOK' /\ \A x \in IPs : ips[x] = "used" => ips'[x] = "used"
          BY <1>1, <2>2
          DEF PublishRefused, PublishFails, Observe, ObserveFails, Observed, TypeOK, StoreTypeOK
    <3> QED BY <2>2, <3>1, LeaveIInv DEF PublishRefused, PublishFails
  <2> QED BY <2>1, <2>2
<1>5. CASE DoneSeen(i) \/ Interrupted(i) \/ Drained(i) BY <1>5, AdvanceIInv
<1>6. CASE Judge(i) BY <1>6, JudgeIInv
<1>7. CASE Withdraw(i) BY <1>7, WithdrawIInv
<1>8. CASE NewSession(i) BY <1>8, SessionIInv
<1> QED BY <1>2, <1>3, <1>4, <1>5, <1>6, <1>7, <1>8 DEF WorkerStep

LEMMA AcquireIInv ==
    ASSUME IInv, NEW c \in Clients, AcquireStep(c)
    PROVE  IInv'
<1>1. CASE \E k \in Slots : GrantUnique(c, k) BY <1>1, GrantUniqueIInv
<1>2. CASE \E k \in Slots : GrantReuse(c, k)  BY <1>2, GrantReuseIInv
<1>3. CASE \E k \in Slots : ScanFails(c, k)   BY <1>3, ScanFailsIInv
<1>4. CASE ScanFindsNone(c) BY <1>4, ScanFindsNoneIInv
<1>5. CASE Rescan(c) \/ CountRejected(c) BY <1>5, ClientIInv
<1> QED BY <1>1, <1>2, <1>3, <1>4, <1>5 DEF AcquireStep

LEMMA FinishStepIInv ==
    ASSUME IInv, NEW c \in Clients, FinishStep(c)
    PROVE  IInv'
<1>1. CASE \E ok \in BOOLEAN : FinishUnique(c, ok) BY <1>1, FinishUniqueIInv
<1>2. CASE FinishReuse(c) BY <1>2, FinishReuseIInv
<1>3. CASE FailReuse(c)   BY <1>3, FailReuseIInv
<1>4. CASE CloseDone(c)   BY <1>4, CloseDoneIInv
<1> QED BY <1>1, <1>2, <1>3, <1>4 DEF FinishStep

LEMMA StepIInv == IInv /\ [Next]_vars => IInv'
<1> SUFFICES ASSUME IInv, [Next]_vars PROVE IInv' OBVIOUS
<1>1. CASE \E i \in Slots : WorkerStep(i)  BY <1>1, WorkerIInv
<1>2. CASE \E i \in Slots : CircuitLost(i) BY <1>2, CircuitLostIInv
<1>3. CASE \E c \in Clients : CallAcquire(c) \/ GiveUp(c) \/ ContextEnds(c)
      BY <1>3, ClientIInv
<1>4. CASE \E c \in Clients : AcquireStep(c) BY <1>4, AcquireIInv
<1>5. CASE \E c \in Clients : FinishStep(c)  BY <1>5, FinishStepIInv
<1>6. CASE Crash BY <1>6, CrashIInv
<1>7. CASE UNCHANGED vars BY <1>7, StutterIInv
<1>8. CASE \E i \in Slots : ControlLost(i) BY <1>8, SessionIInv
<1> QED BY <1>1, <1>2, <1>3, <1>4, <1>5, <1>6, <1>7, <1>8 DEF Next

LEMMA Inductive == Spec => []IInv
<1>1. Init => IInv BY InitIInv
<1>2. IInv /\ [Next]_vars => IInv' BY StepIInv
<1> QED BY <1>1, <1>2, PTL DEF Spec

----------------------------------------------------------------------------
(* Theorems                                                                *)

(* Every variable of the scheduler keeps its type (pool.go:51-88).         *)
THEOREM PoolTypes == Spec => []TypeOK
<1>1. IInv => TypeOK BY DEF IInv, Core
<1> QED BY <1>1, Inductive, PTL

(* In unique mode no two calls of Acquire ever hold the same endpoint: the *)
(* grant takes the slot out of the scans (pool.go:244-248) and Finish      *)
(* never puts an old endpoint back.                                        *)
THEOREM OneUserPerCircuit == Spec => []LeaseExclusive
<1>1. IInv => LeaseExclusive BY DEF IInv, Exclusive
<1> QED BY <1>1, Inductive, PTL

(* publish and withdraw keep the reservation table equal to what the       *)
(* workers serve, in every interleaving with late Finish calls and deaths  *)
(* of circuits (pool.go:156-166, 353-365).                                 *)
THEOREM Reservations == Spec => []ReservationsExact
<1>1. IInv => ReservationsExact BY DEF IInv
<1> QED BY <1>1, Inductive, PTL

(* A scan never meets the endpoint of a finished cycle.                    *)
THEOREM NoStaleEndpoint == Spec => []PublishedIsServed
<1>1. IInv => PublishedIsServed BY DEF IInv, Core, Ownership
<1> QED BY <1>1, Inductive, PTL

(* Acquire never sleeps through a wake-up: it takes the channel under the  *)
(* lock of the scan that found nothing (pool.go:183-198).                  *)
THEOREM SleepersAreRight == Spec => []NoLostWakeup
<1>1. IInv => NoLostWakeup BY DEF IInv
<1> QED BY <1>1, Inductive, PTL

(* The rotating start of the scan (pool.go:248, 298) serves every ready    *)
(* instance within N grants, whatever comes and goes in between.           *)
THEOREM FairTurns == Spec => []BoundedBypass
<1>1. IInv => BoundedBypass
  <2> SUFFICES ASSUME IInv, NEW i \in Slots, Eligible(i) PROVE bypass[i] < N
      BY DEF BoundedBypass
  <2>1. bypass[i] + Dist(next, i) < N BY DEF IInv, RoundRobin
  <2>2. next \in Slots /\ bypass[i] \in Nat BY DEF IInv, Core, TypeOK
  <2>3. Dist(next, i) \in Slots BY <2>2, ScanCovers
  <2> QED BY <2>1, <2>2, <2>3, CountAssumption DEF Slots
<1> QED BY <1>1, Inductive, PTL

----------------------------------------------------------------------------
(* A second inductive invariant: what the worker of an instance may rely   *)
(* on while calls hold, finish and fail the endpoint it serves             *)

Riders(e) == {c \in Clients : Leased(c) /\ lease[c] = e}
Leases    == {c \in Clients : Leased(c)}

Closing(e)  == \E c \in Clients : client[c] = "closing" /\ lease[c] = e
OnOffer(i)  == slot[i].ep = cur[i] /\ slot[i].state = "Ready"

(* NoInstanceLost at one instance.                                         *)
Occupied(i) ==
    phase[i] = "serve" /\ ~ ep[cur[i]].done /\ ~ Closing(cur[i]) =>
        /\ slot[i].ep = cur[i]
        /\ \/ slot[i].state = "Ready"
           \/ slot[i].state = "Busy" /\ \E c \in Clients : Leased(c) /\ lease[c] = cur[i]

(* done is closed while a circuit serves, by the call that had it; from    *)
(* the result of that call on the endpoint is not offered again.           *)
DoneWhenServed(i) ==
    /\ phase[i] = "check" => ~ ep[cur[i]].done
    /\ phase[i] \in {"judge", "drain"} => ep[cur[i]].done
    /\ Serving(i) /\ (ep[cur[i]].done \/ Closing(cur[i])) => ~ OnOffer(i)

(* A worker withdraws a circuit that is gone, or one that is done with: in *)
(* unique mode its only lease is, in reuse mode all of them are.           *)
DoneWith(i) ==
    /\ phase[i] = "withdraw" =>
           Cut(i) \/ (ep[cur[i]].done /\ (unique \/ ep[cur[i]].active = 0))
    /\ unique /\ Serving(i) /\ ep[cur[i]].done =>
           \A c \in Clients : Leased(c) => lease[c] # cur[i]

Tallied(i) == ~ unique /\ cur[i] # None => ep[cur[i]].active = Cardinality(Riders(cur[i]))

ServiceAt(i) ==
    /\ slot[i].state = "Busy" => unique
    /\ Occupied(i)
    /\ DoneWhenServed(i)
    /\ DoneWith(i)
    /\ Tallied(i)

(* Finitely many calls hold a lease at any moment, however many are made.  *)
Books == /\ IsFiniteSet(Leases)
         /\ count.requests = count.completed + count.failed + Cardinality(Leases)

JInv == IInv /\ Books /\ \A i \in Slots : ServiceAt(i)

----------------------------------------------------------------------------
(* What leaves an instance alone                                           *)

LEMMA RidersFinite ==
    ASSUME IsFiniteSet(Leases), NEW e
    PROVE  IsFiniteSet(Riders(e)) /\ Cardinality(Riders(e)) \in Nat
<1>1. Riders(e) \in SUBSET Leases BY DEF Riders, Leases
<1> QED BY <1>1, FS_Subset, FS_CardinalityType

(* The leases on an endpoint and the results on their way are the same.    *)
SameCalls(e) ==
    \A c \in Clients : /\ (Leased(c) /\ lease[c] = e)' <=> Leased(c) /\ lease[c] = e
                       /\ (client[c] = "closing" /\ lease[c] = e)'
                            <=> client[c] = "closing" /\ lease[c] = e

SameSlot(i) == slot'[i].ep = slot[i].ep /\ slot'[i].state = slot[i].state

SameService(e) == /\ ep'[e].done = ep[e].done
                  /\ ep'[e].active = ep[e].active
                  /\ ep[e].cancelled => ep'[e].cancelled

(* An instance whose worker, slot, endpoint and calls are left alone.      *)
Alone(i) ==
    /\ unique' = unique
    /\ phase'[i] = phase[i] /\ cur'[i] = cur[i]
    /\ SameSlot(i)
    /\ phase[i] # "rest" => (lost[i] => lost'[i])
    /\ cur[i] # None => SameService(cur[i]) /\ SameCalls(cur[i])

LEMMA SameRiders ==
    ASSUME NEW e, SameCalls(e)
    PROVE  Riders(e)' = Riders(e) /\ Closing(e)' = Closing(e)
BY DEF SameCalls, Riders, Closing

LEMMA LeftAlone ==
    ASSUME Core, NEW i \in Slots, ServiceAt(i), Alone(i)
    PROVE  ServiceAt(i)'
<1> USE DEF Alone, SameSlot
<1>1. (slot[i].state = "Busy" => unique)' BY DEF ServiceAt
<1>2. cur[i] = None <=> phase[i] = "rest" BY DEF Core, Ownership
<1>3. CASE cur[i] = None
      BY <1>1, <1>2, <1>3 DEF ServiceAt, Occupied, DoneWhenServed, DoneWith, Tallied, Serving
<1>4. CASE cur[i] # None
  <2> PICK e : e = cur[i] OBVIOUS
  <2>a. SameService(e) /\ SameCalls(e) /\ cur'[i] = e
        BY <1>4 DEF SameService, SameCalls
  <2>b. Riders(e)' = Riders(e) /\ Closing(e)' = Closing(e) BY <2>a, SameRiders
  <2>1. /\ SameService(e) /\ SameCalls(e) /\ cur'[i] = e
        /\ Riders(e)' = Riders(e) /\ (Closing(e)' <=> Closing(e))
        BY <2>a, <2>b
  <2>2. Occupied(i)' BY <2>1 DEF ServiceAt, Occupied, SameService, SameCalls, Closing
  <2>3. DoneWhenServed(i)'
        BY <2>1 DEF ServiceAt, DoneWhenServed, SameService, OnOffer, Serving, Closing
  <2>4. DoneWith(i)' BY <1>2, <2>1 DEF ServiceAt, DoneWith, SameService, SameCalls, Serving, Cut
  <2>5. Tallied(i)' BY <2>1 DEF ServiceAt, Tallied, SameService
  <2> QED BY <1>1, <2>2, <2>3, <2>4, <2>5 DEF ServiceAt
<1> QED BY <1>3, <1>4

(* Steps that give and take no lease keep the books.                       *)
LEMMA SameBooks ==
    ASSUME Books, \A c \in Clients : Leased(c)' <=> Leased(c),
           UNCHANGED <<count.requests, count.completed, count.failed>>
    PROVE  Books'
<1>1. Leases' = Leases BY DEF Leases
<1> QED BY <1>1 DEF Books

LEMMA AllAlone ==
    ASSUME JInv, IInv', Books', \A i \in Slots : Alone(i)
    PROVE  JInv'
BY LeftAlone DEF JInv, IInv

LEMMA CancelKeeps ==
    ASSUME TypeOK, NEW E, NEW e \in Endpoints
    PROVE  /\ Cancel(E)[e].done = ep[e].done /\ Cancel(E)[e].active = ep[e].active
           /\ ep[e].cancelled => Cancel(E)[e].cancelled
<1>1. Cancel(E)[e] = [ep[e] EXCEPT !.cancelled = IF e \in E THEN TRUE ELSE @] BY DEF Cancel
<1>2. ep[e] \in EndpointType BY TypeFacts
<1>3. CASE e \in E BY <1>1, <1>2, <1>3 DEF EndpointType
<1>4. CASE e \notin E BY <1>1, <1>2, <1>4 DEF EndpointType
<1> QED BY <1>3, <1>4

(* Contexts that end, control connections that go, and calls that neither  *)
(* get a lease nor finish one.                                             *)
LEMMA Bystanders ==
    ASSUME JInv, IInv',
           UNCHANGED <<unique, slot, phase, cur, count.requests, count.completed, count.failed>>,
           \A i \in Slots : phase[i] # "rest" => (lost[i] => lost'[i]),
           \A e \in Endpoints : SameService(e),
           \A c \in Clients : /\ Leased(c)' <=> Leased(c)
                              /\ client'[c] = "closing" <=> client[c] = "closing"
                              /\ lease'[c] = lease[c]
    PROVE  JInv'
<1>1. TypeOK /\ Books BY DEF JInv, IInv, Core
<1>2. Books' BY <1>1, SameBooks
<1>3. ASSUME NEW i \in Slots PROVE Alone(i)
  <2>1. cur[i] # None => SameService(cur[i]) BY <1>1, TypeFacts DEF SameService
  <2>2. SameCalls(cur[i]) BY DEF SameCalls
  <2> QED BY <2>1, <2>2 DEF Alone, SameSlot
<1> QED BY <1>2, <1>3, AllAlone

LEMMA CircuitLostJInv ==
    ASSUME JInv, NEW i \in Slots, CircuitLost(i)
    PROVE  JInv'
<1>1. TypeOK /\ IInv /\ IInv' BY CircuitLostIInv DEF JInv, IInv, Core
<1>2. cur[i] \in Endpoints BY <1>1, TypeFacts DEF CircuitLost
<1>3. \A e \in Endpoints : SameService(e)
      BY <1>1, <1>2, TypeFacts DEF CircuitLost, SameService, EndpointType
<1> QED BY <1>1, <1>3, Bystanders DEF CircuitLost, Leased, store, work

LEMMA SessionJInv ==
    ASSUME JInv, NEW i \in Slots, ControlLost(i) \/ NewSession(i)
    PROVE  JInv'
<1>1. TypeOK /\ IInv /\ IInv' BY SessionIInv DEF JInv, IInv, Core
<1>2. \A j \in Slots : phase[j] # "rest" => (lost[j] => lost'[j])
      BY <1>1 DEF ControlLost, NewSession, TypeOK
<1>3. \A e \in Endpoints : SameService(e) BY DEF ControlLost, NewSession, SameService
<1> QED BY <1>1, <1>2, <1>3, Bystanders DEF ControlLost, NewSession, Leased, store

LEMMA ClientJInv ==
    ASSUME JInv, NEW c \in Clients,
           \/ CallAcquire(c) \/ Rescan(c) \/ GiveUp(c) \/ ContextEnds(c) \/ CountRejected(c)
    PROVE  JInv'
<1>1. TypeOK /\ IInv /\ IInv' BY ClientIInv DEF JInv, IInv, Core
<1>2. UNCHANGED <<unique, slot, ep, work, lease>>
      BY DEF CallAcquire, Rescan, GiveUp, TimerFires, DeadlinePassed, ContextEnds, CountRejected,
             Move, store
<1>3. UNCHANGED <<count.requests, count.completed, count.failed>>
  <2>1. CASE CountRejected(c) BY <1>1, <2>1 DEF CountRejected, TypeOK
  <2>2. CASE ~ CountRejected(c)
        BY <2>2 DEF CallAcquire, Rescan, GiveUp, TimerFires, DeadlinePassed, ContextEnds, Move
  <2> QED BY <2>1, <2>2
<1>4. PICK to \in {"scan", "final", "rejecting", "gone"} :
         /\ client[c] \in {"new", "scan", "parked", "woken", "final", "rejecting"}
         /\ client' = [client EXCEPT ![c] = to]
      BY DEF CallAcquire, Rescan, GiveUp, TimerFires, DeadlinePassed, ContextEnds, CountRejected,
             Move, Waiting
<1>5. \A d \in Clients : /\ Leased(d)' <=> Leased(d)
                         /\ client'[d] = "closing" <=> client[d] = "closing"
      BY <1>1, <1>4 DEF Leased, TypeOK
<1>6. \A e \in Endpoints : SameService(e) BY <1>2 DEF SameService
<1> QED BY <1>1, <1>2, <1>3, <1>5, <1>6, Bystanders DEF work

LEMMA ScanJInv ==
    ASSUME JInv, NEW c \in Clients,
           ScanFindsNone(c) \/ \E k \in Slots : ScanFails(c, k)
    PROVE  JInv'
<1>1. TypeOK /\ IInv /\ IInv' BY ScanFailsIInv, ScanFindsNoneIInv DEF JInv, IInv, Core
<1>2. \E k : ep' = Cancel(Passed(k)) BY DEF ScanFindsNone, ScanFails
<1>3. \A e \in Endpoints : SameService(e) BY <1>1, <1>2, CancelKeeps DEF SameService
<1>4. \A d \in Clients : /\ Leased(d)' <=> Leased(d)
                         /\ client'[d] = "closing" <=> client[d] = "closing"
      BY <1>1 DEF ScanFindsNone, ScanFails, Scanning, AfterEmptyScan, Leased, TypeOK
<1> QED BY <1>1, <1>3, <1>4, Bystanders DEF ScanFindsNone, ScanFails, work, store

(* The steps of a worker: the calls keep what they have, and the other     *)
(* instances are left alone.                                               *)
LEMMA WorkerMoves ==
    ASSUME JInv, IInv', NEW i \in Slots, ServiceAt(i)',
           UNCHANGED <<unique, count, lease>>,
           \A c \in Clients : /\ Leased(c)' <=> Leased(c)
                              /\ client'[c] = "closing" <=> client[c] = "closing",
           \A j \in Slots : j # i => /\ phase'[j] = phase[j] /\ cur'[j] = cur[j]
                                     /\ SameSlot(j) /\ lost'[j] = lost[j]
                                     /\ cur[j] # None => SameService(cur[j])
    PROVE  JInv'
<1>1. Core /\ Books BY DEF JInv, IInv
<1>2. Books' BY <1>1, SameBooks
<1>3. ASSUME NEW j \in Slots, j # i PROVE ServiceAt(j)'
  <2>1. SameCalls(cur[j]) BY <1>3 DEF SameCalls
  <2>2. Alone(j) BY <1>3, <2>1 DEF Alone
  <2> QED BY <1>1, <2>2, LeftAlone DEF JInv
<1> QED BY <1>2, <1>3 DEF JInv

(* A worker at rest has nothing to answer for.                             *)
LEMMA AtRest ==
    ASSUME NEW i \in Slots, phase'[i] = "rest", cur'[i] = None,
           slot'[i].state = "Busy" => unique'
    PROVE  ServiceAt(i)'
BY DEF ServiceAt, Occupied, DoneWhenServed, DoneWith, Tallied, Serving

LEMMA StartCycleJInv ==
    ASSUME JInv, NEW i \in Slots, StartCycle(i)
    PROVE  JInv'
<1> USE DEF store, work, past
<1>1. TypeOK /\ Ownership /\ IInv /\ IInv' BY StartCycleIInv DEF JInv, IInv, Core
<1>2. PICK e \in Endpoints : /\ ~ Held(e)
                             /\ cur' = [cur EXCEPT ![i] = e]
                             /\ ep' = [ep EXCEPT ![e] = [Blank EXCEPT !.id = i]]
      BY DEF StartCycle
<1>3. /\ cur'[i] = e /\ phase'[i] = "check" /\ slot'[i].state = "Checking"
      /\ ~ ep'[e].done /\ ep'[e].active = 0
      /\ \A c \in Clients : lease[c] # e
      BY <1>1, <1>2, TypeFacts DEF StartCycle, Held, TypeOK, SlotType, Blank
<1>4. ServiceAt(i)'
  <2>1. Riders(e)' = {} BY <1>3 DEF Riders, StartCycle
  <2>2. Tallied(i)' BY <1>3, <2>1, FS_EmptySet DEF Tallied
  <2> QED BY <1>3, <2>2 DEF ServiceAt, Occupied, DoneWhenServed, DoneWith, Serving
<1>5. ASSUME NEW j \in Slots, j # i
      PROVE  /\ phase'[j] = phase[j] /\ cur'[j] = cur[j] /\ SameSlot(j)
             /\ cur[j] # None => SameService(cur[j])
  <2>1. cur[j] # e BY <1>2 DEF Held
  <2> QED BY <1>1, <1>2, <1>5, <2>1, TypeFacts DEF StartCycle, SameSlot, SameService, TypeOK
<1> QED BY <1>1, <1>4, <1>5, WorkerMoves DEF StartCycle, Leased

LEMMA LeaveJInv ==
    ASSUME JInv, IInv', NEW i \in Slots, LeaveUnpublished(i)
    PROVE  JInv'
<1> USE DEF store, work, past
<1>1. TypeOK /\ Ownership BY DEF JInv, IInv, Core
<1>2. ServiceAt(i)'
      BY <1>1, AtRest DEF LeaveUnpublished, TypeOK, JInv, ServiceAt
<1>3. \A e \in Endpoints : Held(e)' => ep'[e] = ep[e]
      BY <1>1, CollectType DEF LeaveUnpublished, TypeOK
<1>4. ASSUME NEW j \in Slots, j # i
      PROVE  /\ phase'[j] = phase[j] /\ cur'[j] = cur[j] /\ SameSlot(j)
             /\ cur[j] # None => SameService(cur[j])
  <2>1. phase'[j] = phase[j] /\ cur'[j] = cur[j] /\ SameSlot(j)
        BY <1>1, <1>4 DEF LeaveUnpublished, TypeOK, SameSlot
  <2>2. cur[j] # None => cur[j] \in Endpoints /\ Held(cur[j])'
        BY <1>1, <2>1, TypeFacts DEF Held
  <2> QED BY <1>3, <2>1, <2>2 DEF SameService
<1> QED BY <1>2, <1>4, WorkerMoves DEF LeaveUnpublished, Leased

LEMMA PublishReadyJInv ==
    ASSUME JInv, NEW i \in Slots, NEW a \in IPs, PublishReady(i, a)
    PROVE  JInv'
<1> USE DEF store, work, past
<1>1. TypeOK /\ Ownership /\ LeaseStates /\ IInv /\ IInv' /\ ServiceAt(i)
      BY PublishReadyIInv DEF JInv, IInv, Core
<1>2. PICK e : e = cur[i] OBVIOUS
<1>3. /\ phase[i] = "check" /\ phase'[i] = "serve" /\ cur'[i] = e
      /\ e \in Endpoints /\ \A c \in Clients : lease'[c] # e
      BY <1>1, <1>2 DEF PublishReady, Ownership, LeaseStates, Serving, TypeOK
<1>4. slot'[i].ep = e /\ slot'[i].state = "Ready" /\ \A j \in Slots : j # i => slot'[j] = slot[j]
      BY <1>1, <1>2, TypeFacts DEF PublishReady, SlotType
<1>5. /\ ep'[e].done = ep[e].done /\ ep'[e].active = ep[e].active
      /\ \A x \in Endpoints : x # e => ep'[x] = ep[x]
      BY <1>1, <1>2, <1>3, TypeFacts DEF PublishReady, EndpointType
<1>6. \A c \in Clients : /\ Leased(c)' <=> Leased(c)
                         /\ client'[c] = "closing" <=> client[c] = "closing"
      BY <1>1 DEF PublishReady, Broadcast, Leased, TypeOK
<1>7. ~ ep'[e].done BY <1>1, <1>2, <1>3, <1>5 DEF ServiceAt, DoneWhenServed
<1>8. ServiceAt(i)'
  <2>1. Riders(e)' = Riders(e) BY <1>6 DEF Riders, PublishReady
  <2>2. Tallied(i)' BY <1>1, <1>2, <1>3, <1>5, <2>1 DEF ServiceAt, Tallied, PublishReady
  <2>3. Occupied(i)' BY <1>3, <1>4 DEF Occupied
  <2>4. DoneWhenServed(i)' BY <1>3, <1>7 DEF DoneWhenServed, Closing
  <2>5. DoneWith(i)' BY <1>3, <1>7 DEF DoneWith
  <2> QED BY <1>4, <2>2, <2>3, <2>4, <2>5 DEF ServiceAt
<1>9. ASSUME NEW j \in Slots, j # i
      PROVE  /\ phase'[j] = phase[j] /\ cur'[j] = cur[j] /\ SameSlot(j)
             /\ cur[j] # None => SameService(cur[j])
  <2>1. cur[j] # None => cur[j] # e /\ cur[j] \in Endpoints
        BY <1>1, <1>2, <1>9, TypeFacts DEF Ownership
  <2> QED BY <1>1, <1>4, <1>5, <1>9, <2>1 DEF PublishReady, SameSlot, SameService, TypeOK
<1> QED BY <1>1, <1>6, <1>8, <1>9, WorkerMoves DEF PublishReady

(* DoneSeen, Interrupted, Judge, Drained: the worker goes on and nothing   *)
(* else changes, so only what it may rely on next is to be shown.          *)
LEMMA PhaseJInv ==
    ASSUME JInv, IInv', NEW i \in Slots, NEW to \in {"judge", "drain", "withdraw"},
           Serving(i),
           phase' = [phase EXCEPT ![i] = to],
           UNCHANGED <<unique, slot, count, ep, cur, lost, client, lease>>,
           to \in {"judge", "drain"} => ep[cur[i]].done,
           to = "withdraw" => \/ Cut(i)
                              \/ ep[cur[i]].done /\ (unique \/ ep[cur[i]].active = 0)
    PROVE  JInv'
<1>1. TypeOK /\ ServiceAt(i) BY DEF JInv, IInv, Core
<1>2. phase'[i] = to /\ \A j \in Slots : j # i => phase'[j] = phase[j]
      BY <1>1 DEF TypeOK
<1>3. ServiceAt(i)'
  <2>1. Serving(i)' /\ Occupied(i)' BY <1>2 DEF Serving, Occupied
  <2>2. DoneWhenServed(i)'
        BY <1>1, <1>2, <2>1 DEF ServiceAt, DoneWhenServed, OnOffer, Closing
  <2>3. DoneWith(i)' BY <1>1, <1>2 DEF ServiceAt, DoneWith, Cut, Leased
  <2>4. Tallied(i)' BY <1>1 DEF ServiceAt, Tallied, Riders, Leased
  <2> QED BY <1>1, <2>1, <2>2, <2>3, <2>4 DEF ServiceAt
<1> QED BY <1>2, <1>3, WorkerMoves DEF SameSlot, SameService, Leased

LEMMA AdvanceJInv ==
    ASSUME JInv, NEW i \in Slots,
           DoneSeen(i) \/ Interrupted(i) \/ Drained(i) \/ Judge(i)
    PROVE  JInv'
<1> USE DEF store, work
<1>1. IInv /\ IInv' /\ ServiceAt(i) BY AdvanceIInv, JudgeIInv DEF JInv
<1>2. CASE DoneSeen(i)
      BY <1>1, <1>2, PhaseJInv DEF DoneSeen, Advance, Serving
<1>3. CASE Interrupted(i)
      BY <1>1, <1>3, PhaseJInv DEF Interrupted, Advance, Serving
<1>4. CASE Drained(i)
  <2>1. ep[cur[i]].done BY <1>1, <1>4 DEF Drained, Advance, ServiceAt, DoneWhenServed
  <2> QED BY <1>1, <1>4, <2>1, PhaseJInv DEF Drained, Advance, Serving, DrainOver
<1>5. CASE Judge(i)
  <2>1. ep[cur[i]].done BY <1>1, <1>5 DEF Judge, ServiceAt, DoneWhenServed
  <2>2. CASE unique BY <1>1, <1>5, <2>1, <2>2, PhaseJInv DEF Judge, Serving
  <2>3. CASE ~ unique BY <1>1, <1>5, <2>1, <2>3, PhaseJInv DEF Judge, Serving
  <2> QED BY <2>2, <2>3
<1> QED BY <1>2, <1>3, <1>4, <1>5

LEMMA WithdrawJInv ==
    ASSUME JInv, NEW i \in Slots, Withdraw(i)
    PROVE  JInv'
<1> USE DEF store, work, past
<1> DEFINE new == [ep EXCEPT ![cur[i]].cancelled = TRUE]
<1>1. TypeOK /\ Ownership /\ ServiceAt(i) /\ IInv /\ IInv'
      BY WithdrawIInv DEF JInv, IInv, Core
<1>2. cur[i] \in Endpoints BY <1>1, TypeFacts DEF Withdraw, Ownership
<1>3. /\ new \in [Endpoints -> EndpointType]
      /\ \A x \in Endpoints : x # cur[i] => new[x] = ep[x]
      BY <1>1, <1>2, TypeFacts, FieldTypes
<1>4. \A x \in Endpoints : Held(x)' => ep'[x] = new[x]
      BY <1>3, CollectType DEF Withdraw
<1>5. /\ slot'[i].state = "Busy" => slot[i].state = "Busy"
      /\ \A j \in Slots : j # i => slot'[j] = slot[j]
      BY <1>1, TypeFacts DEF Withdraw, Unpublish, SlotType
<1>6. ServiceAt(i)'
      BY <1>1, <1>5, AtRest DEF Withdraw, TypeOK, ServiceAt
<1>7. ASSUME NEW j \in Slots, j # i
      PROVE  /\ phase'[j] = phase[j] /\ cur'[j] = cur[j] /\ SameSlot(j)
             /\ cur[j] # None => SameService(cur[j])
  <2>1. phase'[j] = phase[j] /\ cur'[j] = cur[j] /\ SameSlot(j)
        BY <1>1, <1>5, <1>7 DEF Withdraw, TypeOK, SameSlot
  <2>2. cur[j] # None => cur[j] \in Endpoints /\ cur[j] # cur[i] /\ Held(cur[j])'
        BY <1>1, <1>7, <2>1, TypeFacts DEF Held, Ownership
  <2> QED BY <1>3, <1>4, <2>1, <2>2 DEF SameService
<1> QED BY <1>1, <1>6, <1>7, WorkerMoves DEF Withdraw, Leased

LEMMA WorkerJInv ==
    ASSUME JInv, NEW i \in Slots, WorkerStep(i)
    PROVE  JInv'
<1>1. IInv' BY WorkerIInv DEF JInv
<1>2. CASE StartCycle(i) BY <1>2, StartCycleJInv
<1>3. CASE CheckFails(i) BY <1>1, <1>3, LeaveJInv DEF CheckFails
<1>4. CASE \E a \in IPs : PublishReady(i, a) BY <1>4, PublishReadyJInv
<1>5. CASE \E a \in IPs : PublishRefused(i, a) \/ PublishFails(i, a)
      BY <1>1, <1>5, LeaveJInv DEF PublishRefused, PublishFails
<1>6. CASE DoneSeen(i) \/ Interrupted(i) \/ Drained(i) \/ Judge(i) BY <1>6, AdvanceJInv
<1>7. CASE Withdraw(i) BY <1>7, WithdrawJInv
<1>8. CASE NewSession(i) BY <1>8, SessionJInv
<1> QED BY <1>2, <1>3, <1>4, <1>5, <1>6, <1>7, <1>8 DEF WorkerStep

(* A grant: the call joins the riders of the endpoint on offer at slot i,  *)
(* which nobody is done with.                                              *)
LEMMA Granted ==
    ASSUME JInv, NEW c \in Clients, NEW k \in Slots, NEW guarded, Assign(c, k, guarded)
    PROVE  LET i == SlotAt(k) IN
           /\ i \in Slots /\ cur[i] \in Endpoints
           /\ slot[i].ep = cur[i] /\ slot[i].state = "Ready"
           /\ Serving(i) /\ ~ ep[cur[i]].done /\ ~ Closing(cur[i])
           /\ client'[c] = "leased" /\ lease'[c] = cur[i]
           /\ client[c] \in {"scan", "final"} /\ lease[c] = None
           /\ \A d \in Clients : d # c => client'[d] = client[d] /\ lease'[d] = lease[d]
           /\ UNCHANGED <<unique, work>>
<1> DEFINE i == SlotAt(k)
<1>1. TypeOK /\ Ownership /\ LeaseStates BY DEF JInv, IInv, Core
<1>2. i \in Slots BY <1>1, SlotAtType DEF TypeOK
<1>3. slot[i].ep # None /\ slot[i].state = "Ready" BY DEF Assign, Eligible
<1>4. Serving(i) /\ slot[i].ep = cur[i] /\ cur[i] \in Endpoints
      BY <1>1, <1>2, <1>3, TypeFacts DEF Ownership, PublishedIsServed
<1>5. ~ ep[cur[i]].done /\ ~ Closing(cur[i])
  <2>1. ServiceAt(i) BY <1>2 DEF JInv
  <2> QED BY <1>3, <1>4, <2>1 DEF ServiceAt, DoneWhenServed, OnOffer
<1>6. client[c] \in {"scan", "final"} /\ lease[c] = None
      BY <1>1 DEF Assign, Scanning, LeaseStates
<1>7. /\ client'[c] = "leased" /\ lease'[c] = cur[i]
      /\ \A d \in Clients : d # c => client'[d] = client[d] /\ lease'[d] = lease[d]
      BY <1>1, <1>4 DEF Assign, TypeOK
<1>8. UNCHANGED <<unique, work>> BY DEF Assign
<1> HIDE DEF i
<1> QED BY <1>2, <1>3, <1>4, <1>5, <1>6, <1>7, <1>8 DEF i

LEMMA GrantBooks ==
    ASSUME JInv, NEW c \in Clients, NEW k \in Slots, NEW guarded, Assign(c, k, guarded)
    PROVE  Books'
<1>1. TypeOK /\ Books BY DEF JInv, IInv, Core
<1>2. c \notin Leases /\ Leases' = Leases \union {c}
      BY Granted DEF Leases, Leased
<1>3. /\ IsFiniteSet(Leases') /\ Cardinality(Leases') = Cardinality(Leases) + 1
      /\ Cardinality(Leases) \in Nat
      BY <1>1, <1>2, FS_AddElement, FS_CardinalityType DEF Books
<1>4. /\ count'.requests = count.requests + 1
      /\ count'.completed = count.completed /\ count'.failed = count.failed
      /\ count.requests \in Nat /\ count.completed \in Nat /\ count.failed \in Nat
      BY <1>1 DEF Assign, TypeOK
<1> QED BY <1>1, <1>3, <1>4 DEF Books

LEMMA GrantJInv ==
    ASSUME JInv, IInv', NEW c \in Clients, NEW k \in Slots, NEW guarded, Assign(c, k, guarded),
           NEW i, i = SlotAt(k), ServiceAt(i)',
           \A j \in Slots : j # i => SameSlot(j),
           \A e \in Endpoints : e # cur[i] => SameService(e)
    PROVE  JInv'
<1>1. Core BY DEF JInv, IInv
<1>2. /\ i \in Slots /\ cur[i] \in Endpoints
      /\ client'[c] = "leased" /\ lease'[c] = cur[i]
      /\ client[c] \in {"scan", "final"} /\ lease[c] = None
      /\ \A d \in Clients : d # c => client'[d] = client[d] /\ lease'[d] = lease[d]
      /\ UNCHANGED <<unique, work>>
      BY Granted
<1>3. ASSUME NEW j \in Slots, j # i PROVE ServiceAt(j)'
  <2>1. cur[j] # None => cur[j] # cur[i] /\ cur[j] \in Endpoints
        BY <1>1, <1>2, <1>3, TypeFacts DEF Core, Ownership
  <2>2. cur[j] # None => SameService(cur[j]) BY <2>1 DEF SameService
  <2>3. cur[j] # None => SameCalls(cur[j]) BY <1>2, <2>1 DEF SameCalls, Leased, work
  <2>4. Alone(j) BY <1>2, <1>3, <2>2, <2>3 DEF Alone, work
  <2> QED BY <1>1, <2>4, LeftAlone DEF JInv
<1> QED BY <1>3, GrantBooks DEF JInv

(* Unique mode: the slot is Busy with the one call.                        *)
LEMMA GrantUniqueJInv ==
    ASSUME JInv, NEW c \in Clients, NEW k \in Slots, GrantUnique(c, k)
    PROVE  JInv'
<1>1. PICK i : i = SlotAt(k) OBVIOUS
<1>2. Assign(c, k, TRUE) /\ unique BY DEF GrantUnique
<1>3. TypeOK /\ IInv /\ IInv' BY GrantUniqueIInv DEF JInv, IInv, Core
<1>4. /\ i \in Slots /\ cur[i] \in Endpoints
      /\ slot[i].ep = cur[i] /\ slot[i].state = "Ready"
      /\ Serving(i) /\ ~ ep[cur[i]].done
      /\ client'[c] = "leased" /\ lease'[c] = cur[i]
      /\ UNCHANGED <<unique, work>>
      BY <1>1, <1>2, Granted
<1>5. /\ slot'[i].ep = slot[i].ep /\ slot'[i].state = "Busy"
      /\ \A j \in Slots : j # i => slot'[j] = slot[j]
      BY <1>1, <1>3, <1>4, TypeFacts DEF GrantUnique, SlotType
<1>6. \A e \in Endpoints : SameService(e)
      BY <1>3, CancelKeeps DEF GrantUnique, SameService
<1>7. ServiceAt(i)'
  <2>1. Occupied(i)' BY <1>4, <1>5 DEF Occupied, Leased, work
  <2>2. DoneWhenServed(i)'
    <3>1. ~ OnOffer(i)' BY <1>5 DEF OnOffer
    <3>2. ServiceAt(i) BY <1>4 DEF JInv
    <3> QED BY <1>4, <1>6, <3>1, <3>2 DEF DoneWhenServed, ServiceAt, SameService, work
  <2>3. DoneWith(i)'
    <3>1. ServiceAt(i) BY <1>4 DEF JInv
    <3> QED BY <1>4, <1>6, <3>1 DEF DoneWith, ServiceAt, SameService, Cut, work
  <2>4. Tallied(i)' BY <1>2, <1>4 DEF Tallied
  <2> QED BY <1>2, <1>4, <2>1, <2>2, <2>3, <2>4 DEF ServiceAt
<1> QED BY <1>1, <1>2, <1>3, <1>5, <1>6, <1>7, GrantJInv DEF SameSlot

(* Reuse mode: the endpoint stays on offer and counts one lease more.      *)
LEMMA GrantReuseJInv ==
    ASSUME JInv, NEW c \in Clients, NEW k \in Slots, GrantReuse(c, k)
    PROVE  JInv'
<1>1. PICK i : i = SlotAt(k) OBVIOUS
<1>2. Assign(c, k, FALSE) /\ ~ unique /\ slot' = slot BY DEF GrantReuse, ReuseMode
<1>3. TypeOK /\ Books /\ IInv /\ IInv' BY GrantReuseIInv DEF JInv, IInv, Core
<1>4. /\ i \in Slots /\ cur[i] \in Endpoints
      /\ slot[i].ep = cur[i] /\ slot[i].state = "Ready"
      /\ Serving(i) /\ ~ ep[cur[i]].done /\ ~ Closing(cur[i])
      /\ client'[c] = "leased" /\ lease'[c] = cur[i]
      /\ client[c] \in {"scan", "final"} /\ lease[c] = None
      /\ \A d \in Clients : d # c => client'[d] = client[d] /\ lease'[d] = lease[d]
      /\ UNCHANGED <<unique, work>>
      BY <1>1, <1>2, Granted
<1>5. PICK e : e = cur[i] OBVIOUS
<1>6. /\ ep'[e].done = ep[e].done /\ ep'[e].active = ep[e].active + 1
      /\ ep[e].cancelled => ep'[e].cancelled
      /\ \A x \in Endpoints : x # e => SameService(x)
  <2> DEFINE old == Cancel(Passed(k))
  <2>1. old \in [Endpoints -> EndpointType] BY <1>3, CancelType
  <2>2. \A x \in Endpoints : /\ old[x].done = ep[x].done /\ old[x].active = ep[x].active
                             /\ ep[x].cancelled => old[x].cancelled
        BY <1>3, CancelKeeps
  <2>3. ep' = [old EXCEPT ![e] = [old[e] EXCEPT !.active = old[e].active + 1]]
        BY <1>1, <1>4, <1>5 DEF GrantReuse
  <2> HIDE DEF old
  <2> QED BY <1>4, <1>5, <2>1, <2>2, <2>3 DEF SameService, EndpointType
<1>7. ServiceAt(i)'
  <2>0. ServiceAt(i) BY <1>4 DEF JInv
  <2>1. Occupied(i)' BY <1>2, <1>4 DEF Occupied, work
  <2>2. DoneWhenServed(i)'
    <3>1. ~ Closing(e)' BY <1>4, <1>5 DEF Closing
    <3> QED BY <1>4, <1>5, <1>6, <2>0, <3>1 DEF DoneWhenServed, ServiceAt, Serving, work
  <2>3. DoneWith(i)'
        BY <1>2, <1>4, <1>5, <1>6, <2>0 DEF DoneWith, ServiceAt, Cut, work
  <2>4. Tallied(i)'
    <3>1. c \notin Riders(e) /\ Riders(e)' = Riders(e) \union {c}
          BY <1>4, <1>5 DEF Riders, Leased
    <3>2. IsFiniteSet(Riders(e)) /\ Cardinality(Riders(e)') = Cardinality(Riders(e)) + 1
          BY <1>3, <3>1, RidersFinite, FS_AddElement DEF Books
    <3>3. ep[e].active = Cardinality(Riders(e))
          BY <1>2, <1>4, <1>5, <2>0, NoneAssumption DEF ServiceAt, Tallied
    <3> QED BY <1>4, <1>5, <1>6, <3>2, <3>3 DEF Tallied, work
  <2> QED BY <1>2, <1>4, <2>0, <2>1, <2>2, <2>3, <2>4 DEF ServiceAt
<1> QED BY <1>1, <1>2, <1>3, <1>5, <1>6, <1>7, GrantJInv DEF SameSlot

----------------------------------------------------------------------------
(* The end of a lease                                                      *)

LEMMA FinishBooks ==
    ASSUME JInv, NEW c \in Clients, Leased(c), NEW ok \in BOOLEAN, CountResult(ok),
           client'[c] # "leased", \A d \in Clients : d # c => client'[d] = client[d]
    PROVE  Books'
<1>1. TypeOK /\ Books BY DEF JInv, IInv, Core
<1>2. c \in Leases /\ Leases' = Leases \ {c} BY DEF Leases, Leased
<1>3. /\ IsFiniteSet(Leases') /\ Cardinality(Leases') = Cardinality(Leases) - 1
      /\ Cardinality(Leases) \in Nat
      BY <1>1, <1>2, FS_RemoveElement, FS_CardinalityType DEF Books
<1>4. /\ count'.requests = count.requests
      /\ count'.completed + count'.failed = count.completed + count.failed + 1
      /\ count.requests \in Nat /\ count.completed \in Nat /\ count.failed \in Nat
      /\ count'.completed \in Nat /\ count'.failed \in Nat
  <2>1. count \in [requests : Nat, completed : Nat, failed : Nat, rejected : Nat]
        BY <1>1 DEF TypeOK
  <2>2. CASE ok BY <2>1, <2>2 DEF CountResult
  <2>3. CASE ~ ok BY <2>1, <2>3 DEF CountResult
  <2> QED BY <2>2, <2>3
<1> QED BY <1>1, <1>3, <1>4 DEF Books

(* The end of a lease on e, or the close of done after it, is the business *)
(* of the instance that serves e.                                          *)
LEMMA FinishJInv ==
    ASSUME JInv, IInv', Books', NEW c \in Clients, NEW e, e = lease[c], e # None,
           UNCHANGED <<unique, work>>,
           \A d \in Clients : d # c => client'[d] = client[d] /\ lease'[d] = lease[d],
           lease'[c] = e \/ lease'[c] = None,
           \A j \in Slots : slot[j].ep # e => SameSlot(j),
           \A x \in Endpoints : x # e /\ Held(x)' => SameService(x),
           \A i \in Slots : cur[i] = e /\ Serving(i) => ServiceAt(i)'
    PROVE  JInv'
<1>1. Core BY DEF JInv, IInv
<1>2. \A i \in Slots : cur[i] = e => Serving(i) BY <1>1 DEF Core, LeaseStates
<1>3. ASSUME NEW j \in Slots, cur[j] # e PROVE ServiceAt(j)'
  <2>1. SameSlot(j) BY <1>1, <1>3 DEF Core, Ownership, PublishedIsServed
  <2>2. PICK x : x = cur[j] OBVIOUS
  <2>3. x # None => SameService(x)
    <3>1. x # None => x \in Endpoints /\ Held(x)' BY <1>1, <2>2, TypeFacts DEF Core, Held, work
    <3> QED BY <1>3, <2>2, <3>1
  <2>4. cur[j] # None => SameCalls(cur[j]) BY <1>3 DEF SameCalls, Leased, work
  <2>5. Alone(j) BY <2>1, <2>2, <2>3, <2>4 DEF Alone, SameService, work
  <2> QED BY <1>1, <2>5, LeftAlone DEF JInv
<1> QED BY <1>2, <1>3 DEF JInv

LEMMA FinishUniqueJInv ==
    ASSUME JInv, NEW c \in Clients, NEW ok \in BOOLEAN, FinishUnique(c, ok)
    PROVE  JInv'
<1>1. PICK e : e = lease[c] OBVIOUS
<1>2. TypeOK /\ Ownership /\ LeaseStates /\ IInv' BY FinishUniqueIInv DEF JInv, IInv, Core
<1>3. Leased(c) /\ e \in Endpoints /\ e # None /\ ep[e].id \in Slots
      BY <1>1, <1>2, TypeFacts, NoneAssumption DEF FinishUnique, Leased, LeaseStates
<1>4. /\ unique /\ CountResult(ok) /\ UNCHANGED <<unique, work, lease>>
      /\ client'[c] = "closing" /\ \A d \in Clients : d # c => client'[d] = client[d]
      BY <1>2 DEF FinishUnique, TypeOK, store
<1>5. Books' BY <1>3, <1>4, FinishBooks
<1>6. PICK i \in Slots : i = ep[e].id BY <1>3
<1>7. /\ slot'[i].state = IF slot[i].ep = e THEN "Rotating" ELSE slot[i].state
      /\ slot'[i].ep = slot[i].ep
      /\ \A j \in Slots : j # i => slot'[j] = slot[j]
      BY <1>1, <1>2, <1>6, TypeFacts DEF FinishUnique, Retire
<1>8. \A x \in Endpoints : SameService(x)
      BY <1>1, <1>2, <1>3, TypeFacts DEF FinishUnique, SameService, EndpointType
<1>9. ASSUME NEW j \in Slots, cur[j] = e, Serving(j) PROVE ServiceAt(j)'
  <2>0. ServiceAt(j) /\ j = i /\ cur'[j] = e /\ phase'[j] = phase[j]
        BY <1>3, <1>4, <1>6, <1>9, <1>2 DEF JInv, Ownership, work
  <2>1. Closing(e)' BY <1>1, <1>4 DEF Closing
  <2>2. Occupied(j)' BY <2>0, <2>1 DEF Occupied
  <2>3. ~ OnOffer(j)' BY <1>7, <1>9, <2>0 DEF OnOffer
  <2>4. DoneWhenServed(j)'
        BY <1>3, <1>8, <1>9, <2>0, <2>3 DEF DoneWhenServed, ServiceAt, SameService, Serving
  <2>5. DoneWith(j)'
        BY <1>3, <1>4, <1>8, <1>9, <2>0
        DEF DoneWith, ServiceAt, SameService, Serving, Cut, Leased, work
  <2>6. Tallied(j)' BY <1>4 DEF Tallied
  <2> QED BY <1>4, <2>2, <2>4, <2>5, <2>6 DEF ServiceAt
<1> QED BY <1>1, <1>2, <1>3, <1>4, <1>5, <1>7, <1>8, <1>9, FinishJInv DEF SameSlot

(* close(done): what was on its way has arrived, and nobody else has the   *)
(* endpoint in unique mode.                                                *)
LEMMA CloseDoneJInv ==
    ASSUME JInv, NEW c \in Clients, CloseDone(c)
    PROVE  JInv'
<1> DEFINE new == [ep EXCEPT ![lease[c]] = [ep[lease[c]] EXCEPT !.done = TRUE]]
<1>1. PICK e : e = lease[c] OBVIOUS
<1>2. TypeOK /\ Ownership /\ LeaseStates /\ Exclusive /\ Books /\ IInv'
      BY CloseDoneIInv DEF JInv, IInv, Core
<1>3. client[c] = "closing" /\ e \in Endpoints /\ e # None
      BY <1>1, <1>2, TypeFacts, NoneAssumption DEF CloseDone, LeaseStates
<1>4. /\ UNCHANGED <<unique, slot, count, work>>
      /\ client'[c] = "gone" /\ \A d \in Clients : d # c => client'[d] = client[d]
      /\ lease'[c] = None /\ \A d \in Clients : d # c => lease'[d] = lease[d]
      BY <1>2 DEF CloseDone, TypeOK, store
<1>5. Books' BY <1>2, <1>3, <1>4, SameBooks DEF Leased
<1>6. \A x \in Endpoints : Held(x)' => /\ x # e => ep'[x] = ep[x]
                                       /\ ep'[e].done \/ x # e
                                       /\ x = e => /\ ep'[e].active = ep[e].active
                                                   /\ ep'[e].cancelled = ep[e].cancelled
  <2>1. ep[e] \in EndpointType /\ [ep[e] EXCEPT !.done = TRUE] \in EndpointType
        BY <1>2, <1>3, TypeFacts, FieldTypes
  <2>2. new = [ep EXCEPT ![e] = [ep[e] EXCEPT !.done = TRUE]] /\ new \in [Endpoints -> EndpointType]
        BY <1>1, <1>2, <2>1, TypeFacts
  <2>3. \A x \in Endpoints : Held(x)' => ep'[x] = new[x]
        BY <2>2, CollectType DEF CloseDone
  <2> HIDE DEF new
  <2> QED BY <1>2, <1>3, <2>1, <2>2, <2>3, TypeFacts DEF EndpointType
<1>7. ASSUME NEW j \in Slots, cur[j] = e, Serving(j) PROVE ServiceAt(j)'
  <2>0. ServiceAt(j) /\ cur'[j] = e /\ phase'[j] = phase[j] /\ Held(e)'
        BY <1>4, <1>7 DEF JInv, work, Held
  <2>1. ep'[e].done /\ ep'[e].active = ep[e].active /\ ep'[e].cancelled = ep[e].cancelled
        BY <1>3, <1>6, <2>0
  <2>2. ~ OnOffer(j) BY <1>1, <1>3, <1>7, <2>0 DEF ServiceAt, DoneWhenServed, Closing
  <2>3. Occupied(j)' BY <2>0, <2>1 DEF Occupied
  <2>4. DoneWhenServed(j)'
        BY <1>4, <1>7, <2>0, <2>1, <2>2 DEF DoneWhenServed, ServiceAt, OnOffer, Serving
  <2>5. DoneWith(j)'
    <3>1. unique => \A d \in Clients : Leased(d)' => lease'[d] # e
          BY <1>1, <1>2, <1>3, <1>4 DEF Exclusive, LeaseExclusive, Leased
    <3> QED BY <1>4, <1>7, <2>0, <2>1, <3>1 DEF DoneWith, ServiceAt, Cut, work
  <2>6. Tallied(j)'
    <3>1. Riders(e)' = Riders(e) BY <1>3, <1>4 DEF Riders, Leased
    <3> QED BY <1>3, <1>4, <1>7, <2>0, <2>1, <3>1 DEF Tallied, ServiceAt
  <2> QED BY <1>4, <2>0, <2>3, <2>4, <2>5, <2>6 DEF ServiceAt
<1>8. \A x \in Endpoints : x # e /\ Held(x)' => SameService(x) BY <1>6 DEF SameService
<1> QED BY <1>1, <1>2, <1>3, <1>4, <1>5, <1>7, <1>8, FinishJInv DEF SameSlot

(* Reuse mode: a lease less on the endpoint, which stays on offer after a  *)
(* success and is detached by a failure.                                   *)
LEMMA OneLess ==
    ASSUME JInv, ~ unique, NEW c \in Clients, Leased(c), NEW e, e = lease[c],
           NEW i \in Slots, cur[i] = e, e # None,
           \A d \in Clients : d # c => client'[d] = client[d] /\ lease'[d] = lease[d],
           client'[c] # "leased"
    PROVE  /\ Release(ep[e].active) = ep[e].active - 1
           /\ ep[e].active - 1 = Cardinality(Riders(e)')
<1>1. Books /\ ServiceAt(i) BY DEF JInv
<1>2. c \in Riders(e) /\ Riders(e)' = Riders(e) \ {c} BY DEF Riders, Leased
<1>3. /\ ep[e].active = Cardinality(Riders(e))
      /\ IsFiniteSet(Riders(e)) /\ Cardinality(Riders(e)) \in Nat
      BY <1>1, RidersFinite DEF ServiceAt, Tallied, Books
<1>4. /\ Cardinality(Riders(e)') = ep[e].active - 1
      /\ Cardinality(Riders(e)) # 0
      BY <1>2, <1>3, FS_RemoveElement, FS_EmptySet
<1> QED BY <1>3, <1>4 DEF Release

LEMMA FailReuseJInv ==
    ASSUME JInv, NEW c \in Clients, FailReuse(c)
    PROVE  JInv'
<1>1. PICK e : e = lease[c] OBVIOUS
<1>2. TypeOK /\ Ownership /\ LeaseStates /\ IInv' BY FailReuseIInv DEF JInv, IInv, Core
<1>3. Leased(c) /\ e \in Endpoints /\ e # None /\ ep[e].id \in Slots
      BY <1>1, <1>2, TypeFacts, NoneAssumption DEF FailReuse, Leased, LeaseStates
<1>4. /\ ~ unique /\ CountResult(FALSE) /\ UNCHANGED <<unique, work, lease>>
      /\ client'[c] = "closing" /\ \A d \in Clients : d # c => client'[d] = client[d]
      BY <1>2 DEF FailReuse, TypeOK, store
<1>5. Books' BY <1>3, <1>4, FinishBooks
<1>6. PICK i \in Slots : i = ep[e].id BY <1>3
<1>7. /\ slot'[i].state = IF slot[i].ep = e THEN "Rotating" ELSE slot[i].state
      /\ slot'[i].ep = IF slot[i].ep = e THEN None ELSE slot[i].ep
      /\ \A j \in Slots : j # i => slot'[j] = slot[j]
      BY <1>1, <1>2, <1>6, TypeFacts DEF FailReuse, Detach
<1>8. /\ ep'[e].active = Release(ep[e].active)
      /\ ep'[e].done = ep[e].done /\ ep'[e].cancelled = ep[e].cancelled
      /\ \A x \in Endpoints : x # e => ep'[x] = ep[x]
      BY <1>1, <1>2, <1>3, TypeFacts DEF FailReuse, EndpointType
<1>9. ASSUME NEW j \in Slots, cur[j] = e, Serving(j) PROVE ServiceAt(j)'
  <2>0. ServiceAt(j) /\ j = i /\ cur'[j] = e /\ phase'[j] = phase[j]
        BY <1>3, <1>4, <1>6, <1>9, <1>2 DEF JInv, Ownership, work
  <2>1. Closing(e)' BY <1>1, <1>4 DEF Closing
  <2>2. Occupied(j)' BY <2>0, <2>1 DEF Occupied
  <2>3. ~ OnOffer(j)' BY <1>3, <1>7, <1>9, <2>0 DEF OnOffer
  <2>4. DoneWhenServed(j)' BY <1>8, <1>9, <2>0, <2>3 DEF DoneWhenServed, ServiceAt, Serving
  <2>5. /\ ep'[e].active = ep[e].active - 1 /\ ep'[e].active = Cardinality(Riders(e)')
        /\ ep[e].active # 0
    <3>1. ep'[e].active \in Nat BY <1>2, <1>3 DEF IInv, Core, TypeOK, EndpointType
    <3> QED BY <1>1, <1>3, <1>4, <1>8, <1>9, <3>1, OneLess
  <2>6. DoneWith(j)'
        BY <1>4, <1>8, <1>9, <2>0, <2>5 DEF DoneWith, ServiceAt, Cut, work
  <2>7. Tallied(j)' BY <2>0, <2>5 DEF Tallied
  <2> QED BY <1>4, <1>7, <2>0, <2>2, <2>4, <2>6, <2>7 DEF ServiceAt
<1>10. \A x \in Endpoints : x # e => SameService(x) BY <1>8 DEF SameService
<1> QED BY <1>1, <1>2, <1>3, <1>4, <1>5, <1>7, <1>9, <1>10, FinishJInv DEF SameSlot

LEMMA FinishReuseJInv ==
    ASSUME JInv, NEW c \in Clients, FinishReuse(c)
    PROVE  JInv'
<1> DEFINE n == Release(ep[lease[c]].active)
           new == [ep EXCEPT ![lease[c]] = [ep[lease[c]] EXCEPT !.active = n]]
<1>1. PICK e : e = lease[c] OBVIOUS
<1>2. TypeOK /\ Ownership /\ LeaseStates /\ IInv' BY FinishReuseIInv DEF JInv, IInv, Core
<1>3. Leased(c) /\ e \in Endpoints /\ e # None /\ ep[e].id \in Slots
      BY <1>1, <1>2, TypeFacts, NoneAssumption DEF FinishReuse, Leased, LeaseStates
<1>4. /\ ~ unique /\ CountResult(TRUE) /\ UNCHANGED <<unique, work>>
      /\ client'[c] = "gone" /\ \A d \in Clients : d # c => client'[d] = client[d]
      /\ lease'[c] = None /\ \A d \in Clients : d # c => lease'[d] = lease[d]
      BY <1>2 DEF FinishReuse, TypeOK, store
<1>5. Books' BY <1>3, <1>4, FinishBooks
<1>6. \A j \in Slots : SameSlot(j)
      BY <1>2, TypeFacts DEF FinishReuse, SameSlot, SlotType
<1>7. \A x \in Endpoints : Held(x)' =>
         IF x = e THEN /\ ep'[e].active = Release(ep[e].active)
                       /\ ep'[e].done = ep[e].done /\ ep'[e].cancelled = ep[e].cancelled
                  ELSE ep'[x] = ep[x]
  <2>1. n \in Nat /\ n = Release(ep[e].active)
    <3>1. ep[e].active \in Nat BY <1>2, <1>3, TypeFacts
    <3> QED BY <1>1, <3>1 DEF Release
  <2>2. ep[e] \in EndpointType /\ [ep[e] EXCEPT !.active = n] \in EndpointType
        BY <1>2, <1>3, <2>1, TypeFacts, FieldTypes
  <2>3. new = [ep EXCEPT ![e] = [ep[e] EXCEPT !.active = n]] /\ new \in [Endpoints -> EndpointType]
        BY <1>1, <1>2, <2>2, TypeFacts
  <2>4. \A x \in Endpoints : Held(x)' => ep'[x] = new[x]
        BY <2>3, CollectType DEF FinishReuse
  <2> HIDE DEF new, n
  <2> QED BY <1>2, <1>3, <2>1, <2>2, <2>3, <2>4, TypeFacts DEF EndpointType
<1>8. ASSUME NEW j \in Slots, cur[j] = e, Serving(j) PROVE ServiceAt(j)'
  <2>0. ServiceAt(j) /\ cur'[j] = e /\ phase'[j] = phase[j] /\ Held(e)' /\ SameSlot(j)
        BY <1>4, <1>6, <1>8 DEF JInv, work, Held
  <2>1. /\ ep'[e].active = Release(ep[e].active)
        /\ ep'[e].done = ep[e].done /\ ep'[e].cancelled = ep[e].cancelled
        BY <1>3, <1>7, <2>0
  <2>2. Closing(e)' <=> Closing(e) BY <1>1, <1>3, <1>4 DEF Closing, Leased
  <2>3. slot[j].state # "Busy" BY <1>4, <2>0 DEF ServiceAt
  <2>4. Occupied(j)'
        BY <1>8, <2>0, <2>1, <2>2, <2>3 DEF Occupied, ServiceAt, SameSlot
  <2>5. DoneWhenServed(j)'
        BY <1>8, <2>0, <2>1, <2>2 DEF DoneWhenServed, ServiceAt, OnOffer, SameSlot, Serving
  <2>6. /\ ep'[e].active = ep[e].active - 1 /\ ep'[e].active = Cardinality(Riders(e)')
        /\ ep[e].active # 0
    <3>1. ep'[e].active \in Nat BY <1>2, <1>3 DEF IInv, Core, TypeOK, EndpointType
    <3> QED BY <1>1, <1>3, <1>4, <1>8, <2>1, <3>1, OneLess
  <2>7. DoneWith(j)' BY <1>4, <1>8, <2>0, <2>1, <2>6 DEF DoneWith, ServiceAt, Cut, work
  <2>8. Tallied(j)' BY <2>0, <2>6 DEF Tallied
  <2> QED BY <2>0, <2>3, <2>4, <2>5, <2>7, <2>8 DEF ServiceAt, SameSlot
<1>9. \A x \in Endpoints : x # e /\ Held(x)' => SameService(x) BY <1>7 DEF SameService
<1> QED BY <1>1, <1>2, <1>3, <1>4, <1>5, <1>6, <1>8, <1>9, FinishJInv

----------------------------------------------------------------------------
(* The steps together, and what follows                                    *)

(* A process that has just started: no calls hold anything.                *)
LEMMA StartedJInv ==
    ASSUME NewPool, \A c \in Clients : client[c] # "leased"
    PROVE  Books /\ \A i \in Slots : ServiceAt(i)
<1>1. Leases = {} BY DEF Leases, Leased
<1>2. Books BY <1>1, FS_EmptySet DEF NewPool, FreshCount, Books
<1>3. ASSUME NEW i \in Slots PROVE ServiceAt(i)
      BY DEF NewPool, FreshSlot, NoEndpoint, ServiceAt, Occupied, DoneWhenServed, DoneWith,
             Tallied, Serving
<1> QED BY <1>2, <1>3

LEMMA InitJInv == Init => JInv
BY InitIInv, StartedJInv DEF Init, JInv

LEMMA CrashJInv ==
    ASSUME JInv, Crash
    PROVE  JInv'
<1>1. IInv' BY CrashIInv DEF JInv
<1>2. \A c \in Clients : ~ Leased(c)' BY DEF Crash, Leased
<1>3. Leases' = {} BY <1>2 DEF Leases
<1>4. Books' BY <1>3, FS_EmptySet DEF Crash, FreshCount, Books
<1>5. ASSUME NEW i \in Slots PROVE ServiceAt(i)'
  <2>1. phase'[i] = "rest" /\ cur'[i] = None /\ slot'[i].state = "Starting"
        BY DEF Crash, FreshSlot, NoEndpoint
  <2> QED BY <2>1, AtRest
<1> QED BY <1>1, <1>4, <1>5 DEF JInv

LEMMA StepJInv == JInv /\ [Next]_vars => JInv'
<1> SUFFICES ASSUME JInv, [Next]_vars PROVE JInv' OBVIOUS
<1>1. CASE \E i \in Slots : WorkerStep(i)  BY <1>1, WorkerJInv
<1>2. CASE \E i \in Slots : CircuitLost(i) BY <1>2, CircuitLostJInv
<1>3. CASE \E i \in Slots : ControlLost(i) BY <1>3, SessionJInv
<1>4. CASE \E c \in Clients : CallAcquire(c) \/ GiveUp(c) \/ ContextEnds(c)
      BY <1>4, ClientJInv
<1>5. CASE \E c \in Clients : AcquireStep(c)
      BY <1>5, GrantUniqueJInv, GrantReuseJInv, ScanJInv, ClientJInv DEF AcquireStep
<1>6. CASE \E c \in Clients : FinishStep(c)
      BY <1>6, FinishUniqueJInv, FinishReuseJInv, FailReuseJInv, CloseDoneJInv DEF FinishStep
<1>7. CASE Crash BY <1>7, CrashJInv
<1>8. CASE UNCHANGED vars
  <2>1. IInv' BY <1>8, StutterIInv DEF JInv
  <2>2. UNCHANGED <<unique, slot, phase, cur, count, lost, ep, client, lease>>
        BY <1>8 DEF vars, store, work
  <2> QED BY <2>1, <2>2, Bystanders DEF SameService, Leased
<1> QED BY <1>1, <1>2, <1>3, <1>4, <1>5, <1>6, <1>7, <1>8 DEF Next

LEMMA ServiceInductive == Spec => []JInv
<1> QED BY InitJInv, StepJInv, PTL DEF Spec

(* An instance whose worker waits on a healthy circuit is on offer, or     *)
(* Busy with a call that still has its lease: late results of earlier      *)
(* circuits cannot take the slot away (pool.go:255-261, 312-322), and a    *)
(* failure that detaches an endpoint always closes its done.               *)
THEOREM NoneLost == Spec => []NoInstanceLost
<1>1. JInv => NoInstanceLost
      BY DEF JInv, ServiceAt, Occupied, Closing, NoInstanceLost
<1> QED BY <1>1, ServiceInductive, PTL

(* What the dashboard and drainReuse count is what is out, for any number  *)
(* of calls (pool.go:247-260, 297-299, 312-335).                           *)
THEOREM CountsExact == Spec => []LeasesCounted
<1>1. JInv => LeasesCounted
      BY DEF JInv, Books, ServiceAt, Tallied, Leases, Riders, LeasesCounted
<1> QED BY <1>1, ServiceInductive, PTL

(* A worker that closes a circuit that works has nobody on it: in unique   *)
(* mode its one call is done, in reuse mode drainReuse saw none left       *)
(* (tor.go:473, 477, 482-495).                                             *)
THEOREM ClosedWhenFree == Spec => []NoCloseUnderLease
<1>1. JInv => NoCloseUnderLease
  <2> SUFFICES ASSUME JInv, NEW i \in Slots, phase[i] = "withdraw", ~ Cut(i),
                      NEW c \in Clients, Leased(c)
               PROVE  lease[c] # cur[i]
      BY DEF NoCloseUnderLease
  <2>1. ServiceAt(i) /\ Books /\ Core BY DEF JInv, IInv
  <2>2. ep[cur[i]].done /\ (unique \/ ep[cur[i]].active = 0) BY <2>1 DEF ServiceAt, DoneWith
  <2>3. CASE unique BY <2>1, <2>2, <2>3 DEF ServiceAt, DoneWith, Serving
  <2>4. CASE ~ unique
    <3>1. Cardinality(Riders(cur[i])) = 0
          BY <2>1, <2>2, <2>4 DEF ServiceAt, Tallied, Core, Ownership
    <3>2. Riders(cur[i]) = {} BY <2>1, <3>1, RidersFinite, FS_EmptySet DEF Books
    <3> QED BY <3>2 DEF Riders
  <2> QED BY <2>3, <2>4
<1> QED BY <1>1, ServiceInductive, PTL

----------------------------------------------------------------------------
(* Pool implements Assignment                                              *)

(* What most steps are to the promise: nothing was handed out or recorded. *)
Silent == UNCHANGED <<Used, granted, unique>>

LEMMA SilentStep ==
    ASSUME TypeOK, UNCHANGED <<granted, unique>>,
           \/ ips' = ips
           \/ \E a \in IPs : ips' = Observed(a)
    PROVE  Silent
<1>1. ips \in [IPs -> {"absent", "unused", "used"}] BY DEF TypeOK, StoreTypeOK
<1>2. CASE ips' = ips BY <1>2 DEF Silent, Used
<1>3. ASSUME NEW a \in IPs, ips' = Observed(a) PROVE Silent
      BY <1>1, <1>3 DEF Silent, Used, Observed
<1> QED BY <1>2, <1>3

LEMMA WorkerIsSilent ==
    ASSUME TypeOK, NEW i \in Slots, WorkerStep(i) \/ CircuitLost(i) \/ ControlLost(i)
    PROVE  Silent
<1>1. UNCHANGED <<granted, unique>>
      BY DEF WorkerStep, CircuitLost, ControlLost, NewSession, StartCycle, CheckFails, LeaveUnpublished, PublishReady,
             PublishRefused, PublishFails, DoneSeen, Interrupted, Drained, Advance, Judge,
             Withdraw, store, past
<1>2. ips' = ips \/ \E a \in IPs : ips' = Observed(a)
      BY DEF WorkerStep, CircuitLost, ControlLost, NewSession, StartCycle, CheckFails, PublishReady,
             PublishRefused, PublishFails, DoneSeen, Interrupted, Drained, Advance, Judge,
             Withdraw, store, Observe, ObserveFails
<1> QED BY <1>1, <1>2, SilentStep

(* A grant is a Grant of the promise: the address was not on record in     *)
(* unique mode, the call had been given none, and now both are.            *)
LEMMA AssignIsGrant ==
    ASSUME IInv, NEW c \in Clients, NEW k \in Slots, NEW guarded, Assign(c, k, guarded),
           unique => guarded = TRUE
    PROVE  \E a \in IPs : Promise!Grant(c, a)
<1> DEFINE i == SlotAt(k)
           a == AddressOf(i)
<1>1. TypeOK /\ Ownership /\ OnRecord BY DEF IInv, Core
<1>2. i \in Slots BY <1>1, SlotAtType DEF TypeOK
<1>3. a \in IPs
  <2>1. slot[i].ep # None BY DEF Assign, Eligible
  <2>2. slot[i].ep \in Endpoints BY <1>1, <1>2, <2>1, TypeFacts
  <2>3. Serving(i) /\ cur[i] = slot[i].ep BY <1>1, <1>2, <2>1 DEF Ownership, PublishedIsServed
  <2> QED BY <1>1, <1>2, <2>2, <2>3, TypeFacts DEF Ownership, AddressOf
<1>4. ips' = [ips EXCEPT ![a] = "used"] BY DEF Assign, Consume, Consumed
<1>5. unique => ips[a] = "unused" BY DEF Assign, Consume, Consumable
<1>6. granted[c] = None BY <1>1 DEF OnRecord, Assign, Scanning
<1>7. Used' = Used \union {a}
      BY <1>1, <1>3, <1>4 DEF Used, TypeOK, StoreTypeOK
<1>8. unique => a \notin Used BY <1>5 DEF Used
<1>9. granted' = [granted EXCEPT ![c] = a] /\ unique' = unique BY DEF Assign
<1> HIDE DEF a
<1> QED BY <1>3, <1>6, <1>7, <1>8, <1>9 DEF Promise!Grant

LEMMA ScanFailsIsSpend ==
    ASSUME IInv, NEW c \in Clients, NEW k \in Slots, ScanFails(c, k)
    PROVE  Silent \/ \E a \in IPs : Promise!Spend(a)
<1> DEFINE a == AddressOf(SlotAt(k))
<1>1. TypeOK /\ Ownership BY DEF IInv, Core
<1>2. granted' = granted /\ unique' = unique BY DEF ScanFails, past
<1>3. a \in IPs
  <2>0. SlotAt(k) \in Slots BY <1>1, SlotAtType DEF TypeOK
  <2>1. slot[SlotAt(k)].ep # None BY DEF ScanFails, Eligible
  <2>2. slot[SlotAt(k)].ep \in Endpoints BY <1>1, <2>0, <2>1, TypeFacts
  <2>3. Serving(SlotAt(k)) /\ cur[SlotAt(k)] = slot[SlotAt(k)].ep
        BY <1>1, <2>0, <2>1 DEF Ownership, PublishedIsServed
  <2> QED BY <1>1, <2>0, <2>2, <2>3, TypeFacts DEF Ownership, AddressOf
<1>4. ips' = ips \/ ips' = [ips EXCEPT ![a] = "used"]
      BY DEF ScanFails, ConsumeFails, Consumed
<1>5. CASE ips' = ips BY <1>2, <1>5 DEF Silent, Used
<1>6. CASE ips' = [ips EXCEPT ![a] = "used"]
  <2>1. Used' = Used \union {a} BY <1>1, <1>3, <1>6 DEF Used, TypeOK, StoreTypeOK
  <2> HIDE DEF a
  <2> QED BY <1>2, <1>3, <2>1 DEF Promise!Spend
<1> QED BY <1>4, <1>5, <1>6

LEMMA ClientStepPromise ==
    ASSUME IInv, NEW c \in Clients,
           CallAcquire(c) \/ AcquireStep(c) \/ GiveUp(c) \/ ContextEnds(c) \/ FinishStep(c)
    PROVE  Silent \/ Promise!ANext
<1>1. TypeOK BY DEF IInv, Core
<1>2. CASE \E k \in Slots : GrantUnique(c, k)
  <2> PICK k \in Slots : GrantUnique(c, k) BY <1>2
  <2>1. Assign(c, k, TRUE) BY DEF GrantUnique
  <2>2. \E a \in IPs : Promise!Grant(c, a) BY <2>1, AssignIsGrant
  <2> QED BY <2>2 DEF Promise!ANext
<1>3. CASE \E k \in Slots : GrantReuse(c, k)
  <2> PICK k \in Slots : GrantReuse(c, k) BY <1>3
  <2>1. Assign(c, k, FALSE) /\ ~ unique BY DEF GrantReuse, ReuseMode
  <2>2. \E a \in IPs : Promise!Grant(c, a) BY <2>1, AssignIsGrant
  <2> QED BY <2>2 DEF Promise!ANext
<1>4. CASE \E k \in Slots : ScanFails(c, k)
      BY <1>4, ScanFailsIsSpend DEF Promise!ANext
<1>5. CASE \/ CallAcquire(c) \/ GiveUp(c) \/ ContextEnds(c)
           \/ ScanFindsNone(c) \/ Rescan(c) \/ CountRejected(c)
  <2>1. UNCHANGED <<ips, unique, granted>>
        BY <1>5 DEF CallAcquire, GiveUp, TimerFires, DeadlinePassed, ContextEnds, ScanFindsNone,
                    Rescan, CountRejected, Move, store, past
  <2> QED BY <1>1, <2>1, SilentStep
<1>6. CASE FinishStep(c)
  <2>1. UNCHANGED <<ips, unique, granted>>
        BY <1>6 DEF FinishStep, FinishUnique, FinishReuse, FailReuse, CloseDone, store, past
  <2> QED BY <1>1, <2>1, SilentStep
<1> QED BY <1>2, <1>3, <1>4, <1>5, <1>6 DEF AcquireStep

(* The addresses users get obey the promise of Assignment, for any number  *)
(* of calls, instances and restarts in either mode (store.go:62-77,        *)
(* pool.go:237-246): the history is what makes it hold, not the memory of  *)
(* the process.                                                            *)
THEOREM PromiseKept == Spec => PromiseSpec
<1>1. Init => Promise!AInit
      BY DEF Init, StoreInit, StoreTypeOK, Promise!AInit, Used
<1>2. IInv /\ [Next]_vars => [Promise!ANext]_(Promise!avars)
  <2> SUFFICES ASSUME IInv, [Next]_vars PROVE Silent \/ Promise!ANext
      BY DEF Silent, Promise!avars
  <2>1. TypeOK BY DEF IInv, Core
  <2>2. CASE \E i \in Slots : WorkerStep(i) \/ CircuitLost(i) \/ ControlLost(i)
        BY <2>1, <2>2, WorkerIsSilent
  <2>3. CASE \E c \in Clients : \/ CallAcquire(c) \/ AcquireStep(c) \/ GiveUp(c)
                                \/ ContextEnds(c) \/ FinishStep(c)
        BY <2>3, ClientStepPromise
  <2>4. CASE Crash
        BY <2>4 DEF Crash, Used, Promise!ANext, Promise!Restart
  <2>5. CASE UNCHANGED vars
        BY <2>5 DEF vars, store, past, Silent, Used
  <2> QED BY <2>2, <2>3, <2>4, <2>5 DEF Next
<1> QED BY <1>1, <1>2, Inductive, PTL DEF Spec, PromiseSpec, Promise!ASpec

----------------------------------------------------------------------------
(* Pool implements TorInstance, once for each instance                     *)

(* A cycle that has not been judged has no verdict.                        *)
Undecided == \A i \in Slots : phase[i] \notin {"drain", "withdraw"} => verdict[i] = "none"

(* A step that leaves the state of instance i alone as far as TorInstance  *)
(* sees it.                                                                *)
Unseen(i) == UNCHANGED <<phase[i], lost[i], slot[i].fails, verdict[i]>>

LEMMA UnseenStutters ==
    ASSUME NEW i \in Slots, Unseen(i)
    PROVE  UNCHANGED Tor(i)!instance
BY DEF Unseen, Tor!instance

(* A step of one worker is none of another's instance.                     *)
LEMMA OthersUnseen ==
    ASSUME TypeOK, NEW j \in Slots, NEW i \in Slots, i # j,
           WorkerStep(j) \/ CircuitLost(j) \/ ControlLost(j)
    PROVE  Unseen(i)
<1> USE DEF Unseen, TypeOK
<1>1. CASE NewSession(j) \/ ControlLost(j) BY <1>1 DEF NewSession, ControlLost
<1>2. CASE StartCycle(j) BY <1>2 DEF StartCycle
<1>3. CASE LeaveUnpublished(j) BY <1>3 DEF LeaveUnpublished
<1>4. ASSUME NEW a \in IPs, PublishReady(j, a) PROVE Unseen(i) BY <1>4 DEF PublishReady
<1>5. CASE DoneSeen(j) \/ Interrupted(j) \/ Drained(j)
      BY <1>5 DEF DoneSeen, Interrupted, Drained, Advance
<1>6. CASE Judge(j) BY <1>6 DEF Judge
<1>7. CASE Withdraw(j) BY <1>7 DEF Withdraw, Unpublish
<1>8. CASE CircuitLost(j) BY <1>8 DEF CircuitLost, work
<1> QED BY <1>1, <1>2, <1>3, <1>4, <1>5, <1>6, <1>7, <1>8
    DEF WorkerStep, CheckFails, PublishRefused, PublishFails

(* The steps of the worker of i, and of its connection.                    *)
LEMMA WorkerAsInstance ==
    ASSUME TypeOK, Undecided, NEW i \in Slots,
           WorkerStep(i) \/ CircuitLost(i) \/ ControlLost(i)
    PROVE  Unseen(i) \/ [Tor(i)!INext]_(Tor(i)!instance)
<1> USE DEF TypeOK
<1>1. CASE NewSession(i)
  <2>1. Tor(i)!Reconnect BY <1>1 DEF NewSession, Tor!Reconnect
  <2> QED BY <2>1 DEF Tor!INext
<1>2. CASE ControlLost(i)
  <2>1. Tor(i)!Lose BY <1>2 DEF ControlLost, Tor!Lose
  <2> QED BY <2>1 DEF Tor!INext
<1>3. CASE StartCycle(i)
  <2>1. Tor(i)!Begin BY <1>3 DEF StartCycle, Tor!Begin
  <2> QED BY <2>1 DEF Tor!INext
<1>4. CASE LeaveUnpublished(i)
  <2>1. Tor(i)!End BY <1>4 DEF LeaveUnpublished, Undecided, Tor!End
  <2> QED BY <2>1 DEF Tor!INext
<1>5. ASSUME NEW a \in IPs, PublishReady(i, a) PROVE UNCHANGED Tor(i)!instance
      BY <1>5 DEF PublishReady, Tor!instance
<1>6. CASE DoneSeen(i) \/ Interrupted(i) \/ Drained(i)
  <2>1. UNCHANGED Tor(i)!instance
        BY <1>6 DEF DoneSeen, Interrupted, Drained, Advance, Tor!instance
  <2> QED BY <2>1
<1>7. CASE Judge(i)
  <2> DEFINE v == IF Condemned(i) THEN "rebuild" ELSE "rotate"
  <2>1. Tor(i)!Decide(v) BY <1>7 DEF Judge, Condemned, Undecided, Tor!Decide
  <2>2. v \in {"rotate", "rebuild"} OBVIOUS
  <2> QED BY <2>1, <2>2 DEF Tor!INext
<1>8. CASE Withdraw(i)
  <2>1. slot'[i].fails = slot[i].fails BY <1>8 DEF Withdraw, Unpublish, SlotType
  <2>2. Tor(i)!End BY <1>8, <2>1 DEF Withdraw, Tor!End
  <2> QED BY <2>2 DEF Tor!INext
<1>9. CASE CircuitLost(i) BY <1>9 DEF CircuitLost, work, Unseen
<1> QED BY <1>1, <1>2, <1>3, <1>4, <1>5, <1>6, <1>7, <1>8, <1>9
    DEF WorkerStep, CheckFails, PublishRefused, PublishFails

(* The steps of the calls: a finished lease tells its own instance.        *)
LEMMA ClientAsInstance ==
    ASSUME Core, NEW i \in Slots, NEW c \in Clients,
           CallAcquire(c) \/ AcquireStep(c) \/ GiveUp(c) \/ ContextEnds(c) \/ FinishStep(c)
    PROVE  Unseen(i) \/ \E ok \in BOOLEAN : Tor(i)!Finish(ok)
<1> DEFINE j == ep[lease[c]].id
<1>1. Leased(c) => j \in Slots BY TypeFacts DEF Core, LeaseStates, Leased
<1>2. CASE \E k \in Slots : GrantUnique(c, k) \/ GrantReuse(c, k)
  <2>1. PICK k \in Slots : GrantUnique(c, k) \/ GrantReuse(c, k) BY <1>2
  <2>2. SlotAt(k) \in Slots BY SlotAtType DEF Core, TypeOK
  <2>3. UNCHANGED work BY <2>1 DEF GrantUnique, GrantReuse, Assign
  <2>4. PICK s \in Slots : slot' \in {slot, [slot EXCEPT ![s].state = "Busy"]}
        BY <2>1, <2>2 DEF GrantUnique, GrantReuse
  <2>5. slot'[i].fails = slot[i].fails BY <2>4 DEF Core, TypeOK, SlotType
  <2> QED BY <2>3, <2>5 DEF work, Unseen
<1>3. CASE \/ CallAcquire(c) \/ GiveUp(c) \/ ContextEnds(c) \/ ScanFindsNone(c) \/ Rescan(c)
           \/ CountRejected(c) \/ CloseDone(c) \/ \E k \in Slots : ScanFails(c, k)
      BY <1>3 DEF CallAcquire, GiveUp, TimerFires, DeadlinePassed, ContextEnds, ScanFindsNone,
                  Rescan, CountRejected, CloseDone, ScanFails, Move, work, Unseen
<1>4. ASSUME NEW ok \in BOOLEAN, FinishUnique(c, ok)
      PROVE  Unseen(i) \/ Tor(i)!Finish(ok)
  <2>1. j \in Slots /\ UNCHANGED work BY <1>1, <1>4 DEF FinishUnique
  <2>2. Retire(j, lease[c], ok) BY <1>4 DEF FinishUnique
  <2>3. CASE i = j BY <2>1, <2>2, <2>3 DEF Core, TypeOK, Retire, AfterFailure, work, Tor!Finish
  <2>4. CASE i # j BY <2>1, <2>2, <2>4 DEF Core, TypeOK, Retire, work, Unseen
  <2> QED BY <2>3, <2>4
<1>5. ASSUME FailReuse(c)
      PROVE  Unseen(i) \/ Tor(i)!Finish(FALSE)
  <2>1. j \in Slots /\ UNCHANGED work BY <1>1, <1>5 DEF FailReuse
  <2>2. Detach(j, lease[c]) BY <1>5 DEF FailReuse
  <2>3. CASE i = j BY <2>1, <2>2, <2>3 DEF Core, TypeOK, Detach, AfterFailure, work, Tor!Finish
  <2>4. CASE i # j BY <2>1, <2>2, <2>4 DEF Core, TypeOK, Detach, work, Unseen
  <2> QED BY <2>3, <2>4
<1>6. ASSUME FinishReuse(c)
      PROVE  Unseen(i) \/ Tor(i)!Finish(TRUE)
  <2>1. j \in Slots /\ UNCHANGED work /\ slot' = [slot EXCEPT ![j].fails = 0]
        BY <1>1, <1>6 DEF FinishReuse
  <2>3. CASE i = j BY <2>1, <2>3 DEF Core, TypeOK, SlotType, work, Tor!Finish
  <2>4. CASE i # j BY <2>1, <2>4 DEF Core, TypeOK, work, Unseen
  <2> QED BY <2>3, <2>4
<1> QED BY <1>2, <1>3, <1>4, <1>5, <1>6 DEF AcquireStep, FinishStep

LEMMA StepAsInstance ==
    ASSUME Core, Undecided, [Next]_vars, NEW i \in Slots
    PROVE  [Tor(i)!INext]_(Tor(i)!instance)
<1>1. TypeOK BY DEF Core
<1>2. ASSUME NEW j \in Slots, WorkerStep(j) \/ CircuitLost(j) \/ ControlLost(j)
      PROVE  [Tor(i)!INext]_(Tor(i)!instance)
      BY <1>1, <1>2, OthersUnseen, WorkerAsInstance, UnseenStutters
<1>3. ASSUME NEW c \in Clients,
             CallAcquire(c) \/ AcquireStep(c) \/ GiveUp(c) \/ ContextEnds(c) \/ FinishStep(c)
      PROVE  [Tor(i)!INext]_(Tor(i)!instance)
      BY <1>3, ClientAsInstance, UnseenStutters DEF Tor!INext
<1>4. CASE Crash
  <2>1. Tor(i)!Restart
        BY <1>4 DEF Crash, FreshSlot, Tor!Restart, Tor!IInit
  <2> QED BY <2>1 DEF Tor!INext
<1>5. CASE UNCHANGED vars
  <2>1. Unseen(i) BY <1>5 DEF vars, work, Unseen
  <2> QED BY <2>1, UnseenStutters
<1> QED BY <1>2, <1>3, <1>4, <1>5 DEF Next

(* Judge is the only step that gives a verdict, and it ends the serving.   *)
LEMMA StepUndecided ==
    ASSUME Core, Undecided, [Next]_vars
    PROVE  Undecided'
<1> SUFFICES ASSUME NEW i \in Slots
             PROVE  phase'[i] \notin {"drain", "withdraw"} => verdict'[i] = "none"
    BY DEF Undecided
<1>1. TypeOK /\ (phase[i] \notin {"drain", "withdraw"} => verdict[i] = "none")
      BY DEF Core, Undecided
<1>2. CASE WorkerStep(i) \/ CircuitLost(i) \/ ControlLost(i)
  <2> USE <1>1 DEF TypeOK
  <2>1. CASE NewSession(i) \/ ControlLost(i) \/ CircuitLost(i)
        BY <2>1 DEF NewSession, ControlLost, CircuitLost, work
  <2>2. CASE StartCycle(i) BY <2>2 DEF StartCycle
  <2>3. CASE LeaveUnpublished(i) BY <2>3 DEF LeaveUnpublished
  <2>4. ASSUME NEW a \in IPs, PublishReady(i, a)
        PROVE  phase'[i] \notin {"drain", "withdraw"} => verdict'[i] = "none"
        BY <2>4 DEF PublishReady
  <2>5. CASE DoneSeen(i) \/ Interrupted(i) \/ Drained(i)
        BY <2>5 DEF DoneSeen, Interrupted, Drained, Advance
  <2>6. CASE Judge(i) BY <2>6 DEF Judge
  <2>7. CASE Withdraw(i) BY <2>7 DEF Withdraw
  <2> QED BY <1>2, <2>1, <2>2, <2>3, <2>4, <2>5, <2>6, <2>7
      DEF WorkerStep, CheckFails, PublishRefused, PublishFails
<1>3. ASSUME NEW j \in Slots, j # i, WorkerStep(j) \/ CircuitLost(j) \/ ControlLost(j)
      PROVE  UNCHANGED <<phase[i], verdict[i]>>
      BY <1>1, <1>3, OthersUnseen DEF Unseen
<1>4. ASSUME NEW c \in Clients,
             CallAcquire(c) \/ AcquireStep(c) \/ GiveUp(c) \/ ContextEnds(c) \/ FinishStep(c)
      PROVE  UNCHANGED work
      BY <1>4 DEF CallAcquire, AcquireStep, GiveUp, ContextEnds, FinishStep, GrantUnique, GrantReuse,
                  Assign, ScanFails, ScanFindsNone, Rescan, CountRejected, TimerFires,
                  DeadlinePassed, Move, FinishUnique, FinishReuse, FailReuse, CloseDone
<1>5. CASE Crash BY <1>5 DEF Crash
<1>6. CASE UNCHANGED vars BY <1>1, <1>6 DEF vars, work
<1>7. CASE UNCHANGED work BY <1>1, <1>7 DEF work
<1>8. CASE \E j \in Slots : WorkerStep(j) \/ CircuitLost(j) \/ ControlLost(j)
      BY <1>1, <1>2, <1>3, <1>8
<1>9. CASE \E c \in Clients : \/ CallAcquire(c) \/ AcquireStep(c) \/ GiveUp(c)
                               \/ ContextEnds(c) \/ FinishStep(c)
      BY <1>4, <1>7, <1>9
<1> QED BY <1>5, <1>6, <1>8, <1>9 DEF Next

(* What the supervision of an instance promises (WorkerProofs) is all the  *)
(* scheduler uses of it: each slot of the pool takes the steps of one      *)
(* TorInstance, whatever the other instances and the calls do.             *)
THEOREM PoolHasInstances == Spec => TorSpec
<1>1. Init => Undecided /\ \A i \in Slots : Tor(i)!IInit
      BY DEF Init, NewPool, FreshSlot, Undecided, Tor!IInit
<1>2. IInv /\ Undecided /\ [Next]_vars => Undecided' BY StepUndecided DEF IInv
<1>3. Spec => []Undecided BY <1>1, <1>2, Inductive, PTL DEF Spec
<1>4. ASSUME NEW i \in Slots PROVE Spec => Tor(i)!ISpec
  <2>1. Init => Tor(i)!IInit BY <1>1
  <2>2. IInv /\ Undecided /\ [Next]_vars => [Tor(i)!INext]_(Tor(i)!instance)
        BY StepAsInstance DEF IInv
  <2> QED BY <2>1, <2>2, <1>3, Inductive, PTL DEF Spec, Tor!ISpec
<1> QED BY <1>4 DEF TorSpec
=============================================================================
