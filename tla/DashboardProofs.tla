--------------------------- MODULE DashboardProofs ---------------------------
(***************************************************************************)
(* Theorems about what the dashboard shows.  Of LoadTester, whose counters *)
(* it has: for any number of request goroutines, any capacity of slots and *)
(* any number of ticks.  Of History, its address table: for any table, any *)
(* length of a page, and any number of requests, clicks and failures.      *)
(***************************************************************************)
EXTENDS LoadTester, History, FiniteSetTheorems, SequenceTheorems, TLAPS

----------------------------------------------------------------------------
(* LoadTester: the inductive invariant                                     *)

Flying(k) == {g \in Goroutines : req[k][g] \in {"do"} \union Results}

(* TypeOK without the bounds of the counters, which follow from the books. *)
Shapes ==
    /\ state \in {"idle", "running", "stopping", "stopped"}
    /\ stats \in [Counters -> Nat]
    /\ cur \in Runs \union {None}
    /\ run \in [Runs -> {"none", "select", "tick", "drain"}]
    /\ cancelled \in [Runs -> BOOLEAN]
    /\ done \in [Runs -> BOOLEAN]
    /\ req \in [Runs -> [Goroutines -> {"free", "do", "release"} \union Results]]
    /\ parent \in BOOLEAN
    /\ waiter \in {"no", "waiting", "returned"}

(* One run at a time: only the present one moves or has requests out, and  *)
(* the state tells whether it does.                                        *)
OneRun ==
    /\ cur = None => state = "idle" /\ stats.inflight = 0
    /\ \A k \in Runs :
         /\ run[k] # "none" => k = cur
         /\ run[k] = "none" => Quiet(k)
         /\ k = cur => (Active <=> run[k] # "none")
         /\ done[k] => run[k] = "none"

(* The tester knows of the end of the application: no run starts again.    *)
Winding ==
    /\ state = "stopping" => cancelled[cur]
    /\ parent => \A k \in Runs : cancelled[k]
    /\ waiter # "no" => parent
    /\ waiter = "waiting" => cur # None
    /\ waiter = "returned" => \A k \in Runs : run[k] = "none"

(* What is in flight are the requests whose result is not recorded, and    *)
(* each of them, like those recorded but not released, has a slot.         *)
Slotted(k) ==
    /\ IsFiniteSet(Holding(k))
    /\ Cardinality(Holding(k)) <= MaxSlots
    /\ k = cur => stats.inflight = Cardinality(Flying(k))

Books ==
    /\ stats.sent = stats.success + stats.failed + stats.canceled + stats.inflight
    /\ stats.unavailable <= stats.failed
    /\ stats.sent + stats.skipped <= MaxTicks
    /\ \A k \in Runs : run[k] = "tick" => stats.sent + stats.skipped < MaxTicks

IInv == Shapes /\ OneRun /\ Winding /\ (\A k \in Runs : Slotted(k)) /\ Books

----------------------------------------------------------------------------
(* The counting of slots                                                   *)

LEMMA FlyingHolds ==
    ASSUME Shapes, NEW k \in Runs, IsFiniteSet(Holding(k))
    PROVE  /\ IsFiniteSet(Flying(k))
           /\ Cardinality(Flying(k)) \in Nat /\ Cardinality(Holding(k)) \in Nat
           /\ Cardinality(Flying(k)) <= Cardinality(Holding(k))
           /\ Quiet(k) => Cardinality(Flying(k)) = 0
<1>1. Flying(k) \subseteq Holding(k) BY DEF Flying, Holding, Results
<1>2. IsFiniteSet(Flying(k)) /\ Cardinality(Flying(k)) <= Cardinality(Holding(k))
      BY <1>1, FS_Subset
<1>3. Quiet(k) => Flying(k) = {} BY DEF Quiet, Flying, Results
<1> QED BY <1>2, <1>3, FS_CardinalityType, FS_EmptySet

(* A run whose requests do not move keeps its slots.                       *)
LEMMA SameSlots ==
    ASSUME NEW k \in Runs, Slotted(k), req'[k] = req[k],
           k = cur' => stats'.inflight = Cardinality(Flying(k))
    PROVE  Slotted(k)'
<1>1. Holding(k)' = Holding(k) /\ Flying(k)' = Flying(k) BY DEF Holding, Flying
<1> QED BY <1>1 DEF Slotted

----------------------------------------------------------------------------
(* Every step keeps the invariant                                          *)

LEMMA InitIInv == Init => IInv
<1> SUFFICES ASSUME Init PROVE IInv OBVIOUS
<1>1. stats \in [Counters -> Nat] /\ \A x \in Counters : stats[x] = 0 BY DEF Init, Zero
<1>3. Shapes BY <1>1 DEF Init, Shapes
<1>4. OneRun BY <1>1, TickAssumption DEF Init, OneRun, Active, Quiet, Counters
<1>5. Winding BY DEF Init, Winding
<1>6. Books BY <1>1, TickAssumption DEF Init, Books, Counters
<1>2. ASSUME NEW k \in Runs PROVE Slotted(k)
  <2>1. Holding(k) = {} BY DEF Init, Holding
  <2> QED BY <2>1, FS_EmptySet, SlotAssumption, TickAssumption DEF Slotted, Init
<1> QED BY <1>2, <1>3, <1>4, <1>5, <1>6 DEF IInv

LEMMA StartIInv ==
    ASSUME IInv, NEW n \in Runs, Start(n)
    PROVE  IInv'
<1> USE DEF IInv, Start, MayStart
<1>0. n # None BY TickAssumption
<1>1. Shapes' BY DEF Shapes, Zero, Counters
<1>2. OneRun' BY <1>0 DEF OneRun, Active, Shapes, Quiet
<1>3. Winding' BY <1>0 DEF Winding, Shapes
<1>4. ASSUME NEW k \in Runs PROVE Slotted(k)'
  <2>1. Cardinality(Flying(n)) = 0 BY FlyingHolds DEF Slotted, OneRun
  <2> QED BY <2>1, SameSlots DEF Zero, Counters
<1>5. Books' BY TickAssumption DEF Books, Zero, Counters, Shapes, OneRun, Active
<1> QED BY <1>1, <1>2, <1>3, <1>4, <1>5

(* A counter that is incremented.                                          *)
LEMMA Incremented ==
    ASSUME NEW x \in Counters, NEW s \in [Counters -> Nat]
    PROVE  /\ [s EXCEPT ![x] = @ + 1] \in [Counters -> Nat]
           /\ \A y \in Counters : [s EXCEPT ![x] = @ + 1][y] = IF y = x THEN s[y] + 1 ELSE s[y]
OBVIOUS

(* Steps that leave requests and counters alone.                           *)
LEMMA Unmoved ==
    ASSUME IInv, UNCHANGED <<req, stats, cur>>
    PROVE  \A k \in Runs : Slotted(k)'
BY SameSlots DEF IInv, Slotted

LEMMA StopIInv ==
    ASSUME IInv, Stop
    PROVE  IInv'
<1> USE DEF IInv, Stop, Cancel
<1>0. cur \in Runs BY DEF Shapes, OneRun
<1>1. Shapes' BY DEF Shapes
<1>2. OneRun' BY DEF OneRun, Active, Shapes, Quiet
<1>3. Winding' BY <1>0 DEF Winding, Shapes
<1>4. Books' BY DEF Books
<1> QED BY <1>1, <1>2, <1>3, <1>4, Unmoved

LEMMA SelectIInv ==
    ASSUME IInv, NEW n \in Runs, Leave(n) \/ Tick(n)
    PROVE  IInv'
<1> USE DEF IInv, Leave, Tick, Goto
<1>1. Shapes' BY DEF Shapes
<1>2. OneRun' BY DEF OneRun, Active, Shapes, Quiet
<1>3. Winding' BY DEF Winding, Shapes
<1>4. Books' BY DEF Books, Shapes
<1> QED BY <1>1, <1>2, <1>3, <1>4, Unmoved

LEMMA SendIInv ==
    ASSUME IInv, NEW n \in Runs, NEW g \in Goroutines, Send(n, g)
    PROVE  IInv'
<1> USE DEF IInv, Send, Goto
<1>0. n = cur BY DEF OneRun
<1>9. /\ stats' \in [Counters -> Nat]
      /\ \A y \in Counters :
           stats'[y] = IF y \in {"sent", "inflight"} THEN stats[y] + 1 ELSE stats[y]
  <2>1. stats \in [Counters -> Nat] /\ "sent" \in Counters /\ "inflight" \in Counters
        BY DEF Shapes, Counters
  <2>2. stats' = [[stats EXCEPT !["sent"] = @ + 1] EXCEPT !["inflight"] = @ + 1]
        BY <2>1
  <2> QED BY <2>1, <2>2, Incremented
<1>1. Shapes' BY <1>9 DEF Shapes
<1>2. OneRun' BY <1>0 DEF OneRun, Active, Shapes, Quiet
<1>3. Winding' BY <1>0 DEF Winding, Shapes
<1>4. Slotted(n)'
  <2>1. /\ Holding(n)' = Holding(n) \union {g} /\ g \notin Holding(n)
        /\ Flying(n)' = Flying(n) \union {g} /\ g \notin Flying(n)
        BY DEF Shapes, Holding, Flying, Results
  <2>2. /\ IsFiniteSet(Holding(n)') /\ Cardinality(Holding(n)') = Cardinality(Holding(n)) + 1
        /\ Cardinality(Flying(n)') = Cardinality(Flying(n)) + 1
    <3>1. IsFiniteSet(Holding(n)) /\ IsFiniteSet(Flying(n)) BY FlyingHolds DEF Slotted
    <3>2. /\ IsFiniteSet(Holding(n) \union {g})
          /\ Cardinality(Holding(n) \union {g}) = Cardinality(Holding(n)) + 1
          BY <2>1, <3>1, FS_AddElement
    <3>3. Cardinality(Flying(n) \union {g}) = Cardinality(Flying(n)) + 1
          BY <2>1, <3>1, FS_AddElement
    <3> QED BY <2>1, <3>2, <3>3
  <2>3. stats'.inflight = stats.inflight + 1 BY <1>9 DEF Counters
  <2> QED BY <1>0, <2>2, <2>3, FlyingHolds, SlotAssumption DEF Slotted, Full
<1>5. ASSUME NEW k \in Runs, k # n PROVE Slotted(k)'
      BY <1>0, <1>5, SameSlots DEF Shapes
<1>6. Books'
  <2>1. \A y \in Counters : stats[y] \in Nat BY DEF Shapes
  <2> QED BY <1>0, <1>9, <2>1, TickAssumption DEF Books, Counters, OneRun, Shapes
<1> QED BY <1>1, <1>2, <1>3, <1>4, <1>5, <1>6

LEMMA SkipIInv ==
    ASSUME IInv, NEW n \in Runs, Skip(n)
    PROVE  IInv'
<1> USE DEF IInv, Skip, Goto
<1>0. n = cur BY DEF OneRun
<1>9. /\ stats' \in [Counters -> Nat]
      /\ \A y \in Counters : stats'[y] = IF y = "skipped" THEN stats[y] + 1 ELSE stats[y]
      BY Incremented DEF Shapes, Counters
<1>1. Shapes' BY <1>9 DEF Shapes
<1>2. OneRun' BY <1>9 DEF OneRun, Active, Shapes, Quiet, Counters
<1>3. Winding' BY DEF Winding, Shapes
<1>4. ASSUME NEW k \in Runs PROVE Slotted(k)'
      BY <1>9, SameSlots DEF Counters, Slotted
<1>5. Books'
  <2>1. \A y \in Counters : stats[y] \in Nat BY DEF Shapes
  <2> QED BY <1>0, <1>9, <2>1, TickAssumption DEF Books, Counters, OneRun, Shapes
<1> QED BY <1>1, <1>2, <1>3, <1>4, <1>5

LEMMA RunEndsIInv ==
    ASSUME IInv, NEW n \in Runs, RunEnds(n)
    PROVE  IInv'
<1> USE DEF IInv, RunEnds, Goto, Cancel, CloseDone
<1>0. n = cur BY DEF OneRun
<1>1. Shapes' BY DEF Shapes
<1>2. OneRun' BY <1>0, TickAssumption DEF OneRun, Active, Shapes, Quiet
<1>3. Winding' BY <1>0 DEF Winding, Shapes
<1>4. Books' BY DEF Books, Shapes
<1> QED BY <1>1, <1>2, <1>3, <1>4, Unmoved

LEMMA FinishedIInv ==
    ASSUME IInv, NEW n \in Runs, NEW g \in Goroutines, NEW x \in Results, Finished(n, g, x)
    PROVE  IInv'
<1> USE DEF IInv, Finished
<1>1. Shapes' BY DEF Shapes
<1>2. OneRun' BY DEF OneRun, Active, Shapes, Quiet
<1>3. Winding' BY DEF Winding, Shapes
<1>4. ASSUME NEW k \in Runs PROVE Slotted(k)'
  <2>1. Holding(k)' = Holding(k) /\ Flying(k)' = Flying(k)
        BY DEF Shapes, Holding, Flying, Results
  <2> QED BY <2>1 DEF Slotted
<1>5. Books' BY DEF Books
<1> QED BY <1>1, <1>2, <1>3, <1>4, <1>5

(* One entry in the books for each result.                                 *)
LEMMA RecordedOnce ==
    ASSUME Shapes, Books, NEW x \in Results, stats.inflight > 0, stats' = Recorded(x)
    PROVE  /\ stats' \in [Counters -> Nat]
           /\ stats'.inflight = stats.inflight - 1
           /\ stats'.sent = stats.sent /\ stats'.skipped = stats.skipped
           /\ stats'.sent = stats'.success + stats'.failed + stats'.canceled + stats'.inflight
           /\ stats'.unavailable <= stats'.failed
<1>1. \A c \in Counters : stats[c] \in Nat BY DEF Shapes
<1>2. \A c \in Counters :
         stats'[c] = IF c \in Counted(x) THEN stats[c] + 1
                     ELSE IF c = "inflight" THEN stats[c] - 1 ELSE stats[c]
      BY DEF Recorded
<1>3. /\ "sent" \notin Counted(x) /\ "skipped" \notin Counted(x) /\ "inflight" \notin Counted(x)
      /\ "unavailable" \in Counted(x) => "failed" \in Counted(x)
      /\ \/ "success" \in Counted(x) /\ "failed" \notin Counted(x) /\ "canceled" \notin Counted(x)
         \/ "failed" \in Counted(x) /\ "success" \notin Counted(x) /\ "canceled" \notin Counted(x)
         \/ "canceled" \in Counted(x) /\ "success" \notin Counted(x) /\ "failed" \notin Counted(x)
      BY DEF Counted, Results
<1>4. stats' \in [Counters -> Nat]
  <2>1. stats' = [c \in Counters |-> stats'[c]] BY DEF Recorded
  <2>2. \A c \in Counters : stats'[c] \in Nat BY <1>1, <1>2, <1>3
  <2> QED BY <2>1, <2>2
<1> QED BY <1>1, <1>2, <1>3, <1>4 DEF Counters, Books

LEMMA RecordIInv ==
    ASSUME IInv, NEW n \in Runs, NEW g \in Goroutines, Record(n, g)
    PROVE  IInv'
<1> USE DEF IInv, Record
<1>0. n = cur /\ run[n] # "none" BY DEF OneRun, Quiet, Results
<1>1. /\ Flying(n)' = Flying(n) \ {g} /\ g \in Flying(n)
      /\ Holding(n)' = Holding(n)
      BY DEF Shapes, Holding, Flying, Results
<1>2. /\ Cardinality(Flying(n)') = Cardinality(Flying(n)) - 1
      /\ stats.inflight > 0
  <2>1. IsFiniteSet(Flying(n)) /\ Cardinality(Flying(n)) \in Nat BY FlyingHolds DEF Slotted
  <2>2. Cardinality(Flying(n) \ {g}) = Cardinality(Flying(n)) - 1
        BY <1>1, <2>1, FS_RemoveElement
  <2>3. Cardinality(Flying(n) \ {g}) \in Nat
        BY <2>1, FS_RemoveElement, FS_CardinalityType
  <2> QED BY <1>0, <1>1, <2>1, <2>2, <2>3 DEF Slotted
<1>3. /\ stats' \in [Counters -> Nat]
      /\ stats'.inflight = stats.inflight - 1
      /\ stats'.sent = stats.sent /\ stats'.skipped = stats.skipped
      /\ stats'.sent = stats'.success + stats'.failed + stats'.canceled + stats'.inflight
      /\ stats'.unavailable <= stats'.failed
  <2>1. PICK x \in Results : x = req[n][g] OBVIOUS
  <2> QED BY <1>2, <2>1, RecordedOnce
<1>4. Shapes' BY <1>3 DEF Shapes
<1>5. OneRun' BY <1>0, TickAssumption DEF OneRun, Active, Shapes, Quiet
<1>6. Winding' BY DEF Winding, Shapes
<1>7. ASSUME NEW k \in Runs PROVE Slotted(k)'
  <2>1. CASE k = n BY <1>0, <1>1, <1>2, <1>3, <2>1 DEF Slotted
  <2>2. CASE k # n BY <1>0, <2>2, SameSlots DEF Shapes
  <2> QED BY <2>1, <2>2
<1>8. Books' BY <1>3 DEF Books
<1> QED BY <1>4, <1>5, <1>6, <1>7, <1>8

LEMMA ReleaseIInv ==
    ASSUME IInv, NEW n \in Runs, NEW g \in Goroutines, Release(n, g)
    PROVE  IInv'
<1> USE DEF IInv, Release
<1>1. Shapes' BY DEF Shapes
<1>2. OneRun' BY DEF OneRun, Active, Shapes, Quiet
<1>3. Winding' BY DEF Winding, Shapes
<1>4. ASSUME NEW k \in Runs PROVE Slotted(k)'
  <2>1. CASE k = n
    <3>1. Holding(n)' = Holding(n) \ {g} /\ Flying(n)' = Flying(n)
          BY DEF Shapes, Holding, Flying, Results
    <3>2. IsFiniteSet(Holding(n)') /\ Cardinality(Holding(n)') <= Cardinality(Holding(n))
          BY <3>1, FS_Subset DEF Slotted
    <3> QED BY <2>1, <3>1, <3>2, FS_CardinalityType, SlotAssumption DEF Slotted
  <2>2. CASE k # n BY <2>2, SameSlots DEF Shapes, Slotted
  <2> QED BY <2>1, <2>2
<1>5. Books' BY DEF Books
<1> QED BY <1>1, <1>2, <1>3, <1>4, <1>5

LEMMA EndIInv ==
    ASSUME IInv, Shutdown \/ Wait \/ WaitReturns
    PROVE  IInv'
<1> USE DEF IInv, Shutdown, Wait, WaitReturns
<1>1. Shapes' BY DEF Shapes
<1>2. OneRun' BY DEF OneRun, Active, Shapes, Quiet
<1>3. Winding' BY TickAssumption DEF Winding, Shapes, OneRun
<1>4. Books' BY DEF Books
<1> QED BY <1>1, <1>2, <1>3, <1>4, Unmoved

LEMMA StepIInv == IInv /\ [Next]_vars => IInv'
<1> SUFFICES ASSUME IInv, [Next]_vars PROVE IInv' OBVIOUS
<1>1. ASSUME NEW k \in Runs, Start(k) \/ RunStep(k) PROVE IInv'
      BY <1>1, StartIInv, SelectIInv, SkipIInv, RunEndsIInv, SendIInv DEF RunStep
<1>2. ASSUME NEW k \in Runs, NEW g \in Goroutines, RequestStep(k, g) PROVE IInv'
      BY <1>2, FinishedIInv, RecordIInv, ReleaseIInv DEF RequestStep
<1>3. CASE Stop \/ Shutdown \/ Wait \/ WaitReturns BY <1>3, StopIInv, EndIInv
<1>4. CASE UNCHANGED vars
  <2> USE <1>4 DEF vars, IInv
  <2>1. Shapes' /\ Winding' /\ Books' BY DEF Shapes, Winding, Books
  <2>2. OneRun' BY DEF OneRun, Active, Quiet
  <2> QED BY <2>1, <2>2, Unmoved
<1> QED BY <1>1, <1>2, <1>3, <1>4 DEF Next

LEMMA Inductive == Spec => []IInv
<1> QED BY InitIInv, StepIInv, PTL DEF Spec

----------------------------------------------------------------------------
(* The properties of the run                                               *)

LEMMA InFlightBound ==
    ASSUME IInv
    PROVE  /\ stats.inflight <= MaxSlots
           /\ state = "stopped" \/ waiter = "returned" => stats.inflight = 0
<1>1. CASE cur = None BY <1>1, SlotAssumption DEF IInv, OneRun
<1>2. ASSUME NEW k \in Runs, k = cur
      PROVE  /\ stats.inflight <= MaxSlots
             /\ run[k] = "none" => stats.inflight = 0
  <2>1. stats.inflight = Cardinality(Flying(k)) BY <1>2 DEF IInv, Slotted
  <2> QED BY <1>2, <2>1, FlyingHolds, SlotAssumption DEF IInv, Slotted, OneRun
<1> QED BY <1>1, <1>2 DEF IInv, Shapes, OneRun, Winding, Active

(* Every variable of the tester keeps its type; no counter exceeds the     *)
(* ticks there were (loadtest.go:26-44).                                   *)
THEOREM TesterTypes == Spec => []TypeOK
<1>1. IInv => TypeOK
  <2> SUFFICES ASSUME IInv PROVE stats \in [Counters -> 0 .. MaxTicks]
      BY DEF IInv, Shapes, TypeOK
  <2> QED BY TickAssumption DEF IInv, Shapes, Books, Counters
<1> QED BY <1>1, Inductive, PTL

(* The numbers on the dashboard balance at every moment, and a full set of *)
(* slots makes a tick count as skipped instead of one more request         *)
(* (loadtest.go:170-207, 210-233).                                         *)
THEOREM BooksBalance == Spec => []Balance
<1>1. IInv => Balance BY InFlightBound DEF IInv, Books, Balance
<1> QED BY <1>1, Inductive, PTL

(* The deferred end waits for the requests before it says "stopped" and    *)
(* closes done, and Wait waits for done (loadtest.go:104-111, 155-162).    *)
THEOREM StopIsFinal == Spec => []StoppedIsFinal
<1>1. IInv => StoppedIsFinal
  <2> SUFFICES ASSUME IInv, state = "stopped" \/ waiter = "returned"
               PROVE  \A k \in Runs : run[k] = "none" /\ Quiet(k)
      BY InFlightBound DEF StoppedIsFinal
  <2> QED BY DEF IInv, OneRun, Winding, Active
<1> QED BY <1>1, Inductive, PTL

(* Whoever calls t.cancel cancels the run that is under way: no run        *)
(* outlives the start of the next (loadtest.go:77-86, 95-102, 155-162).    *)
THEOREM OwnCancel == Spec => CancelsOwn
<1>1. ASSUME IInv, [Next]_vars
      PROVE  [\A k \in Runs : ~ cancelled[k] /\ cancelled'[k]
                 => (state' = "stopping" /\ cur = k) \/ parent' \/ run'[k] = "none"]_vars
  <2> SUFFICES ASSUME NEW k \in Runs, ~ cancelled[k], cancelled'[k]
               PROVE  (state' = "stopping" /\ cur = k) \/ parent' \/ run'[k] = "none"
      OBVIOUS
  <2>1. ASSUME NEW n \in Runs, RunEnds(n) PROVE run'[k] = "none"
    <3>1. n = cur BY <1>1, <2>1 DEF IInv, OneRun, RunEnds
    <3> QED BY <1>1, <2>1, <3>1 DEF IInv, Shapes, RunEnds, Cancel, Goto
  <2>2. ASSUME NEW n \in Runs, Start(n) PROVE parent'
        BY <1>1, <2>2 DEF IInv, Shapes, Start
  <2>3. CASE Stop BY <1>1, <2>3 DEF IInv, Shapes, Stop, Cancel
  <2>4. CASE Shutdown BY <2>4 DEF Shutdown
  <2>5. ASSUME NEW n \in Runs,
               \/ Leave(n) \/ Tick(n) \/ Skip(n)
               \/ \E g \in Goroutines : Send(n, g) \/ RequestStep(n, g)
        PROVE  FALSE
        BY <2>5 DEF Leave, Tick, Skip, Send, RequestStep, Finished, Record, Release
  <2>6. CASE Wait \/ WaitReturns \/ UNCHANGED vars BY <2>6 DEF Wait, WaitReturns, vars
  <2> QED BY <1>1, <2>1, <2>2, <2>3, <2>4, <2>5, <2>6 DEF Next, RunStep
<1> QED BY <1>1, Inductive, PTL DEF Spec, CancelsOwn

----------------------------------------------------------------------------
(* History: the rows and their ranks                                       *)

LEMMA MatchesFinite ==
    ASSUME NEW f
    PROVE  /\ IsFiniteSet(Matches(f)) /\ Cardinality(Matches(f)) \in Nat
           /\ Matches(f) \subseteq Nat
<1>1. Matches(f) \in SUBSET IPs BY DEF Matches
<1> QED BY <1>1, FS_Subset, FS_CardinalityType, HistoryAssumption

(* The ranks of the rows are 1, 2, ... up to their number, one each.       *)
LEMMA Ranked ==
    ASSUME NEW f
    PROVE  [a \in Matches(f) |-> Rank(a, f)]
               \in Bijection(Matches(f), 1 .. Cardinality(Matches(f)))
<1> DEFINE M == Matches(f)
           n == Cardinality(M)
           upto(a) == {b \in M : b <= a}
           rank == [a \in M |-> Rank(a, f)]
<1>1. IsFiniteSet(M) /\ n \in Nat /\ M \subseteq Nat BY MatchesFinite
<1>2. ASSUME NEW a \in M
      PROVE  /\ IsFiniteSet(upto(a)) /\ upto(a) \subseteq M /\ a \in upto(a)
             /\ rank[a] = Cardinality(upto(a)) /\ rank[a] \in 1 .. n
  <2>1. upto(a) \in SUBSET M /\ a \in upto(a) BY <1>1
  <2>2. IsFiniteSet(upto(a)) /\ Cardinality(upto(a)) <= n BY <1>1, <2>1, FS_Subset
  <2>3. Cardinality(upto(a)) \in Nat BY <2>2, FS_CardinalityType
  <2>4. Cardinality(upto(a)) # 0 BY <2>1, <2>2, FS_EmptySet
  <2>5. rank[a] = Cardinality(upto(a)) BY DEF Rank
  <2> QED BY <1>1, <2>1, <2>2, <2>3, <2>4, <2>5
<1>3. ASSUME NEW a \in M, NEW b \in M, a < b
      PROVE  rank[a] # rank[b]
  <2>1. upto(a) \in SUBSET upto(b) /\ b \in upto(b) /\ b \notin upto(a) BY <1>1, <1>3
  <2>2. upto(a) # upto(b) BY <2>1
  <2>3. IsFiniteSet(upto(b)) BY <1>2
  <2>4. Cardinality(upto(a)) # Cardinality(upto(b)) BY <2>1, <2>2, <2>3, FS_Subset
  <2> QED BY <1>2, <2>4
<1>4. rank \in [M -> 1 .. n] BY <1>2
<1>5. \A a, b \in M : rank[a] = rank[b] => a = b
  <2> SUFFICES ASSUME NEW a \in M, NEW b \in M, rank[a] = rank[b], a # b PROVE FALSE
      OBVIOUS
  <2>1. a < b \/ b < a BY <1>1
  <2> QED BY <1>3, <2>1
<1> HIDE DEF rank, n, M
<1>6. rank \in Injection(M, 1 .. n) BY <1>4, <1>5 DEF Injection, IsInjective
<1>7. IsFiniteSet(1 .. n) /\ Cardinality(1 .. n) = n BY <1>1, FS_Interval
<1>8. Cardinality(M) = n BY DEF n
<1>9. rank \in Surjection(M, 1 .. n) BY <1>6, <1>7, <1>8, FS_Injection
<1> QED BY <1>6, <1>9 DEF Bijection, rank, n, M

LEMMA AtRanked ==
    ASSUME NEW f, NEW n \in 1 .. Cardinality(Matches(f))
    PROVE  AtRank(n, f) \in Matches(f) /\ Rank(AtRank(n, f), f) = n
<1> DEFINE M == Matches(f)
<1>1. PICK rank \in Bijection(M, 1 .. Cardinality(M)) : rank = [a \in M |-> Rank(a, f)]
      BY Ranked
<1>2. \E a \in M : rank[a] = n BY <1>1 DEF Bijection, Surjection
<1>3. \E a \in M : Rank(a, f) = n BY <1>1, <1>2
<1> QED BY <1>3 DEF AtRank

(* LIMIT and OFFSET: a page is as long as the number of rows says.         *)
LEMMA PageLength ==
    ASSUME NEW f, NEW p \in Nat \ {0}
    PROVE  /\ IsFiniteSet(OnPage(p, f))
           /\ Cardinality(OnPage(p, f)) = RowsOf(Cardinality(Matches(f)), p)
<1> DEFINE M == Matches(f)
           n == Cardinality(M)
           before == (p - 1) * PageSize
           last == IF n < before + PageSize THEN n ELSE before + PageSize
           S == OnPage(p, f)
           T == before + 1 .. last
           g == [a \in S |-> Rank(a, f)]
<1>1. IsFiniteSet(M) /\ n \in Nat BY MatchesFinite
<1>2. before \in Nat /\ p * PageSize = before + PageSize /\ last \in Int
  <2>1. PICK q \in Nat : p = q + 1 BY SMT
  <2>2. q * PageSize \in Nat BY HistoryAssumption
  <2>3. (q + 1) * PageSize = q * PageSize + PageSize BY HistoryAssumption
  <2> QED BY <1>1, <2>1, <2>2, <2>3, HistoryAssumption
<1>3. PICK rank \in Bijection(M, 1 .. n) : rank = [a \in M |-> Rank(a, f)] BY Ranked
<1>4. S = {a \in M : rank[a] \in before + 1 .. before + PageSize} BY <1>2, <1>3 DEF OnPage
<1> HIDE DEF S, M, n, before
<1>5. rank \in [M -> 1 .. n] BY <1>3 DEF Bijection, Injection
<1>6. S \subseteq M /\ \A a \in S : rank[a] \in T /\ g[a] = rank[a]
  <2>1. S \subseteq M BY <1>4
  <2>2. \A a \in S : g[a] = rank[a] BY <1>3, <2>1
  <2>3. \A a \in S : rank[a] \in T BY <1>1, <1>2, <1>4, <1>5, HistoryAssumption
  <2> QED BY <2>1, <2>2, <2>3
<1>7. g \in Injection(S, T)
  <2>1. \A a, b \in M : rank[a] = rank[b] => a = b
        BY <1>3, <1>5 DEF Bijection, Injection, IsInjective
  <2>2. g \in [S -> T] BY <1>6
  <2> HIDE DEF g
  <2>3. DOMAIN g = S BY <2>2
  <2> QED BY <1>6, <2>1, <2>2, <2>3 DEF Injection, IsInjective
<1>8. g \in Surjection(S, T)
  <2>1. ASSUME NEW t \in T PROVE \E a \in S : g[a] = t
    <3>1. t \in 1 .. n /\ t \in before + 1 .. before + PageSize
          BY <1>1, <1>2, HistoryAssumption
    <3>2. PICK a \in M : rank[a] = t BY <1>3, <3>1 DEF Bijection, Surjection
    <3>3. a \in S BY <1>4, <3>1, <3>2
    <3> QED BY <1>6, <3>2, <3>3
  <2>2. g \in [S -> T] BY <1>6
  <2> QED BY <2>1, <2>2 DEF Surjection
<1>9. IsFiniteSet(S) BY <1>1, <1>6, FS_Subset
<1>10. ExistsBijection(S, T) BY <1>7, <1>8 DEF ExistsBijection, Bijection
<1>11. Cardinality(T) = Cardinality(S) BY <1>9, <1>10, FS_Bijection
<1>12. Cardinality(T) = IF before + 1 > last THEN 0 ELSE last - (before + 1) + 1
  <2> HIDE DEF last
  <2>1. before + 1 \in Int /\ last \in Int BY <1>2
  <2> QED BY <2>1, FS_Interval
<1>13. RowsOf(n, p) = Cardinality(T)
       BY <1>1, <1>2, <1>12, HistoryAssumption DEF RowsOf, before
<1> QED BY <1>9, <1>11, <1>13 DEF S, n, M

(* A page is the rows of LIMIT and OFFSET in the order of ORDER BY: row i  *)
(* of page p is the one whose rank is OFFSET + i (store.go:104).           *)
THEOREM PageOfRows ==
    ASSUME StoreTypeOK, NEW f \in Filters, NEW p \in Nat \ {0}
    PROVE  /\ Page(p, f) \in Seq(Rows)
           /\ Len(Page(p, f)) = RowsOf(Cardinality(Matches(f)), p)
           /\ \A i \in 1 .. Len(Page(p, f)) :
                 /\ Page(p, f)[i][1] \in Matches(f)
                 /\ Page(p, f)[i][2] = ips[Page(p, f)[i][1]]
                 /\ Rank(Page(p, f)[i][1], f) = (p - 1) * PageSize + i
<1> DEFINE before == (p - 1) * PageSize
           n == Cardinality(Matches(f))
           size == Cardinality(OnPage(p, f))
           row(i) == AtRank(before + i, f)
<1>1. size = RowsOf(n, p) /\ size \in Nat BY PageLength, FS_CardinalityType
<1>2. n \in Nat BY MatchesFinite
<1>3. before \in Nat
  <2>1. p - 1 \in Nat OBVIOUS
  <2> QED BY <2>1, HistoryAssumption
<1>4. ASSUME NEW i \in 1 .. size
      PROVE  row(i) \in Matches(f) /\ Rank(row(i), f) = before + i
  <2>1. before + i \in 1 .. n
    <3> HIDE DEF n, size
    <3>1. n - before < 0 => size = 0 BY <1>1, <1>2, <1>3 DEF RowsOf, before
    <3>2. size <= n - before \/ size = 0
      <4> HIDE DEF before
      <4>1. RowsOf(n, p) = IF n - before < 0 THEN 0 ELSE IF n - before < PageSize THEN n - before ELSE PageSize
            BY DEF RowsOf, before
      <4> QED BY <1>1, <1>2, <1>3, <4>1, HistoryAssumption
    <3> QED BY <1>1, <1>2, <1>3, <3>2
  <2> QED BY <2>1, AtRanked
<1>5. Matches(f) \subseteq IPs /\ \A a \in Matches(f) : ips[a] \in {"unused", "used"}
      BY DEF Matches, Filters, Wanted
<1> HIDE DEF row
<1>6. Page(p, f) = [i \in 1 .. size |-> <<row(i), ips[row(i)]>>] BY DEF Page, row
<1> HIDE DEF size
<1>7. \A i \in 1 .. size : <<row(i), ips[row(i)]>> \in Rows BY <1>4, <1>5 DEF Rows
<1>8. Page(p, f) \in Seq(Rows) /\ Len(Page(p, f)) = size BY <1>1, <1>6, <1>7, IsASeq, LenProperties
<1>9. \A i \in 1 .. size : /\ Page(p, f)[i][1] = row(i)
                           /\ Page(p, f)[i][2] = ips[row(i)]
      BY <1>6
<1> HIDE DEF n
<1> QED BY <1>1, <1>4, <1>8, <1>9 DEF n

----------------------------------------------------------------------------
(* History: the inductive invariant                                        *)

(* What is awaited is an answer to what the controls say.                  *)
Asked ==
    historyPending =>
        requests[newest].page = page /\ requests[newest].filter = filter

(* Between its two statements a handler has s.mu, and nobody changes the   *)
(* table it has counted.                                                   *)
Locked ==
    /\ mutex # 0 => requests[mutex].stage = "counted"
    /\ \A r \in Slots : requests[r].stage = "counted" =>
          /\ mutex = r
          /\ requests[r].page >= 1
          /\ requests[r].total = Cardinality(Matches(requests[r].filter))

(* An answer, on its way or on the screen, has the rows it counted.        *)
Whole ==
    /\ \A r \in Slots : requests[r].stage = "listed" =>
          Len(requests[r].items) = RowsOf(requests[r].total, requests[r].page)
    /\ ~ shown.error => Len(shown.items) = RowsOf(shown.total, shown.page)

HistoryIInv == HistoryTypeOK /\ Asked /\ Locked /\ Whole /\ ShownIsAsked

LEMMA FreeRequest == Free \in Requests /\ Nothing \in Tables
<1>1. <<>> \in Seq(Rows) BY EmptySeq
<1>2. "all" \in Filters BY DEF Filters, Wanted
<1>3. Free \in Requests BY <1>1, <1>2 DEF Free, Requests
<1>4. Nothing \in Tables BY <1>1, <1>2 DEF Nothing, Tables
<1> QED BY <1>3, <1>4

LEMMA HistoryInitIInv == HistoryInit => HistoryIInv
<1> SUFFICES ASSUME HistoryInit PROVE HistoryIInv OBVIOUS
<1> USE DEF HistoryInit
<1>1. page \in Int /\ filter \in Filters BY DEF Filters, Wanted
<1>2. clicks \in 0 .. MaxClicks /\ failures \in 0 .. MaxFailures BY HistoryAssumption
<1>3. historyPending \in BOOLEAN /\ previous \in BOOLEAN /\ next \in BOOLEAN BY Zenon
<1>4. requests \in [Slots -> Requests] /\ shown \in Tables BY FreeRequest
<1>5. HistoryTypeOK BY <1>1, <1>2, <1>3, <1>4 DEF HistoryTypeOK, StoreInit
<1> QED BY <1>5 DEF HistoryIInv, Asked, Locked, Whole, ShownIsAsked, Free, Nothing

(* A request of refreshHistory from slot r, as the controls then say.      *)
LEMMA RequestIInv ==
    ASSUME HistoryIInv, NEW r \in Slots, NEW p \in Int, NEW f \in Filters,
           Request(r, p, f), page' = p, filter' = f,
           requests[r].stage # "counted",
           previous' \in BOOLEAN, next' \in BOOLEAN, clicks' \in 0 .. MaxClicks,
           UNCHANGED <<ips, mutex, shown, failures>>
    PROVE  HistoryIInv'
<1> USE DEF HistoryIInv
<1>0. PICK q : q = [Free EXCEPT !.stage = "sent", !.page = p, !.filter = f] OBVIOUS
<1>1. /\ q \in Requests /\ q.stage = "sent" /\ q.page = p /\ q.filter = f
      /\ requests' = [requests EXCEPT ![r] = q]
  <2>1. q \in Requests /\ q.stage = "sent" /\ q.page = p /\ q.filter = f BY <1>0, FreeRequest DEF Requests
  <2>2. requests' = [requests EXCEPT ![r] = [Free EXCEPT !.stage = "sent", !.page = p, !.filter = f]]
        BY DEF Request
  <2> QED BY <1>0, <2>1, <2>2
<1>2. requests \in [Slots -> Requests] BY DEF HistoryTypeOK, Requests
<1>3. /\ requests' \in [Slots -> Requests] /\ requests'[r] = q
      /\ \A s \in Slots : s # r => requests'[s] = requests[s] BY <1>1, <1>2
<1>4. \A g : Matches(g)' = Matches(g) BY DEF Matches
<1>5. HistoryTypeOK' BY <1>3 DEF HistoryTypeOK, StoreTypeOK, Request, Requests
<1>6. Asked' BY <1>3 DEF Asked, Request
<1>7. Locked'
  <2>1. mutex' # 0 => requests'[mutex'].stage = "counted" BY <1>3 DEF Locked, HistoryTypeOK
  <2>2. ASSUME NEW s \in Slots, requests'[s].stage = "counted"
        PROVE  requests'[s] = requests[s] /\ requests[s].stage = "counted"
        BY <1>1, <1>3, <2>2
  <2>3. ASSUME NEW s \in Slots, requests'[s].stage = "counted"
        PROVE  requests'[s].total = Cardinality(Matches(requests[s].filter)')
        BY <1>4, <2>2, <2>3 DEF Locked
  <2> QED BY <2>1, <2>2, <2>3 DEF Locked, Matches
<1>8. Whole' BY <1>1, <1>3 DEF Whole
<1>9. ShownIsAsked' BY <1>3 DEF ShownIsAsked, Request
<1> QED BY <1>5, <1>6, <1>7, <1>8, <1>9

LEMMA WriteIInv ==
    ASSUME HistoryIInv, Write
    PROVE  HistoryIInv'
<1> USE DEF HistoryIInv, Write, controls
<1>1. StoreTypeOK'
      BY DEF HistoryTypeOK, StoreTypeOK, Observe, Observed, Consume, Consumed
<1>2. HistoryTypeOK' BY <1>1 DEF HistoryTypeOK
<1>3. Asked' BY DEF Asked
<1>4. Locked' BY HistoryAssumption DEF Locked, Unlocked
<1>5. Whole' BY DEF Whole
<1>6. ShownIsAsked' BY DEF ShownIsAsked
<1> QED BY <1>2, <1>3, <1>4, <1>5, <1>6

LEMMA RefreshIInv ==
    ASSUME HistoryIInv, NEW r \in Slots, Refresh(r)
    PROVE  HistoryIInv'
BY RequestIInv DEF HistoryIInv, HistoryTypeOK, Refresh, Idle, controls

LEMMA AskIInv ==
    ASSUME HistoryIInv, NEW r \in Slots, ClickPrevious(r) \/ ClickNext(r) \/ Refilter(r)
    PROVE  HistoryIInv'
<1>1. PICK p \in Int, f \in Filters : Ask(r, p, f)
      BY DEF HistoryIInv, HistoryTypeOK, ClickPrevious, ClickNext, Refilter
<1>2. clicks' \in 0 .. MaxClicks BY <1>1, HistoryAssumption DEF HistoryIInv, HistoryTypeOK, Ask
<1> QED BY <1>1, <1>2, RequestIInv DEF HistoryIInv, HistoryTypeOK, Ask, Idle

LEMMA GoBackIInv ==
    ASSUME HistoryIInv, NEW r \in Slots, GoBack(r), UNCHANGED <<ips, mutex, failures>>
    PROVE  HistoryIInv'
<1> DEFINE p == LastPage(requests[r].total)
<1>1. requests[r].total \in Nat BY DEF HistoryIInv, HistoryTypeOK, Requests
<1>2. (requests[r].total + PageSize - 1) \div PageSize \in Int BY <1>1, HistoryAssumption
<1>3. p \in Int BY <1>2 DEF LastPage, Pages
<1>4. requests[r].stage # "counted" /\ Request(r, p, filter) /\ page' = p
      BY DEF GoBack, Overrun
<1> HIDE DEF p
<1> QED BY <1>3, <1>4, RequestIInv DEF HistoryIInv, HistoryTypeOK, GoBack

(* The handler of r, or its answer, moves the request of r to q.           *)
LEMMA MovedIInv ==
    ASSUME HistoryIInv, NEW r \in Slots, NEW q \in Requests,
           requests' = [requests EXCEPT ![r] = q],
           UNCHANGED <<ips, page, filter, newest, clicks>>,
           historyPending' \in BOOLEAN, previous' \in BOOLEAN, next' \in BOOLEAN,
           shown' \in Tables, failures' \in 0 .. MaxFailures,
           mutex' = IF q.stage = "counted" THEN r ELSE Released(r),
           q.stage = "counted" =>
               mutex = 0 /\ q.page >= 1 /\ q.total = Cardinality(Matches(q.filter)),
           q.stage = "listed" => Len(q.items) = RowsOf(q.total, q.page),
           q.stage # "free" => q.page = requests[r].page /\ q.filter = requests[r].filter,
           ~ shown'.error => Len(shown'.items) = RowsOf(shown'.total, shown'.page),
           IF q.stage = "free" /\ r = newest
           THEN /\ ~ historyPending'
                /\ ~ shown'.error => shown'.page = page /\ shown'.filter = filter
           ELSE (q.stage = "free" \/ requests[r].stage # "free") /\ UNCHANGED <<historyPending, shown>>
    PROVE  HistoryIInv'
<1> USE DEF HistoryIInv
<1>1. requests \in [Slots -> Requests] BY DEF HistoryTypeOK, Requests
<1>2. /\ requests' \in [Slots -> Requests] /\ requests'[r] = q
      /\ \A s \in Slots : s # r => requests'[s] = requests[s] BY <1>1
<1>3. HistoryTypeOK'
  <2>1. mutex' \in Slots \union {0} BY DEF Released, HistoryTypeOK
  <2>2. StoreTypeOK' BY DEF HistoryTypeOK, StoreTypeOK
  <2> QED BY <1>2, <2>1, <2>2 DEF HistoryTypeOK, Requests, Tables
<1>4. Asked' BY <1>2 DEF Asked, HistoryTypeOK, ShownIsAsked
<1>5. Locked'
  <2>1. ASSUME mutex' # 0 PROVE requests'[mutex'].stage = "counted"
        BY <1>2, <2>1, HistoryAssumption DEF Locked, HistoryTypeOK, Released
  <2>2. ASSUME NEW s \in Slots, requests'[s].stage = "counted"
        PROVE  /\ mutex' = s /\ requests'[s].page >= 1
               /\ requests'[s].total = Cardinality(Matches(requests'[s].filter))
        BY <1>2, <2>2, HistoryAssumption DEF Locked, HistoryTypeOK, Released
  <2> QED BY <2>1, <2>2 DEF Locked, Matches
<1>6. Whole' BY <1>2 DEF Whole
<1>7. ShownIsAsked'
  <2>1. historyPending' <=> requests'[newest'].stage # "free"
        BY <1>2 DEF ShownIsAsked, HistoryTypeOK
  <2>2. historyPending' \/ shown'.error \/
           /\ shown'.page = page' /\ shown'.filter = filter'
           /\ Len(shown'.items) = RowsOf(shown'.total, page')
        BY <1>2 DEF ShownIsAsked, HistoryTypeOK
  <2> QED BY <2>1, <2>2 DEF ShownIsAsked, RowsOf
<1> QED BY <1>3, <1>4, <1>5, <1>6, <1>7

LEMMA AnsweredIInv ==
    ASSUME HistoryIInv, NEW r \in Slots, Answered(r)
    PROVE  HistoryIInv'
<1> USE DEF HistoryIInv
<1>1. /\ requests[r].stage \in {"listed", "refused"} /\ requests[r] \in Requests
      /\ UNCHANGED <<ips, mutex, failures>>
      BY DEF Answered, HistoryTypeOK, Requests
<1>2. PICK q : q = Free OBVIOUS
<1>11. q \in Requests /\ q.stage = "free" BY <1>2, FreeRequest DEF Free
<1>3. mutex' = Released(r) /\ failures' \in 0 .. MaxFailures
      BY <1>1, HistoryAssumption DEF Released, Locked, HistoryTypeOK
<1>10. Drop(r) => requests' = [requests EXCEPT ![r] = q]
  <2>1. Drop(r) => requests' = [requests EXCEPT ![r] = Free] BY DEF Drop
  <2> QED BY <1>2, <2>1
<1>4. r = newest /\ Drop(r) => historyPending' = FALSE BY DEF Drop, Settled, IsNewest
<1>5. shown \in Tables /\ (~ shown.error => Len(shown.items) = RowsOf(shown.total, shown.page))
      BY DEF HistoryTypeOK, Tables, Whole
<1>6. CASE StaleAnswer(r)
  <2>1. /\ Drop(r) /\ r # newest
        /\ UNCHANGED <<ips, page, filter, newest, clicks, historyPending, previous, next, shown>>
        BY <1>1, <1>6 DEF StaleAnswer, Drop, Settled, IsNewest, controls
  <2>2. historyPending' \in BOOLEAN /\ previous' \in BOOLEAN /\ next' \in BOOLEAN
        BY <2>1 DEF HistoryTypeOK
  <2> QED BY <1>3, <1>5, <1>10, <1>11, <2>1, <2>2, MovedIInv
<1>7. CASE GoBack(r) BY <1>1, <1>7, GoBackIInv
<1>8. CASE ShowPage(r)
  <2> DEFINE a == requests[r]
  <2>1. r = newest /\ a.stage = "listed" /\ Drop(r) BY <1>8 DEF ShowPage, IsNewest
  <2>2. a.page = page /\ a.filter = filter BY <2>1 DEF Asked, ShownIsAsked
  <2>3. /\ shown' \in Tables /\ shown'.page = page /\ shown'.filter = filter
        /\ Len(shown'.items) = RowsOf(shown'.total, shown'.page)
        BY <1>1, <1>8, <2>1, <2>2 DEF ShowPage, Whole, Tables, Requests
  <2>4. previous' \in BOOLEAN /\ next' \in BOOLEAN BY <1>8 DEF ShowPage
  <2>5. historyPending' = FALSE BY <1>4, <2>1
  <2>6. UNCHANGED <<ips, page, filter, newest, clicks>>
        BY <1>1, <1>8, <2>1 DEF ShowPage, Drop
  <2> QED BY <1>3, <1>10, <1>11, <2>1, <2>3, <2>4, <2>5, <2>6, MovedIInv
<1>9. CASE ShowError(r)
  <2>1. r = newest /\ Drop(r) BY <1>9 DEF ShowError, IsNewest
  <2>2. shown' \in Tables /\ shown'.error BY <1>5, <1>9 DEF ShowError, Tables
  <2>3. historyPending' = FALSE BY <1>4, <2>1
  <2>4. UNCHANGED <<ips, page, filter, newest, clicks, previous, next>>
        BY <1>1, <1>9, <2>1 DEF ShowError, Drop
  <2>5. previous' \in BOOLEAN /\ next' \in BOOLEAN BY <2>4 DEF HistoryTypeOK
  <2> QED BY <1>3, <1>10, <1>11, <2>1, <2>2, <2>3, <2>4, <2>5, MovedIInv
<1> QED BY <1>1, <1>6, <1>7, <1>8, <1>9 DEF Answered

LEMMA ServingIInv ==
    ASSUME HistoryIInv, NEW r \in Slots,
           Invalid(r) \/ CountRows(r) \/ SelectRows(r) \/ RequestFails(r)
    PROVE  HistoryIInv'
<1> USE DEF HistoryIInv
<1> DEFINE was == requests[r]
<1>0. PICK q : q = requests'[r] OBVIOUS
<1>1. was \in Requests /\ requests \in [Slots -> Requests] BY DEF HistoryTypeOK, Requests
<1>2. /\ UNCHANGED <<ips, page, filter, newest, clicks, historyPending, previous, next, shown>>
      /\ was.stage \notin {"free"}
      BY DEF Invalid, CountRows, SelectRows, RequestFails, Serving, controls
<1>9. historyPending' \in BOOLEAN /\ previous' \in BOOLEAN /\ next' \in BOOLEAN
      BY <1>2 DEF HistoryTypeOK
<1>3. failures' \in 0 .. MaxFailures
      BY HistoryAssumption DEF Invalid, CountRows, SelectRows, RequestFails, HistoryTypeOK
<1>4. shown \in Tables /\ (~ shown.error => Len(shown.items) = RowsOf(shown.total, shown.page))
      BY DEF HistoryTypeOK, Whole, Tables
<1>5. mutex \in Slots \union {0} /\ r # 0 /\ (mutex = r <=> was.stage = "counted")
      BY HistoryAssumption DEF HistoryTypeOK, Locked
<1>6. CASE Invalid(r) \/ RequestFails(r)
  <2>1. q \in Requests /\ requests' = [requests EXCEPT ![r] = q] /\ q.stage = "refused"
        /\ q.page = was.page /\ q.filter = was.filter
    <3>1. requests' = [requests EXCEPT ![r].stage = "refused"]
          BY <1>6 DEF Invalid, RequestFails
    <3> QED BY <1>0, <1>1, <3>1 DEF Requests
  <2>2. mutex' = Released(r)
        BY <1>5, <1>6 DEF Invalid, RequestFails, Released, Serving
  <2> QED BY <1>2, <1>3, <1>4, <1>9, <2>1, <2>2, MovedIInv
<1>7. CASE CountRows(r)
  <2>1. Cardinality(Matches(was.filter)) \in Nat BY MatchesFinite
  <2>2. q \in Requests /\ requests' = [requests EXCEPT ![r] = q] /\ q.stage = "counted"
        /\ q.page = was.page /\ q.filter = was.filter
        /\ q.total = Cardinality(Matches(was.filter))
        BY <1>0, <1>1, <1>7, <2>1 DEF CountRows, Requests
  <2>3. mutex = 0 /\ mutex' = r /\ was.page >= 1 BY <1>7 DEF CountRows
  <2> QED BY <1>2, <1>3, <1>4, <1>9, <2>2, <2>3, MovedIInv
<1>8. CASE SelectRows(r)
  <2> DEFINE items == Page(was.page, was.filter)
  <2>1. was.stage = "counted" BY <1>8 DEF SelectRows, Serving
  <2>2. was.page \in Nat \ {0} /\ was.filter \in Filters
        /\ was.total = Cardinality(Matches(was.filter))
        BY <1>1, <2>1 DEF Locked, Requests
  <2>3. items \in Seq(Rows) /\ Len(items) = RowsOf(was.total, was.page)
        BY <2>2, PageOfRows DEF HistoryTypeOK
  <2> HIDE DEF items
  <2>4. q \in Requests /\ requests' = [requests EXCEPT ![r] = q] /\ q.stage = "listed"
        /\ q.page = was.page /\ q.filter = was.filter /\ q.total = was.total /\ q.items = items
        BY <1>0, <1>1, <1>8, <2>3 DEF SelectRows, Requests, items
  <2>5. mutex' = Released(r) BY <1>5, <1>8, <2>1 DEF SelectRows, Released
  <2> QED BY <1>2, <1>3, <1>4, <1>9, <2>3, <2>4, <2>5, MovedIInv
<1> QED BY <1>6, <1>7, <1>8

LEMMA HistoryNextIInv == HistoryIInv /\ [HistoryNext]_historyVars => HistoryIInv'
<1> SUFFICES ASSUME HistoryIInv, [HistoryNext]_historyVars PROVE HistoryIInv' OBVIOUS
<1>1. CASE Write BY <1>1, WriteIInv
<1>2. ASSUME NEW r \in Slots, Refresh(r) PROVE HistoryIInv' BY <1>2, RefreshIInv
<1>3. ASSUME NEW r \in Slots, HistoryStep(r) \/ RequestFails(r) PROVE HistoryIInv'
      BY <1>3, AnsweredIInv, ServingIInv DEF HistoryStep
<1>4. ASSUME NEW r \in Slots, ClickPrevious(r) \/ ClickNext(r) \/ Refilter(r)
      PROVE  HistoryIInv'
      BY <1>4, AskIInv
<1>5. CASE UNCHANGED historyVars
      BY <1>5 DEF historyVars, controls, HistoryIInv, HistoryTypeOK, StoreTypeOK, Asked, Locked,
                  Matches, Whole, ShownIsAsked
<1> QED BY <1>1, <1>2, <1>3, <1>4, <1>5 DEF HistoryNext

(* The inductive invariant holds in every state.                           *)
THEOREM HistoryInvariant == HistorySpec => []HistoryIInv
BY HistoryInitIInv, HistoryNextIInv, PTL DEF HistorySpec

(* The state is well typed, the rows on the screen and on their way        *)
(* included.                                                               *)
THEOREM HistoryTypes == HistorySpec => []HistoryTypeOK
BY HistoryInvariant, PTL DEF HistoryIInv

(* Whatever overtakes what, and whatever the workers write: the page is    *)
(* pending exactly while its newest request is, and otherwise shows what   *)
(* its controls ask for, whole (app.js:59,66).                             *)
THEOREM HistoryIsAsked == HistorySpec => []ShownIsAsked
BY HistoryInvariant, PTL DEF HistoryIInv
=============================================================================
