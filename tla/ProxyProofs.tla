---------------------------- MODULE ProxyProofs ----------------------------
(***************************************************************************)
(* Theorems about Proxy, for every number of instances, addresses,         *)
(* requests and endpoint identities, in either mode and across restarts.   *)
(***************************************************************************)
EXTENDS Proxy, PoolProofs

----------------------------------------------------------------------------
(* The inductive invariant                                                 *)

Handlers == {"idle", "loop", "acquire", "dial", "exchange", "copy", "finish", "done"}
Attempting == {"acquire", "dial", "exchange", "copy", "finish"}

FrontTypes ==
    /\ handler \in [Requests -> Handlers]
    /\ attempt \in [Requests -> 0 .. N]
    /\ err \in [Requests -> BOOLEAN]
    /\ dialed \in [Requests -> BOOLEAN]
    /\ answer \in [Requests -> Answers]
    /\ reached \in [Requests -> Nat]
    /\ DOMAIN client = Clients

(* Where a handler is tells where its current call is; earlier calls are   *)
(* over and later ones have not been made.                                 *)
CallStates(h) ==
    CASE h = "acquire" -> {"scan", "parked", "woken", "final", "rejecting"}
      [] h \in {"dial", "exchange", "copy"} -> {"leased"}
      [] h = "finish" -> {"leased", "closing", "gone"}
      [] OTHER -> {"gone"}

CallsInStep(r) ==
    /\ handler[r] = "idle" => attempt[r] = 0
    /\ handler[r] \in Attempting => attempt[r] # 0
    /\ \A k \in 1 .. N :
         /\ k > attempt[r] => client[<<r, k>>] = "new"
         /\ k < attempt[r] => client[<<r, k>>] = "gone"
         /\ k = attempt[r] /\ answer[r] # "panicked" =>
                client[<<r, k>>] \in CallStates(handler[r])

(* What has gone out in either direction is known to the handler.          *)
Progress(r) ==
    /\ answer[r] = "panicked" => handler[r] = "done"
    /\ handler[r] \in {"exchange", "copy"} => dialed[r]
    /\ HasBody(r) /\ reached[r] > 0 =>
           /\ handler[r] \in {"copy", "finish", "done"}
           /\ handler[r] = "finish" => dialed[r]
    /\ answer[r] \in {"headers", "tunnel"} => handler[r] \in {"copy", "finish", "done"}
    /\ answer[r] = "tunnel" => kind[r] = "connect" /\ dialed[r]

FInv == FrontTypes /\ \A r \in Requests : CallsInStep(r) /\ Progress(r)

(* A step of one request leaves the calls and the record of all others.    *)
Untouched(r) ==
    /\ kind' = kind
    /\ \A q \in Requests \ {r} :
         /\ handler'[q] = handler[q] /\ attempt'[q] = attempt[q]
         /\ dialed'[q] = dialed[q] /\ answer'[q] = answer[q] /\ reached'[q] = reached[q]
         /\ \A k \in 1 .. N : client'[<<q, k>>] = client[<<q, k>>]

LEMMA OneRequest ==
    ASSUME FInv, NEW r \in Requests, Untouched(r), FrontTypes',
           CallsInStep(r)', Progress(r)'
    PROVE  FInv'
<1>1. ASSUME NEW q \in Requests \ {r} PROVE CallsInStep(q)' /\ Progress(q)'
      BY <1>1 DEF FInv, Untouched, CallsInStep, Progress, HasBody
<1> QED BY <1>1 DEF FInv

(* The current call of a request that is in an attempt is one of Pool's.   *)
LEMMA CallIsClient ==
    ASSUME FInv, NEW r \in Requests, handler[r] \in Attempting
    PROVE  /\ attempt[r] \in 1 .. N
           /\ Call(r) \in Clients
           /\ client[Call(r)] \in CallStates(handler[r])
<1> QED BY CallAssumption, CountAssumption
        DEF FInv, FrontTypes, CallsInStep, Progress, Call, Attempting

(* Whether and how the current call moves decides most of CallsInStep.     *)
LEMMA CurrentCall ==
    ASSUME FInv, NEW r \in Requests, handler[r] \in Attempting,
           UNCHANGED <<kind, attempt>>,
           client' = [client EXCEPT ![Call(r)] = client'[Call(r)]],
           handler'[r] # "idle",
           answer'[r] # "panicked" => client'[Call(r)] \in CallStates(handler'[r])
    PROVE  CallsInStep(r)' /\ \A q \in Requests \ {r}, k \in 1 .. N :
                                  client'[<<q, k>>] = client[<<q, k>>]
<1>1. attempt[r] \in 1 .. N /\ Call(r) \in Clients BY CallIsClient
<1>2. \A q \in Requests, k \in 1 .. N :
         <<q, k>> # Call(r) => client'[<<q, k>>] = client[<<q, k>>]
      BY CallAssumption DEF FInv, FrontTypes
<1>3. \A k \in 1 .. N : k # attempt[r] => client'[<<r, k>>] = client[<<r, k>>]
      BY <1>2 DEF Call
<1>4. \A q \in Requests \ {r}, k \in 1 .. N : client'[<<q, k>>] = client[<<q, k>>]
      BY <1>2 DEF Call
<1>5. CallsInStep(r)'
      BY <1>1, <1>3 DEF FInv, FrontTypes, CallsInStep, Call, Attempting
<1> QED BY <1>4, <1>5

----------------------------------------------------------------------------
(* Steps of a handler that leave the calls alone                           *)

LEMMA ArriveStep ==
    ASSUME FInv, NEW r \in Requests, Arrive(r)
    PROVE  FInv'
<1> USE DEF Arrive, Goto, Reply, End, vars, FInv, FrontTypes
<1>1. FrontTypes' BY DEF Handlers, Answers
<1>2. Untouched(r) BY DEF Untouched
<1>3. CallsInStep(r)' BY DEF CallsInStep, CallStates, Attempting, Progress
<1>4. Progress(r)' BY DEF CallsInStep, Progress, HasBody
<1> QED BY <1>1, <1>2, <1>3, <1>4, OneRequest

LEMMA StopLoopStep ==
    ASSUME FInv, NEW r \in Requests, StopLoop(r)
    PROVE  FInv'
<1> USE DEF StopLoop, Goto, Reply, End, vars, FInv, FrontTypes
<1>1. FrontTypes' BY DEF Handlers, Answers
<1>2. Untouched(r) BY DEF Untouched
<1>3. CallsInStep(r)' BY DEF CallsInStep, CallStates, Attempting, Progress
<1>4. Progress(r)' BY DEF CallsInStep, Progress, HasBody
<1> QED BY <1>1, <1>2, <1>3, <1>4, OneRequest

LEMMA DialFailsStep ==
    ASSUME FInv, NEW r \in Requests, DialFails(r)
    PROVE  FInv'
<1> USE DEF DialFails, Fail, Goto, vars, FInv, FrontTypes
<1>1. FrontTypes' BY DEF Handlers, Answers
<1>2. Untouched(r) BY DEF Untouched
<1>3. CallsInStep(r)' BY DEF CallsInStep, CallStates, Attempting, Progress
<1>4. Progress(r)' BY DEF CallsInStep, Progress, HasBody
<1> QED BY <1>1, <1>2, <1>3, <1>4, OneRequest

LEMMA DialSucceedsStep ==
    ASSUME FInv, NEW r \in Requests, DialSucceeds(r)
    PROVE  FInv'
<1> USE DEF DialSucceeds, Goto, vars, FInv, FrontTypes
<1>1. FrontTypes' BY DEF Handlers, Answers
<1>2. Untouched(r) BY DEF Untouched
<1>3. CallsInStep(r)' BY DEF CallsInStep, CallStates, Attempting, Progress
<1>4. Progress(r)' BY DEF CallsInStep, Progress, HasBody
<1> QED BY <1>1, <1>2, <1>3, <1>4, OneRequest

LEMMA ExchangeFailsStep ==
    ASSUME FInv, NEW r \in Requests, ExchangeFails(r)
    PROVE  FInv'
<1> USE DEF ExchangeFails, Fail, Goto, vars, FInv, FrontTypes
<1>1. FrontTypes' BY DEF Handlers, Answers
<1>2. Untouched(r) BY DEF Untouched
<1>3. CallsInStep(r)' BY DEF CallsInStep, CallStates, Attempting, Progress
<1>4. Progress(r)' BY DEF CallsInStep, Progress, HasBody
<1> QED BY <1>1, <1>2, <1>3, <1>4, OneRequest

LEMMA ResponseBeginsStep ==
    ASSUME FInv, NEW r \in Requests, ResponseBegins(r)
    PROVE  FInv'
<1> USE DEF ResponseBegins, Respond, Goto, Reply, vars, FInv, FrontTypes
<1>1. FrontTypes' BY DEF Handlers, Answers
<1>2. Untouched(r) BY DEF Untouched
<1>3. CallsInStep(r)' BY DEF CallsInStep, CallStates, Attempting, Progress
<1>4. Progress(r)' BY DEF CallsInStep, Progress, HasBody
<1> QED BY <1>1, <1>2, <1>3, <1>4, OneRequest

LEMMA ResponsePanicsStep ==
    ASSUME FInv, NEW r \in Requests, ResponsePanics(r)
    PROVE  FInv'
<1> USE DEF ResponsePanics, Respond, End, Goto, Reply, vars, FInv, FrontTypes
<1>1. FrontTypes' BY DEF Handlers, Answers
<1>2. Untouched(r) BY DEF Untouched
<1>3. CallsInStep(r)' BY DEF CallsInStep, CallStates, Attempting, Progress
<1>4. Progress(r)' BY DEF CallsInStep, Progress, HasBody
<1> QED BY <1>1, <1>2, <1>3, <1>4, OneRequest

LEMMA HijackFailsStep ==
    ASSUME FInv, NEW r \in Requests, HijackFails(r)
    PROVE  FInv'
<1> USE DEF HijackFails, Fail, Goto, vars, FInv, FrontTypes
<1>1. FrontTypes' BY DEF Handlers, Answers
<1>2. Untouched(r) BY DEF Untouched
<1>3. CallsInStep(r)' BY DEF CallsInStep, CallStates, Attempting, Progress
<1>4. Progress(r)' BY DEF CallsInStep, Progress, HasBody
<1> QED BY <1>1, <1>2, <1>3, <1>4, OneRequest

LEMMA TunnelBeginsStep ==
    ASSUME FInv, NEW r \in Requests, TunnelBegins(r)
    PROVE  FInv'
<1> USE DEF TunnelBegins, Goto, Reply, vars, FInv, FrontTypes
<1>1. FrontTypes' BY DEF Handlers, Answers
<1>2. Untouched(r) BY DEF Untouched
<1>3. CallsInStep(r)' BY DEF CallsInStep, CallStates, Attempting, Progress
<1>4. Progress(r)' BY DEF CallsInStep, Progress, HasBody
<1> QED BY <1>1, <1>2, <1>3, <1>4, OneRequest

LEMMA CopyEndsStep ==
    ASSUME FInv, NEW r \in Requests, CopyEnds(r)
    PROVE  FInv'
<1> USE DEF CopyEnds, Fail, Goto, vars, FInv, FrontTypes
<1>1. FrontTypes' BY DEF Handlers, Answers
<1>2. Untouched(r) BY DEF Untouched
<1>3. CallsInStep(r)' BY DEF CallsInStep, CallStates, Attempting, Progress
<1>4. Progress(r)' BY DEF CallsInStep, Progress, HasBody
<1> QED BY <1>1, <1>2, <1>3, <1>4, OneRequest

LEMMA AfterFinishStep ==
    ASSUME FInv, NEW r \in Requests, AfterFinish(r)
    PROVE  FInv'
<1> USE DEF AfterFinish, End, Goto, Reply, vars, FInv, FrontTypes
<1>0. Verdict(r) \in Answers BY DEF Verdict, Answers
<1>1. FrontTypes' BY <1>0 DEF Handlers
<1>2. Untouched(r) BY DEF Untouched
<1>3. CallsInStep(r)' BY DEF CallsInStep, CallStates, Attempting, Progress, Call
<1>4. Progress(r)' BY DEF CallsInStep, Progress, HasBody, Concluded, Verdict, Spent, Tunneled, Responded
<1> QED BY <1>1, <1>2, <1>3, <1>4, OneRequest

----------------------------------------------------------------------------
(* Steps that make a call, or move the current one                         *)

LEMMA NextAttemptStep ==
    ASSUME FInv, NEW r \in Requests, NextAttempt(r)
    PROVE  FInv'
<1> USE DEF NextAttempt, Fresh, Goto, FInv, FrontTypes
<1>1. attempt[r] + 1 \in 1 .. N BY CountAssumption DEF Exhausted
<1>2. client' = [client EXCEPT ![<<r, attempt[r] + 1>>] = "scan"] BY DEF CallAcquire
<1>3. \A q \in Requests, k \in 1 .. N :
         client'[<<q, k>>] = IF q = r /\ k = attempt[r] + 1 THEN "scan" ELSE client[<<q, k>>]
      BY <1>2, CallAssumption
<1>4. FrontTypes' BY <1>1, <1>2 DEF Handlers
<1>5. Untouched(r) BY <1>3 DEF Untouched
<1>6. CallsInStep(r)'
  <2>1. attempt'[r] = attempt[r] + 1 /\ handler'[r] = "acquire" OBVIOUS
  <2>2. ASSUME NEW k \in 1 .. N, k <= attempt[r] PROVE client[<<r, k>>] = "gone"
    <3>1. answer[r] # "panicked" BY DEF Progress
    <3>2. CASE k < attempt[r] BY <3>2 DEF CallsInStep
    <3>3. CASE k = attempt[r] BY <3>1, <3>3 DEF CallsInStep, CallStates
    <3> QED BY <2>2, <3>2, <3>3, CountAssumption
  <2>3. ASSUME NEW k \in 1 .. N
        PROVE  /\ k > attempt[r] + 1 => client'[<<r, k>>] = "new"
               /\ k < attempt[r] + 1 => client'[<<r, k>>] = "gone"
               /\ k = attempt[r] + 1 => client'[<<r, k>>] = "scan"
        BY <1>3, <2>2, <2>3, CountAssumption DEF CallsInStep
  <2> QED BY <1>1, <2>1, <2>3 DEF CallsInStep, CallStates, Attempting
<1>7. Progress(r)' BY DEF Progress, HasBody
<1> QED BY <1>4, <1>5, <1>6, <1>7, OneRequest

LEMMA AcquireGoesOnStep ==
    ASSUME FInv, NEW r \in Requests, AcquireGoesOn(r)
    PROVE  FInv'
<1> USE DEF AcquireGoesOn, Acquiring, front, FInv, FrontTypes
<1>1. handler[r] \in Attempting /\ Call(r) \in Clients
      BY CallIsClient DEF Attempting, Acquiring
<1>2. PICK s \in CallStates(handler'[r]) : client' = [client EXCEPT ![Call(r)] = s]
      BY <1>1 DEF CallStates, ScanFindsNone, AfterEmptyScan, Rescan, GiveUp, TimerFires, DeadlinePassed, Move, Scanning
<1>3. client'[Call(r)] = s BY <1>1, <1>2
<1>4. FrontTypes' BY <1>2 DEF Handlers, Answers, front
<1>5. handler'[r] # "idle" /\ UNCHANGED <<kind, attempt>> BY <1>1 DEF Attempting, front
<1>6. CallsInStep(r)' /\ \A q \in Requests \ {r}, k \in 1 .. N :
                             client'[<<q, k>>] = client[<<q, k>>]
      BY <1>1, <1>2, <1>3, <1>5, CurrentCall
<1>7. Untouched(r) BY <1>6 DEF Untouched, front
<1>8. Progress(r)' BY <1>1 DEF Progress, HasBody, front
<1> QED BY <1>4, <1>6, <1>7, <1>8, OneRequest

LEMMA GetLeaseStep ==
    ASSUME FInv, NEW r \in Requests, GetLease(r)
    PROVE  FInv'
<1> USE DEF GetLease, Acquiring, Goto, FInv, FrontTypes
<1>1. handler[r] \in Attempting /\ Call(r) \in Clients
      BY CallIsClient DEF Attempting, Acquiring
<1>2. PICK s \in CallStates(handler'[r]) : client' = [client EXCEPT ![Call(r)] = s]
      BY <1>1 DEF CallStates, GrantUnique, GrantReuse, Assign
<1>3. client'[Call(r)] = s BY <1>1, <1>2
<1>4. FrontTypes' BY <1>2 DEF Handlers, Answers, front
<1>5. handler'[r] # "idle" /\ UNCHANGED <<kind, attempt>> BY <1>1 DEF Attempting, front
<1>6. CallsInStep(r)' /\ \A q \in Requests \ {r}, k \in 1 .. N :
                             client'[<<q, k>>] = client[<<q, k>>]
      BY <1>1, <1>2, <1>3, <1>5, CurrentCall
<1>7. Untouched(r) BY <1>6 DEF Untouched, front
<1>8. Progress(r)' BY <1>1 DEF Progress, HasBody, front
<1> QED BY <1>4, <1>6, <1>7, <1>8, OneRequest

LEMMA NoneReadyStep ==
    ASSUME FInv, NEW r \in Requests, NoneReady(r)
    PROVE  FInv'
<1> USE DEF NoneReady, Acquiring, End, Goto, Reply, FInv, FrontTypes
<1>1. handler[r] \in Attempting /\ Call(r) \in Clients
      BY CallIsClient DEF Attempting, Acquiring
<1>2. PICK s \in CallStates(handler'[r]) : client' = [client EXCEPT ![Call(r)] = s]
      BY <1>1 DEF CallStates, CountRejected
<1>3. client'[Call(r)] = s BY <1>1, <1>2
<1>4. FrontTypes' BY <1>2 DEF Handlers, Answers, front
<1>5. handler'[r] # "idle" /\ UNCHANGED <<kind, attempt>> BY <1>1 DEF Attempting, front
<1>6. CallsInStep(r)' /\ \A q \in Requests \ {r}, k \in 1 .. N :
                             client'[<<q, k>>] = client[<<q, k>>]
      BY <1>1, <1>2, <1>3, <1>5, CurrentCall
<1>7. Untouched(r) BY <1>6 DEF Untouched, front
<1>8. Progress(r)' BY <1>1 DEF Progress, HasBody, front
<1> QED BY <1>4, <1>6, <1>7, <1>8, OneRequest

LEMMA AcquireFailsStep ==
    ASSUME FInv, NEW r \in Requests, AcquireFails(r)
    PROVE  FInv'
<1> USE DEF AcquireFails, Acquiring, End, Goto, Reply, FInv, FrontTypes
<1>1. handler[r] \in Attempting /\ Call(r) \in Clients
      BY CallIsClient DEF Attempting, Acquiring
<1>2. PICK s \in CallStates(handler'[r]) : client' = [client EXCEPT ![Call(r)] = s]
      BY <1>1 DEF CallStates, ScanFails, ContextEnds, Move
<1>3. client'[Call(r)] = s BY <1>1, <1>2
<1>4. FrontTypes' BY <1>2 DEF Handlers, Answers, front
<1>5. handler'[r] # "idle" /\ UNCHANGED <<kind, attempt>> BY <1>1 DEF Attempting, front
<1>6. CallsInStep(r)' /\ \A q \in Requests \ {r}, k \in 1 .. N :
                             client'[<<q, k>>] = client[<<q, k>>]
      BY <1>1, <1>2, <1>3, <1>5, CurrentCall
<1>7. Untouched(r) BY <1>6 DEF Untouched, front
<1>8. Progress(r)' BY <1>1 DEF Progress, HasBody, front
<1> QED BY <1>4, <1>6, <1>7, <1>8, OneRequest

LEMMA FinishLeaseStep ==
    ASSUME FInv, NEW r \in Requests, FinishLease(r)
    PROVE  FInv'
<1> USE DEF FinishLease, FInv, FrontTypes
<1>1. handler[r] \in Attempting /\ Call(r) \in Clients
      BY CallIsClient DEF Attempting
<1>2. PICK s \in CallStates(handler'[r]) : client' = [client EXCEPT ![Call(r)] = s]
      BY <1>1 DEF CallStates, FinishUnique, FinishReuse, FailReuse
<1>3. client'[Call(r)] = s BY <1>1, <1>2
<1>4. FrontTypes' BY <1>2 DEF Handlers, Answers, front
<1>5. handler'[r] # "idle" /\ UNCHANGED <<kind, attempt>> BY <1>1 DEF Attempting, front
<1>6. CallsInStep(r)' /\ \A q \in Requests \ {r}, k \in 1 .. N :
                             client'[<<q, k>>] = client[<<q, k>>]
      BY <1>1, <1>2, <1>3, <1>5, CurrentCall
<1>7. Untouched(r) BY <1>6 DEF Untouched, front
<1>8. Progress(r)' BY <1>1 DEF Progress, HasBody, front
<1> QED BY <1>4, <1>6, <1>7, <1>8, OneRequest

LEMMA CloseLeaseStep ==
    ASSUME FInv, NEW r \in Requests, CloseLease(r)
    PROVE  FInv'
<1> USE DEF CloseLease, front, FInv, FrontTypes
<1>1. handler[r] \in Attempting /\ Call(r) \in Clients
      BY CallIsClient DEF Attempting
<1>2. PICK s \in CallStates(handler'[r]) : client' = [client EXCEPT ![Call(r)] = s]
      BY <1>1 DEF CallStates, CloseDone
<1>3. client'[Call(r)] = s BY <1>1, <1>2
<1>4. FrontTypes' BY <1>2 DEF Handlers, Answers, front
<1>5. handler'[r] # "idle" /\ UNCHANGED <<kind, attempt>> BY <1>1 DEF Attempting, front
<1>6. CallsInStep(r)' /\ \A q \in Requests \ {r}, k \in 1 .. N :
                             client'[<<q, k>>] = client[<<q, k>>]
      BY <1>1, <1>2, <1>3, <1>5, CurrentCall
<1>7. Untouched(r) BY <1>6 DEF Untouched, front
<1>8. Progress(r)' BY <1>1 DEF Progress, HasBody, front
<1> QED BY <1>4, <1>6, <1>7, <1>8, OneRequest

----------------------------------------------------------------------------
(* The environment and the instances                                       *)

LEMMA SameHandlers ==
    ASSUME FInv,
           UNCHANGED <<kind, handler, attempt, dialed, err, answer, reached, client>>
    PROVE  FInv'
<1> QED BY DEF FInv, FrontTypes, CallsInStep, Progress, HasBody

(* A worker only ever wakes calls that wait.                               *)
LEMMA WorkerMovesCalls ==
    ASSUME NEW i \in Slots, InstanceStep(i)
    PROVE  UNCHANGED client \/ Broadcast
<1>1. CASE CircuitLost(i) \/ ControlLost(i) BY <1>1 DEF CircuitLost, ControlLost
<1>2. CASE NewSession(i) \/ StartCycle(i) \/ CheckFails(i)
      BY <1>2 DEF NewSession, StartCycle, CheckFails, LeaveUnpublished
<1>3. CASE \E a \in IPs : PublishReady(i, a) \/ PublishRefused(i, a) \/ PublishFails(i, a)
      BY <1>3 DEF PublishReady, PublishRefused, PublishFails, LeaveUnpublished
<1>4. CASE DoneSeen(i) \/ Interrupted(i) \/ Judge(i) BY <1>4 DEF DoneSeen, Interrupted, Judge, Advance
<1>5. CASE Drained(i) \/ Withdraw(i) BY <1>5 DEF Drained, Withdraw, Advance
<1> QED BY <1>1, <1>2, <1>3, <1>4, <1>5 DEF InstanceStep, WorkerStep

LEMMA InstanceStepKeeps ==
    ASSUME FInv, NEW i \in Slots, InstanceStep(i)
    PROVE  FInv'
<1> USE DEF InstanceStep, front
<1>1. CASE UNCHANGED client BY <1>1, SameHandlers
<1>2. CASE Broadcast
  <2> USE DEF FInv, FrontTypes
  <2>1. FrontTypes' BY <1>2 DEF Broadcast
  <2>2. ASSUME NEW r \in Requests PROVE CallsInStep(r)' /\ Progress(r)'
    <3>1. \A k \in 1 .. N : <<r, k>> \in Clients BY CallAssumption
    <3>2. \A k \in 1 .. N : client'[<<r, k>>] =
             IF client[<<r, k>>] = "parked" THEN "woken" ELSE client[<<r, k>>]
          BY <1>2, <3>1 DEF Broadcast
    <3>3. CallsInStep(r)' BY <3>2 DEF CallsInStep, CallStates
    <3>4. Progress(r)' BY DEF Progress, HasBody
    <3> QED BY <3>3, <3>4
  <2> QED BY <2>1, <2>2
<1> QED BY <1>1, <1>2, WorkerMovesCalls

(* After a crash every call that was made is over.                         *)
LEMMA CrashKeeps ==
    ASSUME FInv, ProxyCrash
    PROVE  FInv'
<1> USE DEF ProxyCrash, FInv, FrontTypes
<1>1. FrontTypes' BY DEF Crash, Handlers
<1>2. ASSUME NEW r \in Requests PROVE CallsInStep(r)' /\ Progress(r)'
  <2>1. \A k \in 1 .. N : <<r, k>> \in Clients BY CallAssumption
  <2>2. \A k \in 1 .. N : client'[<<r, k>>] =
           IF client[<<r, k>>] = "new" THEN "new" ELSE "gone"
        BY <2>1 DEF Crash
  <2>3. handler'[r] \in {"idle", "done"} /\ (handler'[r] = "idle" <=> handler[r] = "idle")
        OBVIOUS
  <2>4. CallsInStep(r)' BY <2>2, <2>3 DEF CallsInStep, CallStates, Attempting, Progress
  <2>5. Progress(r)' BY <2>3 DEF Progress, HasBody
  <2> QED BY <2>4, <2>5
<1> QED BY <1>1, <1>2

----------------------------------------------------------------------------
(* The inductive invariant holds                                           *)

LEMMA FInvInit == ASSUME ProxyInit PROVE FInv
<1> USE DEF ProxyInit, Init
<1>1. FrontTypes BY CountAssumption DEF FrontTypes, Handlers, Answers
<1>2. ASSUME NEW r \in Requests PROVE CallsInStep(r) /\ Progress(r)
  <2>1. \A k \in 1 .. N : client[<<r, k>>] = "new" BY CallAssumption
  <2>2. CallsInStep(r) BY <2>1 DEF CallsInStep, Attempting
  <2>3. Progress(r) BY DEF Progress
  <2> QED BY <2>2, <2>3
<1> QED BY <1>1, <1>2 DEF FInv

LEMMA FInvStep == ASSUME FInv, [ProxyNext]_pvars PROVE FInv'
<1>1. ASSUME NEW i \in Slots, InstanceStep(i) PROVE FInv' BY <1>1, InstanceStepKeeps
<1>2. ASSUME NEW r \in Requests, Arrive(r) PROVE FInv' BY <1>2, ArriveStep
<1>3. ASSUME NEW r \in Requests, HandlerStep(r) PROVE FInv'
      BY <1>3, StopLoopStep, NextAttemptStep, AcquireGoesOnStep, GetLeaseStep,
         NoneReadyStep, AcquireFailsStep, DialFailsStep, DialSucceedsStep,
         ExchangeFailsStep, ResponseBeginsStep, ResponsePanicsStep, HijackFailsStep,
         TunnelBeginsStep, CopyEndsStep, FinishLeaseStep, CloseLeaseStep, AfterFinishStep
      DEF HandlerStep
<1>4. ASSUME NEW r \in Requests, ClientLeaves(r) PROVE FInv'
      BY <1>4, SameHandlers DEF ClientLeaves, ContextEnd, vars
<1>5. ASSUME Stop PROVE FInv' BY <1>5, SameHandlers DEF Stop, ContextEnd, vars
<1>6. ASSUME ProxyCrash PROVE FInv' BY <1>6, CrashKeeps
<1>7. ASSUME UNCHANGED pvars PROVE FInv' BY <1>7, SameHandlers DEF pvars, vars, front
<1> QED BY <1>1, <1>2, <1>3, <1>4, <1>5, <1>6, <1>7 DEF ProxyNext

(* The stage of every request and of every call agree, at all times.       *)
THEOREM FrontInvariant == ProxySpec => []FInv
<1> QED BY FInvInit, FInvStep, PTL DEF ProxySpec

----------------------------------------------------------------------------
(* The properties of the runs                                              *)

(* A request has one lease at a time and has given it back before it tries *)
(* the next instance and when it is over (proxy.go:134-197, 240-331), but  *)
(* for one whose handler panicked: it never gets to Finish (proxy.go:244). *)
THEOREM OneLease == ProxySpec => []OneLeaseAtATime
<1>1. FInv => OneLeaseAtATime
      BY CountAssumption
      DEF FInv, FrontTypes, CallsInStep, CallStates, OneLeaseAtATime, Handlers
<1> QED BY <1>1, FrontInvariant, PTL

(* A handler starts an attempt only at the head of its loop.               *)
LEMMA AttemptsFromLoop ==
    ASSUME FInv, [ProxyNext]_pvars, NEW r \in Requests, handler[r] # "loop"
    PROVE  attempt'[r] = attempt[r]
<1> USE DEF FInv, FrontTypes
<1>1. CASE \E i \in Slots : InstanceStep(i) BY <1>1 DEF InstanceStep, front
<1>2. ASSUME NEW q \in Requests, HandlerStep(q) PROVE attempt'[r] = attempt[r]
  <2>1. CASE NextAttempt(q) BY <2>1 DEF NextAttempt
  <2>2. CASE \/ StopLoop(q) \/ AcquireGoesOn(q) \/ GetLease(q) \/ NoneReady(q)
             \/ AcquireFails(q) \/ DialFails(q) \/ DialSucceeds(q) \/ ExchangeFails(q)
        BY <2>2 DEF StopLoop, AcquireGoesOn, GetLease, NoneReady, AcquireFails,
                    DialFails, DialSucceeds, ExchangeFails, front
  <2>3. CASE \/ ResponseBegins(q) \/ ResponsePanics(q) \/ HijackFails(q)
             \/ TunnelBegins(q) \/ CopyEnds(q) \/ FinishLease(q) \/ CloseLease(q)
             \/ AfterFinish(q)
        BY <2>3 DEF ResponseBegins, ResponsePanics, HijackFails, TunnelBegins,
                    CopyEnds, FinishLease, CloseLease, AfterFinish, front
  <2> QED BY <1>2, <2>1, <2>2, <2>3 DEF HandlerStep
<1>3. ASSUME NEW q \in Requests, Arrive(q) \/ ClientLeaves(q) PROVE attempt'[r] = attempt[r]
      BY <1>3 DEF Arrive, ClientLeaves, ContextEnd
<1>4. CASE Stop \/ ProxyCrash BY <1>4 DEF Stop, ContextEnd, ProxyCrash
<1>5. CASE UNCHANGED pvars BY <1>5 DEF pvars, front
<1> QED BY <1>1, <1>2, <1>3, <1>4, <1>5 DEF ProxyNext

(* No failover once the body may have reached a target (proxy.go:160).     *)
THEOREM BodyLeavesOnce == ProxySpec => BodyOnce
<1>1. ASSUME FInv, [ProxyNext]_pvars
      PROVE  [\A r \in Requests : HasBody(r) /\ reached[r] > 0
                                      => attempt'[r] = attempt[r]]_pvars
  <2>1. ASSUME NEW r \in Requests, HasBody(r), reached[r] > 0
        PROVE  attempt'[r] = attempt[r]
    <3>1. handler[r] # "loop" BY <1>1, <2>1 DEF FInv, Progress
    <3> QED BY <1>1, <3>1, AttemptsFromLoop
  <2> QED BY <2>1
<1> QED BY <1>1, FrontInvariant, PTL DEF ProxySpec, BodyOnce

(* No failover once the client has bytes of a response or of a tunnel      *)
(* (proxy.go:150, 301).                                                    *)
THEOREM NeverSpliced == ProxySpec => NoSplice
<1>1. ASSUME FInv, [ProxyNext]_pvars
      PROVE  [\A r \in Requests : answer[r] \in {"headers", "tunnel"}
                                      => attempt'[r] = attempt[r]]_pvars
  <2>1. ASSUME NEW r \in Requests, answer[r] \in {"headers", "tunnel"}
        PROVE  attempt'[r] = attempt[r]
    <3>1. handler[r] # "loop" BY <1>1, <2>1 DEF FInv, Progress
    <3> QED BY <1>1, <3>1, AttemptsFromLoop
  <2> QED BY <2>1
<1> QED BY <1>1, FrontInvariant, PTL DEF ProxySpec, NoSplice

----------------------------------------------------------------------------
(* The front end drives the scheduler only in ways Pool allows             *)

LEMMA FrontStepIsPoolStep ==
    ASSUME FInv, [ProxyNext]_pvars
    PROVE  [Next]_vars
<1> USE CountAssumption, CallAssumption DEF Slots
<1>1. ASSUME NEW i \in Slots, InstanceStep(i) PROVE Next BY <1>1 DEF InstanceStep, Next
<1>2. ASSUME NEW r \in Requests, HandlerStep(r) PROVE [Next]_vars
  <2>1. CASE NextAttempt(r)
    <3>1. attempt[r] + 1 \in 1 .. N
          BY <2>1 DEF NextAttempt, Exhausted, FInv, FrontTypes
    <3>2. <<r, attempt[r] + 1>> \in Clients BY <3>1
    <3> QED BY <2>1, <3>2 DEF NextAttempt, Next
  <2>2. ASSUME Acquiring(r) \/ handler[r] = "finish" PROVE Call(r) \in Clients
        BY <2>2, CallIsClient DEF Acquiring, Attempting
  <2>3. CASE AcquireGoesOn(r) \/ GetLease(r) \/ NoneReady(r) \/ AcquireFails(r)
    <3>1. Call(r) \in Clients
          BY <2>2, <2>3 DEF AcquireGoesOn, GetLease, NoneReady, AcquireFails
    <3>2. AcquireStep(Call(r)) \/ GiveUp(Call(r)) \/ ContextEnds(Call(r))
          BY <2>3 DEF AcquireGoesOn, GetLease, NoneReady, AcquireFails, AcquireStep
    <3> QED BY <3>1, <3>2 DEF Next
  <2>4. CASE FinishLease(r) \/ CloseLease(r)
    <3>1. Call(r) \in Clients BY <2>2, <2>4 DEF FinishLease, CloseLease
    <3>2. FinishStep(Call(r))
      <4>1. (~ err[r]) \in BOOLEAN OBVIOUS
      <4> QED BY <2>4, <4>1 DEF FinishLease, CloseLease, FinishStep
    <3> QED BY <3>1, <3>2 DEF Next
  <2>5. CASE \/ StopLoop(r) \/ DialFails(r) \/ DialSucceeds(r) \/ ExchangeFails(r)
             \/ ResponseBegins(r) \/ ResponsePanics(r) \/ HijackFails(r)
             \/ TunnelBegins(r) \/ CopyEnds(r) \/ AfterFinish(r)
        BY <2>5 DEF StopLoop, DialFails, DialSucceeds, ExchangeFails, ResponseBegins,
                    ResponsePanics, HijackFails, TunnelBegins, CopyEnds, AfterFinish
  <2> QED BY <1>2, <2>1, <2>3, <2>4, <2>5 DEF HandlerStep
<1>3. ASSUME NEW r \in Requests, Arrive(r) \/ ClientLeaves(r) PROVE UNCHANGED vars
      BY <1>3 DEF Arrive, ClientLeaves, ContextEnd
<1>4. CASE Stop BY <1>4 DEF Stop, ContextEnd
<1>5. CASE ProxyCrash BY <1>5 DEF ProxyCrash, Next
<1>6. CASE UNCHANGED pvars BY <1>6 DEF pvars
<1> QED BY <1>1, <1>2, <1>3, <1>4, <1>5, <1>6 DEF ProxyNext

(* Whatever holds of the scheduler alone holds of it under the front end:  *)
(* its handlers make the calls of Acquire and Finish that Pool admits, in  *)
(* an order it admits.                                                     *)
THEOREM FrontUsesPool == ProxySpec => Spec
<1>1. ProxyInit => Init BY DEF ProxyInit
<1> QED BY <1>1, FrontInvariant, FrontStepIsPoolStep, PTL DEF ProxySpec, Spec

(* So the proxy as a whole gives every address out at most once in unique  *)
(* mode, and never two requests one circuit.                               *)
THEOREM ProxyKeepsPromise == ProxySpec => PromiseSpec /\ []LeaseExclusive
<1> QED BY FrontUsesPool, PromiseKept, OneUserPerCircuit, PTL

(* And under real requests, which make the next call when one failed, no   *)
(* instance is lost, no healthy circuit is closed under a request, and the *)
(* counts are those of the leases out (proxy.go:130-172, pool.go:247-335). *)
THEOREM ProxyKeepsLeases ==
    ProxySpec => [](NoInstanceLost /\ LeasesCounted /\ NoCloseUnderLease)
<1> QED BY FrontUsesPool, NoneLost, CountsExact, ClosedWhenFree, PTL

----------------------------------------------------------------------------
(* Types of the front end                                                  *)

(* The rest of the type invariant.  A target sees a request at most once   *)
(* an attempt, and not before the attempt has dialled.                     *)
RecordTypes ==
    /\ kind \in [Requests -> {"get", "post", "connect", "bad"}]
    /\ lastErr \in [Requests -> BOOLEAN]
    /\ body \in [Requests -> {"open", "sent", "closed"}]
    /\ context \in [Requests -> {"live", "left", "stopped"}]
    /\ blamed \in [Requests -> SUBSET Slots]
    /\ \A r \in Requests :
         /\ handler[r] \in {"acquire", "dial"} => ~ dialed[r] /\ ~ err[r]
         /\ reached[r] <= attempt[r]
         /\ handler[r] \in {"acquire", "dial", "exchange"} => reached[r] < attempt[r]

LEMMA TypesInit == ASSUME ProxyInit PROVE RecordTypes
<1>1. kind \in [Requests -> {"get", "post", "connect", "bad"}]
      BY KindAssumption DEF ProxyInit
<1>2. \A r \in Requests : attempt[r] = 0 /\ reached[r] = 0 /\ handler[r] = "idle"
      BY DEF ProxyInit
<1>3. /\ lastErr \in [Requests -> BOOLEAN] /\ body \in [Requests -> {"open", "sent", "closed"}]
      /\ context \in [Requests -> {"live", "left", "stopped"}]
      /\ blamed \in [Requests -> SUBSET Slots]
      BY DEF ProxyInit
<1> QED BY <1>1, <1>2, <1>3 DEF RecordTypes

(* The instance blamed is the one of the lease that is finished.           *)
LEMMA BlamedIsSlot ==
    ASSUME Core, FInv, NEW r \in Requests, FinishLease(r)
    PROVE  Instance(r) \in Slots
<1>1. Call(r) \in Clients BY CallIsClient DEF FinishLease, Attempting
<1>2. client[Call(r)] = "leased"
      BY DEF FinishLease, FinishUnique, FinishReuse, FailReuse, Leased
<1>3. lease[Call(r)] # None BY <1>1, <1>2 DEF Core, LeaseStates
<1> QED BY <1>1, <1>3 DEF Core, TypeOK, Instance, EndpointType

LEMMA TypesStep ==
    ASSUME Core, FInv, RecordTypes, [ProxyNext]_pvars
    PROVE  RecordTypes'
<1> USE DEF FInv, FrontTypes, RecordTypes
<1>1. CASE \E i \in Slots : InstanceStep(i) BY <1>1 DEF InstanceStep, front
<1>2. ASSUME NEW r \in Requests, HandlerStep(r) PROVE RecordTypes'
  <2> USE DEF Goto, Reply, End, Fail
  <2>1. CASE StopLoop(r) BY <2>1 DEF StopLoop
  <2>2. CASE NextAttempt(r) BY <2>2 DEF NextAttempt, Fresh, Exhausted
  <2>3. CASE AcquireGoesOn(r) \/ CloseLease(r) BY <2>3 DEF AcquireGoesOn, CloseLease, front
  <2>4. CASE GetLease(r) BY <2>4 DEF GetLease, Acquiring
  <2>5. CASE NoneReady(r) \/ AcquireFails(r) BY <2>5 DEF NoneReady, AcquireFails
  <2>6. CASE DialFails(r) BY <2>6 DEF DialFails, CloseBody
  <2>7. CASE DialSucceeds(r) BY <2>7 DEF DialSucceeds
  <2>8. CASE ExchangeFails(r) BY <2>8 DEF ExchangeFails, CloseBody
  <2>9. CASE ResponseBegins(r) \/ ResponsePanics(r)
        BY <2>9 DEF ResponseBegins, ResponsePanics, Respond
  <2>10. CASE HijackFails(r) \/ TunnelBegins(r) \/ CopyEnds(r)
         BY <2>10 DEF HijackFails, TunnelBegins, CopyEnds
  <2>11. CASE FinishLease(r)
    <3>1. Instance(r) \in Slots BY <2>11, BlamedIsSlot
    <3> QED BY <2>11, <3>1 DEF FinishLease
  <2>12. CASE AfterFinish(r) BY <2>12 DEF AfterFinish
  <2> QED BY <1>2, <2>1, <2>2, <2>3, <2>4, <2>5, <2>6, <2>7, <2>8, <2>9, <2>10, <2>11, <2>12
          DEF HandlerStep
<1>3. ASSUME NEW r \in Requests, Arrive(r) PROVE RecordTypes'
      BY <1>3 DEF Arrive, Goto, Reply, End
<1>4. ASSUME NEW r \in Requests, ClientLeaves(r) PROVE RecordTypes'
      BY <1>4 DEF ClientLeaves, ContextEnd
<1>5. CASE Stop BY <1>5 DEF Stop, ContextEnd
<1>6. CASE ProxyCrash BY <1>6 DEF ProxyCrash
<1>7. CASE UNCHANGED pvars BY <1>7 DEF pvars, front
<1> QED BY <1>1, <1>2, <1>3, <1>4, <1>5, <1>6, <1>7 DEF ProxyNext

(* Every variable of the front end keeps its type; so a request makes at   *)
(* most Size attempts, and a target sees it at most that often.            *)
THEOREM FrontTyped == ProxySpec => []ProxyTypeOK
<1>1. FInv /\ RecordTypes => ProxyTypeOK
  <2> SUFFICES ASSUME FInv, RecordTypes PROVE ProxyTypeOK OBVIOUS
  <2>1. \A r \in Requests : reached[r] \in 0 .. N
        BY CountAssumption DEF FInv, FrontTypes, RecordTypes
  <2>2. reached \in [Requests -> 0 .. N] BY <2>1 DEF FInv, FrontTypes
  <2> QED BY <2>2 DEF ProxyTypeOK, FInv, FrontTypes, RecordTypes, Handlers
<1>2. ProxySpec => []RecordTypes
  <2>1. IInv => Core BY DEF IInv
  <2> QED BY <2>1, Inductive, FrontUsesPool, FrontInvariant, TypesInit, TypesStep, PTL
          DEF ProxySpec
<1> QED BY <1>1, <1>2, FrontInvariant, PTL
=============================================================================
