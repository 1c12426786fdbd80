--------------------------- MODULE ShutdownProofs ---------------------------
(***************************************************************************)
(* Theorems about Shutdown, for any number of connections and any limit.   *)
(***************************************************************************)
EXTENDS Shutdown, FiniteSetTheorems, TLAPS

----------------------------------------------------------------------------
(* The inductive invariant                                                 *)

Registered == {"tracked", "served", "hijacked", "closing"}

(* The goroutine of Serve owns the connection it took from the system      *)
(* until it has handed it over, and that one only.                         *)
HeldByLoop(c) ==
    /\ conn[c] = "accepted" <=> holding = c /\ loop \in {"check", "refuse"}
    /\ conn[c] = "tracked" <=> holding = c /\ loop = "handover"

(* A socket that is open is in the listener's set from Register on; one    *)
(* that is not yet, or no longer, of the set's business is not in it.      *)
Entered(c) ==
    /\ c \in connections => conn[c] \in Registered
    /\ open[c] /\ conn[c] \in Registered => c \in connections
    /\ conn[c] \in {"none", "closing", "gone"} => ~ open[c]

(* What Run owes when it closes the server it still knows of while it      *)
(* sweeps: nothing reopens a socket, so the snapshot misses none of them.  *)
Owing(c) ==
    c \in owed =>
        /\ main \notin {"serve", "cancel", "close"}
        /\ conn[c] \in Registered \union {"gone"}
        /\ main = "sweep" /\ open[c] => c \in snapshot
        /\ main \in {"wait", "returned"} => ~ open[c]

IInv ==
    /\ TypeOK
    /\ IsFiniteSet(connections)
    /\ \A c \in Conns : HeldByLoop(c) /\ Entered(c) /\ Owing(c)

----------------------------------------------------------------------------
(* Every step keeps the invariant                                          *)

LEMMA InitIInv == Init => IInv
<1> SUFFICES ASSUME Init PROVE IInv OBVIOUS
<1>0. connections = {} /\ Cardinality(connections) <= Limit
      BY FS_EmptySet, LimitAssumption DEF Init
<1>1. TypeOK BY <1>0 DEF Init, TypeOK
<1>2. \A c \in Conns : HeldByLoop(c) /\ Entered(c) /\ Owing(c)
      BY LimitAssumption DEF Init, HeldByLoop, Entered, Owing, Registered
<1> QED BY <1>1, <1>2, <1>0, FS_EmptySet DEF IInv

(* Most steps change neither the set nor the types of anything.            *)
LEMMA Fewer ==
    ASSUME IInv, connections' \subseteq connections
    PROVE  /\ IsFiniteSet(connections')
           /\ connections' \subseteq Conns /\ Cardinality(connections') <= Limit
<1>1. IsFiniteSet(connections') /\ Cardinality(connections') <= Cardinality(connections)
      BY FS_Subset DEF IInv
<1>2. Cardinality(connections') \in Nat /\ Cardinality(connections) \in Nat
      BY <1>1, FS_CardinalityType DEF IInv
<1> QED BY <1>1, <1>2, LimitAssumption DEF IInv, TypeOK

LEMMA ConnectIInv ==
    ASSUME IInv, NEW n \in Conns, Connect(n)
    PROVE  IInv'
<1> USE DEF IInv, Connect, Now, runner
<1>1. TypeOK' /\ IsFiniteSet(connections') BY DEF TypeOK
<1>2. ASSUME NEW c \in Conns PROVE (HeldByLoop(c) /\ Entered(c) /\ Owing(c))'
      BY DEF TypeOK, HeldByLoop, Entered, Owing, Registered
<1> QED BY <1>1, <1>2

LEMMA AcceptReturnsIInv ==
    ASSUME IInv, NEW n \in Conns, AcceptReturns(n)
    PROVE  IInv'
<1> USE DEF IInv, AcceptReturns, Now, runner
<1>0. n # None BY LimitAssumption
<1>1. TypeOK' /\ IsFiniteSet(connections') BY <1>0 DEF TypeOK
<1>2. ASSUME NEW c \in Conns PROVE (HeldByLoop(c) /\ Entered(c) /\ Owing(c))'
      BY <1>0 DEF TypeOK, HeldByLoop, Entered, Owing, Registered
<1> QED BY <1>1, <1>2

LEMMA AcceptFailsIInv ==
    ASSUME IInv, AcceptFails \/ Overload
    PROVE  IInv'
<1> USE DEF IInv, AcceptFails, Overload, runner
<1>1. TypeOK' /\ IsFiniteSet(connections') BY DEF TypeOK
<1>2. ASSUME NEW c \in Conns PROVE (HeldByLoop(c) /\ Entered(c) /\ Owing(c))'
      BY DEF TypeOK, HeldByLoop, Entered, Owing
<1> QED BY <1>1, <1>2

LEMMA RegisterIInv ==
    ASSUME IInv, Register
    PROVE  IInv'
<1> USE DEF IInv, Register, Now, runner
<1>0. holding \in Conns /\ conn[holding] = "accepted" BY DEF TypeOK, HeldByLoop
<1>1. IsFiniteSet(connections') /\ Cardinality(connections') <= Limit
  <2>1. IsFiniteSet(connections') /\ Cardinality(connections') <= Cardinality(connections) + 1
    <3>1. IsFiniteSet(connections) /\ Cardinality(connections) \in Nat BY FS_CardinalityType
    <3> QED BY <3>1, FS_AddElement
  <2>2. Cardinality(connections) \in Nat /\ Cardinality(connections') \in Nat
        BY <2>1, FS_CardinalityType
  <2> QED BY <2>1, <2>2, LimitAssumption DEF Room
<1>2. TypeOK' BY <1>0, <1>1 DEF TypeOK
<1>3. ASSUME NEW c \in Conns PROVE (HeldByLoop(c) /\ Entered(c) /\ Owing(c))'
      BY <1>0 DEF TypeOK, HeldByLoop, Entered, Owing, Registered
<1> QED BY <1>1, <1>2, <1>3

LEMMA RefuseIInv ==
    ASSUME IInv, Refuse
    PROVE  IInv'
<1> USE DEF IInv, Refuse, Now, CloseSockets, runner
<1>0. holding \in Conns /\ conn[holding] = "accepted" BY DEF TypeOK, HeldByLoop
<1>1. TypeOK' /\ IsFiniteSet(connections') BY <1>0 DEF TypeOK
<1>2. ASSUME NEW c \in Conns PROVE (HeldByLoop(c) /\ Entered(c) /\ Owing(c))'
      BY <1>0, LimitAssumption DEF TypeOK, HeldByLoop, Entered, Owing, Registered
<1> QED BY <1>1, <1>2

LEMMA HandOverIInv ==
    ASSUME IInv, HandOver
    PROVE  IInv'
<1> USE DEF IInv, HandOver, Now, runner
<1>0. holding \in Conns /\ conn[holding] = "tracked" BY DEF TypeOK, HeldByLoop
<1>1. TypeOK' /\ IsFiniteSet(connections') BY <1>0 DEF TypeOK
<1>2. ASSUME NEW c \in Conns PROVE (HeldByLoop(c) /\ Entered(c) /\ Owing(c))'
      BY <1>0, LimitAssumption DEF TypeOK, HeldByLoop, Entered, Owing, Registered
<1> QED BY <1>1, <1>2

LEMMA HijackIInv ==
    ASSUME IInv, NEW n \in Conns, Hijack(n)
    PROVE  IInv'
<1> USE DEF IInv, Hijack, Now, runner
<1>1. TypeOK' /\ IsFiniteSet(connections') BY DEF TypeOK
<1>2. ASSUME NEW c \in Conns PROVE (HeldByLoop(c) /\ Entered(c) /\ Owing(c))'
      BY DEF TypeOK, HeldByLoop, Entered, Owing, Registered
<1> QED BY <1>1, <1>2

LEMMA CloseOwnIInv ==
    ASSUME IInv, NEW n \in Conns, CloseOwn(n)
    PROVE  IInv'
<1> USE DEF IInv, CloseOwn, Now, CloseSockets, runner
<1>1. TypeOK' /\ IsFiniteSet(connections') BY DEF TypeOK
<1>2. ASSUME NEW c \in Conns PROVE (HeldByLoop(c) /\ Entered(c) /\ Owing(c))'
      BY DEF TypeOK, HeldByLoop, Entered, Owing, Registered
<1> QED BY <1>1, <1>2

LEMMA CloseEndsIInv ==
    ASSUME IInv, NEW n \in Conns, CloseEnds(n)
    PROVE  IInv'
<1> USE DEF IInv, CloseEnds, Now, Forget, runner
<1>1. TypeOK' /\ IsFiniteSet(connections') BY Fewer DEF TypeOK
<1>2. ASSUME NEW c \in Conns PROVE (HeldByLoop(c) /\ Entered(c) /\ Owing(c))'
      BY DEF TypeOK, HeldByLoop, Entered, Owing, Registered
<1> QED BY <1>1, <1>2

LEMMA CloseServerIInv ==
    ASSUME IInv, CloseServer
    PROVE  IInv'
<1> USE DEF IInv, CloseServer, GoOn, CloseSockets
<1>1. TypeOK' /\ IsFiniteSet(connections') BY Fewer DEF TypeOK
<1>2. ASSUME NEW c \in Conns PROVE (HeldByLoop(c) /\ Entered(c) /\ Owing(c))'
      BY DEF TypeOK, HeldByLoop, Entered, Owing, Registered
<1> QED BY <1>1, <1>2

LEMMA SweepIInv ==
    ASSUME IInv, NEW n \in Conns, Sweep(n)
    PROVE  IInv'
<1> USE DEF IInv, Sweep, CloseSockets
<1>1. TypeOK' /\ IsFiniteSet(connections') BY Fewer DEF TypeOK
<1>2. ASSUME NEW c \in Conns PROVE (HeldByLoop(c) /\ Entered(c) /\ Owing(c))'
      BY DEF TypeOK, HeldByLoop, Entered, Owing, Registered
<1> QED BY <1>1, <1>2

(* The rest of Run moves no connection.                                    *)
LEMMA RunIInv ==
    ASSUME IInv,
           \/ \E signal \in BOOLEAN : Leave(signal)
           \/ CancelAll \/ Collect \/ Swept \/ Return
           \/ \E x \in running : BackgroundEnds(x)
    PROVE  IInv'
<1> USE DEF IInv, Leave, CancelAll, Collect, Swept, Return, BackgroundEnds, GoOn
<1>1. TypeOK' /\ IsFiniteSet(connections') BY DEF TypeOK, Cancelled, Remaining
<1>2. ASSUME NEW c \in Conns PROVE (HeldByLoop(c) /\ Entered(c) /\ Owing(c))'
      BY DEF TypeOK, HeldByLoop, Entered, Owing, Registered, Remaining
<1> QED BY <1>1, <1>2

LEMMA StepIInv == IInv /\ [Next]_vars => IInv'
<1> SUFFICES ASSUME IInv, [Next]_vars PROVE IInv' OBVIOUS
<1>1. CASE LoopStep
      BY <1>1, AcceptFailsIInv, RegisterIInv, RefuseIInv, HandOverIInv, AcceptReturnsIInv
      DEF LoopStep
<1>2. CASE CloseServer \/ \E c \in Conns : Sweep(c) BY <1>2, CloseServerIInv, SweepIInv
<1>3. CASE \/ \E signal \in BOOLEAN : Leave(signal)
           \/ CancelAll \/ Collect \/ Swept \/ Return
           \/ \E x \in running : BackgroundEnds(x)
      BY <1>3, RunIInv
<1>4. ASSUME NEW c \in Conns, Connect(c) \/ Hijack(c) \/ CloseOwn(c) \/ CloseEnds(c)
      PROVE  IInv'
      BY <1>4, ConnectIInv, HijackIInv, CloseOwnIInv, CloseEndsIInv
<1>5. CASE UNCHANGED vars
      BY <1>5 DEF vars, IInv, TypeOK, HeldByLoop, Entered, Owing
<1> QED BY <1>1, <1>2, <1>3, <1>4, <1>5 DEF Next, RunStep

LEMMA Inductive == Spec => []IInv
<1> QED BY InitIInv, StepIInv, PTL DEF Spec

----------------------------------------------------------------------------
(* The properties of the run                                               *)

(* Every variable keeps its type, and the listener's set never outgrows    *)
(* the limit: the check and the entry are under one lock                   *)
(* (proxy.go:388-393).                                                     *)
THEOREM ListenerTypes == Spec => []TypeOK
<1>1. IInv => TypeOK BY DEF IInv
<1> QED BY <1>1, Inductive, PTL

(* The sockets in use are never more than the limit, though a socket and   *)
(* its entry end in two steps, by whichever owner comes first; and a       *)
(* connection that is over takes no place (proxy.go:372-376, 382-400).     *)
THEOREM PlacesAreExact == Spec => []PlacesExact
<1>1. IInv => PlacesExact
  <2> SUFFICES ASSUME IInv PROVE PlacesExact OBVIOUS
  <2>1. Kept \subseteq connections BY DEF IInv, Kept, Entered, Registered
  <2>2. IsFiniteSet(Kept) /\ Cardinality(Kept) <= Cardinality(connections)
        BY <2>1, FS_Subset DEF IInv
  <2>3. Cardinality(Kept) \in Nat /\ Cardinality(connections) \in Nat
        BY <2>2, FS_CardinalityType DEF IInv
  <2>4. Cardinality(Kept) <= Limit BY <2>2, <2>3, LimitAssumption DEF IInv, TypeOK
  <2>5. \A c \in connections : conn[c] # "gone" BY DEF IInv, TypeOK, Entered, Registered
  <2> QED BY <2>4, <2>5 DEF PlacesExact
<1> QED BY <1>1, Inductive, PTL

(* No connection that was registered when Run closed the server is open    *)
(* when Run returns, however accepts, tunnels and the connections' own     *)
(* ends fall around the snapshot (run.go:66-73, proxy.go:402-411).         *)
THEOREM SweepIsClean == Spec => []SweptClean
<1>1. IInv => SweptClean BY DEF IInv, TypeOK, Owing, SweptClean
<1> QED BY <1>1, Inductive, PTL
=============================================================================
