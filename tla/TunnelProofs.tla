---------------------------- MODULE TunnelProofs ----------------------------
(***************************************************************************)
(* Theorems about Tunnel, for every value of the two timeouts.             *)
(***************************************************************************)
EXTENDS Tunnel, TLAPS

----------------------------------------------------------------------------
(* The inductive invariant                                                 *)

(* Where the handler is and where its two copies are.                      *)
Stages ==
    /\ phase \in {"header", "dial"} => \A d \in Directions : copy[d] = "none"
    /\ phase \in {"relay", "hangup"} => \A d \in Directions : copy[d] # "none"
    /\ phase = "over" => \A d \in Directions : copy[d] \in {"none", "ended"}

(* Whatever Read comes next, it gets no more than net/http allowed.        *)
HeaderLeft ==
    phase = "header" =>
        /\ limit.r + age <= HeaderTimeout
        /\ raw["client"].r + age <= HeaderTimeout

(* In a tunnel every deadline for a Read lies IDLE_TIMEOUT or more after   *)
(* the last byte from the target: the Write of that byte moved the one of  *)
(* the client and the limit under which later Reads of it are made, the    *)
(* next Read of the target its own.                                        *)
KeptAlive ==
    phase \in {"relay", "hangup"} =>
        /\ \A c \in Sockets : raw[c].r <= IdleTimeout
        /\ limit.r <= IdleTimeout
        /\ limit.r + since["down"] >= IdleTimeout
        /\ raw["client"].r + since["down"] >= IdleTimeout
        /\ copy["down"] = "read" => raw["upstream"].r + since["down"] >= IdleTimeout

IInv == TypeOK /\ Stages /\ HeaderLeft /\ KeptAlive

----------------------------------------------------------------------------
(* Deadlines                                                               *)

Fresh == [r |-> IdleTimeout, w |-> IdleTimeout]
RawDeadlines == [r : 0 .. IdleTimeout \union {Never}, w : 0 .. IdleTimeout \union {Never}]

LEMMA TouchFacts ==
    /\ NoLimit \in Deadlines /\ HeaderLimit \in Deadlines /\ NoLimit \in RawDeadlines
    /\ Fresh \in Deadlines /\ Fresh \in RawDeadlines
    /\ \A x, op : Touched(x, NoLimit, op) = Fresh /\ Touched(x, Fresh, op) = Fresh
    /\ \A x, op : \A l \in Deadlines :
         /\ Touched(x, l, op) \in RawDeadlines
         /\ Touched(x, l, op).r \in 0 .. IdleTimeout
         /\ Touched(x, l, op).r = IF l.r < IdleTimeout THEN l.r ELSE IdleTimeout
<1> USE TimeoutAssumption
<1>1. Never \in Nat /\ Never > IdleTimeout /\ Never \in Deadline BY DEF Never, Deadline
<1>2. 0 .. IdleTimeout \subseteq Deadline /\ HeaderTimeout \in Deadline BY DEF Deadline
<1>3. \A t \in Deadline : /\ t \in Nat
                          /\ Earlier(IdleTimeout, t) \in 0 .. IdleTimeout
                          /\ Earlier(IdleTimeout, t) = IF t < IdleTimeout THEN t ELSE IdleTimeout
      BY <1>1 DEF Deadline, Earlier
<1>4. Earlier(IdleTimeout, Never) = IdleTimeout /\ Earlier(IdleTimeout, IdleTimeout) = IdleTimeout
      BY <1>1 DEF Earlier
<1>5. \A x, op : Touched(x, NoLimit, op) = Fresh /\ Touched(x, Fresh, op) = Fresh
      BY <1>4 DEF Touched, NoLimit, Fresh
<1>6. ASSUME NEW x, NEW op, NEW l \in Deadlines
      PROVE  /\ Touched(x, l, op) \in RawDeadlines
             /\ Touched(x, l, op).r \in 0 .. IdleTimeout
             /\ Touched(x, l, op).r = IF l.r < IdleTimeout THEN l.r ELSE IdleTimeout
  <2>1. l.r \in Deadline /\ l.w \in Deadline BY DEF Deadlines
  <2> QED BY <1>3, <2>1 DEF Touched, RawDeadlines
<1> QED BY <1>1, <1>2, <1>5, <1>6 DEF NoLimit, HeaderLimit, Fresh, Deadlines, RawDeadlines

LEMMA LessFacts ==
    /\ \A l \in Deadlines : LessBoth(l) \in Deadlines
    /\ \A l \in RawDeadlines : LessBoth(l) \in RawDeadlines
    /\ \A t \in Deadline : t # Never => Less(t) = IF t = 0 THEN 0 ELSE t - 1
    /\ Less(Never) = Never
<1> USE TimeoutAssumption
<1>1. Never \in Nat /\ Never > IdleTimeout BY DEF Never
<1>2. \A t \in Deadline : Less(t) \in Deadline BY DEF Deadline, Less
<1>3. \A t \in 0 .. IdleTimeout \union {Never} : Less(t) \in 0 .. IdleTimeout \union {Never}
      BY DEF Less
<1>4. \A l \in Deadlines : LessBoth(l) \in Deadlines BY <1>2 DEF Deadlines, LessBoth
<1>5. \A l \in RawDeadlines : LessBoth(l) \in RawDeadlines BY <1>3 DEF RawDeadlines, LessBoth
<1> QED BY <1>1, <1>4, <1>5 DEF Less, Deadline

LEMMA TypeFacts ==
    ASSUME TypeOK
    PROVE  /\ raw \in [Sockets -> RawDeadlines] /\ limit \in Deadlines
           /\ limit.r \in Nat /\ raw["client"].r \in Nat /\ raw["upstream"].r \in Nat
           /\ age \in Nat /\ since["down"] \in 0 .. IdleTimeout
<1>1. raw \in [Sockets -> RawDeadlines] /\ limit \in Deadlines BY DEF TypeOK, RawDeadlines
<1>2. raw["client"] \in RawDeadlines /\ raw["upstream"] \in RawDeadlines BY <1>1 DEF Sockets
<1> QED BY <1>1, <1>2, TimeoutAssumption
        DEF TypeOK, RawDeadlines, Deadlines, Deadline, Never, Directions

----------------------------------------------------------------------------
(* Every step keeps the invariant                                          *)

LEMMA InitIInv == Init => IInv
<1> SUFFICES ASSUME Init PROVE IInv OBVIOUS
<1> USE TimeoutAssumption DEF Init
<1>1. /\ raw["client"] = Touched(NoLimit, HeaderLimit, "r") /\ raw["upstream"] = NoLimit
      /\ raw["client"].r <= HeaderTimeout
      /\ raw \in [Sockets -> RawDeadlines]
      BY TouchFacts DEF Sockets, HeaderLimit
<1>2. TypeOK BY <1>1, TouchFacts DEF TypeOK, RawDeadlines
<1>3. HeaderLeft BY <1>1, <1>2, TypeFacts DEF HeaderLeft, HeaderLimit
<1> QED BY <1>2, <1>3 DEF IInv, Stages, KeptAlive

LEMMA HeaderBytesIInv ==
    ASSUME IInv, HeaderBytes
    PROVE  IInv'
<1> USE DEF IInv, HeaderBytes, ReadClient
<1>1. PICK t \in RawDeadlines :
         /\ t = Touched(raw["client"], limit, "r")
         /\ t.r \in Nat /\ t.r <= limit.r
      BY TypeFacts, TouchFacts, TimeoutAssumption
<1>2. raw' = [raw EXCEPT !["client"] = t] BY <1>1
<1>3. raw'["client"] = t /\ raw' \in [Sockets -> RawDeadlines]
      BY <1>1, <1>2, TypeFacts DEF Sockets
<1>4. TypeOK' BY <1>3 DEF TypeOK, RawDeadlines
<1>5. HeaderLeft' BY <1>1, <1>3, TypeFacts, TimeoutAssumption DEF HeaderLeft
<1> QED BY <1>4, <1>5 DEF Stages, KeptAlive

LEMMA HeaderEndsIInv ==
    ASSUME IInv, HeaderEnds
    PROVE  IInv'
<1> USE DEF IInv, HeaderEnds
<1>1. raw' \in [Sockets -> RawDeadlines] /\ limit' \in Deadlines
      BY TypeFacts, TouchFacts DEF Sockets
<1>2. TypeOK' BY <1>1 DEF TypeOK, RawDeadlines
<1> QED BY <1>2 DEF Stages, KeptAlive, HeaderLeft

LEMMA EstablishIInv ==
    ASSUME IInv, Establish
    PROVE  IInv'
<1> USE TimeoutAssumption DEF IInv, Establish
<1>1. limit' = Fresh /\ raw' = [c \in Sockets |-> Fresh] BY TouchFacts
<1>2. limit' \in Deadlines /\ raw' \in [Sockets -> RawDeadlines] BY <1>1, TouchFacts
<1>3. /\ limit'.r = IdleTimeout /\ since'["down"] = 0 /\ IdleTimeout # Never
      /\ \A c \in Sockets : raw'[c].r = IdleTimeout
      BY <1>1 DEF Fresh, Directions, Never
<1>4. TypeOK' BY <1>2, <1>3 DEF TypeOK, RawDeadlines
<1>5. KeptAlive' BY <1>3 DEF KeptAlive, Sockets
<1> QED BY <1>4, <1>5 DEF Stages, HeaderLeft

(* What a Read or a Write of direction d sets anew.                        *)
LEMMA ArriveIInv ==
    ASSUME IInv, NEW d \in Directions, Arrive(d)
    PROVE  IInv'
<1> USE TimeoutAssumption DEF IInv, Arrive
<1>1. phase \in {"relay", "hangup"} BY DEF Stages, TypeOK
<1>2. CASE d = "up"
  <2>1. raw' = [raw EXCEPT !["upstream"] = Fresh] /\ limit' = limit
        BY <1>2, TouchFacts DEF BeginWrite, TouchUpstream
  <2>2. raw'["upstream"] = Fresh /\ raw'["client"] = raw["client"]
        BY <2>1, TypeFacts DEF Sockets
  <2>3. raw' \in [Sockets -> RawDeadlines] BY <2>1, TypeFacts, TouchFacts
  <2>4. since'["down"] = since["down"] /\ copy'["down"] = copy["down"]
        BY <1>2 DEF TypeOK, Directions
  <2>5. KeptAlive' BY <1>1, <2>1, <2>2, <2>4, TypeFacts DEF KeptAlive, Fresh, Sockets
  <2>6. TypeOK' BY <2>2, <2>3, <2>1 DEF TypeOK, RawDeadlines, Fresh, Sockets, Never
  <2> QED BY <1>1, <2>5, <2>6 DEF Stages, HeaderLeft, TypeOK
<1>3. CASE d = "down"
  <2>1. raw' = [raw EXCEPT !["client"] = Fresh] /\ limit' = Fresh
        BY <1>3, TouchFacts DEF BeginWrite, WriteClient
  <2>2. raw'["client"] = Fresh /\ raw'["upstream"] = raw["upstream"]
        BY <2>1, TypeFacts DEF Sockets
  <2>3. raw' \in [Sockets -> RawDeadlines] /\ limit' \in Deadlines
        BY <2>1, TypeFacts, TouchFacts
  <2>4. since'["down"] = 0 /\ copy'["down"] = "write" BY <1>3 DEF TypeOK, Directions
  <2>5. KeptAlive' BY <1>1, <2>1, <2>2, <2>4, TypeFacts DEF KeptAlive, Fresh, Sockets
  <2>6. TypeOK' BY <2>2, <2>3 DEF TypeOK, RawDeadlines, Fresh, Sockets, Never
  <2> QED BY <1>1, <2>5, <2>6 DEF Stages, HeaderLeft, TypeOK
<1> QED BY <1>2, <1>3 DEF Directions

LEMMA ForwardIInv ==
    ASSUME IInv, NEW d \in Directions, Forward(d)
    PROVE  IInv'
<1> USE TimeoutAssumption DEF IInv, Forward
<1>1. phase \in {"relay", "hangup"} BY DEF Stages, TypeOK
<1>2. CASE d = "up"
  <2>1. PICK t \in RawDeadlines :
           /\ t = Touched(raw["client"], limit, "r")
           /\ t.r \in 0 .. IdleTimeout
           /\ t.r = IF limit.r < IdleTimeout THEN limit.r ELSE IdleTimeout
        BY TypeFacts, TouchFacts
  <2>2. raw' = [raw EXCEPT !["client"] = t] /\ limit' = limit
        BY <1>2, <2>1 DEF BeginRead, ReadClient
  <2>3. raw'["client"] = t /\ raw'["upstream"] = raw["upstream"]
        BY <2>2, TypeFacts DEF Sockets
  <2>4. raw' \in [Sockets -> RawDeadlines] BY <2>1, <2>2, TypeFacts
  <2>5. since'["down"] = since["down"] /\ copy'["down"] = copy["down"]
        BY <1>2 DEF TypeOK, Directions
  <2>6. KeptAlive' BY <1>1, <2>1, <2>2, <2>3, <2>5, TypeFacts DEF KeptAlive, Sockets
  <2>7. TypeOK' BY <2>1, <2>2, <2>3, <2>4 DEF TypeOK, RawDeadlines, Sockets, Never
  <2> QED BY <1>1, <2>6, <2>7 DEF Stages, HeaderLeft, TypeOK
<1>3. CASE d = "down"
  <2>1. raw' = [raw EXCEPT !["upstream"] = Fresh] /\ limit' = limit
        BY <1>3, TouchFacts DEF BeginRead, TouchUpstream
  <2>2. raw'["upstream"] = Fresh /\ raw'["client"] = raw["client"]
        BY <2>1, TypeFacts DEF Sockets
  <2>3. raw' \in [Sockets -> RawDeadlines] BY <2>1, TypeFacts, TouchFacts
  <2>4. KeptAlive' BY <1>1, <2>1, <2>2, TypeFacts DEF KeptAlive, Fresh, Sockets
  <2>5. TypeOK' BY <2>1, <2>2, <2>3 DEF TypeOK, RawDeadlines, Fresh, Sockets, Never
  <2> QED BY <1>1, <2>4, <2>5 DEF Stages, HeaderLeft, TypeOK
<1> QED BY <1>2, <1>3 DEF Directions

LEMMA EndIInv ==
    ASSUME IInv, NEW d \in Directions, PeerEnds(d) \/ CopyEnds(d)
    PROVE  IInv'
<1>1. PICK why \in {"peer", "quiet", "stalled", "closed"} : End(d, why)
      BY DEF PeerEnds, CopyEnds, TimesOut, Broken
<1> QED BY <1>1 DEF IInv, End, Copying, TypeOK, Stages, HeaderLeft, KeptAlive

LEMMA HandlerIInv ==
    ASSUME IInv,
           NoTunnel \/ FirstResult \/ Return \/ CircuitLost \/ GuardFires \/ Shutdown
    PROVE  IInv'
<1> USE DEF IInv, NoTunnel, FirstResult, Return, CircuitLost, GuardFires, Shutdown
<1>1. TypeOK' BY DEF TypeOK, HangUp, Close
<1>2. Stages' BY DEF Stages, BothDone, Ended
<1>3. HeaderLeft' /\ KeptAlive' BY DEF HeaderLeft, KeptAlive
<1> QED BY <1>1, <1>2, <1>3

LEMMA TickIInv ==
    ASSUME IInv, Tick
    PROVE  IInv'
<1> USE TimeoutAssumption DEF IInv, Tick
<1>1. raw' \in [Sockets -> RawDeadlines] /\ limit' \in Deadlines
      BY TypeFacts, LessFacts
<1>2. /\ limit'.r = Less(limit.r)
      /\ raw'["client"].r = Less(raw["client"].r)
      /\ raw'["upstream"].r = Less(raw["upstream"].r)
      BY DEF LessBoth, Sockets
<1>3. age' \in 0 .. HeaderTimeout /\ since' \in [Directions -> 0 .. IdleTimeout]
      BY DEF TypeOK, More
<1>4. limit.r \in Deadline /\ raw["client"].r \in Deadline /\ raw["upstream"].r \in Deadline
      BY TypeFacts DEF Deadlines, RawDeadlines, Deadline, Sockets
<1>5. TypeOK'
  <2>1. phase = "relay" => raw'["client"].r # Never /\ raw'["upstream"].r # Never
        BY <1>2, <1>4, LessFacts, TypeFacts DEF TypeOK, KeptAlive, Never, Sockets
  <2> QED BY <1>1, <1>3, <2>1 DEF TypeOK, RawDeadlines, Sockets
<1>6. HeaderLeft'
  <2> SUFFICES ASSUME phase = "header"
               PROVE  limit'.r + age' <= HeaderTimeout /\ raw'["client"].r + age' <= HeaderTimeout
      BY DEF HeaderLeft
  <2>1. age' = (IF age < HeaderTimeout THEN age + 1 ELSE age) /\ age \in 0 .. HeaderTimeout
        BY DEF More, TypeOK
  <2>2. limit.r # Never /\ raw["client"].r # Never BY TypeFacts DEF HeaderLeft, Never
  <2> QED BY <1>2, <1>4, <2>1, <2>2, LessFacts, TypeFacts DEF HeaderLeft
<1>7. KeptAlive'
  <2> SUFFICES ASSUME phase \in {"relay", "hangup"} PROVE KeptAlive' BY DEF KeptAlive
  <2>1. since'["down"] = IF since["down"] < IdleTimeout THEN since["down"] + 1 ELSE since["down"]
        BY DEF More, Directions
  <2>2. /\ limit.r <= IdleTimeout
        /\ raw["client"].r <= IdleTimeout /\ raw["upstream"].r <= IdleTimeout
        BY DEF KeptAlive, Sockets
  <2>3. \A t \in Deadline : t <= IdleTimeout => Less(t) = IF t = 0 THEN 0 ELSE t - 1
        BY LessFacts DEF Never
  <2> QED BY <1>2, <1>4, <2>1, <2>2, <2>3, TypeFacts DEF KeptAlive, Sockets
<1> QED BY <1>5, <1>6, <1>7 DEF Stages

LEMMA StepIInv == IInv /\ [Next]_vars => IInv'
<1> SUFFICES ASSUME IInv, [Next]_vars PROVE IInv' OBVIOUS
<1>1. ASSUME NEW d \in Directions, Arrive(d) \/ Forward(d) \/ PeerEnds(d) \/ CopyEnds(d)
      PROVE  IInv'
      BY <1>1, ArriveIInv, ForwardIInv, EndIInv
<1>2. CASE UNCHANGED vars
      BY <1>2 DEF vars, IInv, TypeOK, Stages, HeaderLeft, KeptAlive
<1> QED BY <1>1, <1>2, HeaderBytesIInv, HeaderEndsIInv, EstablishIInv, HandlerIInv, TickIInv
        DEF Next

LEMMA Inductive == Spec => []IInv
<1> QED BY InitIInv, StepIInv, PTL DEF Spec

----------------------------------------------------------------------------
(* The properties of the run                                               *)

(* Every variable keeps its type; in a tunnel no socket waits without a    *)
(* deadline (proxy.go:34-74).                                              *)
THEOREM TunnelTypes == Spec => []TypeOK
<1>1. IInv => TypeOK BY DEF IInv
<1> QED BY <1>1, Inductive, PTL

(* However often a client refreshes the idle deadline, the limit of        *)
(* net/http for the header stands (proxy.go:27-42, 50-55).                 *)
THEOREM HeaderIsBounded == Spec => []HeaderBounded
<1>1. IInv => HeaderBounded BY DEF IInv, HeaderLeft, HeaderBounded
<1> QED BY <1>1, Inductive, PTL

(* No Read of a tunnel runs out of time while the target sends, although   *)
(* two idleConn are nested around the client's socket and the outer one's  *)
(* deadlines become limits of the inner one (proxy.go:34-74, 318-331).     *)
THEOREM DownloadKeeps == Spec => DownloadKeepsAlive
<1>1. ASSUME IInv, [Next]_vars
      PROVE  [cause # "quiet" /\ cause' = "quiet" => since["down"] = IdleTimeout]_vars
  <2> SUFFICES ASSUME cause # "quiet", cause' = "quiet" PROVE since["down"] = IdleTimeout
      OBVIOUS
  <2>1. PICK d \in Directions : TimesOut(d) /\ copy[d] = "read"
    <3>1. ASSUME NEW d \in Directions, PeerEnds(d) \/ Broken(d) \/ Arrive(d) \/ Forward(d)
          PROVE  FALSE
          BY <3>1 DEF PeerEnds, Broken, End, Arrive, Forward
    <3>2. CASE \/ HeaderBytes \/ HeaderEnds \/ NoTunnel \/ Establish \/ FirstResult
               \/ Return \/ CircuitLost \/ GuardFires \/ Shutdown \/ Tick \/ UNCHANGED vars
          BY <3>2 DEF HeaderBytes, HeaderEnds, NoTunnel, Establish, FirstResult, Return,
                      CircuitLost, GuardFires, Shutdown, Tick, vars
    <3>3. ASSUME NEW d \in Directions, TimesOut(d) PROVE copy[d] = "read"
          BY <3>3 DEF TimesOut, End
    <3> QED BY <1>1, <3>1, <3>2, <3>3 DEF Next, CopyEnds
  <2>2. raw[Source(d)].r = 0 BY <2>1 DEF TimesOut, At, Side
  <2>3. phase \in {"relay", "hangup"} BY <1>1, <2>1 DEF IInv, Stages, TypeOK
  <2>4. since["down"] \in 0 .. IdleTimeout BY <1>1, TypeFacts DEF IInv
  <2> QED BY <1>1, <2>1, <2>2, <2>3, <2>4, TimeoutAssumption
          DEF IInv, KeptAlive, Source, Directions
<1> QED BY <1>1, Inductive, PTL DEF Spec, DownloadKeepsAlive

(* relayTunnel closes both ends and waits for both copies before it        *)
(* returns, so nothing moves once the lease is finished                    *)
(* (proxy.go:338-354).                                                     *)
THEOREM ReturnIsLast == Spec => NoByteAfterReturn
<1>1. ASSUME IInv, [Next]_vars PROVE [phase = "over" => UNCHANGED copy]_vars
  <2> SUFFICES ASSUME phase = "over" PROVE copy' = copy OBVIOUS
  <2>1. ASSUME NEW d \in Directions, Arrive(d) \/ Forward(d) \/ PeerEnds(d) \/ CopyEnds(d)
        PROVE  FALSE
        BY <1>1, <2>1 DEF IInv, Stages, Arrive, Forward, PeerEnds, CopyEnds, TimesOut, Broken,
                          End, Copying
  <2>2. CASE Establish BY <2>2 DEF Establish
  <2>3. CASE \/ HeaderBytes \/ HeaderEnds \/ NoTunnel \/ FirstResult \/ Return
             \/ CircuitLost \/ GuardFires \/ Shutdown \/ Tick \/ UNCHANGED vars
        BY <2>3 DEF HeaderBytes, HeaderEnds, NoTunnel, FirstResult, Return,
                    CircuitLost, GuardFires, Shutdown, Tick, vars
  <2> QED BY <1>1, <2>1, <2>2, <2>3 DEF Next
<1> QED BY <1>1, Inductive, PTL DEF Spec, NoByteAfterReturn
=============================================================================
