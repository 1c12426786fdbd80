---------------------------- MODULE ControlProofs ----------------------------
(***************************************************************************)
(* Theorems about Control, for every number of calls and events and every  *)
(* capacity of the queue.                                                  *)
(***************************************************************************)
EXTENDS Control, SequenceTheorems, TLAPS

(* The place in commands is a lock: whoever is past it has it.             *)
Locked == \A c \in Calls : call[c] \in {"write", "reply", "close"} => commands = c

(* While the connection is open at most one command is under way between   *)
(* caller and Tor: in out, in in, with the reader or in the buffer; and    *)
(* its caller waits for it.                                                *)
OneOutstanding ==
    /\ reader = "scan" => pending = None
    /\ once = "open" =>
         /\ \A i \in 1 .. Len(out) : call[out[i]] = "reply"
         /\ Len(out) <= 1
         /\ \A i \in 1 .. Len(in), c \in Calls : in[i] = Reply(c) =>
                call[c] = "reply" /\ out = <<>> /\ pending = None /\ replies = None
         /\ \A i, j \in 1 .. Len(in), c, d \in Calls :
                in[i] = Reply(c) /\ in[j] = Reply(d) => i = j
         /\ pending # None => call[pending] = "reply" /\ out = <<>> /\ replies = None
         /\ replies # None => call[replies] = "reply" /\ out = <<>>

(* The events on the wire are those that come after the queue's, in order  *)
(* and without a gap, until the reader gives up.                           *)
Taken == seen + Len(events)

WireInOrder ==
    /\ Taken <= told
    /\ reader \in {"scan", "deliver"} =>
         /\ \A i \in 1 .. Len(in), n \in 1 .. MaxEvents : in[i] = Event(n) => n > Taken /\ n <= told
         /\ \A i, j \in 1 .. Len(in), n, m \in 1 .. MaxEvents :
                in[i] = Event(n) /\ in[j] = Event(m) /\ i < j => n < m
         /\ \A n \in 1 .. MaxEvents : n > Taken /\ n <= told => \E i \in 1 .. Len(in) : in[i] = Event(n)

CInv == TypeOK /\ Locked /\ OneOutstanding /\ NoEventLost /\ WireInOrder

----------------------------------------------------------------------------
(* Lines                                                                   *)

LEMMA LineKinds ==
    /\ \A n \in 1 .. MaxEvents : Event(n) \in Lines
    /\ \A c \in Calls : Reply(c) \in Lines
    /\ \A n \in 1 .. MaxEvents, c \in Calls : Event(n) # Reply(c)
    /\ \A n, m \in 1 .. MaxEvents : Event(n) = Event(m) => n = m
    /\ \A c, d \in Calls : Reply(c) = Reply(d) => c = d
<1>1. \A n, m \in 1 .. MaxEvents : Event(n) = Event(m) => n = m
  <2>1. \A n : Event(n).event = n BY DEF Event
  <2> QED BY <2>1
<1>2. \A c, d \in Calls : Reply(c) = Reply(d) => c = d
  <2>1. \A c : Reply(c).reply = c BY DEF Reply
  <2> QED BY <2>1
<1>3. \A n, c : Event(n) # Reply(c)
  <2>1. \A n : DOMAIN Event(n) = {"event"} BY DEF Event
  <2>2. \A c : DOMAIN Reply(c) = {"reply"} BY DEF Reply
  <2> QED BY <2>1, <2>2
<1> QED BY <1>1, <1>2, <1>3 DEF Lines

LEMMA InitHolds == ASSUME Init PROVE CInv
<1> USE DEF Init
<1>1. TypeOK BY QueueAssumption DEF TypeOK
<1>2. Locked /\ OneOutstanding /\ NoEventLost BY DEF Locked, OneOutstanding, NoEventLost
<1>3. WireInOrder BY QueueAssumption DEF WireInOrder, Taken
<1> QED BY <1>1, <1>2, <1>3 DEF CInv

----------------------------------------------------------------------------
(* Callers                                                                 *)

(* Steps of a caller other than Write and Receive touch neither the wire   *)
(* nor the events, and make a call wait for a reply no more.               *)
LEMMA CallerSteps ==
    ASSUME CInv, NEW c \in Calls,
           \/ Request(c) \/ Take(c) \/ LeaveQueue(c, TRUE) \/ LeaveQueue(c, FALSE)
           \/ WriteFails(c) \/ TimeOut(c) \/ Fail(c)
    PROVE  CInv'
<1> USE DEF CInv, TypeOK, wire, queue, reading, Goto, done, Close
<1>1. TypeOK'
  BY DEF Request, Take, LeaveQueue, WriteFails, TimeOut, Abandon, Fail, Release
<1>2. Locked'
  <2>1. CASE Take(c) BY <2>1, NoneAssumption DEF Take, Locked
  <2>2. CASE Request(c) \/ LeaveQueue(c, TRUE) \/ LeaveQueue(c, FALSE)
        BY <2>2 DEF Request, LeaveQueue, Locked
  <2>3. CASE WriteFails(c) \/ TimeOut(c) BY <2>3 DEF WriteFails, TimeOut, Abandon, Locked
  <2>4. CASE Fail(c) BY <2>4 DEF Fail, Release, Locked
  <2> QED BY <2>1, <2>2, <2>3, <2>4
<1>3. OneOutstanding'
  <2>1. CASE Request(c) \/ Take(c) \/ LeaveQueue(c, TRUE) \/ LeaveQueue(c, FALSE)
        BY <2>1 DEF Request, Take, LeaveQueue, OneOutstanding
  <2>2. CASE WriteFails(c) \/ TimeOut(c) \/ Fail(c)
        BY <2>2 DEF WriteFails, TimeOut, Abandon, Fail, Release, OneOutstanding
  <2> QED BY <2>1, <2>2
<1>4. UNCHANGED <<in, told, seen, events, reader>>
  BY DEF Request, Take, LeaveQueue, WriteFails, TimeOut, Abandon, Fail, Release
<1>5. NoEventLost' /\ WireInOrder' BY <1>4 DEF NoEventLost, WireInOrder, Taken
<1> QED BY <1>1, <1>2, <1>3, <1>5

LEMMA WriteStep ==
    ASSUME CInv, NEW c \in Calls, Write(c)
    PROVE  CInv'
<1> USE DEF CInv, TypeOK, Write, queue, reading, Goto
<1>1. Append(out, c) \in Seq(Calls) /\ Len(Append(out, c)) = Len(out) + 1
      /\ Append(out, c)[Len(out) + 1] = c
      BY AppendProperties
<1>2. TypeOK' BY <1>1
<1>3. Locked' BY DEF Locked
<1>4. \A d \in Calls : call[d] # "reply"
      BY NoneAssumption DEF Locked
<1>5. OneOutstanding'
  <2>1. once = "open" => Len(out) = 0 /\ pending = None /\ replies = None
                         /\ \A i \in 1 .. Len(in), d \in Calls : in[i] # Reply(d)
    <3>1. once = "open" => Len(out) = 0
      <4>1. CASE Len(out) # 0
        <5>1. 1 \in 1 .. Len(out) /\ out[1] \in Calls BY <4>1
        <5> QED BY <5>1, <1>4 DEF OneOutstanding
      <4> QED BY <4>1
    <3> QED BY <3>1, <1>4 DEF OneOutstanding
  <2>2. call'[c] = "reply" OBVIOUS
  <2>3. once = "open" => \A i \in 1 .. Len(out') : out'[i] = c
        BY <1>1, <2>1
  <2> QED BY <1>1, <2>1, <2>2, <2>3 DEF OneOutstanding
<1>6. NoEventLost' /\ WireInOrder' BY DEF NoEventLost, WireInOrder, Taken
<1> QED BY <1>2, <1>3, <1>5, <1>6

(* The reply in the buffer of an open connection is the caller's own.      *)
LEMMA OwnReply ==
    ASSUME CInv, NEW c \in Calls, call[c] = "reply", replies # None, once = "open"
    PROVE  replies = c
<1> QED BY DEF CInv, TypeOK, Locked, OneOutstanding

LEMMA ReceiveStep ==
    ASSUME CInv, NEW c \in Calls, Receive(c)
    PROVE  CInv'
<1> USE DEF CInv, TypeOK, Receive, queue, reading, wire, Goto, Release
<1>1. TypeOK' OBVIOUS
<1>2. Locked' BY DEF Locked
<1>3. OneOutstanding' BY DEF OneOutstanding
<1>4. NoEventLost' /\ WireInOrder' BY DEF NoEventLost, WireInOrder, Taken
<1> QED BY <1>1, <1>2, <1>3, <1>4

----------------------------------------------------------------------------
(* The reader                                                              *)

LEMMA TailOfIn ==
    ASSUME CInv, in # <<>>, in' = Tail(in)
    PROVE  /\ in' \in Seq(Lines)
           /\ Len(in) >= 1 /\ Head(in) = in[1]
           /\ Len(in') = Len(in) - 1
           /\ \A i \in 1 .. Len(in') : i + 1 \in 1 .. Len(in) /\ in'[i] = in[i + 1]
<1>1. in \in Seq(Lines) BY DEF CInv, TypeOK
<1> QED BY <1>1, HeadTailProperties

LEMMA ReadReplyStep ==
    ASSUME CInv, ReadReply
    PROVE  CInv'
<1> USE DEF CInv, TypeOK, ReadReply, queue, SocketOpen
<1>1. PICK c \in Calls : in # <<>> /\ Head(in) = Reply(c) /\ pending' = c OBVIOUS
<1>2. in[1] = Reply(c) /\ 1 \in 1 .. Len(in) BY <1>1, TailOfIn
<1>3. TypeOK' BY <1>1, TailOfIn
<1>4. Locked' BY DEF Locked
<1>5. OneOutstanding'
  <2>1. once = "open" => \A i \in 1 .. Len(in'), d \in Calls : in'[i] # Reply(d)
    <3>1. \A i \in 1 .. Len(in') : i + 1 # 1 OBVIOUS
    <3> QED BY <1>2, <1>3, <3>1, TailOfIn DEF OneOutstanding
  <2> QED BY <1>1, <1>2, <2>1, NoneAssumption DEF OneOutstanding
<1>6. NoEventLost' BY DEF NoEventLost
<1>7. WireInOrder'
  <2>1. \A n \in 1 .. MaxEvents, i \in 1 .. Len(in) : in[i] = Event(n) => i - 1 \in 1 .. Len(in')
                                                          /\ in'[i - 1] = Event(n)
        BY <1>1, <1>2, TailOfIn, LineKinds
  <2>2. \A i \in 1 .. Len(in') : i + 1 \in 1 .. Len(in) /\ in'[i] = in[i + 1]
        BY <1>1, TailOfIn
  <2>3. Taken' = Taken /\ told' = told /\ reader = "scan" BY DEF Taken
  <2>4. ASSUME NEW i \in 1 .. Len(in'), NEW n \in 1 .. MaxEvents, in'[i] = Event(n)
        PROVE  n > Taken /\ n <= told
    <3>1. i + 1 \in 1 .. Len(in) /\ in[i + 1] = Event(n) BY <2>2, <2>4
    <3> QED BY <2>3, <3>1 DEF WireInOrder
  <2>5. ASSUME NEW i \in 1 .. Len(in'), NEW j \in 1 .. Len(in'),
               NEW n \in 1 .. MaxEvents, NEW m \in 1 .. MaxEvents,
               in'[i] = Event(n), in'[j] = Event(m), i < j
        PROVE  n < m
    <3>1. i + 1 < j + 1 /\ in[i + 1] = Event(n) /\ in[j + 1] = Event(m) BY <2>2, <2>5
    <3> QED BY <2>2, <2>3, <3>1 DEF WireInOrder
  <2>6. ASSUME NEW n \in 1 .. MaxEvents, n > Taken, n <= told
        PROVE  \E i \in 1 .. Len(in') : in'[i] = Event(n)
    <3>1. PICK i \in 1 .. Len(in) : in[i] = Event(n) BY <2>3, <2>6 DEF WireInOrder
    <3> QED BY <2>1, <3>1
  <2> QED BY <2>3, <2>4, <2>5, <2>6 DEF WireInOrder
<1> QED BY <1>3, <1>4, <1>5, <1>6, <1>7

(* The next event on the wire is the one the queue lacks.                  *)
LEMMA NextEvent ==
    ASSUME CInv, reader = "scan", in # <<>>, NEW n \in 1 .. MaxEvents, Head(in) = Event(n)
    PROVE  n = Taken + 1
<1> USE QueueAssumption DEF CInv, TypeOK
<1>1. in[1] = Event(n) /\ 1 \in 1 .. Len(in) BY HeadTailProperties
<1>2. Taken \in Nat /\ n > Taken /\ n <= told BY <1>1 DEF WireInOrder, Taken
<1>3. ASSUME n # Taken + 1 PROVE FALSE
  <2>1. Taken + 1 \in 1 .. MaxEvents /\ Taken + 1 <= told /\ Taken + 1 < n BY <1>2, <1>3
  <2>2. PICK i \in 1 .. Len(in) : in[i] = Event(Taken + 1)
    <3>1. \A k \in 1 .. MaxEvents : k > Taken /\ k <= told => \E i \in 1 .. Len(in) : in[i] = Event(k)
          BY DEF WireInOrder
    <3>2. \A k \in 1 .. MaxEvents : k = Taken + 1 => \E i \in 1 .. Len(in) : in[i] = Event(k)
          BY <1>2, <2>1, <3>1
    <3> QED BY <2>1, <3>2
  <2>3. i # 1 BY <1>1, <2>1, <2>2, LineKinds
  <2>4. n < Taken + 1 BY <1>1, <2>1, <2>2, <2>3 DEF WireInOrder
  <2> QED BY <1>2, <2>1, <2>4
<1> QED BY <1>3

LEMMA ReadEventStep ==
    ASSUME CInv, ReadEvent
    PROVE  CInv'
<1> USE QueueAssumption DEF CInv, TypeOK, ReadEvent, SocketOpen
<1>1. PICK n \in 1 .. MaxEvents :
         /\ in # <<>> /\ Head(in) = Event(n)
         /\ IF NoRoom THEN Overflow ELSE events' = Append(events, n) /\ UNCHANGED <<reader, once>>
      OBVIOUS
<1>2. in[1] = Event(n) /\ 1 \in 1 .. Len(in) /\ in' \in Seq(Lines)
      /\ \A i \in 1 .. Len(in') : i + 1 \in 1 .. Len(in) /\ in'[i] = in[i + 1]
      BY <1>1, TailOfIn
<1>3. n = Taken + 1 BY <1>1, NextEvent
<1>4. /\ Append(events, n) \in Seq(1 .. MaxEvents)
      /\ Len(Append(events, n)) = Len(events) + 1
      /\ Append(events, n)[Len(events) + 1] = n
      /\ \A i \in 1 .. Len(events) : Append(events, n)[i] = events[i]
      BY AppendProperties
<1>5. CASE NoRoom
  <2>1. TypeOK' BY <1>1, <1>2, <1>5 DEF Overflow, Close
  <2>2. Locked' BY DEF Locked
  <2>3. reader' = "close" /\ once' # "open" /\ UNCHANGED events
        BY <1>1, <1>5 DEF Overflow, Close
  <2>4. OneOutstanding' BY <2>3 DEF OneOutstanding
  <2>5. NoEventLost' /\ WireInOrder' BY <2>3 DEF NoEventLost, WireInOrder, Taken
  <2> QED BY <2>1, <2>2, <2>4, <2>5
<1>6. CASE ~ NoRoom
  <2>0. events' = Append(events, n) /\ UNCHANGED <<reader, once>> BY <1>1, <1>6
  <2>1. TypeOK'
    <3>1. Len(events) + 1 <= QueueMax BY <1>6 DEF NoRoom
    <3>2. events' \in Seq(1 .. MaxEvents) /\ Len(events') <= QueueMax
          BY <1>4, <2>0, <3>1
    <3> QED BY <1>2, <2>0, <3>2
  <2>2. Locked' BY DEF Locked
  <2>3. OneOutstanding'
    <3>1. \A i \in 1 .. Len(in'), c \in Calls : in'[i] = Reply(c) => in[i + 1] = Reply(c)
          BY <1>2
    <3>2. UNCHANGED <<reader, once>> BY <1>1, <1>6
    <3>3. once = "open" => \A i \in 1 .. Len(in'), c \in Calls : in'[i] = Reply(c) =>
              call[c] = "reply" /\ out = <<>> /\ pending = None /\ replies = None
          BY <1>2, <3>1 DEF OneOutstanding
    <3>4. ASSUME once = "open", NEW i \in 1 .. Len(in'), NEW j \in 1 .. Len(in'),
                 NEW c \in Calls, NEW d \in Calls, in'[i] = Reply(c), in'[j] = Reply(d)
          PROVE  i = j
      <4>1. i + 1 = j + 1 BY <1>2, <3>4 DEF OneOutstanding
      <4> QED BY <4>1
    <3> QED BY <3>2, <3>3, <3>4 DEF OneOutstanding
  <2>4. Taken' = Taken + 1 /\ Taken \in Nat /\ Taken' = n
    <3>1. seen' = seen /\ seen \in Nat /\ Len(events) \in Nat /\ Len(events') = Len(events) + 1
          BY <1>4, <2>0
    <3> QED BY <1>3, <3>1 DEF Taken
  <2>5. NoEventLost'
    <3>1. Len(events') = Len(events) + 1 /\ seen' = seen BY <1>1, <1>4, <1>6
    <3>2. ASSUME NEW i \in 1 .. Len(events') PROVE events'[i] = seen' + i
      <4>1. CASE i \in 1 .. Len(events) BY <1>1, <1>4, <1>6, <4>1 DEF NoEventLost
      <4>2. CASE i = Len(events) + 1 BY <1>1, <1>3, <1>4, <1>6, <4>2 DEF Taken
      <4> QED BY <3>1, <3>2, <4>1, <4>2
    <3> QED BY <3>2 DEF NoEventLost
  <2>6. WireInOrder'
    <3>1. n <= told /\ told' = told BY <1>2 DEF WireInOrder
    <3>2. ASSUME NEW i \in 1 .. Len(in'), NEW m \in 1 .. MaxEvents, in'[i] = Event(m)
          PROVE  m > Taken' /\ m <= told'
      <4>1. in[i + 1] = Event(m) /\ i + 1 \in 1 .. Len(in) /\ 1 < i + 1 BY <1>2, <3>2
      <4>2. n < m BY <1>2, <4>1 DEF WireInOrder
      <4>3. m <= told BY <4>1 DEF WireInOrder
      <4> QED BY <2>4, <4>2, <4>3
    <3>3. ASSUME NEW i \in 1 .. Len(in'), NEW j \in 1 .. Len(in'),
                 NEW l \in 1 .. MaxEvents, NEW m \in 1 .. MaxEvents,
                 in'[i] = Event(l), in'[j] = Event(m), i < j
          PROVE  l < m
      <4>1. i + 1 < j + 1 /\ in[i + 1] = Event(l) /\ in[j + 1] = Event(m) BY <1>2, <3>3
      <4> QED BY <1>2, <4>1 DEF WireInOrder
    <3>4. ASSUME NEW m \in 1 .. MaxEvents, m > Taken', m <= told'
          PROVE  \E i \in 1 .. Len(in') : in'[i] = Event(m)
      <4>1. m > Taken /\ m <= told BY <2>4, <3>4
      <4>2. PICK i \in 1 .. Len(in) : in[i] = Event(m) BY <4>1 DEF WireInOrder
      <4>3. i # 1 BY <1>2, <2>4, <3>4, <4>2, LineKinds
      <4>4. Len(in') = Len(in) - 1 /\ in' \in Seq(Lines) BY <1>1, TailOfIn
      <4>5. i - 1 \in 1 .. Len(in') /\ (i - 1) + 1 = i BY <4>3, <4>4
      <4> QED BY <1>2, <4>2, <4>5
    <3> QED BY <2>4, <3>1, <3>2, <3>3, <3>4 DEF WireInOrder
  <2> QED BY <2>1, <2>2, <2>3, <2>5, <2>6
<1> QED BY <1>5, <1>6

LEMMA ReaderOtherSteps ==
    ASSUME CInv, \/ Deliver \/ ReaderStops \/ ReaderEnds
                 \/ StopReading(reader = "scan" /\ Garbage)
    PROVE  CInv'
<1> USE DEF CInv, TypeOK, queue, wire, Close, Quit
<1>1. CASE Deliver
  <2>1. TypeOK' BY <1>1 DEF Deliver
  <2>2. Locked' BY <1>1 DEF Deliver, Locked
  <2>3. OneOutstanding' BY <1>1 DEF Deliver, OneOutstanding
  <2>4. NoEventLost' /\ WireInOrder' BY <1>1 DEF Deliver, NoEventLost, WireInOrder, Taken
  <2> QED BY <2>1, <2>2, <2>3, <2>4
<1>2. CASE ReaderEnds
  <2>1. TypeOK' BY <1>2 DEF ReaderEnds
  <2>2. Locked' BY <1>2 DEF ReaderEnds, Locked
  <2>3. OneOutstanding' BY <1>2 DEF ReaderEnds, OneOutstanding
  <2>4. NoEventLost' /\ WireInOrder' BY <1>2 DEF ReaderEnds, NoEventLost, WireInOrder, Taken
  <2> QED BY <2>1, <2>2, <2>3, <2>4
<1>3. ASSUME NEW why, StopReading(why) PROVE CInv'
  <2> USE <1>3 DEF StopReading
  <2>1. TypeOK' OBVIOUS
  <2>2. Locked' BY DEF Locked
  <2>3. OneOutstanding' BY DEF OneOutstanding
  <2>4. NoEventLost' /\ WireInOrder' BY DEF NoEventLost, WireInOrder, Taken
  <2> QED BY <2>1, <2>2, <2>3, <2>4
<1> QED BY <1>1, <1>2, <1>3 DEF ReaderStops

----------------------------------------------------------------------------
(* Tor, the session and Close                                              *)

LEMMA CloseSteps ==
    ASSUME CInv, CloseSocket \/ OwnerCloses
    PROVE  CInv'
<1> USE DEF CInv, TypeOK, CloseSocket, OwnerCloses, Close, queue, wire, reading
<1>1. TypeOK' OBVIOUS
<1>2. Locked' BY DEF Locked
<1>3. OneOutstanding' BY DEF OneOutstanding
<1>4. UNCHANGED <<in, told, seen, events, reader>> OBVIOUS
<1>5. NoEventLost' /\ WireInOrder'
  <2> USE DEF NoEventLost, WireInOrder, Taken
  <2>1. NoEventLost' BY <1>4
  <2>2. WireInOrder' BY <1>4
  <2> QED BY <2>1, <2>2
<1> QED BY <1>1, <1>2, <1>3, <1>5

LEMMA TakeEventStep ==
    ASSUME CInv, TakeEvent
    PROVE  CInv'
<1> USE QueueAssumption DEF CInv, TypeOK, TakeEvent, wire, reading
<1>1. /\ events' \in Seq(1 .. MaxEvents) /\ Len(events') = Len(events) - 1
      /\ Len(events) >= 1 /\ Head(events) = events[1] /\ Head(events) \in 1 .. MaxEvents
      /\ \A i \in 1 .. Len(events') : events'[i] = events[i + 1] /\ i + 1 \in 1 .. Len(events)
  <2>1. events \in Seq(1 .. MaxEvents) /\ events # <<>> /\ events' = Tail(events) OBVIOUS
  <2> HIDE DEF CInv, TypeOK, TakeEvent
  <2>2. /\ events' \in Seq(1 .. MaxEvents) /\ Len(events') = Len(events) - 1
        /\ Head(events) \in 1 .. MaxEvents
        /\ \A i \in 1 .. Len(events') : events'[i] = events[i + 1]
        BY <2>1, HeadTailProperties
  <2>3. Len(events) >= 1 /\ Head(events) = events[1] BY <2>1
  <2>4. \A i \in 1 .. Len(events') : i + 1 \in 1 .. Len(events) BY <2>1, <2>2
  <2> QED BY <2>2, <2>3, <2>4
<1>2. seen' = seen + 1 BY <1>1 DEF NoEventLost
<1>3. TypeOK' BY <1>1
<1>4. Locked' BY DEF Locked
<1>5. OneOutstanding' BY DEF OneOutstanding
<1>6. NoEventLost'
  <2>1. ASSUME NEW i \in 1 .. Len(events') PROVE events'[i] = seen' + i
    <3>1. events'[i] = events[i + 1] /\ events[i + 1] = seen + (i + 1)
          BY <1>1, <2>1 DEF NoEventLost
    <3> QED BY <1>2, <3>1
  <2> QED BY <2>1 DEF NoEventLost
<1>7. Taken' = Taken BY <1>1, <1>2 DEF Taken
<1>8. WireInOrder' BY <1>7 DEF WireInOrder
<1> QED BY <1>3, <1>4, <1>5, <1>6, <1>8

(* A line Tor writes is the last of in.                                    *)
LEMMA Written ==
    ASSUME CInv, NEW line \in Lines, in' = Append(in, line)
    PROVE  /\ in' \in Seq(Lines) /\ Len(in) \in Nat /\ Len(in') = Len(in) + 1
           /\ in'[Len(in')] = line
           /\ \A i \in 1 .. Len(in) : in'[i] = in[i]
           /\ \A i \in 1 .. Len(in') : i \in 1 .. Len(in) \/ i = Len(in')
<1>1. in \in Seq(Lines) BY DEF CInv, TypeOK
<1> QED BY <1>1, AppendProperties

LEMMA TorAnswersStep ==
    ASSUME CInv, TorAnswers
    PROVE  CInv'
<1> USE QueueAssumption DEF CInv, TypeOK, TorAnswers, queue, reading
<1> DEFINE c == Head(out)
<1>1. c \in Calls /\ out' \in Seq(Calls) /\ Len(out') = Len(out) - 1 /\ c = out[1] /\ Len(out) >= 1
  <2>1. out \in Seq(Calls) /\ out # <<>> /\ out' = Tail(out) OBVIOUS
  <2> HIDE DEF CInv, TypeOK, TorAnswers
  <2> QED BY <2>1, HeadTailProperties
<1> HIDE DEF c
<1>2. Reply(c) \in Lines /\ in' = Append(in, Reply(c)) BY <1>1, LineKinds DEF c
<1>3. /\ in' \in Seq(Lines) /\ Len(in) \in Nat /\ Len(in') = Len(in) + 1
      /\ in'[Len(in')] = Reply(c)
      /\ \A i \in 1 .. Len(in) : in'[i] = in[i]
      /\ \A i \in 1 .. Len(in') : i \in 1 .. Len(in) \/ i = Len(in')
      BY <1>2, Written
<1>4. TypeOK' BY <1>1, <1>3
<1>5. Locked' BY DEF Locked
<1>6. OneOutstanding'
  <2>1. ASSUME once = "open"
        PROVE  /\ call[c] = "reply" /\ Len(out') = 0 /\ out' = <<>>
               /\ pending = None /\ replies = None
               /\ \A i \in 1 .. Len(in), d \in Calls : in[i] # Reply(d)
    <3>1. 1 \in 1 .. Len(out) /\ Len(out) <= 1 BY <1>1, <2>1 DEF OneOutstanding
    <3>2. Len(out') = 0 BY <1>1, <3>1
    <3> QED BY <1>1, <2>1, <3>1, <3>2 DEF OneOutstanding
  <2>2. ASSUME once = "open", NEW i \in 1 .. Len(in'), NEW d \in Calls, in'[i] = Reply(d)
        PROVE  i = Len(in') /\ d = c
    <3>1. i = Len(in') BY <1>3, <2>1, <2>2
    <3> QED BY <1>1, <1>3, <2>2, <3>1, LineKinds
  <2> QED BY <2>1, <2>2 DEF OneOutstanding
<1>7. NoEventLost' BY DEF NoEventLost
<1>8. WireInOrder'
  <2>1. \A i \in 1 .. Len(in'), n \in 1 .. MaxEvents :
            in'[i] = Event(n) => i \in 1 .. Len(in) /\ in[i] = Event(n)
        BY <1>1, <1>3, LineKinds
  <2>2. \A i \in 1 .. Len(in) : i \in 1 .. Len(in') /\ in'[i] = in[i] BY <1>3
  <2>3. Taken' = Taken /\ told' = told /\ reader' = reader BY DEF Taken
  <2> QED BY <2>1, <2>2, <2>3 DEF WireInOrder
<1> QED BY <1>4, <1>5, <1>6, <1>7, <1>8

LEMMA TorReportsStep ==
    ASSUME CInv, TorReports
    PROVE  CInv'
<1> USE QueueAssumption DEF CInv, TypeOK, TorReports, queue, reading
<1> DEFINE t == told + 1
<1>1. t \in 1 .. MaxEvents /\ told' = t OBVIOUS
<1>2. Event(t) \in Lines /\ in' = Append(in, Event(t)) BY <1>1, LineKinds
<1> HIDE DEF t
<1>3. /\ in' \in Seq(Lines) /\ Len(in) \in Nat /\ Len(in') = Len(in) + 1
      /\ in'[Len(in')] = Event(t)
      /\ \A i \in 1 .. Len(in) : in'[i] = in[i]
      /\ \A i \in 1 .. Len(in') : i \in 1 .. Len(in) \/ i = Len(in')
      BY <1>2, Written
<1>4. TypeOK' BY <1>1, <1>3
<1>5. Locked' BY DEF Locked
<1>6. OneOutstanding'
  <2>1. \A i \in 1 .. Len(in'), c \in Calls :
            in'[i] = Reply(c) => i \in 1 .. Len(in) /\ in[i] = Reply(c)
        BY <1>1, <1>3, LineKinds
  <2> QED BY <2>1 DEF OneOutstanding
<1>7. NoEventLost' BY DEF NoEventLost
<1>8. WireInOrder'
  <2>1. \A i \in 1 .. Len(in'), n \in 1 .. MaxEvents : in'[i] = Event(n) =>
            \/ i \in 1 .. Len(in) /\ in[i] = Event(n)
            \/ i = Len(in') /\ n = t
        BY <1>1, <1>3, LineKinds
  <2>2. \A i \in 1 .. Len(in) : i \in 1 .. Len(in') /\ i < Len(in') /\ in'[i] = in[i] BY <1>3
  <2>3. Taken' = Taken /\ reader' = reader /\ t = told + 1 /\ Taken \in Nat /\ Taken <= told
        BY DEF Taken, t, WireInOrder
  <2>4. ASSUME reader \in {"scan", "deliver"}, NEW i \in 1 .. Len(in'),
               NEW n \in 1 .. MaxEvents, in'[i] = Event(n)
        PROVE  n > Taken /\ n <= t
    <3>1. CASE i \in 1 .. Len(in) /\ in[i] = Event(n) BY <2>3, <2>4, <3>1 DEF WireInOrder
    <3>2. CASE n = t BY <2>3, <3>2
    <3> QED BY <2>1, <2>4, <3>1, <3>2
  <2>5. ASSUME reader \in {"scan", "deliver"}, NEW i \in 1 .. Len(in'), NEW j \in 1 .. Len(in'),
               NEW n \in 1 .. MaxEvents, NEW m \in 1 .. MaxEvents,
               in'[i] = Event(n), in'[j] = Event(m), i < j
        PROVE  n < m
    <3>1. i \in 1 .. Len(in) /\ in[i] = Event(n) BY <1>3, <2>1, <2>5
    <3>2. CASE j \in 1 .. Len(in) /\ in[j] = Event(m) BY <2>5, <3>1, <3>2 DEF WireInOrder
    <3>3. CASE m = t BY <2>3, <2>5, <3>1, <3>3 DEF WireInOrder
    <3> QED BY <2>1, <2>5, <3>2, <3>3
  <2>6. ASSUME reader \in {"scan", "deliver"}, NEW n \in 1 .. MaxEvents, n > Taken, n <= t
        PROVE  \E i \in 1 .. Len(in') : in'[i] = Event(n)
    <3>1. CASE n <= told
      <4>1. PICK i \in 1 .. Len(in) : in[i] = Event(n) BY <2>6, <3>1 DEF WireInOrder
      <4> QED BY <2>2, <4>1
    <3>2. CASE n = t
      <4>1. Len(in') \in 1 .. Len(in') BY <1>3
      <4> QED BY <1>3, <3>2, <4>1
    <3> QED BY <2>3, <2>6, <3>1, <3>2
  <2>7. Taken' <= told' BY <1>1, <2>3
  <2> HIDE DEF CInv, TypeOK, TorReports, queue, reading
  <2> QED BY <1>1, <2>3, <2>4, <2>5, <2>6, <2>7 DEF WireInOrder
<1> QED BY <1>4, <1>5, <1>6, <1>7, <1>8

LEMMA TorDiesStep ==
    ASSUME CInv, TorDies
    PROVE  CInv'
<1> USE DEF CInv, TypeOK, TorDies, queue, reading
<1>1. TypeOK'
  <2>1. out' \in Seq(Calls) BY EmptySeq
  <2> QED BY <2>1
<1>2. Locked' BY DEF Locked
<1>3. OneOutstanding' BY DEF OneOutstanding
<1>4. NoEventLost' /\ WireInOrder' BY DEF NoEventLost, WireInOrder, Taken
<1> QED BY <1>1, <1>2, <1>3, <1>4

LEMMA Stutter == ASSUME CInv, UNCHANGED vars PROVE CInv'
<1> USE DEF CInv, vars, wire, queue, reading
<1>1. TypeOK' BY DEF TypeOK
<1>2. Locked' /\ OneOutstanding' BY DEF Locked, OneOutstanding
<1>3. NoEventLost' BY DEF NoEventLost
<1>4. WireInOrder' BY DEF WireInOrder, Taken
<1> QED BY <1>1, <1>2, <1>3, <1>4

LEMMA StepHolds == ASSUME CInv, [Next]_vars PROVE CInv'
<1>1. ASSUME NEW c \in Calls,
             Request(c) \/ CallStep(c) \/ LeaveQueue(c, TRUE) \/ WriteFails(c) \/ TimeOut(c)
      PROVE  CInv'
      BY <1>1, CallerSteps, WriteStep, ReceiveStep DEF CallStep
<1>2. CASE ReaderStep \/ StopReading(reader = "scan" /\ Garbage)
      BY <1>2, ReadEventStep, ReadReplyStep, ReaderOtherSteps DEF ReaderStep
<1>3. CASE CloseSocket \/ OwnerCloses \/ TakeEvent BY <1>3, CloseSteps, TakeEventStep
<1>4. CASE TorAnswers \/ TorReports \/ TorDies
      BY <1>4, TorAnswersStep, TorReportsStep, TorDiesStep
<1> QED BY <1>1, <1>2, <1>3, <1>4, Stutter DEF Next

----------------------------------------------------------------------------
(* Theorems                                                                *)

LEMMA ControlInvariant == Spec => []CInv
<1> QED BY InitHolds, StepHolds, PTL DEF Spec

(* Every variable of the connection keeps its type.                        *)
THEOREM ControlTypes == Spec => []TypeOK
<1>1. CInv => TypeOK BY DEF CInv
<1> QED BY <1>1, ControlInvariant, PTL

(* The events reach the session in Tor's order and without a gap, until    *)
(* the connection is closed (control.go:117-130).                          *)
THEOREM EventsInOrder == Spec => []NoEventLost
<1>1. CInv => NoEventLost BY DEF CInv
<1> QED BY <1>1, ControlInvariant, PTL

(* Only a call that takes a reply is answered.                             *)
LEMMA WhoAnswers ==
    ASSUME CInv, [Next]_vars, NEW c \in Calls, call[c] = "reply", call'[c] = "answered"
    PROVE  Receive(c)
<1> USE DEF CInv, TypeOK, Goto
<1>1. ASSUME NEW d \in Calls, Request(d) \/ Take(d) \/ LeaveQueue(d, FALSE) \/ LeaveQueue(d, TRUE)
      PROVE  FALSE
      BY <1>1 DEF Request, Take, LeaveQueue
<1>2. ASSUME NEW d \in Calls, Write(d) \/ WriteFails(d) \/ TimeOut(d) \/ Fail(d)
      PROVE  FALSE
      BY <1>2 DEF Write, WriteFails, TimeOut, Abandon, Fail
<1>3. ASSUME NEW d \in Calls, Receive(d), d # c PROVE FALSE BY <1>3 DEF Receive
<1>4. ASSUME UNCHANGED call PROVE FALSE BY <1>4
<1>5. CASE ReaderStep \/ StopReading(reader = "scan" /\ Garbage)
      BY <1>4, <1>5 DEF ReaderStep, ReadEvent, ReadReply, Deliver, ReaderStops, ReaderEnds, StopReading
<1>6. CASE CloseSocket \/ OwnerCloses \/ TakeEvent \/ TorAnswers \/ TorReports \/ TorDies
      BY <1>4, <1>6 DEF CloseSocket, OwnerCloses, TakeEvent, TorAnswers, TorReports, TorDies
<1>7. CASE UNCHANGED vars BY <1>4, <1>7 DEF vars
<1> HIDE DEF CInv, TypeOK, Goto
<1> QED BY <1>1, <1>2, <1>3, <1>5, <1>6, <1>7 DEF Next, CallStep

(* On an open connection a command gets its own reply, whatever timed out  *)
(* before it: the reply carries no identifier, but at most one command is  *)
(* under way, and one that is abandoned takes the connection with it       *)
(* (control.go:69-76).  After done nothing is said: see NeverAnothers.     *)
THEOREM RepliesMatch == Spec => AnswersOwn
<1>1. ASSUME CInv, [Next]_vars
      PROVE  [\A c \in Calls : call[c] = "reply" /\ call'[c] = "answered" /\ ~ done
                                   => replies = c]_vars
  <2>1. ASSUME NEW c \in Calls, call[c] = "reply", call'[c] = "answered", ~ done
        PROVE  replies = c
    <3>1. replies # None BY <1>1, <2>1, WhoAnswers DEF Receive
    <3> QED BY <1>1, <2>1, <3>1, OwnReply DEF done
  <2> QED BY <2>1
<1> QED BY <1>1, ControlInvariant, PTL DEF Spec, AnswersOwn
=============================================================================
