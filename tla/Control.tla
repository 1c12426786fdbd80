------------------------------- MODULE Control -------------------------------
(***************************************************************************)
(* The connection to Tor's control port (control.go): callers of command,  *)
(* one at a time, the reader that separates events from replies, the       *)
(* buffer of one reply and the queue of events, Close, and Tor at the      *)
(* other end of the wire.  Tor answers in order and its replies carry no   *)
(* identifier; here a reply is the call it answers.                        *)
(*                                                                         *)
(* A line is an event or a whole reply; a malformed or oversized one makes *)
(* the reader stop (Garbage).  Reply codes are left out: 250 and others    *)
(* differ only for the caller.  Operators named Bad... are plausible       *)
(* mistakes that nothing uses (README, "Mutants").                         *)
(***************************************************************************)
EXTENDS Integers, Sequences

CONSTANTS
    Calls,          \* calls of command, each made once
    QueueMax,       \* capacity of events: 256
    MaxEvents,      \* bound: events Tor reports
    None

ASSUME QueueAssumption == QueueMax \in Nat \ {0} /\ MaxEvents \in Nat
ASSUME NoneAssumption == None \notin Calls

VARIABLES
    call,           \* call[c]: where the call is
    commands,       \* who has the token: its only place is taken
    answer,         \* answer[c]: the reply it returned with
    replies,        \* the buffer of one reply
    events,         \* the queue of events: their numbers
    once,           \* Close: not called, done is closed, the socket is too
    reader,         \* where readLoop is
    pending,        \* the reply it is about to deliver
    out, in,        \* the wire in either direction
    peer,           \* Tor is there
    told, seen      \* events reported by Tor, and taken off the queue

vars == <<call, commands, answer, replies, events, once, reader, pending, out, in, peer,
          told, seen>>

Event(n) == [event |-> n]
Reply(c) == [reply |-> c]
Lines == {Event(n) : n \in 1 .. MaxEvents} \union {Reply(c) : c \in Calls}

TypeOK ==
    /\ call \in [Calls -> {"new", "wait", "write", "reply", "close", "answered", "failed"}]
    /\ commands \in Calls \union {None}
    /\ answer \in [Calls -> Calls \union {None}]
    /\ replies \in Calls \union {None}
    /\ events \in Seq(1 .. MaxEvents) /\ Len(events) <= QueueMax
    /\ once \in {"open", "closing", "closed"}
    /\ reader \in {"scan", "deliver", "close", "ended"}
    /\ pending \in Calls \union {None}
    /\ out \in Seq(Calls) /\ in \in Seq(Lines)
    /\ peer \in BOOLEAN
    /\ told \in 0 .. MaxEvents /\ seen \in 0 .. MaxEvents

Init ==
    /\ call = [c \in Calls |-> "new"] /\ commands = None
    /\ answer = [c \in Calls |-> None]
    /\ replies = None /\ events = <<>> /\ once = "open"
    /\ reader = "scan" /\ pending = None
    /\ out = <<>> /\ in = <<>> /\ peer = TRUE
    /\ told = 0 /\ seen = 0

done == once # "open"                   \* close(c.done)
SocketOpen == once # "closed"

(* Close: whoever comes first closes done and then the socket; the others  *)
(* wait for that.                                                          *)
Close == once' = IF once = "open" THEN "closing" ELSE once

wire == <<out, in, peer, told>>
queue == <<events, seen>>
reading == <<reader, pending>>

----------------------------------------------------------------------------
(* command                                                                 *)

Goto(c, s) == call' = [call EXCEPT ![c] = s]

Release(c) == commands' = None          \* the deferred <-c.commands

Request(c) ==
    /\ call[c] = "new" /\ Goto(c, "wait")
    /\ UNCHANGED <<commands, answer, replies, queue, once, reading, wire>>

Take(c) ==
    /\ call[c] = "wait" /\ commands = None
    /\ commands' = c
    /\ Goto(c, "write")
    /\ UNCHANGED <<answer, replies, queue, once, reading, wire>>

(* Without the token: the context ends, or done is closed.                 *)
LeaveQueue(c, timeout) ==
    /\ call[c] = "wait" /\ (timeout \/ done)
    /\ Goto(c, "failed")
    /\ UNCHANGED <<commands, answer, replies, queue, once, reading, wire>>

Write(c) ==
    /\ call[c] = "write" /\ SocketOpen
    /\ out' = IF peer THEN Append(out, c) ELSE out
    /\ Goto(c, "reply")
    /\ UNCHANGED <<commands, answer, replies, queue, once, reading, in, peer, told>>

WriteFails(c) ==
    /\ call[c] = "write"
    /\ Goto(c, "close") /\ Close
    /\ UNCHANGED <<commands, answer, replies, queue, reading, wire>>

(* The last select: a reply, the context, done.                            *)
Receive(c) ==
    /\ call[c] = "reply" /\ replies # None
    /\ answer' = [answer EXCEPT ![c] = replies]
    /\ replies' = None
    /\ Goto(c, "answered") /\ Release(c)
    /\ UNCHANGED <<queue, once, reading, wire>>

(* A call that stops waiting for its reply closes the connection, and only *)
(* then gives the token back.                                              *)
BadAbandon(c) == Goto(c, "failed") /\ Release(c) /\ UNCHANGED once

Abandon(c) == Goto(c, "close") /\ Close /\ UNCHANGED commands

TimeOut(c) ==
    /\ call[c] = "reply"
    /\ Abandon(c)
    /\ UNCHANGED <<answer, replies, queue, reading, wire>>

Fail(c) ==
    /\ \/ call[c] = "close" /\ once = "closed"
       \/ call[c] = "reply" /\ done
    /\ Goto(c, "failed") /\ Release(c)
    /\ UNCHANGED <<answer, replies, queue, once, reading, wire>>

----------------------------------------------------------------------------
(* readLoop                                                                *)

NoRoom == Len(events) = QueueMax

(* With no room for an event the connection is closed.  Lines that came    *)
(* before a Close may be in the Scanner's buffer: the reader goes on with  *)
(* them, or stops at once if they are not.                                 *)
BadOverflow == UNCHANGED <<reader, once, events>>

Overflow == reader' = "close" /\ Close /\ UNCHANGED events

ReadEvent ==
    /\ reader = "scan"
    /\ in # <<>> /\ \E n \in 1 .. MaxEvents :
         /\ Head(in) = Event(n)
         /\ IF NoRoom THEN Overflow ELSE events' = Append(events, n) /\ UNCHANGED <<reader, once>>
    /\ in' = Tail(in)
    /\ UNCHANGED <<call, commands, answer, replies, seen, pending, out, peer, told>>

ReadReply ==
    /\ reader = "scan"
    /\ in # <<>> /\ \E c \in Calls : Head(in) = Reply(c) /\ pending' = c
    /\ in' = Tail(in)
    /\ reader' = "deliver"
    /\ UNCHANGED <<call, commands, answer, replies, queue, once, out, peer, told>>

Deliver ==
    /\ reader = "deliver" /\ replies = None
    /\ replies' = pending /\ pending' = None
    /\ reader' = "scan"
    /\ UNCHANGED <<call, commands, answer, queue, once, wire>>

(* The end of the stream, a line it cannot make sense of, or done: the     *)
(* deferred Close.                                                         *)
BadQuit == UNCHANGED once

Quit == Close

Eof == in = <<>> /\ ~ peer

Garbage == in # <<>>

StopReading(why) ==
    /\ why
    /\ reader' = "close" /\ Quit
    /\ UNCHANGED <<call, commands, answer, replies, queue, pending, wire>>

ReaderStops ==
    \/ StopReading(reader = "scan" /\ (Eof \/ ~ SocketOpen))
    \/ StopReading(reader = "deliver" /\ done)

ReaderEnds ==
    /\ reader = "close" /\ once = "closed"
    /\ reader' = "ended" /\ pending' = None
    /\ UNCHANGED <<call, commands, answer, replies, queue, once, wire>>

----------------------------------------------------------------------------
(* Close goes on; the owner of the session may call it too.                *)
CloseSocket ==
    /\ once = "closing" /\ once' = "closed"
    /\ UNCHANGED <<call, commands, answer, replies, queue, reading, wire>>

OwnerCloses ==
    /\ once = "open" /\ Close
    /\ UNCHANGED <<call, commands, answer, replies, queue, reading, wire>>

(* torSession.events takes the next event.                                 *)
TakeEvent ==
    /\ events # <<>>
    /\ seen' = Head(events) /\ events' = Tail(events)
    /\ UNCHANGED <<call, commands, answer, replies, once, reading, wire>>

(* Tor; what it sends after the socket was closed is never read.           *)
TorAnswers ==
    /\ peer /\ SocketOpen /\ out # <<>>
    /\ in' = Append(in, Reply(Head(out))) /\ out' = Tail(out)
    /\ UNCHANGED <<call, commands, answer, replies, queue, once, reading, peer, told>>

TorReports ==
    /\ peer /\ SocketOpen /\ told < MaxEvents
    /\ told' = told + 1
    /\ in' = Append(in, Event(told + 1))
    /\ UNCHANGED <<call, commands, answer, replies, queue, once, reading, out, peer>>

TorDies ==
    /\ peer /\ peer' = FALSE /\ out' = <<>>
    /\ UNCHANGED <<call, commands, answer, replies, queue, once, reading, in, told>>

ReaderStep == ReadEvent \/ ReadReply \/ Deliver \/ ReaderStops \/ ReaderEnds

CallStep(c) == \/ Take(c) \/ LeaveQueue(c, FALSE) \/ Write(c) \/ Receive(c) \/ Fail(c)
               \/ ~ SocketOpen /\ WriteFails(c)

Next ==
    \/ \E c \in Calls : Request(c) \/ CallStep(c) \/ LeaveQueue(c, TRUE) \/ WriteFails(c) \/ TimeOut(c)
    \/ ReaderStep \/ StopReading(reader = "scan" /\ Garbage)
    \/ CloseSocket \/ OwnerCloses \/ TakeEvent
    \/ TorAnswers \/ TorReports \/ TorDies

Spec == Init /\ [][Next]_vars

(* Goroutines are scheduled and Tor answers while it lives.  That a        *)
(* command times out is not needed, nor that events are taken.             *)
FairSpec ==
    /\ Spec
    /\ WF_vars(ReaderStep) /\ WF_vars(CloseSocket) /\ WF_vars(TorAnswers)
    /\ \A c \in Calls : WF_vars(CallStep(c)) /\ SF_vars(Take(c))

----------------------------------------------------------------------------
(* Properties                                                              *)

(* While the connection is open a command is answered with its own reply,  *)
(* whatever timed out before it (control.go:69-76).                        *)
AnswersOwn ==
    [][\A c \in Calls : call[c] = "reply" /\ call'[c] = "answered" /\ ~ done => replies = c]_vars

(* The session sees every event, in Tor's order: a gap would let a circuit *)
(* die, or a stream wait, unnoticed.                                       *)
NoEventLost == \A i \in 1 .. Len(events) : events[i] = seen + i

(* Every command returns, though one waits for another, without any        *)
(* timeout, with its answer or because the connection is gone; and the     *)
(* death of Tor closes done, on which the worker and events wait.          *)
CommandReturns ==
    /\ \A c \in Calls : call[c] = "wait" ~> call[c] \in {"answered", "failed"}
    /\ ~ peer ~> done

(* "losing a reply or overflowing events closes the connection rather than *)
(* risking attachment to an unverified circuit" (control.go:23): no call   *)
(* is ever answered with the reply to another.                             *)
NeverAnothers == \A c \in Calls : answer[c] \in {c, None}
=============================================================================
