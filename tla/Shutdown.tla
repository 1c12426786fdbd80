------------------------------ MODULE Shutdown ------------------------------
(***************************************************************************)
(* The bounded listener of the proxy (proxy.go:356-412) under net/http's   *)
(* server, and the end of the application (run.go:57-78): whatever ends    *)
(* first, Run cancels, closes the servers, closes the sockets a server     *)
(* does not own, and waits for the workers and the load tester.            *)
(*                                                                         *)
(* A critical section of boundedListener.mu is one step.  net/http is      *)
(* modelled by what it does with listener and sockets; a connection is     *)
(* made once.  The listener of the dashboard is of the same kind.          *)
(* Operators named Bad... are plausible mistakes that nothing uses         *)
(* (README, "Mutants").                                                    *)
(***************************************************************************)
EXTENDS Naturals, FiniteSets

CONSTANTS
    Conns,          \* connections that clients may make
    Limit,          \* MAX_CONNECTIONS
    None

ASSUME LimitAssumption == Limit \in Nat \ {0} /\ None \notin Conns

VARIABLES
    conn,           \* conn[c]: who has it
    open,           \* open[c]: its socket is not closed
    connections,    \* l.connections
    active,         \* the server's activeConn
    listening,      \* the listening socket is open
    loop,           \* where the goroutine of Serve is: Accept or around it
    holding,        \* the connection it got from the system
    main,           \* where Run is
    ctx,            \* the application's context is cancelled
    snapshot,       \* what closeConnections still has to close
    running,        \* of the workers and the tester, those that have not ended
    owed            \* history: what was registered when Run closed the server

vars == <<conn, open, connections, active, listening, loop, holding, main, ctx, snapshot,
          running, owed>>

TypeOK ==
    /\ conn \in [Conns -> {"none", "backlog", "accepted", "tracked", "served",
                           "hijacked", "closing", "gone"}]
    /\ open \in [Conns -> BOOLEAN]
    /\ connections \subseteq Conns /\ Cardinality(connections) <= Limit
    /\ active \subseteq Conns
    /\ listening \in BOOLEAN
    /\ loop \in {"accept", "check", "refuse", "handover", "ended"}
    /\ holding \in Conns \union {None} /\ (holding = None <=> loop \in {"accept", "ended"})
    /\ main \in {"serve", "cancel", "close", "collect", "sweep", "wait", "returned"}
    /\ ctx \in BOOLEAN
    /\ snapshot \subseteq Conns
    /\ running \subseteq {"workers", "tester"}
    /\ owed \subseteq Conns

Init ==
    /\ conn = [c \in Conns |-> "none"]
    /\ open = [c \in Conns |-> FALSE]
    /\ connections = {} /\ active = {}
    /\ listening = TRUE /\ loop = "accept" /\ holding = None
    /\ main = "serve" /\ ctx = FALSE /\ snapshot = {} /\ owed = {}
    /\ running = {"workers", "tester"}

runner == <<main, ctx, snapshot, running, owed>>

Now(c, s) == conn' = [conn EXCEPT ![c] = s]
CloseSockets(S) == open' = [c \in Conns |-> open[c] /\ c \notin S]

----------------------------------------------------------------------------
(* Accept, called by Serve in a loop                                       *)

Connect(c) ==
    /\ conn[c] = "none" /\ listening
    /\ Now(c, "backlog")
    /\ open' = [open EXCEPT ![c] = TRUE]
    /\ UNCHANGED <<connections, active, listening, loop, holding, runner>>

AcceptReturns(c) ==
    /\ loop = "accept" /\ listening /\ conn[c] = "backlog"
    /\ Now(c, "accepted")
    /\ loop' = "check" /\ holding' = c
    /\ UNCHANGED <<open, connections, active, listening, runner>>

(* The listener is closed, or the system reports an error: Serve returns.  *)
AcceptFails ==
    /\ loop = "accept"
    /\ loop' = "ended"
    /\ UNCHANGED <<conn, open, connections, active, listening, holding, runner>>

BadRoom == Cardinality(connections) <= Limit

Room == Cardinality(connections) < Limit

Register ==
    /\ loop = "check" /\ Room
    /\ connections' = connections \union {holding}
    /\ Now(holding, "tracked")
    /\ loop' = "handover"
    /\ UNCHANGED <<open, active, listening, holding, runner>>

Overload ==
    /\ loop = "check" /\ ~ Room
    /\ loop' = "refuse"
    /\ UNCHANGED <<conn, open, connections, active, listening, holding, runner>>

(* The 503, for at most 100 ms, and conn.Close() of the bare socket.       *)
Refuse ==
    /\ loop = "refuse"
    /\ CloseSockets({holding})
    /\ Now(holding, "gone")
    /\ loop' = "accept" /\ holding' = None
    /\ UNCHANGED <<connections, active, listening, runner>>

(* Serve enters the connection among the active ones, whether or not the   *)
(* server was closed meanwhile, and starts its goroutine.                  *)
HandOver ==
    /\ loop = "handover"
    /\ active' = active \union {holding}
    /\ Now(holding, "served")
    /\ loop' = "accept" /\ holding' = None
    /\ UNCHANGED <<open, connections, listening, runner>>

----------------------------------------------------------------------------
(* The connection's goroutine                                              *)

(* A CONNECT that reached its tunnel: the server lets go of the socket.    *)
Hijack(c) ==
    /\ conn[c] = "served"
    /\ Now(c, "hijacked")
    /\ active' = active \ {c}
    /\ UNCHANGED <<open, connections, listening, loop, holding, runner>>

(* trackedConn.Close by the goroutine: the socket first ...                *)
CloseOwn(c) ==
    /\ conn[c] \in {"served", "hijacked"}
    /\ Now(c, "closing")
    /\ CloseSockets({c})
    /\ UNCHANGED <<connections, active, listening, loop, holding, runner>>

(* ... then the entry, once.                                               *)
Forget(c) == connections' = connections \ {c}

CloseEnds(c) ==
    /\ conn[c] = "closing"
    /\ Now(c, "gone")
    /\ Forget(c)
    /\ active' = active \ {c}
    /\ UNCHANGED <<open, listening, loop, holding, runner>>

----------------------------------------------------------------------------
(* Run                                                                     *)

GoOn(from, to) == main = from /\ main' = to

(* A signal ended the context, or a server ended.                          *)
Leave(signal) ==
    /\ GoOn("serve", "cancel")
    /\ signal \/ loop = "ended"
    /\ ctx' = signal
    /\ UNCHANGED <<conn, open, connections, active, listening, loop, holding, snapshot, running, owed>>

BadCancelled == ctx

Cancelled == TRUE

CancelAll ==
    /\ GoOn("cancel", "close")
    /\ ctx' = Cancelled
    /\ UNCHANGED <<conn, open, connections, active, listening, loop, holding, snapshot, running, owed>>

(* Server.Close: the listener and every active connection.                 *)
CloseServer ==
    /\ GoOn("close", "collect")
    /\ listening' = FALSE
    /\ CloseSockets(active \union {c \in Conns : conn[c] = "backlog"})
    /\ connections' = connections \ active
    /\ active' = {}
    /\ owed' = connections
    /\ UNCHANGED <<conn, loop, holding, ctx, snapshot, running>>

(* closeConnections: a snapshot under the lock, then one after the other.  *)
BadRemaining == active

Remaining == connections

Collect ==
    /\ GoOn("collect", "sweep")
    /\ snapshot' = Remaining
    /\ UNCHANGED <<conn, open, connections, active, listening, loop, holding, ctx, running, owed>>

Sweep(c) ==
    /\ main = "sweep" /\ c \in snapshot
    /\ CloseSockets({c})
    /\ connections' = connections \ {c}
    /\ snapshot' = snapshot \ {c}
    /\ UNCHANGED <<conn, active, listening, loop, holding, main, ctx, running, owed>>

Swept ==
    /\ GoOn("sweep", "wait") /\ snapshot = {}
    /\ UNCHANGED <<conn, open, connections, active, listening, loop, holding, ctx, snapshot, running, owed>>

(* Worker (ShutdownCompletes) and LoadTester (RunsEnd) end once cancelled. *)
BackgroundEnds(x) ==
    /\ ctx /\ x \in running
    /\ running' = running \ {x}
    /\ UNCHANGED <<conn, open, connections, active, listening, loop, holding, main, ctx, snapshot, owed>>

Return ==
    /\ GoOn("wait", "returned") /\ running = {}
    /\ UNCHANGED <<conn, open, connections, active, listening, loop, holding, ctx, snapshot, running, owed>>

RunStep == \/ CancelAll \/ CloseServer \/ Collect \/ Swept \/ Return
           \/ \E c \in Conns : Sweep(c)

LoopStep == \/ AcceptFails \/ Register \/ Overload \/ Refuse \/ HandOver
            \/ \E c \in Conns : AcceptReturns(c)

Next ==
    \/ LoopStep \/ RunStep
    \/ \E c \in Conns : Connect(c) \/ Hijack(c) \/ CloseOwn(c) \/ CloseEnds(c)
    \/ \E signal \in BOOLEAN : Leave(signal)
    \/ \E x \in running : BackgroundEnds(x)

(* Goroutines are scheduled.  That a connection's own goroutine ends is    *)
(* not needed, nor that a client goes away.                                *)
Spec ==
    /\ Init /\ [][Next]_vars
    /\ WF_vars(RunStep) /\ WF_vars(Leave(FALSE))
    /\ \A x \in {"workers", "tester"} : WF_vars(BackgroundEnds(x))
    /\ \A c \in Conns : WF_vars(CloseEnds(c))

----------------------------------------------------------------------------
(* Properties                                                              *)

Kept == {c \in Conns : open[c] /\ conn[c] \in {"tracked", "served", "hijacked"}}

(* The sockets that are open never exceed MAX_CONNECTIONS, tunnels         *)
(* included, though a socket is closed and forgotten in two steps and by   *)
(* several owners; and one that is over takes no place from the next.      *)
PlacesExact ==
    /\ Cardinality(Kept) <= Limit
    /\ \A c \in connections : conn[c] # "gone"

(* When Run returns, every connection that was registered when it closed   *)
(* the server is closed, also those the server had let go of.              *)
SweptClean == main = "returned" => \A c \in owed : ~ open[c]

(* However the application ends, by a signal or by an error of a server,   *)
(* Run returns.                                                            *)
RunReturns == (main = "cancel" \/ loop = "ended") ~> main = "returned"

(* "so shutdown can close every connection" (proxy.go:356): no connection  *)
(* the proxy accepted is open when Run has returned.                       *)
AllClosed == main = "returned" => Kept = {}
=============================================================================
