---------------------------- MODULE DaemonSocket ----------------------------
(***************************************************************************)
(* The daemon as a process: how it comes to listen on its two sockets and  *)
(* how it leaves them (cmd/pupptyeer/daemon.go, internal/server), what is  *)
(* left behind when it is killed, and the MCP server's connection to it    *)
(* (mcp/dialer.go).                                                        *)
(*                                                                         *)
(* The processes are numbered in the order of their starts; a path leads   *)
(* to the socket of the process that has bound it last, which need not be  *)
(* running any more.                                                       *)
(***************************************************************************)
EXTENDS Integers

CONSTANTS
    Runs        \* bound on the processes: none is stopped, killed or hit by an
                \* error of accept once the last of them has been started

ASSUME RunsAssumption == Runs \in Nat

VARIABLES
    started,    \* how many processes there have been
    pc,         \* where Start, and later Stop, of a process is
    tail,       \* where the goroutine that calls Serve is
    listening,  \* the listeners of a process that are open
    path,       \* by socket: whose it is that the path leads to
    mcp,        \* the process to which the MCP server's client is connected
    overlap,    \* a process has started while another was starting or stopping
    failed      \* accept has failed in some process

vars == <<started, pc, tail, listening, path, mcp, overlap, failed>>

Process == 1..Runs
None == 0
Main == "daemon.sock"
Raw == "daemon.sock.raw"
Sockets == {Main, Raw}

Init ==
    /\ started = 0
    /\ pc = [i \in Process |-> "off"]
    /\ tail = [i \in Process |-> "off"]
    /\ listening = [i \in Process |-> {}]
    /\ path = [s \in Sockets |-> None]
    /\ mcp = None /\ overlap = FALSE /\ failed = FALSE

Live(i) == pc[i] \notin {"off", "gone"}

\* Nobody is starting or stopping.
Settled == \A i \in Process : pc[i] \in {"off", "serve", "gone"}

\* A dial succeeds when the socket the path leads to has a listener, whether
\* or not it accepts yet.
Dials(s) == path[s] # None /\ s \in listening[path[s]]

Unlinked(s) == path' = [path EXCEPT ![s] = None]

At(i, here, there) == pc[i] = here /\ pc' = [pc EXCEPT ![i] = there]

-----------------------------------------------------------------------------
(* newDaemon *)

Begin(i) ==
    /\ i = started + 1
    /\ started' = i
    /\ At(i, "off", "dial")
    /\ overlap' = (overlap \/ ~Settled)
    /\ UNCHANGED <<tail, listening, path, mcp, failed>>

\* Mutant: whoever is listening, the path is taken.
IgnoreLive(i) ==
    /\ At(i, "dial", "remove")
    /\ UNCHANGED <<started, tail, listening, path, mcp, overlap, failed>>

\* A second daemon refuses to start.
DialCheck(i) ==
    /\ IF Dials(Main) THEN At(i, "dial", "gone") ELSE At(i, "dial", "remove")
    /\ UNCHANGED <<started, tail, listening, path, mcp, overlap, failed>>

\* Mutant: what a killed daemon has left is in the way.
KeepStale(i) ==
    /\ At(i, "remove", "listen")
    /\ UNCHANGED <<started, tail, listening, path, mcp, overlap, failed>>

RemoveStale(i) ==
    /\ At(i, "remove", "listen")
    /\ Unlinked(Main)
    /\ UNCHANGED <<started, tail, listening, mcp, overlap, failed>>

Bind(i, s) ==
    /\ path[s] = None
    /\ path' = [path EXCEPT ![s] = i]
    /\ listening' = [listening EXCEPT ![i] = @ \cup {s}]

Listen(i) ==
    /\ \/ Bind(i, Main) /\ At(i, "listen", "removeRaw")
       \/ /\ path[Main] # None /\ At(i, "listen", "gone")
          /\ UNCHANGED <<path, listening>>
    /\ UNCHANGED <<started, tail, mcp, overlap, failed>>

RemoveStaleRaw(i) ==
    /\ At(i, "removeRaw", "listenRaw")
    /\ Unlinked(Raw)
    /\ UNCHANGED <<started, tail, listening, mcp, overlap, failed>>

\* With both listeners the service is up, and Serve runs in a goroutine; with
\* an error the server is closed, and there is none.
ListenRaw(i) ==
    /\ \/ /\ Bind(i, Raw) /\ At(i, "listenRaw", "serve")
          /\ tail' = [tail EXCEPT ![i] = "accept"]
       \/ /\ path[Raw] # None /\ At(i, "listenRaw", "unlink")
          /\ UNCHANGED <<path, listening, tail>>
    /\ UNCHANGED <<started, mcp, overlap, failed>>

-----------------------------------------------------------------------------
(* Serve, and what its goroutine does when it returns: because the listener *)
(* is closed, or with an error of accept, such as too many open files, in   *)
(* which case the process goes on.                                          *)

AcceptFails(i) ==
    /\ tail[i] = "accept" /\ Live(i) /\ started < Runs
    /\ tail' = [tail EXCEPT ![i] = "remove"]
    /\ failed' = TRUE
    /\ UNCHANGED <<started, pc, listening, path, mcp, overlap>>

ServeReturns(i) ==
    /\ tail[i] = "accept" /\ Live(i) /\ Main \notin listening[i]
    /\ tail' = [tail EXCEPT ![i] = "remove"]
    /\ UNCHANGED <<started, pc, listening, path, mcp, overlap, failed>>

RemoveSockets(i) ==
    /\ Live(i)
    /\ \/ /\ tail[i] = "remove" /\ Unlinked(Main)
          /\ tail' = [tail EXCEPT ![i] = "removeRaw"]
       \/ /\ tail[i] = "removeRaw" /\ Unlinked(Raw)
          /\ tail' = [tail EXCEPT ![i] = "done"]
    /\ UNCHANGED <<started, pc, listening, mcp, overlap, failed>>

-----------------------------------------------------------------------------
(* Stop: a listener's Close unlinks its path and then closes the socket;    *)
(* connections and sessions go after the listeners (see Daemon), and then   *)
(* the process, with whatever its goroutines have left to do.               *)

Stop(i) ==
    /\ started < Runs
    /\ At(i, "serve", "unlink")
    /\ overlap' = (overlap \/ ~Settled)
    /\ UNCHANGED <<started, tail, listening, path, mcp, failed>>

CloseListener(i, s, unlink, close, next) ==
    \/ At(i, unlink, close) /\ Unlinked(s) /\ UNCHANGED listening
    \/ /\ At(i, close, next)
       /\ listening' = [listening EXCEPT ![i] = @ \ {s}]
       /\ UNCHANGED path

Close(i) ==
    /\ \/ CloseListener(i, Main, "unlink", "close", "unlinkRaw")
       \/ CloseListener(i, Raw, "unlinkRaw", "closeRaw", "exit")
    /\ UNCHANGED <<started, tail, mcp, overlap, failed>>

End(i) ==
    /\ pc' = [pc EXCEPT ![i] = "gone"]
    /\ listening' = [listening EXCEPT ![i] = {}]
    /\ UNCHANGED <<started, tail, path, mcp, overlap, failed>>

Exit(i) == pc[i] = "exit" /\ End(i)

\* Killed: the files stay.
Crash(i) == Live(i) /\ started < Runs /\ End(i)

-----------------------------------------------------------------------------
(* The MCP server: a tool call takes the client there is, or dials.         *)

Get ==
    /\ mcp = None
    /\ mcp' = IF Dials(Main) THEN path[Main] ELSE None
    /\ UNCHANGED <<started, pc, tail, listening, path, overlap, failed>>

-----------------------------------------------------------------------------
Step(i) ==
    \/ DialCheck(i) \/ RemoveStale(i) \/ Listen(i) \/ RemoveStaleRaw(i)
    \/ ListenRaw(i) \/ ServeReturns(i) \/ RemoveSockets(i) \/ Close(i)
    \/ Exit(i)

Next ==
    \/ \E i \in Process :
           Begin(i) \/ Step(i) \/ AcceptFails(i) \/ Stop(i) \/ Crash(i)
    \/ Get

(***************************************************************************)
(* The service manager starts a daemon when there is none (daemon.go:      *)
(* 30-34, 221-252); tools go on being called.                              *)
(***************************************************************************)
Fairness ==
    /\ \A i \in Process :
           /\ WF_vars(Step(i))
           /\ WF_vars((\A j \in Process : ~Live(j)) /\ Begin(i))
    /\ WF_vars(Get)

Spec == Init /\ [][Next]_vars /\ Fairness

-----------------------------------------------------------------------------
(* Properties *)

TypeOK ==
    /\ started \in 0..Runs
    /\ listening \in [Process -> SUBSET Sockets]
    /\ path \in [Sockets -> 0..Runs] /\ mcp \in 0..Runs

\* A daemon that accepts connections is the one its paths lead to: no other
\* has taken them and no other has removed them, in the course of restarts,
\* crashes and attempts to start a second one (daemon.go:104-115).  Excepted
\* are starts and stops while another daemon starts or stops, and what comes
\* after an error of accept, which leaves a process without its paths.
Reachable ==
    \A i \in Process :
        pc[i] = "serve" /\ tail[i] = "accept" /\ ~failed /\ ~overlap =>
            \A s \in Sockets : path[s] = i

\* Whatever daemons have been stopped or killed, and wherever, in the end one
\* serves on the paths, and an MCP server that has found none at first is
\* connected to it (dialer.go:52-55); with the same exceptions, and that of an
\* MCP server whose daemon has gone since: it keeps the dead connection.
Recovers ==
    <>[](\/ failed \/ overlap
         \/ \E i \in Process :
                /\ pc[i] = "serve" /\ path[Main] = i /\ path[Raw] = i
                /\ mcp = i \/ (mcp # None /\ pc[mcp] = "gone"))
=============================================================================
