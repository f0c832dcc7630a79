---------------------------- MODULE ControlServer ----------------------------
(***************************************************************************)
(* The camera scenario around the service: main's thread                   *)
(* (core/vf-core.c, run_camera_scenario), the control server's thread      *)
(* (libvf_control/src) and the clients of its socket.                      *)
(*                                                                         *)
(* vf_service_start and vf_service_stop are single actions here: VfService *)
(* models them step by step.  What is kept of the units is whether they    *)
(* run and how many threads were started beside the ones whose handles the *)
(* units hold.  A client is vf_client: once it has written its request it  *)
(* waits for the answer, unless it is interrupted.                         *)
(***************************************************************************)
EXTENDS Naturals, Sequences

CONSTANTS Clients,     \* the processes that connect
          NoClient,
          MaxOrphans   \* bound: starts asked of a service that is running

ASSUME ControlAssumption == /\ NoClient \notin Clients
                            /\ MaxOrphans \in Nat

Backlog == 4   \* VF_CONTROL_MAX_CONNECTIONS

Commands == {"get_status", "get_stats", "stop", "start", "unknown"}

VARIABLES
    main,        \* where main's thread is
    signalled,   \* ~g_running
    srvRunning,  \* srv->running
    sock,        \* srv->server_fd
    srv,         \* where the server's thread is, "none" before it exists
    backlog,     \* connections the server has not accepted, oldest first
    current,     \* the client being served
    client,      \* per client: "away", "connected", "sent" (its request),
                 \* "left" (after sending it) or "closed" (without)
    cmd,         \* the request that was read
    answer,      \* the answer to it
    initialized, \* svc->initialized
    units,       \* "running" or "stopped": the units' running flags
    orphans      \* sets of unit threads whose handles were overwritten

mainVars == <<main, signalled>>
service == <<initialized, units, orphans>>
request == <<current, cmd, answer>>
vars == <<main, signalled, srvRunning, sock, srv, backlog, current, client, cmd,
          answer, initialized, units, orphans>>

Init == /\ main = "init"
        /\ signalled = FALSE
        /\ srvRunning = FALSE
        /\ sock = "none"
        /\ srv = "none"
        /\ backlog = <<>>
        /\ current = NoClient
        /\ client = [c \in Clients |-> "away"]
        /\ cmd = "none"
        /\ answer = "none"
        /\ initialized = FALSE
        /\ units = "stopped"
        /\ orphans = 0

-----------------------------------------------------------------------------
(* vf_service_start and vf_service_stop, as their callers see them.        *)

\* Mutant: the first start already leaves a set of threads without handles.
StartUnitsTwice ==
    /\ units' = "running"
    /\ orphans' = orphans + 1
    /\ UNCHANGED initialized

\* vf_unit_start does not ask whether the unit runs: a second start creates
\* second threads and stores their handles over the first ones.
StartUnits ==
    /\ units' = "running"
    /\ \/ units = "stopped" /\ UNCHANGED orphans
       \/ units = "running" /\ orphans' = orphans + 1
    /\ UNCHANGED initialized

\* vf_unit_stop clears the flag and joins the thread whose handle it has.
StopUnits == units' = "stopped" /\ UNCHANGED <<initialized, orphans>>

\* Threads that nobody joins see the cleared flag in their own time.
OrphansEnd ==
    /\ units = "stopped"
    /\ orphans > 0
    /\ orphans' = orphans - 1
    /\ UNCHANGED <<mainVars, srvRunning, sock, srv, backlog, client, request,
                   initialized, units>>

-----------------------------------------------------------------------------
(* main's thread                                                           *)

MainGoto(from, to) == main = from /\ main' = to /\ UNCHANGED signalled

\* The SIGINT and SIGTERM handler.
Signal ==
    /\ ~signalled
    /\ signalled' = TRUE
    /\ UNCHANGED <<main, srvRunning, sock, srv, backlog, client, request, service>>

\* vf_service_init
ServiceInit ==
    /\ \/ MainGoto("init", "start") /\ initialized' = TRUE
       \/ MainGoto("init", "done") /\ UNCHANGED initialized
    /\ UNCHANGED <<srvRunning, sock, srv, backlog, client, request, units, orphans>>

ServiceStart ==
    /\ \/ MainGoto("start", "ctl_init") /\ StartUnits
       \/ MainGoto("start", "svc_deinit") /\ UNCHANGED service
    /\ UNCHANGED <<srvRunning, sock, srv, backlog, client, request>>

\* vf_control_server_init: socket, bind and listen, or nothing.
ControlInit ==
    /\ \/ MainGoto("ctl_init", "ctl_start") /\ sock' = "listening"
       \/ MainGoto("ctl_init", "svc_stop") /\ UNCHANGED sock
    /\ UNCHANGED <<srvRunning, srv, backlog, client, request, service>>

\* The process ends without a teardown.  The system closes its connections and
\* its socket; its threads and its memory are gone.
ProcessEnds ==
    /\ main' = "killed" /\ UNCHANGED signalled
    /\ srvRunning' = FALSE /\ sock' = "closed" /\ srv' = "none"
    /\ backlog' = <<>>
    /\ client' = [c \in Clients |-> "away"]
    /\ current' = NoClient /\ cmd' = "none" /\ answer' = "none"
    /\ initialized' = FALSE /\ units' = "stopped" /\ orphans' = 0

\* vf_control_server_start.  It compares EOK with 0 and not with the result of
\* pthread_create: without a thread it goes on, and running stays set.
ControlStart ==
    /\ MainGoto("ctl_start", "poll")
    /\ srvRunning' = TRUE
    /\ srv' \in {"check", "none"}
    /\ UNCHANGED <<sock, backlog, client, request, service>>

\* The 100 ms polling loop ends.
PollEnds ==
    /\ signalled
    /\ MainGoto("poll", "ctl_stop")
    /\ UNCHANGED <<srvRunning, sock, srv, backlog, client, request, service>>

\* vf_control_server_stop: the flag ...
ControlStopFlag ==
    /\ MainGoto("ctl_stop", "ctl_shut")
    /\ srvRunning' = FALSE
    /\ UNCHANGED <<sock, srv, backlog, client, request, service>>

\* Mutant: the listening socket is left open, so accept stays blocked.
ControlStopNoShutdown ==
    /\ MainGoto("ctl_shut", "join")
    /\ UNCHANGED <<srvRunning, sock, srv, backlog, client, request, service>>

\* ... the shutdown of the listening socket ...
ControlStopShutdown ==
    /\ MainGoto("ctl_shut", "join")
    /\ sock' = "shut"
    /\ UNCHANGED <<srvRunning, srv, backlog, client, request, service>>

\* Mutant: stop does not wait for the thread.
ControlStopNoJoin ==
    /\ MainGoto("join", "ctl_deinit")
    /\ UNCHANGED <<srvRunning, sock, srv, backlog, client, request, service>>

\* ... and the join.  To join a thread that was never created is undefined: it
\* fails, which goes unnoticed, or ends the process.
ControlStopJoin ==
    \/ /\ MainGoto("join", "ctl_deinit")
       /\ srv \in {"done", "none"}
       /\ UNCHANGED <<srvRunning, sock, srv, backlog, client, request, service>>
    \/ main = "join" /\ srv = "none" /\ ProcessEnds

\* Mutant: the listening socket is not closed.
ControlDeinitLeaking ==
    /\ MainGoto("ctl_deinit", "svc_stop")
    /\ UNCHANGED <<srvRunning, sock, srv, backlog, client, request, service>>

\* vf_control_server_deinit: closing the socket resets the connections that
\* were never accepted.
ControlDeinit ==
    /\ MainGoto("ctl_deinit", "svc_stop")
    /\ sock' = "closed"
    /\ backlog' = <<>>
    /\ client' = [c \in Clients |->
                     IF \E i \in DOMAIN backlog : backlog[i] = c THEN "away" ELSE client[c]]
    /\ UNCHANGED <<srvRunning, srv, request, service>>

ServiceStop ==
    /\ MainGoto("svc_stop", "svc_deinit")
    /\ StopUnits
    /\ UNCHANGED <<srvRunning, sock, srv, backlog, client, request>>

ServiceDeinit ==
    /\ MainGoto("svc_deinit", "done")
    /\ initialized' = FALSE
    /\ UNCHANGED <<srvRunning, sock, srv, backlog, client, request, units, orphans>>

MainStep == \/ ServiceInit
            \/ ServiceStart
            \/ ControlInit
            \/ ControlStart
            \/ PollEnds
            \/ ControlStopFlag
            \/ ControlStopShutdown
            \/ ControlStopJoin
            \/ ControlDeinit
            \/ ServiceStop
            \/ ServiceDeinit

-----------------------------------------------------------------------------
(* The server's thread: vf_control_server_thread_fn and, for an accepted   *)
(* connection, vf_control_handle_request.                                  *)

SrvGoto(from, to) == srv = from /\ srv' = to

SrvCheck ==
    /\ \/ srvRunning /\ SrvGoto("check", "accept")
       \/ ~srvRunning /\ SrvGoto("check", "done")
    /\ UNCHANGED <<mainVars, srvRunning, sock, backlog, client, request, service>>

\* accept returns the oldest pending connection, also when the socket has
\* been shut down meanwhile; without one it fails on a shut socket, and the
\* running flag was cleared before that.
SrvAccept ==
    /\ \/ /\ backlog # <<>>
          /\ SrvGoto("accept", "read")
          /\ current' = Head(backlog)
          /\ backlog' = Tail(backlog)
       \/ /\ backlog = <<>>
          /\ sock = "shut"
          /\ ~srvRunning
          /\ SrvGoto("accept", "done")
          /\ UNCHANGED <<current, backlog>>
    /\ UNCHANGED <<mainVars, srvRunning, sock, client, cmd, answer, service>>

\* read waits for the client: a request, which is there also when its sender
\* has left, or the end of the connection.  At the bound nobody asks a running
\* service to start.
SrvRead ==
    /\ \/ /\ SrvGoto("read", "act")
          /\ client[current] \in {"sent", "left"}
          /\ cmd' \in Commands
          /\ cmd' = "start" /\ units = "running" => orphans < MaxOrphans
       \/ /\ SrvGoto("read", "close")
          /\ client[current] = "closed"
          /\ UNCHANGED cmd
    /\ UNCHANGED <<mainVars, srvRunning, sock, backlog, current, client, answer, service>>

\* Mutant: the handler answers a stop before it has carried it out.
HandleStopUndone ==
    /\ cmd = "stop"
    /\ answer' = "service_stopped"
    /\ UNCHANGED service

HandleStop ==
    /\ cmd = "stop"
    /\ answer' = "service_stopped"
    /\ StopUnits

\* vf_service_start fails without leaving a unit behind when its first
\* thread cannot be created.
HandleStart ==
    /\ cmd = "start"
    /\ \/ answer' = "service_started" /\ StartUnits
       \/ answer' = "error" /\ units = "stopped" /\ UNCHANGED service

\* "running" stands for svc->initialized, not for the units.
HandleGetStatus ==
    /\ cmd = "get_status"
    /\ answer' = IF initialized THEN "running" ELSE "stopped"
    /\ UNCHANGED service

HandleOther ==
    /\ cmd \in {"get_stats", "unknown"}
    /\ answer' = IF cmd = "get_stats" THEN "stats" ELSE "error"
    /\ UNCHANGED service

SrvAct ==
    /\ SrvGoto("act", "reply")
    /\ HandleGetStatus \/ HandleStop \/ HandleStart \/ HandleOther
    /\ UNCHANGED <<mainVars, srvRunning, sock, backlog, client, current, cmd>>

\* Mutant: the connection is not closed after a failed read.
SrvCloseForgotten ==
    /\ SrvGoto("close", "check")
    /\ current' = NoClient
    /\ cmd' = "none"
    /\ answer' = "none"
    /\ UNCHANGED <<mainVars, srvRunning, sock, backlog, client, service>>

\* send_response: to write to a client that has left raises SIGPIPE, which
\* nobody ignores or handles ...
SrvReply ==
    \/ /\ SrvGoto("reply", "close")
       /\ client[current] # "left"
       /\ UNCHANGED <<mainVars, srvRunning, sock, backlog, client, request, service>>
    \/ srv = "reply" /\ client[current] = "left" /\ ProcessEnds

\* ... and the close, after which the client has nothing to wait for.
SrvClose ==
    /\ SrvGoto("close", "check")
    /\ client' = [client EXCEPT ![current] = "away"]
    /\ current' = NoClient
    /\ cmd' = "none"
    /\ answer' = "none"
    /\ UNCHANGED <<mainVars, srvRunning, sock, backlog, service>>

SrvStep == SrvCheck \/ SrvAccept \/ SrvRead \/ SrvAct \/ SrvReply \/ SrvClose

-----------------------------------------------------------------------------
(* The clients (test_clients/vf_client/src/main.c)                         *)

Connect(c) ==
    /\ client[c] = "away"
    /\ sock = "listening"
    /\ Len(backlog) <= Backlog
    /\ client' = [client EXCEPT ![c] = "connected"]
    /\ backlog' = Append(backlog, c)
    /\ UNCHANGED <<mainVars, srvRunning, sock, srv, request, service>>

\* The client writes its request, or ends without having written one.
Write(c) ==
    /\ client[c] = "connected"
    /\ \E s \in {"sent", "closed"} : client' = [client EXCEPT ![c] = s]
    /\ UNCHANGED <<mainVars, srvRunning, sock, srv, backlog, request, service>>

\* The client is interrupted before it has its answer.
Leave(c) ==
    /\ client[c] = "sent"
    /\ client' = [client EXCEPT ![c] = "left"]
    /\ UNCHANGED <<mainVars, srvRunning, sock, srv, backlog, request, service>>

Next == \/ MainStep
        \/ Signal
        \/ SrvStep
        \/ OrphansEnd
        \/ \E c \in Clients : Connect(c) \/ Write(c) \/ Leave(c)

\* The two threads run, and a client that has connected writes or ends.
\* Nobody is obliged to connect, and the signal may never come.
Fairness == /\ WF_vars(MainStep)
            /\ WF_vars(SrvStep)
            /\ WF_vars(OrphansEnd)
            /\ \A c \in Clients : WF_vars(Write(c))

Spec == Init /\ [][Next]_vars /\ Fairness

-----------------------------------------------------------------------------

TypeOK ==
    /\ main \in {"init", "start", "ctl_init", "ctl_start", "poll", "ctl_stop",
                 "ctl_shut", "join", "ctl_deinit", "svc_stop", "svc_deinit", "done",
                 "killed"}
    /\ signalled \in BOOLEAN
    /\ srvRunning \in BOOLEAN
    /\ sock \in {"none", "listening", "shut", "closed"}
    /\ srv \in {"none", "check", "accept", "read", "act", "reply", "close", "done"}
    /\ backlog \in Seq(Clients)
    /\ Len(backlog) <= Backlog + 1
    /\ current \in Clients \cup {NoClient}
    /\ client \in [Clients -> {"away", "connected", "sent", "left", "closed"}]
    /\ cmd \in Commands \cup {"none"}
    /\ answer \in {"none", "running", "stopped", "stats", "error",
                   "service_started", "service_stopped"}
    /\ initialized \in BOOLEAN
    /\ units \in {"running", "stopped"}
    /\ orphans \in 0 .. MaxOrphans

\* While main takes the server and the service down, the server's thread is
\* past its last request: the socket is not closed under an accept, and no
\* handler starts or stops a service that main is stopping or has freed.
TeardownIsAlone ==
    main \in {"ctl_deinit", "svc_stop", "svc_deinit", "done"} => srv \in {"none", "done"}

\* What a client is told of its start or stop still holds when it is told,
\* although main may be shutting everything down at the same time.
AnswersHold ==
    srv = "reply" => /\ answer = "service_stopped" => units = "stopped"
                     /\ answer = "service_started" => units = "running"

\* When the scenario returns nothing of it is left: no running unit, no open
\* socket, no client still connected to it.
CleanExit ==
    main = "done" => /\ units = "stopped"
                     /\ ~initialized
                     /\ sock \in {"none", "closed"}
                     /\ \A c \in Clients : client[c] = "away"

\* A signal ends the scenario, whatever the server's thread is blocked in, and
\* also when that thread was never created (vf_control_server_stop).
ShutdownCompletes == signalled ~> main \in {"done", "killed"}

\* main polls beside a server that has no thread.
Unserved == main = "poll" /\ srv = "none" /\ ~signalled

\* Every connection is closed in the end, those that were still waiting to be
\* accepted when the server was stopped included.  The one exception is a
\* server without a thread, whose clients wait until a signal comes.
ClientsReleased ==
    \A c \in Clients : client[c] # "away" ~> client[c] = "away" \/ Unserved

\* README: each unit runs on a dedicated thread -- one, not several that share
\* the unit's frame pointer.
OneThreadPerUnit == orphans = 0
=============================================================================
