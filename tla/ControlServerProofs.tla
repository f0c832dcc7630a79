------------------------- MODULE ControlServerProofs -------------------------
(***************************************************************************)
(* The safety properties of ControlServer, for every set of clients.       *)
(*                                                                         *)
(* What keeps main and the server's thread apart is not a lock but where   *)
(* they are: Phases says which places of the one go with which places of   *)
(* the other.  From it follow that the units are changed by one thread at  *)
(* a time (Service) and that a client that is not away is waiting in the   *)
(* backlog or being served (Connections), until nobody is.                 *)
(***************************************************************************)
EXTENDS ControlServer, SequenceTheorems, TLAPS

\* Where main is before the server's thread exists, while it may run, and
\* after it has been joined.
Before == {"init", "start", "ctl_init", "ctl_start"}
During == {"poll", "ctl_stop", "ctl_shut", "join"}
After == {"ctl_deinit", "svc_stop", "svc_deinit", "done", "killed"}

Serving == {"read", "act", "reply", "close"}

Phases ==
    /\ main \in Before => srv = "none" /\ ~srvRunning
    /\ main \in After => srv \in {"none", "done"}
    /\ main \in {"init", "start", "ctl_init"} => sock = "none"
    /\ main \in {"ctl_start", "poll", "ctl_stop", "ctl_shut"} => sock = "listening"
    /\ main \in {"join", "ctl_deinit"} => sock = "shut"
    /\ main \in {"svc_stop", "svc_deinit", "done", "killed"} => sock \in {"none", "closed"}

Service ==
    /\ main \in {"init", "start"} => units = "stopped" /\ orphans = 0
    /\ main \in {"svc_deinit", "done", "killed"} => units = "stopped"
    /\ main \in {"init", "done", "killed"} => ~initialized
    /\ srv = "act" /\ cmd = "start" /\ units = "running" => orphans < MaxOrphans
    /\ AnswersHold

Waiting(c) == \E i \in DOMAIN backlog : backlog[i] = c

Connections ==
    /\ current # NoClient <=> srv \in Serving
    /\ sock \in {"none", "closed"} => backlog = <<>>
    /\ \A c \in Clients : client[c] # "away" => Waiting(c) \/ current = c

IndInv == TypeOK /\ Phases /\ Service /\ Connections

-----------------------------------------------------------------------------

\* Connecting: the newcomer is the last of those that wait.
LEMMA AppendWaiting ==
  ASSUME NEW s \in Seq(Clients), NEW c \in Clients
  PROVE  /\ Append(s, c) \in Seq(Clients)
         /\ Len(Append(s, c)) = Len(s) + 1
         /\ \E i \in DOMAIN Append(s, c) : Append(s, c)[i] = c
         /\ \A d : (\E i \in DOMAIN s : s[i] = d)
                       => \E i \in DOMAIN Append(s, c) : Append(s, c)[i] = d
  OBVIOUS

\* Accepting: whoever waited is the first, or still waits.
LEMMA TailWaiting ==
  ASSUME NEW s \in Seq(Clients), s # <<>>
  PROVE  /\ Tail(s) \in Seq(Clients)
         /\ Head(s) \in Clients
         /\ Len(Tail(s)) = Len(s) - 1
         /\ \A d : (\E i \in DOMAIN s : s[i] = d)
                       => d = Head(s) \/ \E i \in DOMAIN Tail(s) : Tail(s)[i] = d
<1>1. /\ Tail(s) \in Seq(Clients)
      /\ Head(s) \in Clients
      /\ Len(Tail(s)) = Len(s) - 1
      /\ \A i \in 1 .. Len(Tail(s)) : Tail(s)[i] = s[i + 1]
  BY HeadTailProperties
<1>2. ASSUME NEW i \in DOMAIN s, i # 1
      PROVE  i - 1 \in DOMAIN Tail(s) /\ Tail(s)[i - 1] = s[i]
  BY <1>1, <1>2
<1>3. s[1] = Head(s)
  OBVIOUS
<1> QED
  BY <1>1, <1>2, <1>3, LenProperties

\* Nothing of the scenario is left when the process has been ended.
LEMMA EndInv == ProcessEnds /\ signalled \in BOOLEAN => IndInv'
<1> SUFFICES ASSUME ProcessEnds, signalled \in BOOLEAN
             PROVE  IndInv'
  OBVIOUS
<1>1. TypeOK'
  <2>1. backlog' \in Seq(Clients) /\ Len(backlog') <= Backlog + 1
    BY EmptySeq DEF ProcessEnds, Backlog
  <2>2. client' \in [Clients -> {"away", "connected", "sent", "left", "closed"}]
    BY DEF ProcessEnds
  <2>3. orphans' \in 0 .. MaxOrphans
    BY ControlAssumption DEF ProcessEnds
  <2> QED
    BY <2>1, <2>2, <2>3 DEF ProcessEnds, TypeOK
<1>2. Phases' /\ Service'
  BY DEF ProcessEnds, Phases, Service, AnswersHold, Before, During, After
<1>3. Connections'
  BY DEF ProcessEnds, Connections, Serving
<1> QED
  BY <1>1, <1>2, <1>3 DEF IndInv

\* The parts of the state that a step of main leaves alone.
LEMMA SameClients ==
  /\ Connections
  /\ UNCHANGED <<current, srv, backlog, client>>
  /\ sock' = sock \/ sock' \in {"listening", "shut"}
  => Connections'
  BY DEF Connections, Waiting

\* The steps of main.
LEMMA MainInv == IndInv /\ MainStep => IndInv'
<1> SUFFICES ASSUME IndInv, MainStep
             PROVE  IndInv'
  OBVIOUS
<1> USE DEF IndInv, MainGoto, service, request
<1>1. CASE ServiceInit
  <2>1. Phases'
    BY <1>1 DEF ServiceInit, Phases, Before, During, After
  <2>2. Service'
    BY <1>1 DEF ServiceInit, Service, AnswersHold
  <2>3. TypeOK'
    <3>1. initialized' \in BOOLEAN
      BY <1>1 DEF ServiceInit, TypeOK
    <3>2. main' \in {"start", "done"} /\ UNCHANGED <<signalled, srvRunning, sock, srv,
                      backlog, client, current, cmd, answer, units, orphans>>
      BY <1>1 DEF ServiceInit
    <3> QED
      BY <3>1, <3>2 DEF TypeOK
  <2>4. Connections'
    BY <1>1, SameClients DEF ServiceInit
  <2> QED
    BY <2>1, <2>2, <2>3, <2>4
<1>2. CASE ServiceStart
  <2>1. Phases'
    BY <1>2 DEF ServiceStart, Phases, Before, During, After
  <2>2. orphans' = 0
    BY <1>2 DEF ServiceStart, StartUnits, Service
  <2>3. Service'
    BY <1>2, <2>2 DEF ServiceStart, StartUnits, Service, AnswersHold, Phases, Before
  <2>4. TypeOK'
    BY <1>2, <2>2, ControlAssumption DEF ServiceStart, StartUnits, TypeOK
  <2>5. Connections'
    BY <1>2, SameClients DEF ServiceStart
  <2> QED
    BY <2>1, <2>3, <2>4, <2>5
<1>3. CASE ControlInit
  <2>1. Phases'
    BY <1>3 DEF ControlInit, Phases, Before, During, After
  <2>2. Service'
    BY <1>3 DEF ControlInit, Service, AnswersHold
  <2>3. TypeOK'
    BY <1>3 DEF ControlInit, TypeOK
  <2>4. Connections'
    BY <1>3, SameClients DEF ControlInit
  <2> QED
    BY <2>1, <2>2, <2>3, <2>4
<1>4. CASE ControlStart
  <2>1. Phases'
    BY <1>4 DEF ControlStart, Phases, Before, During, After
  <2>2. Service'
    BY <1>4 DEF ControlStart, Service, AnswersHold
  <2>3. Connections'
    BY <1>4 DEF ControlStart, Connections, Waiting, Phases, Before, Serving
  <2>4. TypeOK'
    BY <1>4 DEF ControlStart, TypeOK
  <2> QED
    BY <2>1, <2>2, <2>3, <2>4
<1>8. CASE ControlStopJoin /\ ProcessEnds
  BY <1>8, EndInv DEF TypeOK
<1>5. CASE PollEnds \/ ControlStopFlag \/ ControlStopShutdown
           \/ (ControlStopJoin /\ ~ProcessEnds)
  <2>1. Phases'
    BY <1>5 DEF PollEnds, ControlStopFlag, ControlStopShutdown, ControlStopJoin,
                Phases, Before, During, After
  <2>2. Service'
    BY <1>5 DEF PollEnds, ControlStopFlag, ControlStopShutdown, ControlStopJoin,
                Service, AnswersHold
  <2>3. Connections'
    BY <1>5, SameClients DEF PollEnds, ControlStopFlag, ControlStopShutdown, ControlStopJoin
  <2>4. TypeOK'
    BY <1>5 DEF PollEnds, ControlStopFlag, ControlStopShutdown, ControlStopJoin, TypeOK
  <2> QED
    BY <2>1, <2>2, <2>3, <2>4
<1>6. CASE ControlDeinit
  <2>1. Phases'
    BY <1>6 DEF ControlDeinit, Phases, Before, During, After
  <2>2. Service'
    BY <1>6 DEF ControlDeinit, Service, AnswersHold
  <2>3. current = NoClient /\ srv \in {"none", "done"}
    BY <1>6 DEF ControlDeinit, Phases, After, Connections, Serving
  <2>4. \A c \in Clients : client'[c] = "away"
    BY <1>6, <2>3, ControlAssumption DEF ControlDeinit, Connections, Waiting
  <2>5. Connections'
    BY <1>6, <2>3, <2>4 DEF ControlDeinit, Connections, Serving
  <2>6. TypeOK'
    BY <1>6 DEF ControlDeinit, TypeOK, Backlog
  <2> QED
    BY <2>1, <2>2, <2>5, <2>6
<1>7. CASE ServiceStop \/ ServiceDeinit
  <2>1. Phases'
    BY <1>7 DEF ServiceStop, ServiceDeinit, Phases, Before, During, After
  <2>2. Service'
    BY <1>7 DEF ServiceStop, ServiceDeinit, StopUnits, Service, AnswersHold, Phases, After
  <2>3. TypeOK'
    BY <1>7 DEF ServiceStop, ServiceDeinit, StopUnits, TypeOK
  <2>4. Connections'
    BY <1>7, SameClients DEF ServiceStop, ServiceDeinit
  <2> QED
    BY <2>1, <2>2, <2>3, <2>4
<1> QED
  BY <1>1, <1>2, <1>3, <1>4, <1>5, <1>6, <1>7, <1>8 DEF MainStep

\* The steps of the server's thread.
LEMMA SrvInv == IndInv /\ SrvStep => IndInv'
<1> SUFFICES ASSUME IndInv, SrvStep
             PROVE  IndInv'
  OBVIOUS
<1> USE DEF IndInv, SrvGoto, mainVars, service, request
<1>1. CASE SrvCheck
  <2>1. Phases'
    BY <1>1 DEF SrvCheck, Phases, Before, During, After
  <2>2. Service'
    BY <1>1 DEF SrvCheck, Service, AnswersHold
  <2>3. Connections'
    BY <1>1 DEF SrvCheck, Connections, Waiting, Serving
  <2>4. TypeOK'
    BY <1>1 DEF SrvCheck, TypeOK
  <2> QED
    BY <2>1, <2>2, <2>3, <2>4
<1>2. CASE SrvAccept
  <2>1. Phases'
    BY <1>2 DEF SrvAccept, Phases, Before, During, After
  <2>2. Service'
    BY <1>2 DEF SrvAccept, Service, AnswersHold
  <2>3. CASE /\ backlog # <<>>
             /\ SrvGoto("accept", "read")
             /\ current' = Head(backlog)
             /\ backlog' = Tail(backlog)
    <3>1. /\ backlog' \in Seq(Clients) /\ current' \in Clients
          /\ Len(backlog') = Len(backlog) - 1 /\ Len(backlog) \in Nat
          /\ \A c : Waiting(c) => c = current' \/ Waiting(c)'
      BY <2>3, TailWaiting, LenProperties DEF Waiting, TypeOK
    <3>2. TypeOK'
      BY <1>2, <2>3, <3>1 DEF SrvAccept, TypeOK, Backlog
    <3>3. current = NoClient /\ current' # NoClient
      BY <2>3, <3>1, ControlAssumption DEF Connections, Serving
    <3>4. \A c \in Clients : client'[c] # "away" => Waiting(c)' \/ current' = c
      BY <1>2, <3>1, <3>3, ControlAssumption DEF SrvAccept, Connections
    <3>5. Connections'
      BY <1>2, <2>3, <3>3, <3>4 DEF SrvAccept, Connections, Serving
    <3> QED
      BY <2>1, <2>2, <3>2, <3>5
  <2>4. CASE SrvGoto("accept", "done") /\ UNCHANGED <<current, backlog>>
    <3>1. Connections'
      BY <1>2, <2>4 DEF SrvAccept, Connections, Waiting, Serving
    <3>2. TypeOK'
      BY <1>2, <2>4 DEF SrvAccept, TypeOK
    <3> QED
      BY <2>1, <2>2, <3>1, <3>2
  <2> QED
    BY <1>2, <2>3, <2>4 DEF SrvAccept
<1>3. CASE SrvRead
  <2>1. Phases'
    BY <1>3 DEF SrvRead, Phases, Before, During, After
  <2>2. Service'
    BY <1>3 DEF SrvRead, Service, AnswersHold
  <2>3. Connections'
    BY <1>3 DEF SrvRead, Connections, Waiting, Serving
  <2>4. TypeOK'
    BY <1>3 DEF SrvRead, TypeOK
  <2> QED
    BY <2>1, <2>2, <2>3, <2>4
<1>4. CASE SrvAct
  <2>1. Phases'
    BY <1>4 DEF SrvAct, Phases, Before, During, After
  <2>2. Connections'
    BY <1>4 DEF SrvAct, Connections, Waiting, Serving
  <2>3. /\ main \in During
        /\ srv = "act" /\ srv' = "reply"
        /\ UNCHANGED <<main, signalled, srvRunning, sock, backlog, client, current,
                       cmd, initialized>>
    BY <1>4 DEF SrvAct, HandleGetStatus, HandleStop, HandleStart, HandleOther,
                StartUnits, StopUnits, Phases, TypeOK, Before, During, After
  <2>4. /\ units' \in {"running", "stopped"}
        /\ orphans' \in 0 .. MaxOrphans
        /\ answer' \in {"running", "stopped", "stats", "error",
                        "service_started", "service_stopped"}
        /\ answer' = "service_stopped" => units' = "stopped"
        /\ answer' = "service_started" => units' = "running"
    <3>1. CASE HandleGetStatus \/ HandleOther
      BY <3>1 DEF HandleGetStatus, HandleOther, TypeOK
    <3>2. CASE HandleStop
      BY <3>2 DEF HandleStop, StopUnits, TypeOK
    <3>3. CASE HandleStart
      BY <2>3, <3>3, ControlAssumption DEF HandleStart, StartUnits, TypeOK, Service
    <3> QED
      BY <1>4, <3>1, <3>2, <3>3 DEF SrvAct
  <2>5. Service'
    BY <2>3, <2>4 DEF Service, AnswersHold, During
  <2>6. TypeOK'
    BY <2>3, <2>4 DEF TypeOK
  <2> QED
    BY <2>1, <2>2, <2>5, <2>6
<1>7. CASE SrvReply /\ ProcessEnds
  BY <1>7, EndInv DEF TypeOK
<1>5. CASE SrvReply /\ ~ProcessEnds
  <2>1. Phases'
    BY <1>5 DEF SrvReply, Phases, Before, During, After
  <2>2. Service'
    BY <1>5 DEF SrvReply, Service, AnswersHold
  <2>3. Connections'
    BY <1>5 DEF SrvReply, Connections, Waiting, Serving
  <2>4. TypeOK'
    BY <1>5 DEF SrvReply, TypeOK
  <2> QED
    BY <2>1, <2>2, <2>3, <2>4
<1>6. CASE SrvClose
  <2>1. Phases'
    BY <1>6 DEF SrvClose, Phases, Before, During, After
  <2>2. Service'
    BY <1>6 DEF SrvClose, Service, AnswersHold
  <2>3. /\ client' \in [Clients -> {"away", "connected", "sent", "left", "closed"}]
        /\ \A c \in Clients : client'[c] # "away" => Waiting(c)
    BY <1>6 DEF SrvClose, TypeOK, Connections
  <2>4. Connections'
    BY <1>6, <2>3 DEF SrvClose, Connections, Waiting, Serving
  <2>5. TypeOK'
    BY <1>6, <2>3 DEF SrvClose, TypeOK
  <2> QED
    BY <2>1, <2>2, <2>4, <2>5
<1> QED
  BY <1>1, <1>2, <1>3, <1>4, <1>5, <1>6, <1>7 DEF SrvStep

\* The steps of the clients, the signal, and the threads without handles.
LEMMA OtherInv ==
  /\ IndInv
  /\ Signal \/ OrphansEnd \/ \E c \in Clients : Connect(c) \/ Write(c) \/ Leave(c)
  => IndInv'
<1> SUFFICES ASSUME IndInv, Signal \/ OrphansEnd
                              \/ \E c \in Clients : Connect(c) \/ Write(c) \/ Leave(c)
             PROVE  IndInv'
  OBVIOUS
<1> USE DEF IndInv, mainVars, service, request
<1>1. CASE Signal
  <2>1. TypeOK' /\ Phases' /\ Service'
    BY <1>1 DEF Signal, TypeOK, Phases, Service, AnswersHold
  <2>2. Connections'
    BY <1>1, SameClients DEF Signal
  <2> QED
    BY <2>1, <2>2
<1>2. CASE OrphansEnd
  <2>1. orphans' \in 0 .. MaxOrphans /\ orphans' < orphans /\ orphans # 0
    BY <1>2, ControlAssumption DEF OrphansEnd, TypeOK
  <2>2. TypeOK' /\ Phases'
    BY <1>2, <2>1 DEF OrphansEnd, TypeOK, Phases
  <2>3. Service'
    BY <1>2, <2>1 DEF OrphansEnd, Service, AnswersHold
  <2>4. Connections'
    BY <1>2, SameClients DEF OrphansEnd
  <2> QED
    BY <2>2, <2>3, <2>4
<1>3. ASSUME NEW c \in Clients, Connect(c)
      PROVE  IndInv'
  <2>1. Phases' /\ Service'
    BY <1>3 DEF Connect, Phases, Service, AnswersHold
  <2>2. /\ backlog' \in Seq(Clients) /\ Len(backlog') <= Backlog + 1
        /\ Waiting(c)' /\ \A d : Waiting(d) => Waiting(d)'
    <3>1. backlog \in Seq(Clients) /\ Len(backlog) \in Nat
      BY LenProperties DEF TypeOK
    <3>2. backlog' = Append(backlog, c) /\ Len(backlog) <= Backlog
      BY <1>3 DEF Connect
    <3>3. backlog' \in Seq(Clients) /\ Len(backlog') = Len(backlog) + 1
      BY <3>1, <3>2, AppendWaiting
    <3>4. Waiting(c)' /\ \A d : Waiting(d) => Waiting(d)'
      BY <3>1, <3>2, AppendWaiting DEF Waiting
    <3> QED
      BY <3>1, <3>2, <3>3, <3>4 DEF Backlog
  <2>3. /\ client' \in [Clients -> {"away", "connected", "sent", "left", "closed"}]
        /\ \A d \in Clients : client'[d] # "away" => client[d] # "away" \/ d = c
    BY <1>3 DEF Connect, TypeOK
  <2>4. Connections'
    BY <1>3, <2>2, <2>3 DEF Connect, Connections
  <2>5. TypeOK'
    BY <1>3, <2>2, <2>3 DEF Connect, TypeOK
  <2> QED
    BY <2>1, <2>4, <2>5
<1>4. ASSUME NEW c \in Clients, Write(c) \/ Leave(c)
      PROVE  IndInv'
  <2>1. Phases' /\ Service'
    BY <1>4 DEF Write, Leave, Phases, Service, AnswersHold
  <2>2. /\ client' \in [Clients -> {"away", "connected", "sent", "left", "closed"}]
        /\ \A d \in Clients : client'[d] # "away" => client[d] # "away"
    BY <1>4 DEF Write, Leave, TypeOK
  <2>3. Connections'
    BY <1>4, <2>2 DEF Write, Leave, Connections, Waiting
  <2>4. TypeOK'
    BY <1>4, <2>2 DEF Write, Leave, TypeOK
  <2> QED
    BY <2>1, <2>3, <2>4
<1> QED
  BY <1>1, <1>2, <1>3, <1>4

\* The scenario before its first step.
LEMMA InitInv == Init => IndInv
<1> SUFFICES ASSUME Init
             PROVE  IndInv
  OBVIOUS
<1>1. TypeOK
  <2>1. backlog \in Seq(Clients) /\ Len(backlog) <= Backlog + 1
    BY EmptySeq DEF Init, Backlog
  <2>2. client \in [Clients -> {"away", "connected", "sent", "left", "closed"}]
    BY DEF Init
  <2>3. orphans \in 0 .. MaxOrphans
    BY ControlAssumption DEF Init
  <2> QED
    BY <2>1, <2>2, <2>3 DEF Init, TypeOK
<1>2. Phases /\ Service
  BY DEF Init, Phases, Service, AnswersHold, Before, During, After
<1>3. Connections
  BY DEF Init, Connections, Serving
<1> QED
  BY <1>1, <1>2, <1>3 DEF IndInv

\* IndInv holds in every reachable state.
LEMMA ControlInvariant == Spec => []IndInv
<1>1. IndInv /\ UNCHANGED vars => IndInv'
  <2> SUFFICES ASSUME IndInv, UNCHANGED vars
               PROVE  IndInv'
    OBVIOUS
  <2>1. TypeOK' /\ Phases' /\ Service'
    BY DEF vars, IndInv, TypeOK, Phases, Service, AnswersHold
  <2>2. Connections'
    BY SameClients DEF vars, IndInv
  <2> QED
    BY <2>1, <2>2 DEF IndInv
<1>2. IndInv /\ [Next]_vars => IndInv'
  BY <1>1, MainInv, SrvInv, OtherInv DEF Next
<1> QED
  BY <1>2, InitInv, PTL DEF Spec

\* The variables stay in their types: in particular no more connections wait
\* than listen allows.
THEOREM ControlTypeOK == Spec => []TypeOK
<1>1. IndInv => TypeOK
  BY DEF IndInv
<1> QED
  BY <1>1, ControlInvariant, PTL

\* main is alone when it takes the server and the service down.
THEOREM ControlTeardownIsAlone == Spec => []TeardownIsAlone
<1>1. IndInv => TeardownIsAlone
  BY DEF IndInv, Phases, After, TeardownIsAlone
<1> QED
  BY <1>1, ControlInvariant, PTL

\* What a client is told of its start or stop holds when it is told.
THEOREM ControlAnswersHold == Spec => []AnswersHold
<1>1. IndInv => AnswersHold
  BY DEF IndInv, Service
<1> QED
  BY <1>1, ControlInvariant, PTL

\* When the scenario returns, nothing of it is left and no client waits.
THEOREM ControlCleanExit == Spec => []CleanExit
<1>1. IndInv => CleanExit
  <2> SUFFICES ASSUME IndInv, main = "done"
               PROVE  /\ units = "stopped" /\ ~initialized
                      /\ sock \in {"none", "closed"}
                      /\ \A c \in Clients : client[c] = "away"
    BY DEF CleanExit
  <2>1. units = "stopped" /\ ~initialized
    BY DEF IndInv, Service
  <2>2. sock \in {"none", "closed"} /\ srv \in {"none", "done"}
    BY DEF IndInv, Phases, After
  <2>3. backlog = <<>> /\ current = NoClient
    BY <2>2 DEF IndInv, Connections, Serving
  <2>4. \A c \in Clients : ~Waiting(c) /\ current # c
    BY <2>3, ControlAssumption DEF Waiting
  <2> QED
    BY <2>1, <2>2, <2>4 DEF IndInv, Connections
<1> QED
  BY <1>1, ControlInvariant, PTL
=============================================================================
