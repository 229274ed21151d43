---------------------------- MODULE FtFbg_proofs ----------------------------
(***************************************************************************)
(* Proofs about FtFbg, for any number of descriptors, whatever the process *)
(* has open besides the terminal, and any size of the log.                 *)
(*                                                                         *)
(* The state machine of InterrogatorFsm runs here beside threads that open *)
(* and close descriptors themselves, so that its invariants do not hold:   *)
(* a log file can be closed through a number that is a socket by then.     *)
(* What is left of them, OwnSockets, holds until a log file is closed for  *)
(* the first time: connectUDP works on the two sockets it has just opened. *)
(* So it cannot close the file of the first save.                          *)
(*                                                                         *)
(* And the terminal: TermInv says how far the thread has come while it     *)
(* still is open.                                                          *)
(***************************************************************************)
EXTENDS FtFbg, TLAPS

\* The log is full only while "rt" saves it.
LogHasRoom == at["rt"] \in {"idle", "DoTask"} => logBuffer < MAX_SAMPLES

\* "rt" saves before it is in the handler, and not once a signal has come.
SaveOrder ==
  /\ at["rt"] \in {"idle", "DoTask"} => ~inHandler["rt"]
  /\ at["sig"] # "idle" => at["rt"] \notin {"write", "close", "saved"}

\* A thread that writes the log has the number of a descriptor.
HasLogFd == \A s \in Savers : at[s] \in {"write", "close"} => logFd[s] \in Fsm!Fds

\* The inductive invariant of the types.
TInv == TypeOK /\ LogHasRoom /\ SaveOrder /\ HasLogFd

\* No log file has been closed yet.
NoneClosed ==
  /\ \A s \in Savers : at[s] # "saved"
  /\ inHandler["rt"] => at["sig"] # "idle"

\* The members name the sockets that connectUDP under way has opened.
OwnSockets ==
  /\ call \in {"tcpSocket", "tcpConnect", "udpBind"} => Fsm!Kind(udpSockfd) = "udp"
  /\ call = "tcpConnect" => Fsm!Kind(tcpSockfd) = "tcp"
  /\ call = "udpBind" => Fsm!Kind(tcpSockfd) \in Fsm!Connected

\* Only DISCONNECT_STATE calls disconnectUDP.
DisconnectInState == call \in Fsm!DisconnectSteps => currentState = "DISCONNECT_STATE"

\* The inductive invariant.
SInv == DisconnectInState /\ (NoneClosed => OwnSockets)

LEMMA InitTInv == Init => TInv
<1> SUFFICES ASSUME Init PROVE TInv
  OBVIOUS
<1> USE LoggerAssumption DEF Init
<1>1. Fsm!TypeOK
  BY DEF Fsm!Init, Fsm!TypeOK, Fsm!InterrogatorInit, Fsm!InterrogatorTypeOK, Fsm!FdKinds,
         Fsm!SocketKinds, Fsm!Connected, Fsm!States, Fsm!Calls
<1>2. {isReadyToLog, moved, raw} \subseteq BOOLEAN
  BY DEF RawModeEnabled
<1>3. inHandler \in [Savers -> BOOLEAN]
  OBVIOUS
<1>4. logBuffer \in 0..MAX_SAMPLES /\ file \in 0..MAX_SAMPLES /\ upTo \in [Savers -> 0..MAX_SAMPLES]
  OBVIOUS
<1>5. TypeOK
  BY <1>1, <1>2, <1>3, <1>4 DEF TypeOK
<1>6. LogHasRoom /\ HasLogFd
  BY DEF LogHasRoom, HasLogFd, Savers
<1>7. SaveOrder
  BY DEF SaveOrder, Savers
<1> QED
  BY <1>5, <1>6, <1>7 DEF TInv

\* The state machine keeps the types of its variables.
LEMMA FsmTypes == Fsm!TypeOK /\ Fsm!TaskStep => Fsm!TypeOK'
<1> SUFFICES ASSUME Fsm!TypeOK, Fsm!TaskStep PROVE Fsm!TypeOK'
  OBVIOUS
<1> USE LoggerAssumption
    DEF Fsm!TypeOK, Fsm!InterrogatorTypeOK, Fsm!Fds, Fsm!FdKinds, Fsm!SocketKinds, Fsm!Connected,
        Fsm!Calls, Fsm!ConnectSteps, Fsm!DisconnectSteps, Fsm!States
<1>1. CASE Fsm!Control
  BY <1>1
     DEF Fsm!Control, Fsm!RunInit, Fsm!Begin, Fsm!ConnectDone, Fsm!EnableDone, Fsm!ReadFailed,
         Fsm!ReadDone, Fsm!DisconnectDone, Fsm!Enter
<1>2. ASSUME Fsm!MethodStep, UNCHANGED currentState PROVE Fsm!TypeOK'
  <2>1. CASE Fsm!UdpSocketOk \/ Fsm!UdpSocketFails \/ Fsm!TcpSocketOk
    BY <1>2, <2>1 DEF Fsm!UdpSocketOk, Fsm!UdpSocketFails, Fsm!TcpSocketOk
  <2>2. CASE Fsm!TcpSocketFails \/ Fsm!TcpConnectFails \/ Fsm!UdpBindFails
    BY <1>2, <2>2
       DEF Fsm!TcpSocketFails, Fsm!TcpConnectFails, Fsm!UdpBindFails, Fsm!CloseBothAndFail,
           Fsm!Closing
  <2>3. CASE Fsm!TcpConnectOk \/ Fsm!UdpBindOk \/ Fsm!SetTimeoutOk \/ Fsm!SetTimeoutFails
             \/ Fsm!RecvOk \/ Fsm!RecvFails
    BY <1>2, <2>3
       DEF Fsm!TcpConnectOk, Fsm!UdpBindOk, Fsm!SetTimeoutOk, Fsm!SetTimeoutFails, Fsm!RecvOk,
           Fsm!RecvFails, Fsm!Kind
  <2>4. CASE Fsm!EnablePeakDatagrams \/ Fsm!SendDisable
    <3>1. \A b \in {"on", Fsm!Ebbed} : Fsm!WriteCommand(b) =>
            streaming' \in {"off", "on", "rest"} /\ process' \in {"running", "killed", "exited"}
      BY DEF Fsm!WriteCommand, Fsm!Ebbed
    <3>2. streaming' \in {"off", "on", "rest"} /\ process' \in {"running", "killed", "exited"}
      BY <2>4, <3>1 DEF Fsm!EnablePeakDatagrams, Fsm!SendDisable
    <3>3. /\ UNCHANGED <<fdTable, tcpSockfd, udpSockfd>>
          /\ udpState' \in {udpState, 4, 5} /\ call' \in {"ok", "closeTcp"}
      BY <2>4 DEF Fsm!EnablePeakDatagrams, Fsm!SendDisable
    <3> QED
      BY <1>2, <3>2, <3>3
  <2>5. CASE Fsm!CloseTcp \/ Fsm!CloseUdp
    BY <1>2, <2>5 DEF Fsm!CloseTcp, Fsm!CloseUdp, Fsm!Closing
  <2> QED
    BY <1>2, <2>1, <2>2, <2>3, <2>4, <2>5 DEF Fsm!MethodStep
<1> QED
  BY <1>1, <1>2 DEF Fsm!TaskStep

\* It closes a log file in disconnectUDP only, as long as connectUDP has its own sockets.
LEMMA FsmSockets ==
  ASSUME Fsm!TypeOK, Fsm!TaskStep, DisconnectInState
  PROVE  /\ DisconnectInState'
         /\ OwnSockets => OwnSockets'
         /\ OwnSockets /\ currentState # "DISCONNECT_STATE" =>
              \A f \in Fsm!Fds : fdTable[f] = "log" => fdTable'[f] = "log"
<1> DEFINE LogStays == \A f \in Fsm!Fds : fdTable[f] = "log" => fdTable'[f] = "log"
<1> USE DEF DisconnectInState, Fsm!DisconnectSteps
<1>0. /\ fdTable \in [Fsm!Fds -> Fsm!FdKinds]
      /\ tcpSockfd \in Int /\ udpSockfd \in Int
  BY LoggerAssumption DEF Fsm!TypeOK, Fsm!InterrogatorTypeOK, Fsm!Fds
<1>1. CASE Fsm!Control
  <2>1. UNCHANGED <<fdTable, tcpSockfd, udpSockfd>>
    BY <1>1
       DEF Fsm!Control, Fsm!RunInit, Fsm!Begin, Fsm!ConnectDone, Fsm!EnableDone, Fsm!ReadFailed,
           Fsm!ReadDone, Fsm!DisconnectDone, Fsm!Enter
  <2>2. call' \in {"idle", "udpSocket", "enable", "recv", "sendDisable"} /\ DisconnectInState'
    BY <1>1
       DEF Fsm!Control, Fsm!RunInit, Fsm!Begin, Fsm!ConnectDone, Fsm!EnableDone, Fsm!ReadFailed,
           Fsm!ReadDone, Fsm!DisconnectDone, Fsm!Enter
  <2> QED
    BY <2>1, <2>2 DEF OwnSockets
<1>2. ASSUME Fsm!MethodStep, UNCHANGED currentState
      PROVE  /\ DisconnectInState'
             /\ OwnSockets => OwnSockets'
             /\ OwnSockets /\ currentState # "DISCONNECT_STATE" => LogStays
  <2> USE <1>2 DEF OwnSockets, Fsm!Kind, Fsm!Connected
  <2>1. CASE Fsm!UdpSocketOk \/ Fsm!UdpSocketFails \/ Fsm!TcpSocketOk
    BY <1>0, <2>1 DEF Fsm!UdpSocketOk, Fsm!UdpSocketFails, Fsm!TcpSocketOk, Fsm!LowestFree
  <2>2. CASE Fsm!TcpSocketFails \/ Fsm!TcpConnectFails \/ Fsm!UdpBindFails
    BY <1>0, <2>2
       DEF Fsm!TcpSocketFails, Fsm!TcpConnectFails, Fsm!UdpBindFails, Fsm!CloseBothAndFail,
           Fsm!Closing
  <2>3. CASE Fsm!TcpConnectOk \/ Fsm!UdpBindOk
    BY <1>0, <2>3 DEF Fsm!TcpConnectOk, Fsm!UdpBindOk
  <2>4. CASE Fsm!SetTimeoutOk \/ Fsm!SetTimeoutFails \/ Fsm!RecvOk \/ Fsm!RecvFails
             \/ Fsm!EnablePeakDatagrams \/ Fsm!SendDisable
    BY <1>0, <2>4
       DEF Fsm!SetTimeoutOk, Fsm!SetTimeoutFails, Fsm!RecvOk, Fsm!RecvFails,
           Fsm!EnablePeakDatagrams, Fsm!SendDisable
  <2>5. CASE Fsm!CloseTcp \/ Fsm!CloseUdp
    BY <1>0, <2>5 DEF Fsm!CloseTcp, Fsm!CloseUdp
  <2> QED
    BY <2>1, <2>2, <2>3, <2>4, <2>5 DEF Fsm!MethodStep
<1> QED
  BY <1>1, <1>2 DEF Fsm!TaskStep

LEMMA NextTInv == TInv /\ Next => TInv'
<1> SUFFICES ASSUME TInv, Next PROVE TInv'
  OBVIOUS
<1> USE LoggerAssumption DEF Savers
<1>0. /\ at \in [Savers -> {"idle", "DoTask", "open", "write", "close", "saved", "failed"}]
      /\ logBuffer \in 0..MAX_SAMPLES /\ file \in 0..MAX_SAMPLES
      /\ upTo \in [Savers -> 0..MAX_SAMPLES] /\ logFd \in [Savers -> Fsm!Fds \cup {-1}]
  BY DEF TInv, TypeOK
<1>a. /\ inHandler \in [Savers -> BOOLEAN] /\ {isReadyToLog, moved, raw} \subseteq BOOLEAN
  BY DEF TInv, TypeOK
<1>b. /\ boot \in {"ecat", "nrt", "tasks", "paused"} /\ g_cKeyPress \in {"key", "byte"}
      /\ keyboard \in {"call", "wait"}
  BY DEF TInv, TypeOK
<1>c. Fsm!TypeOK
  BY DEF TInv, TypeOK
<1>d. LogHasRoom /\ SaveOrder /\ HasLogFd
  BY DEF TInv
<1>e. fdTable \in [Fsm!Fds -> Fsm!FdKinds]
  BY <1>c DEF Fsm!TypeOK, Fsm!InterrogatorTypeOK
\* Steps that save nothing.
<1>1. ASSUME UNCHANGED <<at, logBuffer, logFd, upTo, file, inHandler>>,
             {isReadyToLog', moved', raw'} \subseteq BOOLEAN,
             boot' \in {"ecat", "nrt", "tasks", "paused"}, g_cKeyPress' \in {"key", "byte"},
             keyboard' \in {"call", "wait"}, Fsm!TypeOK'
      PROVE  TInv'
  <2>1. TypeOK'
    BY <1>0, <1>a, <1>1 DEF TypeOK
  <2> QED
    BY <1>d, <1>1, <2>1 DEF TInv, LogHasRoom, SaveOrder, HasLogFd
<1>2. ASSUME UNCHANGED fsmVars PROVE Fsm!TypeOK'
  BY <1>c, <1>2 DEF fsmVars, Fsm!TypeOK, Fsm!InterrogatorTypeOK
<1>3. ASSUME Exit, boot' \in {"ecat", "nrt", "tasks", "paused"} PROVE TInv'
  <2>1. /\ UNCHANGED <<isReadyToLog, at, logBuffer, logFd, upTo, file, inHandler, moved>>
        /\ UNCHANGED <<g_cKeyPress, keyboard>> /\ raw' \in BOOLEAN
    BY <1>3 DEF Exit, DisableRawMode, keyVars
  <2>2. Fsm!TypeOK'
    BY <1>c, <1>3 DEF Exit, Fsm!TypeOK, Fsm!InterrogatorTypeOK
  <2>3. {isReadyToLog', moved', raw'} \subseteq BOOLEAN
    BY <1>a, <2>1
  <2> QED
    BY <1>b, <1>1, <1>3, <2>1, <2>2, <2>3
<1>4. CASE Main
  <2>1. ASSUME NEW step, NEW then \in {"nrt", "tasks", "paused"}, Start(step, then) PROVE TInv'
    <3>1. CASE boot' = then /\ UNCHANGED <<isReadyToLog, at, logBuffer, saveVars, keyVars, fsmVars>>
      BY <1>a, <1>b, <1>1, <1>2, <3>1 DEF saveVars, keyVars
    <3>2. CASE Exit
      BY <1>b, <1>3, <3>2 DEF Exit
    <3> QED
      BY <2>1, <3>1, <3>2 DEF Start
  <2> QED
    BY <1>4, <2>1 DEF Main
<1>5. CASE NrtTaskInterrogator
  <2>1. Fsm!TypeOK'
    BY <1>c, <1>5, FsmTypes DEF NrtTaskInterrogator
  <2>2. isReadyToLog' \in BOOLEAN
    BY <1>a, <1>5 DEF NrtTaskInterrogator
  <2>3. UNCHANGED <<boot, at, logBuffer, saveVars, keyVars>>
    BY <1>5 DEF NrtTaskInterrogator
  <2>4. {isReadyToLog', moved', raw'} \subseteq BOOLEAN
    BY <1>a, <2>2, <2>3 DEF saveVars
  <2> QED
    BY <1>b, <1>1, <2>1, <2>3, <2>4 DEF saveVars, keyVars
<1>6. CASE GetChar \/ TypeKey
  <2>1. /\ UNCHANGED <<boot, isReadyToLog, at, logBuffer, saveVars, fsmVars>>
        /\ g_cKeyPress' \in {"key", "byte"} /\ keyboard' \in {"call", "wait"}
    BY <1>b, <1>6 DEF GetChar, TypeKey
  <2> QED
    BY <1>a, <1>b, <1>1, <1>2, <2>1 DEF saveVars
\* The steps of a saver: s moves on, and what it saves keeps its bounds.
<1>7. ASSUME NEW s \in Savers,
             NEW step \in {"idle", "DoTask", "open", "write", "close", "saved", "failed"},
             at' = [at EXCEPT ![s] = step],
             logBuffer' \in 0..MAX_SAMPLES, file' \in 0..MAX_SAMPLES,
             upTo' \in [Savers -> 0..MAX_SAMPLES], logFd' \in [Savers -> Fsm!Fds \cup {-1}],
             inHandler' \in [Savers -> BOOLEAN],
             UNCHANGED <<boot, isReadyToLog>>, raw' \in BOOLEAN, moved' \in BOOLEAN,
             g_cKeyPress' \in {"key", "byte"}, UNCHANGED keyboard,
             Fsm!TypeOK', LogHasRoom', SaveOrder', HasLogFd'
      PROVE  TInv'
  <2>1. at' \in [Savers -> {"idle", "DoTask", "open", "write", "close", "saved", "failed"}]
    BY <1>0, <1>7
  <2>2. isReadyToLog' \in BOOLEAN
    BY <1>a, <1>7
  <2>3. TypeOK'
    BY <1>b, <1>7, <2>1, <2>2 DEF TypeOK
  <2> QED
    BY <1>7, <2>3 DEF TInv
<1>8. CASE BeginPeriod
  <2>1. /\ at["rt"] = "idle" /\ at' = [at EXCEPT !["rt"] = "DoTask"]
        /\ UNCHANGED <<boot, isReadyToLog, logBuffer, saveVars, keyVars, fsmVars>>
    BY <1>8 DEF BeginPeriod
  <2>2. LogHasRoom' /\ SaveOrder' /\ HasLogFd'
    BY <1>0, <1>d, <2>1 DEF LogHasRoom, SaveOrder, HasLogFd, saveVars
  <2> QED
    BY <1>0, <1>a, <1>b, <1>2, <1>7, <2>1, <2>2 DEF saveVars, keyVars
<1>9. CASE AppendRecord
  <2>1. /\ at["rt"] = "DoTask" /\ logBuffer' = logBuffer + 1 /\ g_cKeyPress' = "key"
        /\ at' = [at EXCEPT !["rt"] = IF logBuffer' >= MAX_SAMPLES THEN "open" ELSE "idle"]
        /\ UNCHANGED <<boot, isReadyToLog, inHandler, logFd, upTo, file, raw, keyboard, fsmVars>>
    BY <1>9 DEF AppendRecord, DoTask
  <2>2. moved' \in BOOLEAN
    BY <1>9, <1>a DEF AppendRecord
  <2>3. logBuffer' \in 0..MAX_SAMPLES
    BY <1>0, <1>d, <2>1 DEF LogHasRoom
  <2>4. LogHasRoom' /\ HasLogFd'
    BY <1>0, <1>d, <2>1, <2>3 DEF LogHasRoom, HasLogFd
  <2>5. SaveOrder'
    BY <1>0, <1>d, <2>1 DEF SaveOrder
  <2> QED
    BY <1>0, <1>a, <1>2, <1>7, <2>1, <2>2, <2>3, <2>4, <2>5
<1>10. ASSUME NEW s \in Savers, Handle(s) PROVE TInv'
  <2>1. /\ at' = [at EXCEPT ![s] = "open"]
        /\ inHandler' = [inHandler EXCEPT ![s] = TRUE]
        /\ UNCHANGED <<boot, isReadyToLog, logBuffer, logFd, upTo, moved, file, keyVars, fsmVars>>
    BY <1>10 DEF Handle
  <2>2. s = "sig" => at["rt"] \in {"idle", "DoTask"}
    BY <1>10 DEF Handle
  <2>3. raw' \in BOOLEAN /\ moved' \in BOOLEAN
    BY <1>10, <1>a DEF Handle, DisableRawMode
  <2>4. inHandler' \in [Savers -> BOOLEAN]
    BY <1>a, <2>1
  <2>5. LogHasRoom' /\ HasLogFd'
    BY <1>0, <1>d, <2>1 DEF LogHasRoom, HasLogFd
  <2>6. SaveOrder'
    BY <1>0, <1>a, <1>d, <2>1, <2>2 DEF SaveOrder
  <2> QED
    BY <1>0, <1>b, <1>2, <1>7, <2>1, <2>3, <2>4, <2>5, <2>6 DEF keyVars
<1>11. ASSUME NEW s \in Savers, OpenLog(s) PROVE TInv'
  <2>1. PICK fd \in Fsm!Fds : /\ logFd' = [logFd EXCEPT ![s] = fd]
                              /\ fdTable' = [fdTable EXCEPT ![fd] = "log"]
    BY <1>11 DEF OpenLog
  <2>2. /\ at[s] = "open" /\ at' = [at EXCEPT ![s] = "write"] /\ file' = 0
        /\ s = "rt" => at["sig"] = "idle"
        /\ upTo' = [upTo EXCEPT ![s] = logBuffer]
        /\ UNCHANGED <<boot, isReadyToLog, logBuffer, inHandler, moved, raw, keyVars,
                       currentState, tcpSockfd, udpSockfd, udpState, streaming, call, process>>
    BY <1>11 DEF OpenLog
  <2>3. Fsm!TypeOK'
    BY <1>c, <1>e, <2>1, <2>2
       DEF Fsm!TypeOK, Fsm!InterrogatorTypeOK, Fsm!FdKinds
  <2>4. LogHasRoom' /\ HasLogFd'
    BY <1>0, <1>d, <2>1, <2>2 DEF LogHasRoom, HasLogFd
  <2>5. SaveOrder'
    BY <1>0, <1>d, <2>2 DEF SaveOrder
  <2>6. raw' \in BOOLEAN /\ moved' \in BOOLEAN
    BY <1>a, <2>2
  <2>7. /\ logFd' \in [Savers -> Fsm!Fds \cup {-1}]
        /\ upTo' \in [Savers -> 0..MAX_SAMPLES] /\ file' \in 0..MAX_SAMPLES
    BY <1>0, <2>1, <2>2
  <2>8. UNCHANGED keyboard /\ g_cKeyPress' \in {"key", "byte"}
    BY <1>b, <2>2 DEF keyVars
  <2> QED
    BY <1>0, <1>a, <1>7, <2>2, <2>3, <2>4, <2>5, <2>6, <2>7, <2>8
<1>12. ASSUME NEW s \in Savers, OpenFails(s) PROVE TInv'
  <2>1. /\ at[s] = "open" /\ at' = [at EXCEPT ![s] = "failed"]
        /\ UNCHANGED <<boot, isReadyToLog, logBuffer, saveVars, keyVars, fsmVars>>
    BY <1>12 DEF OpenFails
  <2>2. LogHasRoom' /\ SaveOrder' /\ HasLogFd'
    BY <1>0, <1>d, <2>1 DEF LogHasRoom, SaveOrder, HasLogFd, saveVars
  <2> QED
    BY <1>0, <1>a, <1>b, <1>2, <1>7, <2>1, <2>2 DEF saveVars, keyVars
<1>13. ASSUME NEW s \in Savers, WriteLog(s) PROVE TInv'
  <2>1. /\ at[s] = "write" /\ at' = [at EXCEPT ![s] = "close"] /\ file' \in {upTo[s], file}
        /\ process' \in {"running", "killed"}
        /\ UNCHANGED <<boot, isReadyToLog, logBuffer, inHandler, logFd, upTo, moved, raw, keyVars,
                       currentState, fdTable, tcpSockfd, udpSockfd, udpState, streaming, call>>
    BY <1>13 DEF WriteLog
  <2>2. Fsm!TypeOK'
    BY <1>c, <2>1 DEF Fsm!TypeOK, Fsm!InterrogatorTypeOK
  <2>3. LogHasRoom' /\ SaveOrder' /\ HasLogFd'
    BY <1>0, <1>d, <2>1 DEF LogHasRoom, SaveOrder, HasLogFd
  <2>4. raw' \in BOOLEAN /\ moved' \in BOOLEAN
    BY <1>a, <2>1
  <2> QED
    BY <1>0, <1>a, <1>b, <1>7, <2>1, <2>2, <2>3, <2>4 DEF keyVars
<1>14. ASSUME NEW s \in Savers, CloseLog(s) PROVE TInv'
  <2>1. /\ at[s] = "close" /\ at' = [at EXCEPT ![s] = "saved"]
        /\ logFd' = [logFd EXCEPT ![s] = -1] /\ fdTable' = Fsm!Closing({logFd[s]})
        /\ UNCHANGED <<boot, isReadyToLog, logBuffer, inHandler, upTo, moved, file, raw, keyVars,
                       currentState, tcpSockfd, udpSockfd, udpState, streaming, call, process>>
    BY <1>14 DEF CloseLog
  <2>2. Fsm!TypeOK'
    BY <1>c, <1>e, <2>1
       DEF Fsm!TypeOK, Fsm!InterrogatorTypeOK, Fsm!FdKinds, Fsm!Closing
  <2>3. LogHasRoom' /\ SaveOrder' /\ HasLogFd'
    BY <1>0, <1>d, <2>1 DEF LogHasRoom, SaveOrder, HasLogFd
  <2>4. raw' \in BOOLEAN /\ moved' \in BOOLEAN
    BY <1>a, <2>1
  <2> QED
    BY <1>0, <1>a, <1>b, <1>7, <2>1, <2>2, <2>3, <2>4 DEF keyVars
<1>15. ASSUME NEW s \in Savers, HandlerExits(s) PROVE TInv'
  BY <1>b, <1>3, <1>15 DEF HandlerExits, Exit
<1>16. CASE UNCHANGED vars
  BY <1>a, <1>b, <1>1, <1>2, <1>16 DEF vars, saveVars, keyVars
<1> QED
  BY <1>4, <1>5, <1>6, <1>8, <1>9, <1>10, <1>11, <1>12, <1>13, <1>14, <1>15, <1>16
     DEF Next, Running, Ended, RtTaskEcatAndLogging, SaveAndExit

\* An inductive invariant: besides the types, why the log has room for the next record and why
\* a thread that writes the log has the number of a descriptor.
THEOREM TypesInvariant == Spec => []TInv
<1>1. TInv /\ UNCHANGED vars => TInv'
  BY DEF TInv, TypeOK, LogHasRoom, SaveOrder, HasLogFd, vars, saveVars, keyVars, fsmVars,
         Fsm!TypeOK, Fsm!InterrogatorTypeOK
<1> QED
  BY InitTInv, NextTInv, <1>1, PTL DEF Spec

\* The variables keep their types: the log never grows beyond the records that fill it, whatever
\* the threads save meanwhile.
THEOREM TypeCorrect == Spec => []TypeOK
BY TypesInvariant, PTL DEF TInv

LEMMA InitSInv == Init => SInv
BY LoggerAssumption
   DEF Init, SInv, DisconnectInState, OwnSockets, Fsm!Init, Fsm!InterrogatorInit,
       Fsm!DisconnectSteps

\* While a log file is written for the first time, none has been closed.
LEMMA FirstSave ==
  ASSUME SaveOrder, NEW s \in Savers, at[s] \in {"write", "close"}, s = "rt" => ~inHandler[s]
  PROVE  NoneClosed /\ \A r \in Savers \ {s} : at[r] \notin {"write", "close", "saved"}
BY DEF SaveOrder, NoneClosed, Savers

\* What the threads other than "nrt" do to the descriptors leaves the sockets alone ...
LEMMA SaverKeepsSInv ==
  ASSUME TInv, SInv, NEW s \in Savers, OpenLog(s) \/ WriteLog(s) \/ CloseLog(s)
  PROVE  SInv'
<1>1. /\ UNCHANGED <<call, currentState, tcpSockfd, udpSockfd, inHandler>>
      /\ fdTable \in [Fsm!Fds -> Fsm!FdKinds]
      /\ at \in [Savers -> {"idle", "DoTask", "open", "write", "close", "saved", "failed"}]
  BY DEF OpenLog, WriteLog, CloseLog, TInv, TypeOK, Fsm!TypeOK, Fsm!InterrogatorTypeOK
<1>2. DisconnectInState'
  BY <1>1 DEF SInv, DisconnectInState, Fsm!DisconnectSteps
<1>3. CASE OpenLog(s)
  <2>1. PICK fd \in Fsm!Fds : fdTable[fd] = "closed" /\ fdTable' = [fdTable EXCEPT ![fd] = "log"]
    BY <1>3 DEF OpenLog, Fsm!LowestFree
  <2>2. OwnSockets => OwnSockets'
    BY <1>1, <2>1 DEF OwnSockets, Fsm!Kind, Fsm!Connected
  <2>3. NoneClosed' => NoneClosed
    BY <1>1, <1>3 DEF OpenLog, NoneClosed, Savers, TInv, SaveOrder
  <2> QED
    BY <1>2, <2>2, <2>3 DEF SInv
<1>4. CASE WriteLog(s)
  BY <1>1, <1>2, <1>4 DEF WriteLog, SInv, NoneClosed, OwnSockets, Savers, Fsm!Kind, Fsm!Connected
<1>5. CASE CloseLog(s)
  BY <1>1, <1>2, <1>5 DEF CloseLog, SInv, NoneClosed, Savers
<1> QED
  BY <1>3, <1>4, <1>5

LEMMA NextSInv == TInv /\ SInv /\ Next => SInv'
<1> SUFFICES ASSUME TInv, SInv, Next PROVE SInv'
  OBVIOUS
<1>0. /\ at \in [Savers -> {"idle", "DoTask", "open", "write", "close", "saved", "failed"}]
      /\ SaveOrder
  BY DEF TInv, TypeOK
<1>a. inHandler \in [Savers -> BOOLEAN]
  BY DEF TInv, TypeOK
<1>1. ASSUME UNCHANGED <<call, currentState, fdTable, tcpSockfd, udpSockfd>>,
             NoneClosed' => NoneClosed
      PROVE  SInv'
  BY <1>1
     DEF SInv, DisconnectInState, OwnSockets, Fsm!Kind, Fsm!Connected, Fsm!DisconnectSteps,
         Fsm!Fds
<1>2. CASE Main \/ GetChar \/ TypeKey \/ UNCHANGED vars \/ (\E s \in Savers : HandlerExits(s))
  BY <1>1, <1>2
     DEF Main, Start, Exit, GetChar, TypeKey, HandlerExits, vars, saveVars, fsmVars, NoneClosed
<1>3. CASE NrtTaskInterrogator
  <2>1. Fsm!TypeOK /\ Fsm!TaskStep /\ (NoneClosed' => NoneClosed)
    BY <1>3 DEF NrtTaskInterrogator, TInv, TypeOK, saveVars, NoneClosed
  <2> QED
    BY <2>1, FsmSockets DEF SInv
<1>4. CASE BeginPeriod \/ AppendRecord
  <2>1. NoneClosed' => NoneClosed
    BY <1>0, <1>4 DEF BeginPeriod, AppendRecord, DoTask, saveVars, NoneClosed, Savers
  <2> QED
    BY <1>1, <1>4, <2>1 DEF BeginPeriod, AppendRecord, fsmVars
<1>5. ASSUME NEW s \in Savers, Handle(s) PROVE SInv'
  <2>1. /\ at' = [at EXCEPT ![s] = "open"]
        /\ inHandler' = [inHandler EXCEPT ![s] = TRUE]
    BY <1>5 DEF Handle
  <2>2. /\ s = "sig" => at["rt"] \in {"idle", "DoTask"} /\ at["sig"] = "idle"
        /\ s = "rt" => at["rt"] \in {"saved", "failed"}
    BY <1>5 DEF Handle
  <2>3. NoneClosed' => NoneClosed
    BY <1>0, <1>a, <2>1, <2>2 DEF NoneClosed, SaveOrder, Savers
  <2> QED
    BY <1>1, <1>5, <2>3 DEF Handle, fsmVars
<1>6. ASSUME NEW s \in Savers, OpenFails(s) PROVE SInv'
  <2>1. NoneClosed' => NoneClosed
    BY <1>0, <1>6 DEF OpenFails, saveVars, NoneClosed, Savers
  <2> QED
    BY <1>1, <1>6, <2>1 DEF OpenFails, fsmVars
<1>7. ASSUME NEW s \in Savers, SaveAndExit(s) PROVE SInv'
  BY <1>2, <1>6, <1>7, SaverKeepsSInv DEF SaveAndExit
<1> QED
  BY <1>2, <1>3, <1>4, <1>5, <1>7 DEF Next, Running, Ended, RtTaskEcatAndLogging, Savers

\* Until a log file is closed for the first time, connectUDP works on the two sockets it has
\* just opened, whichever descriptors the threads that save the log open meanwhile.
THEOREM SocketsInvariant == Spec => [](TInv /\ SInv)
<1>1. TInv /\ SInv /\ UNCHANGED vars => SInv'
  BY DEF SInv, DisconnectInState, NoneClosed, OwnSockets, Fsm!Kind, Fsm!Connected,
         Fsm!DisconnectSteps, Fsm!Fds, vars, saveVars, fsmVars
<1> QED
  BY TypesInvariant, InitSInv, NextSInv, <1>1, PTL DEF Spec

\* A step that leaves the log file of s alone, or ends the save.
LogKept(s) == at'[s] = "saved" \/ Writing(s)'

LEMMA NextKeepsLog ==
  ASSUME TInv, SInv, [Next]_vars, NEW s \in Savers, Writing(s), s = "rt" => ~inHandler[s],
         currentState # "DISCONNECT_STATE"
  PROVE  LogKept(s)
<1>0. /\ at \in [Savers -> {"idle", "DoTask", "open", "write", "close", "saved", "failed"}]
      /\ logFd[s] \in Fsm!Fds /\ fdTable \in [Fsm!Fds -> Fsm!FdKinds]
      /\ logFd \in [Savers -> Fsm!Fds \cup {-1}]
      /\ at[s] \in {"write", "close"} /\ fdTable[logFd[s]] = "log"
  BY DEF TInv, TypeOK, HasLogFd, Writing, Fsm!TypeOK, Fsm!InterrogatorTypeOK
<1>1. NoneClosed /\ \A r \in Savers \ {s} : at[r] \notin {"write", "close", "saved"}
  BY <1>0, FirstSave DEF TInv
<1>2. ASSUME UNCHANGED <<fdTable, logFd>>, at'[s] \in {"write", "close"} PROVE LogKept(s)
  BY <1>0, <1>2 DEF LogKept, Writing
<1>3. CASE Main \/ GetChar \/ TypeKey \/ UNCHANGED vars \/ \E r \in Savers : HandlerExits(r)
  BY <1>0, <1>2, <1>3
     DEF Main, Start, Exit, GetChar, TypeKey, HandlerExits, vars, saveVars, fsmVars
<1>4. CASE NrtTaskInterrogator
  <2>1. UNCHANGED <<at, logFd>> /\ Fsm!TaskStep
    BY <1>4 DEF NrtTaskInterrogator, saveVars
  <2>2. fdTable'[logFd[s]] = "log"
    BY <1>0, <1>1, <2>1, FsmSockets DEF SInv, TInv, TypeOK
  <2> QED
    BY <1>0, <2>1, <2>2 DEF LogKept, Writing
<1>5. CASE BeginPeriod \/ AppendRecord
  <2>1. UNCHANGED <<fdTable, logFd>> /\ s # "rt" /\ at'[s] = at[s]
    BY <1>0, <1>5 DEF BeginPeriod, AppendRecord, DoTask, saveVars, fsmVars, Savers
  <2> QED
    BY <1>0, <1>2, <2>1
<1>6. ASSUME NEW r \in Savers, Handle(r) \/ OpenFails(r) PROVE LogKept(s)
  <2>1. UNCHANGED <<fdTable, logFd>> /\ s # r /\ at'[s] = at[s]
    BY <1>0, <1>6 DEF Handle, OpenFails, saveVars, fsmVars
  <2> QED
    BY <1>0, <1>2, <2>1
<1>7. ASSUME NEW r \in Savers, OpenLog(r) PROVE LogKept(s)
  <2>1. PICK fd \in Fsm!Fds : /\ fdTable[fd] = "closed"
                              /\ fdTable' = [fdTable EXCEPT ![fd] = "log"]
                              /\ logFd' = [logFd EXCEPT ![r] = fd]
    BY <1>7 DEF OpenLog, Fsm!LowestFree
  <2>2. r # s /\ at'[s] = at[s]
    BY <1>0, <1>7 DEF OpenLog
  <2> QED
    BY <1>0, <2>1, <2>2 DEF LogKept, Writing
<1>8. ASSUME NEW r \in Savers, WriteLog(r) PROVE LogKept(s)
  <2>1. UNCHANGED <<fdTable, logFd>> /\ at'[s] \in {at[s], "close"}
    BY <1>0, <1>8 DEF WriteLog
  <2> QED
    BY <1>0, <1>2, <2>1
<1>9. ASSUME NEW r \in Savers, CloseLog(r) PROVE LogKept(s)
  <2>1. r = s
    BY <1>1, <1>9 DEF CloseLog
  <2> QED
    BY <1>0, <1>9, <2>1 DEF CloseLog, LogKept
<1> QED
  BY <1>3, <1>4, <1>5, <1>6, <1>7, <1>8, <1>9
     DEF Next, Running, Ended, RtTaskEcatAndLogging, SaveAndExit, Savers

\* Only disconnectUDP can close the log file under the first save of a run.
THEOREM LogIsNotClosed == Spec => OnlyDisconnectClosesLog
<1>1. TInv /\ SInv /\ [Next]_vars =>
        [\A s \in Savers :
           ( /\ Writing(s)
             /\ s = "rt" => ~inHandler[s]
             /\ currentState # "DISCONNECT_STATE" )
           => (at'[s] = "saved" \/ Writing(s)')]_vars
  BY NextKeepsLog DEF LogKept
<1> QED
  BY SocketsInvariant, <1>1, PTL DEF Spec, OnlyDisconnectClosesLog

\* As long as the terminal is open the thread has come no further than the first
\* close() of the disconnectUDP that init() sends it to.
TermInv ==
  TtyOpen =>
    /\ tcpSockfd = 0 /\ udpState = 255
    /\ \/ currentState = "INIT_STATE" /\ call = "idle"
       \/ currentState = "DISCONNECT_STATE" /\ call \in {"idle", "sendDisable", "closeTcp"}

\* A step of the thread opens no terminal, and closes this one before it goes further.
LEMMA FsmTerminal == Fsm!TypeOK /\ TermInv /\ Fsm!TaskStep => TermInv'
<1> SUFFICES ASSUME Fsm!TypeOK, TermInv, Fsm!TaskStep, TtyOpen' PROVE TermInv'
  BY DEF TermInv
<1>0. 0 \in Fsm!Fds /\ fdTable \in [Fsm!Fds -> Fsm!FdKinds]
  BY LoggerAssumption DEF Fsm!Fds, Fsm!TypeOK, Fsm!InterrogatorTypeOK
<1> USE <1>0 DEF TermInv, TtyOpen
<1>1. CASE Fsm!Control
  BY <1>1
     DEF Fsm!Control, Fsm!RunInit, Fsm!Begin, Fsm!ConnectDone, Fsm!EnableDone, Fsm!ReadFailed,
         Fsm!ReadDone, Fsm!DisconnectDone, Fsm!Enter, Fsm!InitFails
<1>2. ASSUME Fsm!MethodStep, UNCHANGED currentState PROVE TermInv'
  <2>1. TtyOpen
    BY <1>2
       DEF Fsm!MethodStep, Fsm!UdpSocketOk, Fsm!UdpSocketFails, Fsm!TcpSocketOk,
           Fsm!TcpSocketFails, Fsm!TcpConnectOk, Fsm!TcpConnectFails, Fsm!UdpBindOk,
           Fsm!UdpBindFails, Fsm!CloseBothAndFail, Fsm!SetTimeoutOk, Fsm!SetTimeoutFails,
           Fsm!EnablePeakDatagrams, Fsm!RecvOk, Fsm!RecvFails, Fsm!SendDisable, Fsm!CloseTcp,
           Fsm!CloseUdp, Fsm!Closing
  <2>2. tcpSockfd = 0 /\ udpState = 255 /\ call \in {"sendDisable", "closeTcp"}
    BY <1>2, <2>1
       DEF Fsm!MethodStep, Fsm!UdpSocketOk, Fsm!UdpSocketFails, Fsm!TcpSocketOk,
           Fsm!TcpSocketFails, Fsm!TcpConnectOk, Fsm!TcpConnectFails, Fsm!UdpBindOk,
           Fsm!UdpBindFails, Fsm!SetTimeoutOk, Fsm!SetTimeoutFails,
           Fsm!EnablePeakDatagrams, Fsm!RecvOk, Fsm!RecvFails, Fsm!SendDisable, Fsm!CloseTcp,
           Fsm!CloseUdp
  <2>3. ~Fsm!CloseTcp
    BY <2>2 DEF Fsm!CloseTcp, Fsm!Closing
  <2>4. Fsm!SendDisable
    BY <1>2, <2>2, <2>3
       DEF Fsm!MethodStep, Fsm!UdpSocketOk, Fsm!UdpSocketFails, Fsm!TcpSocketOk,
           Fsm!TcpSocketFails, Fsm!TcpConnectOk, Fsm!TcpConnectFails, Fsm!UdpBindOk,
           Fsm!UdpBindFails, Fsm!SetTimeoutOk, Fsm!SetTimeoutFails,
           Fsm!EnablePeakDatagrams, Fsm!RecvOk, Fsm!RecvFails, Fsm!CloseUdp
  <2> QED
    BY <1>2, <2>1, <2>2, <2>4 DEF Fsm!SendDisable
<1> QED
  BY <1>1, <1>2 DEF Fsm!TaskStep

LEMMA NextTermInv == TInv /\ TermInv /\ [Next]_vars => TermInv'
<1> SUFFICES ASSUME TInv, TermInv, [Next]_vars PROVE TermInv'
  OBVIOUS
<1>0. /\ Fsm!TypeOK /\ 0 \in Fsm!Fds /\ fdTable \in [Fsm!Fds -> Fsm!FdKinds]
      /\ HasLogFd
  BY LoggerAssumption DEF TInv, TypeOK, Fsm!Fds, Fsm!TypeOK, Fsm!InterrogatorTypeOK
<1>1. ASSUME UNCHANGED <<currentState, tcpSockfd, udpState, call>>, TtyOpen' => TtyOpen
      PROVE  TermInv'
  BY <1>1 DEF TermInv
<1>2. CASE NrtTaskInterrogator
  BY <1>0, <1>2, FsmTerminal DEF NrtTaskInterrogator
<1>3. ASSUME NEW s \in Savers, OpenLog(s) \/ CloseLog(s) PROVE TermInv'
  <2>1. UNCHANGED <<currentState, tcpSockfd, udpState, call>>
    BY <1>3 DEF OpenLog, CloseLog
  <2>2. TtyOpen' => TtyOpen
    BY <1>0, <1>3 DEF OpenLog, CloseLog, TtyOpen, Fsm!Closing
  <2> QED
    BY <1>1, <2>1, <2>2
<1>4. ASSUME NEW s \in Savers, Handle(s) \/ OpenFails(s) \/ WriteLog(s) \/ HandlerExits(s)
      PROVE  TermInv'
  BY <1>1, <1>4 DEF Handle, OpenFails, WriteLog, HandlerExits, Exit, fsmVars, TtyOpen
<1>5. CASE Main \/ GetChar \/ TypeKey \/ BeginPeriod \/ AppendRecord \/ UNCHANGED vars
  BY <1>1, <1>5
     DEF Main, Start, Exit, GetChar, TypeKey, BeginPeriod, AppendRecord, vars, fsmVars, TtyOpen
<1> QED
  BY <1>2, <1>3, <1>4, <1>5
     DEF Next, Running, Ended, RtTaskEcatAndLogging, SaveAndExit, Savers

\* What takes the terminal out of raw mode is tcsetattr, on an open terminal.
LEMMA RestoresOpenTerminal == [Next]_vars /\ raw /\ ~raw' => TtyOpen
<1> SUFFICES ASSUME [Next]_vars, raw, ~raw' PROVE TtyOpen
  OBVIOUS
<1>1. CASE Main \/ GetChar \/ TypeKey \/ NrtTaskInterrogator \/ BeginPeriod \/ AppendRecord
           \/ UNCHANGED vars
  BY <1>1
     DEF Main, Start, Exit, DisableRawMode, GetChar, TypeKey, NrtTaskInterrogator, BeginPeriod,
         AppendRecord, vars, saveVars
<1>2. ASSUME NEW s \in Savers, Handle(s) \/ SaveAndExit(s) PROVE TtyOpen
  BY <1>2
     DEF Handle, SaveAndExit, OpenLog, OpenFails, WriteLog, CloseLog, HandlerExits, Exit,
         DisableRawMode, saveVars
<1> QED
  BY <1>1, <1>2 DEF Next, Running, Ended, RtTaskEcatAndLogging, Savers

\* The terminal is closed before the program first tries to connect, and stays in
\* raw mode from then on, whatever the other threads do.
THEOREM RawForGood == Spec => TerminalIsLost
<1>1. Init => TermInv
  BY DEF Init, TermInv, Fsm!Init, Fsm!InterrogatorInit
<1>2. TermInv => (Tried => ~TtyOpen)
  BY DEF TermInv, Tried
<1>3. TermInv /\ [Next]_vars => [raw /\ ~raw' => ~Tried]_vars
  BY <1>2, RestoresOpenTerminal
<1> QED
  BY <1>1, <1>2, <1>3, TypesInvariant, NextTermInv, PTL DEF Spec, TerminalIsLost
=============================================================================
