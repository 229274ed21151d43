------------------------------- MODULE FtFbg -------------------------------
(***************************************************************************)
(* The program of FT_FBG.cpp, which logs what the interrogator and a       *)
(* force/torque sensor on EtherCAT measure.  Its threads:                  *)
(*                                                                         *)
(*   "nrt"  nrtTaskInterrogator: the state machine (InterrogatorFsm)       *)
(*   "rt"   rtTaskEcatAndLogging: DoTask, append a record; when the log is *)
(*          full, save it, call signalHandler, exit                        *)
(*   "key"  proc_keyboard_task: getchar                                    *)
(*   "sig"  signalHandler when a signal arrives: save the log, exit        *)
(*                                                                         *)
(* They meet in the descriptor table: the terminal is descriptor 0, which  *)
(* the keyboard thread reads and disable_raw_mode restores, and the log    *)
(* file is given the lowest number that is free.                           *)
(*                                                                         *)
(* Not modelled here: what a record holds (see PeakDatagram), the EtherCAT *)
(* master, the statistics printed.  Init is main at line 316, with the     *)
(* terminal in raw mode.  The signal handler is a thread of its own,       *)
(* whichever thread it interrupts.                                         *)
(*                                                                         *)
(* Bounds: one signal, and two saves never overlap ("rt" waits for "sig",  *)
(* and no signal comes once the log is full); a save writes all records in *)
(* one step between opening and closing; the interrogator does not close   *)
(* the TCP connection (InterrogatorFsm has that).                          *)
(***************************************************************************)
EXTENDS Integers

CONSTANTS
  MaxFd, Foreign,  \* of CInterrogator
  MAX_SAMPLES      \* records that fill the log (5000 in the source)

ASSUME LoggerAssumption ==
  /\ MaxFd \in Nat
  /\ 0 \in Foreign
  /\ Foreign \subseteq 0..MaxFd
  /\ MAX_SAMPLES \in Nat \ {0}

VARIABLES
  boot,          \* where main is: "ecat", "nrt", "tasks" or "paused"
  isReadyToLog,
  at,            \* where "rt" and "sig" are
  inHandler,     \* whether "rt" or "sig" is in signalHandler
  logBuffer,     \* how many records it holds
  logFd,         \* the descriptor of the log file "rt" or "sig" has open
  upTo,          \* how many records it writes there
  moved,         \* the records "sig" is writing have been reallocated
  file,          \* how many records the log file holds, from the first on
  raw,           \* the terminal is in raw mode
  g_cKeyPress,   \* a "byte" of a datagram, or else a "key": one typed, ' ' or EOF
  keyboard,      \* "call": about to read; "wait": reading the terminal
  currentState, fdTable, tcpSockfd, udpSockfd, udpState, streaming, call, process

\* The class has two global members for descriptors: they are zero at start.
Fsm == INSTANCE InterrogatorFsm WITH Garbage <- {0}

fsmVars == <<currentState, fdTable, tcpSockfd, udpSockfd, udpState, streaming, call, process>>
keyVars == <<g_cKeyPress, keyboard>>
saveVars == <<inHandler, logFd, upTo, moved, file, raw>>
vars == <<boot, isReadyToLog, at, logBuffer, saveVars, keyVars, fsmVars>>

Savers == {"rt", "sig"}

TtyOpen == fdTable[0] = "foreign"

\* tcsetattr on descriptor 0, and "stty sane", which inherits it.
DisableRawMode == raw' = (raw /\ ~TtyOpen)

\* enable_raw_mode
RawModeEnabled == raw = TRUE

Init ==
  /\ boot = "ecat"
  /\ isReadyToLog = FALSE
  /\ at = [s \in Savers |-> "idle"]
  /\ inHandler = [s \in Savers |-> FALSE]
  /\ logBuffer = 0
  /\ logFd = [s \in Savers |-> -1]
  /\ upTo = [s \in Savers |-> 0]
  /\ moved = FALSE /\ file = 0 /\ RawModeEnabled
  /\ g_cKeyPress = "key" /\ keyboard = "call"
  /\ Fsm!Init

----------------------------------------------------------------------------
\* exit, or a return of main: the exit handlers restore the terminal.
Exit ==
  /\ DisableRawMode
  /\ process' = "exited"
  /\ UNCHANGED <<boot, isReadyToLog, at, inHandler, logBuffer, logFd, upTo, moved, file,
                 keyVars, currentState, fdTable, tcpSockfd, udpSockfd, udpState, streaming, call>>

\* main: initialise EtherCAT, create the interrogator thread, create and start
\* the two tasks (here in one step), pause.  Where a step fails, main returns.
Start(step, then) ==
  /\ boot = step
  /\ \/ boot' = then
        /\ UNCHANGED <<isReadyToLog, at, logBuffer, saveVars, keyVars, fsmVars>>
     \/ Exit

Main == Start("ecat", "nrt") \/ Start("nrt", "tasks") \/ Start("tasks", "paused")

NrtStarted == boot \in {"tasks", "paused"}
TasksStarted == boot = "paused"

----------------------------------------------------------------------------
\* nrtTaskInterrogator: the state machine, and the flag it sets and clears.
NrtTaskInterrogator ==
  /\ NrtStarted
  /\ Fsm!TaskStep
  /\ isReadyToLog' = CASE Fsm!EnableDone -> TRUE
                       [] Fsm!ReadFailed \/ Fsm!DisconnectDone -> FALSE
                       [] OTHER -> isReadyToLog
  /\ UNCHANGED <<boot, at, logBuffer, saveVars, keyVars>>

----------------------------------------------------------------------------
\* getchar: from the terminal, as long as descriptor 0 is one; else whatever
\* the descriptor gives (be it the last datagram on its way).  An unbound UDP socket keeps the thread waiting.
GetChar ==
  /\ TasksStarted
  /\ keyboard = "call"
  /\ \/ TtyOpen /\ keyboard' = "wait" /\ UNCHANGED g_cKeyPress
     \/ /\ fdTable[0] \in {"bound", "conn"}
        /\ streaming # "off"
        /\ g_cKeyPress' = "byte"
        /\ UNCHANGED keyboard
     \/ fdTable[0] \notin {"foreign", "udp"} /\ g_cKeyPress' = "key" /\ UNCHANGED keyboard
  /\ UNCHANGED <<boot, isReadyToLog, at, logBuffer, saveVars, fsmVars>>

\* The operator types a key, which also ends a read of a terminal since closed.
TypeKey ==
  /\ keyboard = "wait"
  /\ g_cKeyPress' = "key"
  /\ keyboard' = "call"
  /\ UNCHANGED <<boot, isReadyToLog, at, logBuffer, saveVars, fsmVars>>

----------------------------------------------------------------------------
\* rtTaskEcatAndLogging: a period in which the interrogator and EtherCAT are
\* ready begins: DoTask sets the sensor's operation mode by g_cKeyPress ...
BeginPeriod ==
  /\ TasksStarted
  /\ at["rt"] = "idle"
  /\ isReadyToLog
  /\ at' = [at EXCEPT !["rt"] = "DoTask"]
  /\ UNCHANGED <<boot, isReadyToLog, logBuffer, saveVars, keyVars, fsmVars>>

\* ... and forgets the key, the one it has acted on or one pressed meanwhile.
DoTask == at["rt"] = "DoTask" /\ g_cKeyPress' = "key"

\* Then a record is appended; the log, once full, is saved.  Appending may move
\* the records while "sig", which does not lock logMutex, is writing them.
\* (Mutant: a full log is not noticed.)
AppendOverlooksFull ==
  /\ DoTask
  /\ logBuffer' = logBuffer + 1
  /\ at' = [at EXCEPT !["rt"] = IF logBuffer' > MAX_SAMPLES THEN "open" ELSE "idle"]
  /\ moved' \in {moved, moved \/ at["sig"] = "write"}
  /\ UNCHANGED <<boot, isReadyToLog, inHandler, logFd, upTo, file, raw, keyboard, fsmVars>>

AppendRecord ==
  /\ DoTask
  /\ logBuffer' = logBuffer + 1
  /\ at' = [at EXCEPT !["rt"] = IF logBuffer' >= MAX_SAMPLES THEN "open" ELSE "idle"]
  /\ moved' \in {moved, moved \/ at["sig"] = "write"}
  /\ UNCHANGED <<boot, isReadyToLog, inHandler, logFd, upTo, file, raw, keyboard, fsmVars>>

----------------------------------------------------------------------------
\* signalHandler begins: for a signal, or called by "rt" once the log is saved.
Handle(s) ==
  /\ \/ s = "sig" /\ at[s] = "idle" /\ at["rt"] \in {"idle", "DoTask"}
     \/ s = "rt" /\ at[s] \in {"saved", "failed"} /\ ~inHandler[s]
  /\ DisableRawMode
  /\ inHandler' = [inHandler EXCEPT ![s] = TRUE]
  /\ at' = [at EXCEPT ![s] = "open"]
  /\ UNCHANGED <<boot, isReadyToLog, logBuffer, logFd, upTo, moved, file, keyVars, fsmVars>>

\* saveLogToFile: open and truncate the file, if it can be opened.
OpenLog(s) ==
  /\ at[s] = "open"
  /\ s = "rt" => at["sig"] = "idle"
  /\ \E fd \in Fsm!Fds :
       /\ Fsm!LowestFree(fd)
       /\ logFd' = [logFd EXCEPT ![s] = fd]
       /\ fdTable' = [fdTable EXCEPT ![fd] = "log"]
  /\ file' = 0
  /\ upTo' = [upTo EXCEPT ![s] = logBuffer]
  /\ at' = [at EXCEPT ![s] = "write"]
  /\ UNCHANGED <<boot, isReadyToLog, logBuffer, inHandler, moved, raw, keyVars,
                 currentState, tcpSockfd, udpSockfd, udpState, streaming, call, process>>

OpenFails(s) ==
  /\ at[s] = "open"
  /\ at' = [at EXCEPT ![s] = "failed"]
  /\ UNCHANGED <<boot, isReadyToLog, logBuffer, saveVars, keyVars, fsmVars>>

\* saveLogToFile: the records reach the file if the descriptor still is the
\* file; records that have moved are read from memory already freed.
WriteLog(s) ==
  /\ at[s] = "write"
  /\ LET dangling == s = "sig" /\ moved
     IN /\ file' = IF fdTable[logFd[s]] = "log" /\ ~dangling THEN upTo[s] ELSE file
        /\ process' \in IF dangling THEN {"running", "killed"} ELSE {"running"}
  /\ at' = [at EXCEPT ![s] = "close"]
  /\ UNCHANGED <<boot, isReadyToLog, logBuffer, inHandler, logFd, upTo, moved, raw, keyVars,
                 currentState, fdTable, tcpSockfd, udpSockfd, udpState, streaming, call>>

\* saveLogToFile: close the file and report "Log saved to file".
CloseLog(s) ==
  /\ at[s] = "close"
  /\ fdTable' = Fsm!Closing({logFd[s]})
  /\ logFd' = [logFd EXCEPT ![s] = -1]
  /\ at' = [at EXCEPT ![s] = "saved"]
  /\ UNCHANGED <<boot, isReadyToLog, logBuffer, inHandler, upTo, moved, file, raw, keyVars,
                 currentState, tcpSockfd, udpSockfd, udpState, streaming, call, process>>

\* signalHandler ends: "stty sane", which inherits descriptor 0, and exit.
HandlerExits(s) == at[s] \in {"saved", "failed"} /\ inHandler[s] /\ Exit

SaveAndExit(s) ==
  OpenLog(s) \/ OpenFails(s) \/ WriteLog(s) \/ CloseLog(s) \/ HandlerExits(s)

RtTaskEcatAndLogging ==
  BeginPeriod \/ AppendRecord \/ Handle("rt") \/ SaveAndExit("rt")

Running ==
  \/ Main \/ NrtTaskInterrogator \/ GetChar \/ TypeKey \/ RtTaskEcatAndLogging
  \/ Handle("sig") \/ SaveAndExit("sig")

Ended == process # "running" /\ UNCHANGED vars

Next == (process = "running" /\ Running) \/ Ended

Spec == Init /\ [][Next]_vars

\* main and the threads it has started are scheduled, and so is the handler of
\* a signal that has arrived.
Fairness ==
  /\ WF_vars(process = "running" /\ Main)
  /\ WF_vars(process = "running" /\ NrtTaskInterrogator)
  /\ WF_vars(process = "running" /\ RtTaskEcatAndLogging)
  /\ WF_vars(process = "running" /\ SaveAndExit("sig"))

FairSpec == Spec /\ Fairness
----------------------------------------------------------------------------
TypeOK ==
  /\ boot \in {"ecat", "nrt", "tasks", "paused"}
  /\ isReadyToLog \in BOOLEAN
  /\ at \in [Savers -> {"idle", "DoTask", "open", "write", "close", "saved", "failed"}]
  /\ inHandler \in [Savers -> BOOLEAN]
  /\ logBuffer \in 0..MAX_SAMPLES
  /\ logFd \in [Savers -> Fsm!Fds \cup {-1}]
  /\ upTo \in [Savers -> 0..MAX_SAMPLES]
  /\ moved \in BOOLEAN
  /\ file \in 0..MAX_SAMPLES
  /\ raw \in BOOLEAN
  /\ g_cKeyPress \in {"key", "byte"}
  /\ keyboard \in {"call", "wait"}
  /\ Fsm!TypeOK

\* s is writing the log, and its descriptor still is the file it has opened.
Writing(s) == at[s] \in {"write", "close"} /\ fdTable[logFd[s]] = "log"

\* connectUDP, which closes by number, never closes the log file under a save:
\* the sockets it has just opened have other numbers.  Only disconnectUDP, with
\* the numbers an earlier failure left behind, can.  (This is said of the first
\* save of a run.  If that one loses its descriptor to a socket, it closes the
\* socket in the end, and then connectUDP may close the file of the second.)
OnlyDisconnectClosesLog ==
  [][\A s \in Savers :
       ( /\ Writing(s)
         /\ s = "rt" => ~inHandler[s]
         /\ currentState # "DISCONNECT_STATE" )
       => (at'[s] = "saved" \/ Writing(s)')]_vars

\* The interrogator thread has tried to connect.
Tried == currentState = "CONNECT_UDP" \/ udpState # 255

\* Before it first tries to connect the program has closed its terminal: the zero
\* in the two members is descriptor 0.  So unless it ends or gets a signal earlier,
\* no exit and no handler takes the terminal out of raw mode again.
TerminalIsLost ==
  /\ [](Tried => ~TtyOpen)
  /\ [][raw /\ ~raw' => ~Tried]_vars

\* A full log ends the program, whatever the other threads do meanwhile.
FullLogEnds == (logBuffer = MAX_SAMPLES) ~> (process # "running")
----------------------------------------------------------------------------
\* FT_FBG.cpp:353, "Keyboard Input Task": what sets the operation mode of the
\* sensor has come from the keyboard.
ModeComesFromKeyboard == at["rt"] = "DoTask" => g_cKeyPress # "byte"

\* FT_FBG.cpp:198, "Log saved to file": when this is reported the file holds
\* every record that was in the log when the file was opened, at least as long
\* as no record was appended while they were written.
SavedLogIsComplete == \A s \in Savers : (at[s] = "saved" /\ ~moved) => file >= upTo[s]
=============================================================================
