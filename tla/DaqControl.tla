----------------------------- MODULE DaqControl -----------------------------
(***************************************************************************)
(* How recordings are started, stopped and ended (main.cpp): the thread    *)
(* readThread, which waits on a promise for the order to read; the two     *)
(* threads that execute commands, readByKbd and (for the TCP client)       *)
(* readByTcp, which is the main thread; and tcpThread, which owns the      *)
(* server object.  They share the atomics readStatus, readTime,            *)
(* nowReadTime and tcpServer, the plain variable use_TCP and two promises  *)
(* that are replaced while other threads use them.  Each access to shared  *)
(* state is a step of its own.                                             *)
(*                                                                         *)
(* mode is the way in: "cold" is the start of the server mode, "steady"    *)
(* the server mode once every thread has reached its wait, "batch" the -e  *)
(* option, which executes one command and calls readThread.  The client    *)
(* stays connected; the server object is used through its two promises     *)
(* (the state of the connection, the last message received) and exit().    *)
(***************************************************************************)
EXTENDS Integers

CONSTANTS Modes,     \* some of "cold", "steady" and "batch"
          Verbs,     \* the commands given: some of read, stop, exit
          MaxCmds,   \* bound on the commands given
          ColdCmds,  \* the same after a cold start
          MaxTime,   \* bound on the length given to a read command
          Outcomes   \* how the preparations of a session may turn out

ASSUME ConstantsAssumption ==
    /\ Modes \subseteq {"cold", "steady", "batch"}
    /\ Verbs \subseteq {"read", "stop", "exit"}
    /\ MaxCmds \in Nat \ {0}
    /\ ColdCmds \in 0 .. MaxCmds
    /\ MaxTime \in Nat
    /\ Outcomes \subseteq {"ok", "modeCount", "modeItem", "noDir", "noTask"}

VARIABLES
    mode,        \* how the program was started
    readStatus,  \* HOLD, DO or EXIT
    readTime,    \* the length of the reading in blocks, -1 for infinity
    nowReadTime, \* blocks read (counted up to MaxTime + 1)
    useTcp,      \* use_TCP
    flag,        \* readStartFlag_writer, and the future readThread holds
    rpc,         \* control point of readThread
    server,      \* tcpServer is not NULL
    promised,    \* tcpServer_promise
    tpc,         \* control point of tcpThread
    conn,        \* _connection_status of the server
    recv,        \* _receive_msg of the server
    stopped,     \* TcpServer::exit() was called on it
    mpc,         \* control point of readByTcp (of main, in batch mode)
    mserver,     \* readByTcp's variable server is not NULL
    pc,          \* control points of the command handlers, by thread
    arg,         \* their argument
    cmds,        \* number of commands given
    aborted,     \* an exception left a thread: std::terminate
    accepted,    \* history: number of replies "Start reading"
    sessions,    \* history: number of sessions begun
    late,        \* history: blocks read since readStatus is not DO
    calm,        \* history: the session is that of a read command which was
                 \* given to a waiting reader and is the last one given
    want         \* history: the length it asked for

shared == <<readStatus, readTime, nowReadTime, flag>>
tcpVars == <<useTcp, server, promised, tpc>>
serverVars == <<conn, recv, stopped>>
mainVars == <<mpc, mserver>>
cmdVars == <<pc, arg, cmds>>
history == <<accepted, sessions, late, calm, want>>
vars == <<mode, shared, rpc, tcpVars, serverVars, mainVars, cmdVars, aborted, history>>

Threads == {"kbd", "main"}
Lengths == -1 .. MaxTime            \* -1: the command has no length
NoMsg == [cmd |-> "none", len |-> -1]
Commands == {c \in [cmd : Verbs, len : Lengths] : c.cmd = "read" \/ c.len = -1}
Messages == Commands \union [cmd : {"none", "EXIT_MSG"}, len : {-1}]

Handlers == {"reset", "setTime", "setDo", "setFlag", "setHold", "setExit",
             "clearFlag", "exitServer", "started", "already", "said"}

TypeOK ==
    /\ mode \in Modes
    /\ readStatus \in {"HOLD", "DO", "EXIT"}
    /\ readTime \in Lengths
    /\ nowReadTime \in 0 .. MaxTime + 1
    /\ useTcp \in BOOLEAN
    /\ flag \in {"unset", "true", "false"}
    /\ rpc \in {"off", "refresh", "swap", "wait", "setup", "zeroNow", "below",
                "infinite", "block", "check", "zero", "count", "hold", "report",
                "again", "exit?", "ended"}
    /\ server \in BOOLEAN
    /\ promised \in {"unset", "server", "NULL"}
    /\ tpc \in {"start", "publish", "promise", "accept", "run", "forget",
                "promiseNull", "clear", "ended"}
    /\ conn \in {"none", "ONLINE", "EXIT"}
    /\ recv \in Messages
    /\ stopped \in BOOLEAN
    /\ mpc \in {"outer", "take", "swap", "inner", "conn", "recv", "get", "exec",
                "leave", "exitServer", "once", "launch", "join", "joined",
                "returned"}
    /\ mserver \in BOOLEAN
    /\ pc \in [Threads -> Handlers \union {"idle"}]
    /\ arg \in [Threads -> Lengths]
    /\ cmds \in 0 .. MaxCmds
    /\ aborted \in BOOLEAN
    /\ accepted \in Nat /\ sessions \in Nat
    /\ late \in 0 .. 2
    /\ calm \in BOOLEAN
    /\ want \in Lengths

Init ==
    /\ mode \in Modes
    /\ readStatus = "HOLD"
    /\ readTime = 0
    /\ nowReadTime = 0
    /\ flag = "unset"
    /\ promised = "unset"
    /\ recv = NoMsg
    /\ stopped = FALSE
    /\ pc = [p \in Threads |-> "idle"]
    /\ arg = [p \in Threads |-> -1]
    /\ cmds = 0
    /\ aborted = FALSE
    /\ accepted = 0 /\ sessions = 0 /\ late = 0
    /\ calm = FALSE /\ want = -1
    /\ \/ /\ mode = "cold"
          /\ useTcp = FALSE /\ server = FALSE /\ mserver = FALSE
          /\ tpc = "start" /\ rpc = "refresh" /\ mpc = "outer"
          /\ conn = "none"
       \/ /\ mode = "steady"
          /\ useTcp = TRUE /\ server = TRUE /\ mserver = TRUE
          /\ tpc = "run" /\ rpc = "wait"
          /\ \/ mpc = "conn" /\ conn = "none"
             \/ mpc = "get" /\ conn = "ONLINE"
       \/ /\ mode = "batch"
          /\ useTcp = FALSE /\ server = FALSE /\ mserver = FALSE
          /\ tpc = "ended" /\ rpc = "off" /\ mpc = "once"
          /\ conn = "none"

-----------------------------------------------------------------------------
(* readThread.                                                             *)

ReaderStep(from, to) ==
    /\ rpc = from
    /\ rpc' = to
    /\ UNCHANGED <<tcpVars, serverVars, mserver, cmdVars>>

ReaderGoto(from, to) == ReaderStep(from, to) /\ UNCHANGED mpc

(* output() sends its text to a client that is online.  send replaces the  *)
(* promise of the next message, and with some libraries even the one that  *)
(* waitRecv waits for: main is woken by an error text, which is no command *)
(* (TcpServer models this in full).                                        *)
OutputToClient ==
    \/ UNCHANGED mpc
    \/ /\ server /\ conn = "ONLINE" /\ ~stopped
       /\ mpc = "get" /\ recv = NoMsg
       /\ mpc' = "inner"

(* if (use_TCP): outside the server mode nothing is waited for.            *)
Refresh ==
    /\ ReaderGoto("refresh", IF useTcp THEN "swap" ELSE "setup")
    /\ UNCHANGED <<shared, aborted, history>>

\* Mutant: the promise is not replaced.
SwapFlagForgotten ==
    /\ ReaderGoto("swap", "wait")
    /\ UNCHANGED <<shared, aborted, history>>

(* A fresh promise replaces the old one, set or not.                       *)
SwapFlag ==
    /\ ReaderGoto("swap", "wait")
    /\ flag' = "unset"
    /\ UNCHANGED <<readStatus, readTime, nowReadTime, aborted, history>>

Wait ==
    /\ flag # "unset"
    /\ ReaderGoto("wait", IF flag = "true" THEN "setup" ELSE "ended")
    /\ UNCHANGED <<shared, aborted, history>>

(* saveMode, the directory, the writers and the DAQ task.  A wrong number  *)
(* of modes ends the thread; a wrong mode only resets readStatus; a wrong  *)
(* directory skips the session; a DAQ error throws.                        *)
Setup ==
    \E o \in Outcomes :
        /\ ReaderStep("setup", CASE o = "modeCount" -> "ended"
                                 [] o = "noDir" -> "again"
                                 [] OTHER -> "zeroNow")
        /\ OutputToClient
        /\ readStatus' = IF o \in {"modeItem", "noDir"} THEN "HOLD" ELSE readStatus
        /\ aborted' = (o = "noTask")
        /\ calm' = (calm /\ o = "ok")
        /\ sessions' = sessions + 1
        /\ late' = 0
        /\ UNCHANGED <<readTime, nowReadTime, flag, accepted, want>>

\* Mutant: the count starts one too low.
ZeroNowLow ==
    /\ ReaderGoto("zeroNow", "below")
    /\ nowReadTime' = -1
    /\ UNCHANGED <<readStatus, readTime, flag, aborted, history>>

ZeroNow ==
    /\ ReaderGoto("zeroNow", "below")
    /\ nowReadTime' = 0
    /\ UNCHANGED <<readStatus, readTime, flag, aborted, history>>

\* Mutant: nowReadTime <= readTime.
TestBelowOrEqual ==
    /\ ReaderGoto("below", IF nowReadTime <= readTime THEN "block" ELSE "infinite")
    /\ UNCHANGED <<shared, aborted, history>>

(* nowReadTime < readTime || readTime < 0 loads readTime twice.            *)
TestBelow ==
    /\ ReaderGoto("below", IF nowReadTime < readTime THEN "block" ELSE "infinite")
    /\ UNCHANGED <<shared, aborted, history>>

\* Mutant: readTime <= 0 stands for infinity.
TestInfiniteOrZero ==
    /\ ReaderGoto("infinite", IF readTime <= 0 THEN "block" ELSE "hold")
    /\ UNCHANGED <<shared, aborted, history>>

TestInfinite ==
    /\ ReaderGoto("infinite", IF readTime < 0 THEN "block" ELSE "hold")
    /\ UNCHANGED <<shared, aborted, history>>

(* Read one block and push it (WriteHddThread models what that does).      *)
ReadOneBlock ==
    /\ ReaderGoto("block", "check")
    /\ late' = IF readStatus = "DO" \/ late = 2 THEN late ELSE late + 1
    /\ UNCHANGED <<shared, aborted, accepted, sessions, calm, want>>

\* Mutant: the loop does not look at readStatus.
CheckStatusNever ==
    /\ ReaderGoto("check", "count")
    /\ UNCHANGED <<shared, aborted, history>>

(* if (readStatus != DO) readTime = 0                                      *)
CheckStatus ==
    /\ ReaderGoto("check", IF readStatus # "DO" THEN "zero" ELSE "count")
    /\ UNCHANGED <<shared, aborted, history>>

ZeroTime ==
    /\ ReaderGoto("zero", "count")
    /\ readTime' = 0
    /\ UNCHANGED <<readStatus, nowReadTime, flag, aborted, history>>

CountBlock ==
    /\ ReaderGoto("count", "below")
    /\ nowReadTime' = IF nowReadTime > MaxTime THEN nowReadTime ELSE nowReadTime + 1
    /\ UNCHANGED <<readStatus, readTime, flag, aborted, history>>

\* Mutant: the promise is renewed when the reading stops, too.
HoldAndSwap ==
    /\ ReaderGoto("hold", "report")
    /\ readStatus' = "HOLD"
    /\ flag' = "unset"
    /\ UNCHANGED <<readTime, nowReadTime, aborted, history>>

Hold ==
    /\ ReaderGoto("hold", "report")
    /\ readStatus' = "HOLD"
    /\ UNCHANGED <<readTime, nowReadTime, flag, aborted, history>>

(* The task is cleared, the length reported and the writers are joined.    *)
Report ==
    /\ ReaderStep("report", "again")
    /\ OutputToClient
    /\ calm' = FALSE
    /\ UNCHANGED <<shared, aborted, accepted, sessions, late, want>>

(* while (use_TCP && readStatus != EXIT)                                   *)
TestServerMode ==
    /\ ReaderGoto("again", IF useTcp THEN "exit?" ELSE "ended")
    /\ UNCHANGED <<shared, aborted, history>>

TestExit ==
    /\ ReaderGoto("exit?", IF readStatus = "EXIT" THEN "ended" ELSE "refresh")
    /\ UNCHANGED <<shared, aborted, history>>

Reader ==
    \/ Refresh \/ SwapFlag \/ Wait \/ Setup \/ ZeroNow \/ TestBelow
    \/ TestInfinite \/ ReadOneBlock \/ CheckStatus \/ ZeroTime \/ CountBlock
    \/ Hold \/ Report \/ TestServerMode \/ TestExit

-----------------------------------------------------------------------------
(* The command handlers, run by thread p.                                  *)

FirstStep(c) ==
    CASE c.cmd = "read" -> "reset"
      [] c.cmd = "stop" -> "setHold"
      [] c.cmd = "exit" -> "setExit"

(* CmdHelper::exec calls the handler.                                      *)
Begin(p, c) ==
    /\ pc' = [pc EXCEPT ![p] = FirstStep(c)]
    /\ arg' = [arg EXCEPT ![p] = c.len]
    /\ calm' = /\ c.cmd = "read"
               /\ rpc \in {"wait", "off"} /\ flag = "unset"
               /\ \A q \in Threads \ {p} : pc[q] = "idle"
    /\ want' = c.len
    /\ UNCHANGED <<accepted, sessions, late>>

HandlerGoto(p, from, to) ==
    /\ pc[p] = from
    /\ pc' = [pc EXCEPT ![p] = to]
    /\ UNCHANGED <<rpc, nowReadTime, tcpVars, mainVars, arg, cmds, aborted,
                   sessions, calm, want>>

(* startRead: readTime = -1, then the argument, if there is one; then the  *)
(* status, and at last the promise.                                        *)
ResetTime(p) ==
    /\ HandlerGoto(p, "reset", "setTime")
    /\ readTime' = -1
    /\ late' = 0
    /\ UNCHANGED <<readStatus, flag, serverVars, accepted>>

SetTime(p) ==
    /\ HandlerGoto(p, "setTime", "setDo")
    /\ readTime' = IF arg[p] = -1 THEN readTime ELSE arg[p]
    /\ late' = 0
    /\ UNCHANGED <<readStatus, flag, serverVars, accepted>>

SetDo(p) ==
    /\ HandlerGoto(p, "setDo", "setFlag")
    /\ readStatus' = "DO"
    /\ late' = 0
    /\ UNCHANGED <<readTime, flag, serverVars, accepted>>

SetFlag(p) ==
    /\ HandlerGoto(p, "setFlag", IF flag = "unset" THEN "started" ELSE "already")
    /\ flag' = IF flag = "unset" THEN "true" ELSE flag
    /\ accepted' = accepted + (IF flag = "unset" THEN 1 ELSE 0)
    /\ UNCHANGED <<readStatus, readTime, serverVars, late>>

(* stopRead *)
SetHold(p) ==
    /\ HandlerGoto(p, "setHold", "said")
    /\ readStatus' = "HOLD"
    /\ UNCHANGED <<readTime, flag, serverVars, accepted, late>>

(* exitRead: the status, the promise, and the server.                      *)
SetExit(p) ==
    /\ HandlerGoto(p, "setExit", "clearFlag")
    /\ readStatus' = "EXIT"
    /\ UNCHANGED <<readTime, flag, serverVars, accepted, late>>

ClearFlag(p) ==
    /\ HandlerGoto(p, "clearFlag", "exitServer")
    /\ flag' = IF flag = "unset" THEN "false" ELSE flag
    /\ UNCHANGED <<readStatus, readTime, serverVars, accepted, late>>

\* Mutant: the server is not told to exit.
ExitServerForgotten(p) ==
    /\ HandlerGoto(p, "exitServer", "said")
    /\ UNCHANGED <<readStatus, readTime, flag, serverVars, accepted, late>>

(* TcpServer::exit sets what is not set yet and stops the io_service.      *)
ServerExit ==
    IF server
    THEN /\ stopped' = TRUE
         /\ conn' = IF conn = "none" THEN "EXIT" ELSE conn
         /\ recv' = IF recv = NoMsg THEN [cmd |-> "EXIT_MSG", len |-> -1] ELSE recv
    ELSE UNCHANGED serverVars

ExitServer(p) ==
    /\ HandlerGoto(p, "exitServer", "said")
    /\ ServerExit
    /\ UNCHANGED <<readStatus, readTime, flag, accepted, late>>

Handler(p) ==
    \/ ResetTime(p) \/ SetTime(p) \/ SetDo(p) \/ SetFlag(p) \/ SetHold(p)
    \/ SetExit(p) \/ ClearFlag(p) \/ ExitServer(p)

Replying(p) == pc[p] \in {"started", "already", "said"}

MoreCommands == cmds < (IF mode = "cold" THEN ColdCmds ELSE MaxCmds)

-----------------------------------------------------------------------------
(* readByKbd executes what is typed.                                       *)

KbdCommand(c) ==
    /\ mode # "batch"
    /\ pc["kbd"] = "idle"
    /\ MoreCommands
    /\ cmds' = cmds + 1
    /\ Begin("kbd", c)
    /\ UNCHANGED <<shared, rpc, tcpVars, serverVars, mainVars, aborted>>

KbdReply ==
    /\ Replying("kbd")
    /\ pc' = [pc EXCEPT !["kbd"] = "idle"]
    /\ OutputToClient
    /\ UNCHANGED <<shared, rpc, tcpVars, serverVars, mserver, arg, cmds,
                   aborted, history>>

-----------------------------------------------------------------------------
(* tcpThread.                                                              *)

TcpGoto(from, to) ==
    /\ tpc = from
    /\ tpc' = to
    /\ UNCHANGED <<shared, rpc, serverVars, mainVars, cmdVars, history>>

UseTcp ==
    /\ TcpGoto("start", "publish")
    /\ useTcp' = TRUE
    /\ UNCHANGED <<server, promised, aborted>>

Publish ==
    /\ TcpGoto("publish", "promise")
    /\ server' = TRUE
    /\ UNCHANGED <<useTcp, promised, aborted>>

(* set_value throws when the promise has its value already.                *)
SetPromise(value) ==
    /\ promised' = IF promised = "unset" THEN value ELSE promised
    /\ aborted' = (promised # "unset")

PromiseServer ==
    /\ TcpGoto("promise", "accept")
    /\ SetPromise("server")
    /\ UNCHANGED <<useTcp, server>>

StartAccept ==
    /\ TcpGoto("accept", "run")
    /\ UNCHANGED <<useTcp, server, promised, aborted>>

(* io_service::run returns once it was stopped; status is EXIT then.       *)
RunReturns ==
    /\ stopped
    /\ TcpGoto("run", "forget")
    /\ UNCHANGED <<useTcp, server, promised, aborted>>

(* waitAllDone gives a waitRecv that has its message 100 ms to return,     *)
(* which is taken to be enough; then tcpServer = NULL, and the server goes *)
(* out of scope.                                                           *)
Forget ==
    /\ mpc = "get" => recv = NoMsg
    /\ TcpGoto("forget", "promiseNull")
    /\ server' = FALSE
    /\ UNCHANGED <<useTcp, promised, aborted>>

PromiseNull ==
    /\ TcpGoto("promiseNull", "clear")
    /\ SetPromise("NULL")
    /\ UNCHANGED <<useTcp, server>>

ClearUseTcp ==
    /\ TcpGoto("clear", "ended")
    /\ useTcp' = FALSE
    /\ UNCHANGED <<server, promised, aborted>>

Tcp ==
    \/ UseTcp \/ Publish \/ PromiseServer \/ StartAccept \/ RunReturns
    \/ Forget \/ PromiseNull \/ ClearUseTcp

Destroyed == mode # "batch" /\ tpc \in {"promiseNull", "clear", "ended"}

-----------------------------------------------------------------------------
(* The client, through the handlers that io_service::run calls.            *)

ClientConnects ==
    /\ tpc = "run" /\ ~stopped /\ conn = "none"
    /\ conn' = "ONLINE"
    /\ UNCHANGED <<shared, rpc, tcpVars, recv, stopped, mainVars, cmdVars,
                   aborted, history>>

(* A message that arrives while the last one is still there is dropped.    *)
ClientSends(c) ==
    /\ tpc = "run" /\ ~stopped /\ conn = "ONLINE"
    /\ MoreCommands
    /\ cmds' = cmds + 1
    /\ recv' = IF recv = NoMsg THEN c ELSE recv
    /\ UNCHANGED <<shared, rpc, tcpVars, conn, stopped, mainVars, pc, arg,
                   aborted, history>>

-----------------------------------------------------------------------------
(* readByTcp, and main after and (in batch mode) instead of it.            *)

MainGoto(from, to) ==
    /\ mpc = from
    /\ mpc' = to
    /\ UNCHANGED <<readStatus, readTime, nowReadTime, useTcp, server, tpc, cmds,
                   aborted>>

LoopOuter ==
    /\ MainGoto("outer", IF readStatus = "EXIT" THEN "leave" ELSE "take")
    /\ UNCHANGED <<flag, rpc, promised, serverVars, mserver, pc, arg, history>>

Take ==
    /\ promised # "unset"
    /\ MainGoto("take", "swap")
    /\ mserver' = (promised = "server")
    /\ UNCHANGED <<flag, rpc, promised, serverVars, pc, arg, history>>

SwapServer ==
    /\ MainGoto("swap", "inner")
    /\ promised' = "unset"
    /\ UNCHANGED <<flag, rpc, serverVars, mserver, pc, arg, history>>

LoopInner ==
    /\ MainGoto("inner", IF mserver /\ readStatus # "EXIT" THEN "conn" ELSE "outer")
    /\ UNCHANGED <<flag, rpc, promised, serverVars, mserver, pc, arg, history>>

(* is_connected(-1): before start_accept there is no future to wait for,   *)
(* and the answer is no.                                                   *)
IsConnected ==
    /\ ~Destroyed
    /\ tpc = "accept" \/ conn # "none"
    /\ MainGoto("conn", IF tpc # "accept" /\ conn = "ONLINE" THEN "recv" ELSE "outer")
    /\ UNCHANGED <<flag, rpc, promised, serverVars, mserver, pc, arg, history>>

(* waitRecv forgets what has been received so far, then waits.             *)
ClearRecv ==
    /\ ~Destroyed
    /\ MainGoto("recv", "get")
    /\ recv' = NoMsg
    /\ UNCHANGED <<flag, rpc, promised, conn, stopped, mserver, pc, arg, history>>

GetExit ==
    /\ ~Destroyed
    /\ recv.cmd = "EXIT_MSG"
    /\ MainGoto("get", "outer")
    /\ UNCHANGED <<flag, rpc, promised, serverVars, mserver, pc, arg, history>>

GetCommand ==
    /\ ~Destroyed
    /\ recv \in Commands
    /\ MainGoto("get", "exec")
    /\ Begin("main", recv)
    /\ UNCHANGED <<flag, rpc, promised, serverVars, mserver>>

(* Use of a server that tcpThread has destroyed: a crash, the error text   *)
(* of the broken promise taken for a command, or any other answer.         *)
UseDestroyed ==
    /\ Destroyed
    /\ mpc \in {"conn", "recv", "get"}
    /\ \/ aborted' = TRUE /\ UNCHANGED mpc
       \/ mpc' \in {"inner", "outer"} /\ UNCHANGED aborted
    /\ UNCHANGED <<shared, rpc, tcpVars, serverVars, mserver, cmdVars, history>>

MainReply ==
    /\ Replying("main")
    /\ MainGoto("exec", IF mode = "batch" THEN "launch" ELSE "inner")
    /\ pc' = [pc EXCEPT !["main"] = "idle"]
    /\ UNCHANGED <<flag, rpc, promised, serverVars, mserver, arg, history>>

(* The loop was left: wake the reader, stop the server, join both threads. *)
Leave ==
    /\ MainGoto("leave", "exitServer")
    /\ flag' = IF flag = "unset" THEN "false" ELSE flag
    /\ UNCHANGED <<rpc, promised, serverVars, mserver, pc, arg, history>>

LeaveServer ==
    /\ MainGoto("exitServer", "join")
    /\ ServerExit
    /\ UNCHANGED <<flag, rpc, promised, mserver, pc, arg, history>>

JoinReader ==
    /\ rpc = "ended"
    /\ MainGoto("join", "joined")
    /\ UNCHANGED <<flag, rpc, promised, serverVars, mserver, pc, arg, history>>

JoinTcp ==
    /\ tpc = "ended"
    /\ MainGoto("joined", "returned")
    /\ UNCHANGED <<flag, rpc, promised, serverVars, mserver, pc, arg, history>>

(* main -e: one command, then readThread in the main thread.               *)
Once(c) ==
    /\ mpc = "once"
    /\ mpc' = "exec"
    /\ cmds' = cmds + 1
    /\ Begin("main", c)
    /\ UNCHANGED <<shared, rpc, tcpVars, serverVars, mserver, aborted>>

Launch ==
    /\ MainGoto("launch", "join")
    /\ rpc' = "refresh"
    /\ UNCHANGED <<flag, promised, serverVars, mserver, pc, arg, history>>

Main ==
    \/ LoopOuter \/ Take \/ SwapServer \/ LoopInner \/ IsConnected \/ ClearRecv
    \/ GetExit \/ GetCommand \/ UseDestroyed \/ MainReply \/ Leave \/ LeaveServer
    \/ JoinReader \/ JoinTcp \/ Launch

-----------------------------------------------------------------------------
Over == aborted \/ mpc = "returned"

Step(action) == ~Over /\ action /\ UNCHANGED mode

Next ==
    \/ Step(Reader) \/ Step(Tcp) \/ Step(Main) \/ Step(KbdReply)
    \/ Step(ClientConnects)
    \/ \E p \in Threads : Step(Handler(p))
    \/ \E c \in Commands : Step(KbdCommand(c)) \/ Step(ClientSends(c)) \/ Step(Once(c))

(* Every thread keeps running; nobody has to type or to send anything.     *)
Fairness ==
    /\ WF_vars(Step(Reader))
    /\ WF_vars(Step(Tcp))
    /\ WF_vars(Step(Main \/ Handler("main")))
    /\ WF_vars(Step(KbdReply \/ Handler("kbd")))

Spec == Init /\ [][Next]_vars
FairSpec == Spec /\ Fairness

-----------------------------------------------------------------------------
(* OrderedSessions: once the server runs, readThread records only on a     *)
(* read command it accepted: never more sessions than replies "Start       *)
(* reading" (README.md:15-16).  At a cold start, and when use_TCP is FALSE *)
(* again after exit, there may be one more.                                *)
OrderedSessions == mode = "steady" /\ useTcp => sessions <= accepted

(* ExactLength: read n, given to a waiting reader and not followed by      *)
(* another command, reads exactly n blocks, and read without a length does *)
(* not end, although readTime passes through -1 and is loaded twice in the *)
(* loop condition while the handler runs.                                  *)
ExactLength == calm /\ rpc = "hold" => nowReadTime = want

(* StopBound: once readStatus is not DO any more, at most one more block   *)
(* is read, unless a read command has intervened.                          *)
StopBound == late <= 1

(* StopEnds: a session whose readStatus has left DO comes to an end, also  *)
(* when the command was read without a length.                             *)
StopEnds ==
    readStatus # "DO" ~> readStatus = "DO" \/ rpc \in {"off", "wait", "ended"} \/ Over

(* AcceptedStarts: once the server runs, every read command answered with  *)
(* "Start reading" gets a session of its own, whatever the reader was      *)
(* doing when it was given.                                                *)
AcceptedStarts ==
    \A k \in 1 .. MaxCmds :
        mode = "steady" /\ accepted = k ~> sessions >= k \/ Over

Interferes(q, p) ==
    pc[q] \notin {"idle", "said"} \union (IF q = p THEN {"clearFlag", "exitServer"} ELSE {})
Waiting(p) == p = "kbd" => mpc = "get" /\ recv = NoMsg
ExitsAlone(p) ==
    /\ mode = "steady"
    /\ pc[p] = "clearFlag"
    /\ readStatus = "EXIT"
    /\ rpc = "wait" /\ flag = "unset"
    /\ Waiting(p)

(* ExitFromIdle: exit, given by either thread while the reader and the     *)
(* other thread wait, ends the process, unless another command intervenes. *)
ExitFromIdle ==
    \A p \in Threads :
        ExitsAlone(p) ~> mpc = "returned" \/ \E q \in Threads : Interferes(q, p)

(* BatchReturns: -e with a command that leaves a length of at least 0      *)
(* returns after the recording, or throws.                                 *)
BatchReturns ==
    mode = "batch" /\ mpc = "launch" /\ readTime >= 0 ~> Over

(* ExitReturns: exit, given as the last command while blocks are being     *)
(* read, makes the program finish this work and return (main.cpp:826: "Now *)
(* it's reading, please wait for it finishes work").                       *)
Reading == rpc \in {"below", "infinite", "block", "check", "zero", "count"}
ExitReturns ==
    \A p \in Threads :
        /\ pc[p] = "setExit" /\ cmds = MaxCmds /\ Reading /\ Waiting(p)
        /\ \A q \in Threads \ {p} : pc[q] = "idle"
        ~> Over
=============================================================================
