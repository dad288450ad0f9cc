--------------------------- MODULE DaqControl_proof ---------------------------
(***************************************************************************)
(* Proofs about DaqControl, for every number of commands given, every      *)
(* length of a reading and every way in which the program is started and   *)
(* a session's preparations turn out.                                      *)
(***************************************************************************)
EXTENDS DaqControl, TLAPS

(* In batch mode there is neither a keyboard thread nor a server, and the  *)
(* reader is started once the command is done; in the other modes it runs. *)
BatchInv ==
    /\ mode = "batch" =>
          /\ mpc \in {"once", "exec", "launch", "join", "joined", "returned"}
          /\ tpc = "ended" /\ ~useTcp /\ ~server /\ pc["kbd"] = "idle"
          /\ mpc \in {"once", "exec", "launch"} => rpc = "off"
          /\ mpc = "once" => cmds = 0
    /\ mode # "batch" => rpc # "off" /\ mpc \notin {"once", "launch"}
    /\ mpc # "exec" => pc["main"] = "idle"

(* After the block that came too late the reader finds that readStatus is  *)
(* not DO, and readTime is 0 when the loop looks at it.                    *)
StopInv ==
    /\ StopBound
    /\ late = 1 =>
          /\ readStatus # "DO"
          /\ rpc \notin {"zeroNow", "block"}
          /\ rpc \in {"count", "below", "infinite"} => readTime = 0

(* A promise that is TRUE while the reader waits for it, or has waited,    *)
(* stands for a reply that has no session yet.                             *)
Granted == rpc = "setup" \/ (rpc = "wait" /\ flag = "true")
SessionInv ==
    mode = "steady" =>
        /\ tpc # "start"
        /\ OrderedSessions
        /\ useTcp /\ Granted => sessions + 1 <= accepted

(* What the session of a calm read goes through: the handler of the read   *)
(* command, the recording, or no session at all, because the loop of       *)
(* readByTcp was left and has set the promise to FALSE.                    *)
Ordering(p) ==
    /\ pc[p] \in {"reset", "setTime", "setDo", "setFlag"}
    /\ \A q \in Threads \ {p} : pc[q] = "idle"
    /\ arg[p] = want
    /\ pc[p] = "setTime" => readTime = -1
    /\ pc[p] \in {"setDo", "setFlag"} => readTime = want
    /\ pc[p] = "setFlag" => readStatus = "DO"
    /\ \/ rpc \in {"wait", "off"} /\ flag = "unset"
       \/ rpc \in {"wait", "ended"} /\ flag = "false"

Recording ==
    /\ \A p \in Threads : pc[p] \in {"idle", "started"}
    /\ readTime = want
    /\ rpc # "report" => readStatus = "DO"
    /\ rpc \in {"off", "refresh", "wait", "setup", "zeroNow", "below", "infinite",
                "block", "check", "count", "hold", "report"}
    /\ rpc = "wait" => flag = "true"
    /\ rpc \in {"off", "refresh"} => mode = "batch"
    /\ rpc = "below" => want = -1 \/ nowReadTime <= want
    /\ rpc = "infinite" => want = -1 \/ nowReadTime = want
    /\ rpc \in {"block", "check", "count"} => want = -1 \/ nowReadTime < want
    /\ rpc = "hold" => nowReadTime = want

Refused == rpc = "ended" \/ (rpc = "wait" /\ flag = "false")

CalmInv == calm => Recording \/ Refused \/ \E p \in Threads : Ordering(p)

IInv == TypeOK /\ BatchInv /\ StopInv /\ SessionInv /\ CalmInv

-----------------------------------------------------------------------------
(* The types of what the steps put together.                               *)

LEMMA NumberFacts ==
    /\ MaxCmds \in Nat \ {0} /\ MaxTime \in Nat /\ ColdCmds \in 0 .. MaxCmds
    /\ -1 \in Lengths /\ 0 \in Lengths
    /\ \A n \in Lengths : n \in Int /\ n >= -1 /\ n <= MaxTime
  BY ConstantsAssumption DEF ConstantsAssumption, Lengths

LEMMA MessageFacts ==
    /\ NoMsg \in Messages /\ [cmd |-> "EXIT_MSG", len |-> -1] \in Messages
    /\ \A c \in Commands : c \in Messages /\ c.len \in Lengths
  BY DEF NoMsg, Messages, Commands

LEMMA FirstStepFacts ==
    ASSUME NEW c \in Commands
    PROVE  /\ FirstStep(c) \in {"reset", "setHold", "setExit"}
           /\ c.cmd = "read" => FirstStep(c) = "reset"
<1>1. c.cmd \in {"read", "stop", "exit"}
  BY ConstantsAssumption DEF ConstantsAssumption, Commands
<1> QED
  BY <1>1 DEF FirstStep

LEMMA BeginType ==
    ASSUME TypeOK, NEW p \in Threads, NEW c \in Commands, Begin(p, c)
    PROVE  /\ pc' \in [Threads -> Handlers \union {"idle"}] /\ arg' \in [Threads -> Lengths]
           /\ pc'[p] \in {"reset", "setHold", "setExit"}
           /\ \A q \in Threads \ {p} : pc'[q] = pc[q]
           /\ calm' \in BOOLEAN /\ want' = c.len /\ want' \in Lengths
           /\ UNCHANGED <<accepted, sessions, late>>
<1>1. FirstStep(c) \in Handlers \union {"idle"} /\ FirstStep(c) \in {"reset", "setHold", "setExit"}
  BY FirstStepFacts DEF Handlers
<1>2. /\ pc \in [Threads -> Handlers \union {"idle"}] /\ arg \in [Threads -> Lengths]
      /\ c.len \in Lengths
  BY MessageFacts DEF TypeOK
<1>3. calm' \in BOOLEAN
  BY DEF Begin
<1> QED
  BY <1>1, <1>2, <1>3 DEF Begin

-----------------------------------------------------------------------------
(* What the actions leave alone.                                           *)

LEMMA ReaderFrame ==
    ASSUME Reader
    PROVE  /\ UNCHANGED <<tcpVars, serverVars, mserver, cmdVars, accepted, want>>
           /\ mpc' = mpc \/ (mpc = "get" /\ mpc' = "inner")
<1> USE DEF ReaderGoto, ReaderStep, OutputToClient, history
<1>1. CASE Refresh \/ SwapFlag \/ Wait \/ ZeroNow \/ TestBelow
  BY <1>1 DEF Refresh, SwapFlag, Wait, ZeroNow, TestBelow
<1>2. CASE TestInfinite \/ ReadOneBlock \/ CheckStatus \/ ZeroTime \/ CountBlock
  BY <1>2 DEF TestInfinite, ReadOneBlock, CheckStatus, ZeroTime, CountBlock
<1>3. CASE Hold \/ Report \/ TestServerMode \/ TestExit
  BY <1>3 DEF Hold, Report, TestServerMode, TestExit
<1>4. CASE Setup
  BY <1>4 DEF Setup
<1> QED
  BY <1>1, <1>2, <1>3, <1>4 DEF Reader

LEMMA TcpFrame ==
    ASSUME Tcp
    PROVE  UNCHANGED <<shared, rpc, serverVars, mainVars, cmdVars, history>>
  BY DEF Tcp, UseTcp, Publish, PromiseServer, StartAccept, RunReturns, Forget, PromiseNull,
         ClearUseTcp, TcpGoto

LEMMA MainFrame ==
    ASSUME Main
    PROVE  /\ UNCHANGED <<readStatus, readTime, nowReadTime, useTcp, server, tpc, cmds, accepted,
                          sessions, late>>
           /\ rpc' = rpc \/ Launch
           /\ flag' = flag \/ Leave
           /\ UNCHANGED <<pc, arg, calm, want>> \/ GetCommand \/ MainReply
<1> USE DEF MainGoto, history, shared, tcpVars, cmdVars
<1>1. CASE LoopOuter \/ Take \/ SwapServer \/ LoopInner \/ IsConnected
  BY <1>1 DEF LoopOuter, Take, SwapServer, LoopInner, IsConnected
<1>2. CASE ClearRecv \/ GetExit \/ Leave \/ LeaveServer \/ UseDestroyed
  BY <1>2 DEF ClearRecv, GetExit, Leave, LeaveServer, UseDestroyed
<1>3. CASE GetCommand \/ MainReply
  BY <1>3 DEF GetCommand, MainReply, Begin
<1>4. CASE JoinReader \/ JoinTcp \/ Launch
  BY <1>4 DEF JoinReader, JoinTcp, Launch
<1> QED
  BY <1>1, <1>2, <1>3, <1>4 DEF Main

LEMMA HandlerFrame ==
    ASSUME NEW p \in Threads, Handler(p)
    PROVE  /\ UNCHANGED <<rpc, nowReadTime, tcpVars, mainVars, arg, cmds, aborted, sessions, calm,
                          want>>
           /\ pc[p] \in {"reset", "setTime", "setDo", "setFlag", "setHold", "setExit", "clearFlag",
                         "exitServer"}
           /\ \E t \in Handlers : pc' = [pc EXCEPT ![p] = t]
<1> USE DEF HandlerGoto, Handlers
<1>1. CASE ResetTime(p) \/ SetTime(p) \/ SetDo(p)
  BY <1>1 DEF ResetTime, SetTime, SetDo
<1>2. CASE SetFlag(p)
  BY <1>2 DEF SetFlag
<1>3. CASE SetHold(p) \/ SetExit(p)
  BY <1>3 DEF SetHold, SetExit
<1>4. CASE ClearFlag(p) \/ ExitServer(p)
  BY <1>4 DEF ClearFlag, ExitServer
<1> QED
  BY <1>1, <1>2, <1>3, <1>4 DEF Handler

-----------------------------------------------------------------------------
(* Types.                                                                  *)

LEMMA ReaderType ==
    ASSUME TypeOK, Reader, UNCHANGED mode
    PROVE  TypeOK'
<1>1. /\ mode' \in Modes /\ useTcp' \in BOOLEAN /\ server' \in BOOLEAN
      /\ promised' \in {"unset", "server", "NULL"}
      /\ tpc' \in {"start", "publish", "promise", "accept", "run", "forget", "promiseNull",
                   "clear", "ended"}
      /\ conn' \in {"none", "ONLINE", "EXIT"} /\ recv' \in Messages /\ stopped' \in BOOLEAN
      /\ mpc' \in {"outer", "take", "swap", "inner", "conn", "recv", "get", "exec", "leave",
                   "exitServer", "once", "launch", "join", "joined", "returned"}
      /\ mserver' \in BOOLEAN /\ pc' \in [Threads -> Handlers \union {"idle"}]
      /\ arg' \in [Threads -> Lengths] /\ cmds' \in 0 .. MaxCmds /\ accepted' \in Nat
      /\ want' \in Lengths
  BY ReaderFrame DEF TypeOK, tcpVars, serverVars, cmdVars
<1>t. /\ readStatus \in {"HOLD", "DO", "EXIT"} /\ readTime \in Lengths
      /\ nowReadTime \in 0 .. MaxTime + 1 /\ flag \in {"unset", "true", "false"}
      /\ useTcp \in BOOLEAN /\ aborted \in BOOLEAN /\ sessions \in Nat /\ late \in 0 .. 2
      /\ calm \in BOOLEAN
  BY DEF TypeOK
<1>2. /\ readStatus' \in {"HOLD", "DO", "EXIT"} /\ readTime' \in Lengths
      /\ nowReadTime' \in 0 .. MaxTime + 1 /\ flag' \in {"unset", "true", "false"}
      /\ rpc' \in {"off", "refresh", "swap", "wait", "setup", "zeroNow", "below", "infinite",
                   "block", "check", "zero", "count", "hold", "report", "again", "exit?", "ended"}
      /\ aborted' \in BOOLEAN /\ sessions' \in Nat /\ late' \in 0 .. 2 /\ calm' \in BOOLEAN
  <2> USE <1>t DEF ReaderGoto, ReaderStep, shared, history
  <2>1. CASE Refresh \/ SwapFlag \/ Wait \/ TestBelow \/ TestInfinite
    BY <2>1 DEF Refresh, SwapFlag, Wait, TestBelow, TestInfinite
  <2>2. CASE ReadOneBlock
    BY <2>2 DEF ReadOneBlock
  <2>3. CASE CheckStatus \/ Hold \/ Report \/ TestServerMode \/ TestExit
    BY <2>3 DEF CheckStatus, Hold, Report, TestServerMode, TestExit
  <2>4. CASE ZeroTime \/ ZeroNow
    BY <2>4, NumberFacts DEF ZeroTime, ZeroNow
  <2>5. CASE CountBlock
    BY <2>5, NumberFacts DEF CountBlock
  <2>6. CASE Setup
    <3>1. PICK o \in Outcomes :
             /\ rpc' = (CASE o = "modeCount" -> "ended" [] o = "noDir" -> "again"
                          [] OTHER -> "zeroNow")
             /\ readStatus' = IF o \in {"modeItem", "noDir"} THEN "HOLD" ELSE readStatus
             /\ aborted' = (o = "noTask")
             /\ calm' = (calm /\ o = "ok")
             /\ sessions' = sessions + 1
             /\ late' = 0
             /\ UNCHANGED <<readTime, nowReadTime, flag>>
      BY <2>6 DEF Setup
    <3>2. aborted' \in BOOLEAN /\ calm' \in BOOLEAN
      BY <3>1
    <3>3. rpc' \in {"ended", "again", "zeroNow"}
      BY <3>1
    <3> QED
      BY <3>1, <3>2, <3>3
  <2> QED
    BY <2>1, <2>2, <2>3, <2>4, <2>5, <2>6 DEF Reader
<1> QED
  BY <1>1, <1>2 DEF TypeOK

LEMMA TcpType ==
    ASSUME TypeOK, Tcp, UNCHANGED mode
    PROVE  TypeOK'
<1>1. /\ useTcp' \in BOOLEAN /\ server' \in BOOLEAN /\ promised' \in {"unset", "server", "NULL"}
      /\ tpc' \in {"start", "publish", "promise", "accept", "run", "forget", "promiseNull",
                   "clear", "ended"}
      /\ aborted' \in BOOLEAN
  <2>1. (promised # "unset") \in BOOLEAN
    OBVIOUS
  <2>2. CASE PromiseServer \/ PromiseNull
    BY <2>1, <2>2 DEF PromiseServer, PromiseNull, SetPromise, TcpGoto, TypeOK
  <2>3. CASE ~(PromiseServer \/ PromiseNull)
    BY <2>3 DEF Tcp, UseTcp, Publish, StartAccept, RunReturns, Forget, ClearUseTcp, TcpGoto, TypeOK
  <2> QED
    BY <2>2, <2>3
<1> QED
  BY <1>1, TcpFrame DEF TypeOK, shared, serverVars, mainVars, cmdVars, history

(* The fields of the server that its exit() may set.                       *)
LEMMA ServerExitType ==
    ASSUME TypeOK, ServerExit
    PROVE  conn' \in {"none", "ONLINE", "EXIT"} /\ recv' \in Messages /\ stopped' \in BOOLEAN
  BY MessageFacts DEF TypeOK, ServerExit, serverVars

LEMMA MainType ==
    ASSUME TypeOK, Main, UNCHANGED mode
    PROVE  TypeOK'
<1>1. /\ UNCHANGED <<readStatus, readTime, nowReadTime, useTcp, server, tpc, cmds, accepted,
                     sessions, late>>
      /\ flag' \in {"unset", "true", "false"}
      /\ rpc' = rpc \/ rpc' = "refresh"
  BY MainFrame DEF TypeOK, Leave, Launch
<1>2. /\ pc' \in [Threads -> Handlers \union {"idle"}] /\ arg' \in [Threads -> Lengths]
      /\ calm' \in BOOLEAN /\ want' \in Lengths
  <2>1. CASE GetCommand
    BY <2>1, BeginType DEF GetCommand, Threads
  <2>2. CASE MainReply
    BY <2>2 DEF MainReply, history, TypeOK
  <2>3. CASE UNCHANGED <<pc, arg, calm, want>>
    BY <2>3 DEF TypeOK
  <2> QED
    BY <2>1, <2>2, <2>3, MainFrame
<1>3. /\ promised' \in {"unset", "server", "NULL"} /\ conn' \in {"none", "ONLINE", "EXIT"}
      /\ recv' \in Messages /\ stopped' \in BOOLEAN /\ mserver' \in BOOLEAN /\ aborted' \in BOOLEAN
      /\ mpc' \in {"outer", "take", "swap", "inner", "conn", "recv", "get", "exec", "leave",
                   "exitServer", "once", "launch", "join", "joined", "returned"}
  <2> USE DEF MainGoto, serverVars, tcpVars, TypeOK
  <2>1. CASE LoopOuter \/ SwapServer \/ LoopInner \/ IsConnected
    BY <2>1 DEF LoopOuter, SwapServer, LoopInner, IsConnected
  <2>2. CASE Take
    <3>1. (promised = "server") \in BOOLEAN
      OBVIOUS
    <3> QED
      BY <2>2, <3>1 DEF Take
  <2>3. CASE ClearRecv
    BY <2>3, MessageFacts DEF ClearRecv
  <2>4. CASE GetExit \/ GetCommand \/ UseDestroyed \/ MainReply
    BY <2>4 DEF GetExit, GetCommand, UseDestroyed, MainReply
  <2>5. CASE Leave \/ JoinReader \/ JoinTcp \/ Launch
    BY <2>5 DEF Leave, JoinReader, JoinTcp, Launch
  <2>6. CASE LeaveServer
    BY <2>6, ServerExitType DEF LeaveServer
  <2> QED
    BY <2>1, <2>2, <2>3, <2>4, <2>5, <2>6 DEF Main
<1> QED
  BY <1>1, <1>2, <1>3 DEF TypeOK

LEMMA HandlerType ==
    ASSUME TypeOK, NEW p \in Threads, Handler(p), UNCHANGED mode
    PROVE  TypeOK'
<1>1. pc' \in [Threads -> Handlers \union {"idle"}]
  BY HandlerFrame DEF TypeOK
<1>2. /\ readStatus' \in {"HOLD", "DO", "EXIT"} /\ readTime' \in Lengths
      /\ flag' \in {"unset", "true", "false"} /\ conn' \in {"none", "ONLINE", "EXIT"}
      /\ recv' \in Messages /\ stopped' \in BOOLEAN /\ accepted' \in Nat /\ late' \in 0 .. 2
  <2>t. arg[p] \in Lengths
    BY DEF TypeOK
  <2> USE DEF TypeOK, HandlerGoto, serverVars
  <2>1. CASE ResetTime(p) \/ SetTime(p) \/ SetDo(p)
    BY <2>t, <2>1, NumberFacts DEF ResetTime, SetTime, SetDo
  <2>2. CASE SetFlag(p)
    BY <2>2 DEF SetFlag
  <2>3. CASE SetHold(p) \/ SetExit(p) \/ ClearFlag(p)
    BY <2>3 DEF SetHold, SetExit, ClearFlag
  <2>4. CASE ExitServer(p)
    BY <2>4, ServerExitType DEF ExitServer
  <2> QED
    BY <2>1, <2>2, <2>3, <2>4 DEF Handler
<1> QED
  BY <1>1, <1>2, HandlerFrame DEF TypeOK, tcpVars, mainVars

LEMMA TypeStep ==
    ASSUME TypeOK, BatchInv, Next
    PROVE  TypeOK'
<1>1. CASE Step(Reader) \/ Step(Tcp) \/ Step(Main)
  BY <1>1, ReaderType, TcpType, MainType DEF Step
<1>2. CASE \E p \in Threads : Step(Handler(p))
  BY <1>2, HandlerType DEF Step
<1>3. CASE Step(KbdReply)
  <2>1. pc' \in [Threads -> Handlers \union {"idle"}]
    BY <1>3 DEF Step, KbdReply, TypeOK
  <2> QED
    BY <1>3, <2>1
       DEF Step, KbdReply, OutputToClient, TypeOK, shared, tcpVars, serverVars, history
<1>4. CASE Step(ClientConnects)
  BY <1>4 DEF Step, ClientConnects, TypeOK, shared, tcpVars, mainVars, cmdVars, history
<1>c. MoreCommands => cmds + 1 \in 0 .. MaxCmds
  BY NumberFacts DEF MoreCommands, TypeOK
<1>5. ASSUME NEW c \in Commands, Step(ClientSends(c))
      PROVE  TypeOK'
  BY <1>5, <1>c, MessageFacts
     DEF Step, ClientSends, TypeOK, shared, tcpVars, mainVars, history
<1>6. ASSUME NEW c \in Commands, Step(KbdCommand(c))
      PROVE  TypeOK'
  <2>1. cmds' \in 0 .. MaxCmds
    BY <1>6, <1>c DEF Step, KbdCommand
  <2>2. Begin("kbd", c) /\ "kbd" \in Threads
    BY <1>6 DEF Step, KbdCommand, Threads
  <2> QED
    BY <1>6, <2>1, <2>2, BeginType
       DEF Step, KbdCommand, TypeOK, shared, tcpVars, serverVars, mainVars
<1>7. ASSUME NEW c \in Commands, Step(Once(c))
      PROVE  TypeOK'
  <2>1. mode = "batch"
    BY <1>7 DEF Step, Once, BatchInv
  <2>2. cmds' \in 0 .. MaxCmds
    BY <1>7, <2>1, NumberFacts DEF Step, Once, BatchInv
  <2>3. Begin("main", c) /\ "main" \in Threads
    BY <1>7 DEF Step, Once, Threads
  <2> QED
    BY <1>7, <2>2, <2>3, BeginType
       DEF Step, Once, TypeOK, shared, tcpVars, serverVars
<1> QED
  BY <1>1, <1>2, <1>3, <1>4, <1>5, <1>6, <1>7 DEF Next

-----------------------------------------------------------------------------
(* Batch mode.                                                             *)

LEMMA BatchStep ==
    ASSUME TypeOK, BatchInv, Next
    PROVE  BatchInv'
<1>t. pc \in [Threads -> Handlers \union {"idle"}] /\ "main" \in Threads /\ "kbd" \in Threads
  BY DEF TypeOK, Threads
<1>m. UNCHANGED mode
  BY DEF Next, Step
<1>1. CASE Reader
  <2>1. /\ UNCHANGED <<tpc, useTcp, server, pc, cmds>>
        /\ mpc' = mpc \/ (mpc = "get" /\ mpc' = "inner")
    BY <1>1, ReaderFrame DEF tcpVars, cmdVars
  <2>2. rpc # "off" /\ rpc' # "off"
    <3>1. CASE Setup
      BY <3>1 DEF Setup, ReaderStep
    <3>2. CASE ~Setup
      BY <1>1, <3>2
         DEF Reader, ReaderGoto, ReaderStep, Refresh, SwapFlag, Wait, ZeroNow, TestBelow,
             TestInfinite, ReadOneBlock, CheckStatus, ZeroTime, CountBlock, Hold, Report,
             TestServerMode, TestExit
    <3> QED
      BY <3>1, <3>2
  <2> QED
    BY <1>m, <2>1, <2>2 DEF BatchInv
<1>2. CASE Tcp
  <2>1. tpc # "ended"
    BY <1>2 DEF Tcp, UseTcp, Publish, PromiseServer, StartAccept, RunReturns, Forget, PromiseNull,
                ClearUseTcp, TcpGoto
  <2> QED
    BY <1>2, <1>m, <2>1, TcpFrame DEF BatchInv, mainVars, cmdVars
<1>3. CASE Main
  <2>1. UNCHANGED <<useTcp, server, tpc, cmds>> /\ (rpc' = rpc \/ Launch)
    BY <1>3, MainFrame
  <2>2. CASE GetCommand
    <3>1. pc' = [pc EXCEPT !["main"] = FirstStep(recv)]
      BY <2>2 DEF GetCommand, Begin
    <3> QED
      BY <1>m, <1>t, <2>1, <2>2, <3>1 DEF BatchInv, GetCommand, MainGoto
  <2>3. CASE MainReply
    BY <1>m, <1>t, <2>1, <2>3 DEF BatchInv, MainReply, MainGoto
  <2>4. CASE Launch
    BY <1>m, <2>1, <2>4 DEF BatchInv, Launch, MainGoto
  <2>5. CASE LoopOuter \/ Take \/ SwapServer \/ LoopInner \/ IsConnected \/ ClearRecv
    BY <1>m, <2>1, <2>5
       DEF BatchInv, LoopOuter, Take, SwapServer, LoopInner, IsConnected, ClearRecv, MainGoto
  <2>6. CASE GetExit \/ UseDestroyed \/ Leave \/ LeaveServer \/ JoinReader \/ JoinTcp
    BY <1>m, <2>1, <2>6
       DEF BatchInv, GetExit, UseDestroyed, Leave, LeaveServer, JoinReader, JoinTcp, MainGoto,
           cmdVars
  <2> QED
    BY <1>3, <2>2, <2>3, <2>4, <2>5, <2>6 DEF Main
<1>4. ASSUME NEW p \in Threads, Handler(p)
      PROVE  BatchInv'
  <2>1. /\ UNCHANGED <<rpc, tpc, useTcp, server, mpc, cmds>> /\ pc[p] # "idle"
        /\ \A q \in Threads \ {p} : pc'[q] = pc[q]
    BY <1>4, <1>t, HandlerFrame DEF tcpVars, mainVars
  <2>2. CASE p = "main"
    BY <1>m, <1>t, <2>1, <2>2 DEF BatchInv
  <2>3. CASE p = "kbd"
    BY <1>m, <1>t, <2>1, <2>3 DEF BatchInv
  <2> QED
    BY <2>2, <2>3 DEF Threads
<1>5. CASE KbdReply
  BY <1>5, <1>m, <1>t DEF BatchInv, KbdReply, OutputToClient, tcpVars
<1>6. CASE ClientConnects \/ \E c \in Commands : ClientSends(c)
  BY <1>6, <1>m DEF BatchInv, ClientConnects, ClientSends, tcpVars, mainVars, cmdVars
<1>7. ASSUME NEW c \in Commands, KbdCommand(c)
      PROVE  BatchInv'
  <2>1. pc'["main"] = pc["main"]
    BY <1>7, <1>t DEF KbdCommand, Begin
  <2> QED
    BY <1>7, <1>m, <2>1 DEF BatchInv, KbdCommand, tcpVars, mainVars
<1>8. ASSUME NEW c \in Commands, Once(c)
      PROVE  BatchInv'
  <2>1. pc'["kbd"] = pc["kbd"]
    BY <1>8, <1>t DEF Once, Begin
  <2> QED
    BY <1>8, <1>m, <2>1 DEF BatchInv, Once, tcpVars
<1> QED
  BY <1>1, <1>2, <1>3, <1>4, <1>5, <1>6, <1>7, <1>8 DEF Next, Step

-----------------------------------------------------------------------------
(* Blocks read after the end of a session was asked for.                   *)

LEMMA StopStep ==
    ASSUME TypeOK, BatchInv, StopInv, Next
    PROVE  StopInv'
<1>t. /\ late \in 0 .. 2 /\ nowReadTime \in 0 .. MaxTime + 1 /\ readTime \in Lengths
      /\ MaxTime \in Nat
  BY NumberFacts DEF TypeOK
<1>1. CASE Reader
  <2> USE <1>t DEF StopInv, StopBound, ReaderGoto, ReaderStep, shared, history
  <2>1. CASE Refresh \/ SwapFlag \/ Wait \/ ZeroNow
    BY <2>1 DEF Refresh, SwapFlag, Wait, ZeroNow
  <2>2. CASE Setup
    BY <2>2 DEF Setup
  <2>3. CASE TestBelow \/ TestInfinite
    BY <2>3 DEF TestBelow, TestInfinite
  <2>4. CASE ReadOneBlock
    BY <2>4 DEF ReadOneBlock
  <2>5. CASE CheckStatus \/ ZeroTime \/ CountBlock
    BY <2>5 DEF CheckStatus, ZeroTime, CountBlock
  <2>6. CASE Hold \/ Report \/ TestServerMode \/ TestExit
    BY <2>6 DEF Hold, Report, TestServerMode, TestExit
  <2> QED
    BY <1>1, <2>1, <2>2, <2>3, <2>4, <2>5, <2>6 DEF Reader
<1>2. CASE Tcp
  BY <1>2, TcpFrame DEF StopInv, StopBound, shared, history
<1>3. CASE Main
  <2>1. UNCHANGED <<readStatus, readTime, late>> /\ (rpc' = rpc \/ rpc' = "refresh")
    BY <1>3, MainFrame DEF Launch
  <2> QED
    BY <2>1 DEF StopInv, StopBound
<1>4. ASSUME NEW p \in Threads, Handler(p)
      PROVE  StopInv'
  <2>1. UNCHANGED rpc
    BY <1>4, HandlerFrame
  <2>2. CASE ResetTime(p) \/ SetTime(p) \/ SetDo(p)
    BY <2>2 DEF StopInv, StopBound, ResetTime, SetTime, SetDo
  <2>3. CASE SetFlag(p) \/ SetHold(p) \/ SetExit(p) \/ ClearFlag(p) \/ ExitServer(p)
    BY <2>1, <2>3 DEF StopInv, StopBound, SetFlag, SetHold, SetExit, ClearFlag, ExitServer
  <2> QED
    BY <1>4, <2>2, <2>3 DEF Handler
<1>5. CASE KbdReply \/ ClientConnects
  BY <1>5 DEF StopInv, StopBound, KbdReply, ClientConnects, shared, history
<1>6. ASSUME NEW c \in Commands, KbdCommand(c) \/ ClientSends(c) \/ Once(c)
      PROVE  StopInv'
  BY <1>6 DEF StopInv, StopBound, KbdCommand, ClientSends, Once, Begin, shared, history
<1> QED
  BY <1>1, <1>2, <1>3, <1>4, <1>5, <1>6 DEF Next, Step

-----------------------------------------------------------------------------
(* Sessions and replies.                                                   *)

LEMMA SessionStep ==
    ASSUME TypeOK, BatchInv, SessionInv, Next
    PROVE  SessionInv'
<1>t. accepted \in Nat /\ sessions \in Nat /\ mode' = mode
  BY DEF TypeOK, Next, Step
<1> SUFFICES ASSUME mode = "steady"
             PROVE  SessionInv'
  BY <1>t DEF SessionInv
<1> USE DEF SessionInv, OrderedSessions, Granted
<1>1. CASE Reader
  <2>1. UNCHANGED <<tpc, useTcp, accepted>>
    BY <1>1, ReaderFrame DEF tcpVars
  <2>2. CASE Setup
    BY <1>t, <2>1, <2>2 DEF Setup, ReaderStep
  <2>3. CASE Refresh \/ SwapFlag \/ Wait
    BY <1>t, <2>1, <2>3 DEF Refresh, SwapFlag, Wait, ReaderGoto, ReaderStep, shared, history
  <2>4. CASE ZeroNow \/ TestBelow \/ TestInfinite \/ ReadOneBlock \/ CheckStatus \/ ZeroTime
    BY <1>t, <2>1, <2>4
       DEF ZeroNow, TestBelow, TestInfinite, ReadOneBlock, CheckStatus, ZeroTime, ReaderGoto,
           ReaderStep, history
  <2>5. CASE CountBlock \/ Hold \/ Report \/ TestServerMode \/ TestExit
    BY <1>t, <2>1, <2>5
       DEF CountBlock, Hold, Report, TestServerMode, TestExit, ReaderGoto, ReaderStep, history
  <2> QED
    BY <1>1, <2>2, <2>3, <2>4, <2>5 DEF Reader
<1>2. CASE Tcp
  <2>1. tpc' # "start" /\ (useTcp' => useTcp)
    BY <1>2
       DEF Tcp, UseTcp, Publish, PromiseServer, StartAccept, RunReturns, Forget, PromiseNull,
           ClearUseTcp, TcpGoto
  <2> QED
    BY <1>2, <1>t, <2>1, TcpFrame DEF shared, history
<1>3. CASE Main
  <2>1. /\ UNCHANGED <<useTcp, tpc, accepted, sessions>>
        /\ rpc' = rpc \/ rpc' = "refresh"
        /\ flag' = flag \/ flag' # "true"
    BY <1>3, MainFrame DEF Launch, Leave
  <2> QED
    BY <1>t, <2>1
<1>4. ASSUME NEW p \in Threads, Handler(p)
      PROVE  SessionInv'
  <2>1. UNCHANGED <<rpc, useTcp, tpc, sessions>>
    BY <1>4, HandlerFrame DEF tcpVars
  <2>2. CASE SetFlag(p)
    BY <1>t, <2>1, <2>2 DEF SetFlag
  <2>3. CASE ~SetFlag(p)
    <3>1. accepted' = accepted /\ (flag' = flag \/ flag' # "true")
      BY <1>4, <2>3
         DEF Handler, ResetTime, SetTime, SetDo, SetHold, SetExit, ClearFlag, ExitServer
    <3> QED
      BY <1>t, <2>1, <3>1
  <2> QED
    BY <2>2, <2>3
<1>5. CASE KbdReply \/ ClientConnects
  BY <1>5, <1>t DEF KbdReply, ClientConnects, shared, tcpVars, history
<1>6. ASSUME NEW c \in Commands, KbdCommand(c) \/ ClientSends(c) \/ Once(c)
      PROVE  SessionInv'
  BY <1>6, <1>t DEF KbdCommand, ClientSends, Once, Begin, shared, tcpVars, history
<1> QED
  BY <1>1, <1>2, <1>3, <1>4, <1>5, <1>6 DEF Next, Step

-----------------------------------------------------------------------------
(* A calm session.                                                         *)

(* A command begins calmly at a reader that waits for its first order.     *)
LEMMA CalmBegin ==
    ASSUME TypeOK, NEW p \in Threads, NEW c \in Commands, Begin(p, c), UNCHANGED <<rpc, flag>>
    PROVE  CalmInv'
<1> SUFFICES ASSUME calm'
             PROVE  Ordering(p)'
  BY DEF CalmInv
<1>1. /\ c.cmd = "read" /\ rpc \in {"wait", "off"} /\ flag = "unset"
      /\ \A q \in Threads \ {p} : pc[q] = "idle"
      /\ pc' = [pc EXCEPT ![p] = FirstStep(c)] /\ arg' = [arg EXCEPT ![p] = c.len]
      /\ want' = c.len
  BY DEF Begin
<1>2. pc'[p] = "reset" /\ arg'[p] = want' /\ \A q \in Threads \ {p} : pc'[q] = "idle"
  BY <1>1, FirstStepFacts DEF TypeOK
<1> QED
  BY <1>1, <1>2 DEF Ordering

(* The reader, once the read command has been carried out.                 *)
LEMMA CalmReader ==
    ASSUME TypeOK, BatchInv, CalmInv, Reader, UNCHANGED mode
    PROVE  CalmInv'
<1>t. /\ nowReadTime \in 0 .. MaxTime + 1 /\ want \in Lengths /\ MaxTime \in Nat
      /\ \A n \in Lengths : n \in Int /\ n >= -1 /\ n <= MaxTime
  BY NumberFacts DEF TypeOK
<1>f. UNCHANGED <<pc, arg, want, useTcp>>
  BY ReaderFrame DEF cmdVars, tcpVars
<1> SUFFICES ASSUME calm', calm
             PROVE  (Recording \/ Refused \/ \E p \in Threads : Ordering(p))'
  <2>1. calm' => calm
    BY DEF Reader, Refresh, SwapFlag, Wait, ZeroNow, TestBelow, TestInfinite, ReadOneBlock,
           CheckStatus, ZeroTime, CountBlock, Hold, Report, TestServerMode, TestExit, Setup, history
  <2> QED
    BY <2>1 DEF CalmInv
<1>1. CASE Recording
  <2> USE <1>t, <1>f, <1>1 DEF Recording, ReaderGoto, ReaderStep, shared, history
  <2>1. CASE Refresh
    BY <2>1 DEF Refresh, BatchInv
  <2>2. CASE Wait
    BY <2>2 DEF Wait
  <2>3. CASE Setup
    <3>1. PICK o \in Outcomes :
             /\ rpc' = (CASE o = "modeCount" -> "ended" [] o = "noDir" -> "again"
                          [] OTHER -> "zeroNow")
             /\ readStatus' = IF o \in {"modeItem", "noDir"} THEN "HOLD" ELSE readStatus
             /\ calm' = (calm /\ o = "ok")
             /\ UNCHANGED <<readTime, nowReadTime, flag>>
      BY <2>3 DEF Setup
    <3>2. o = "ok"
      BY <3>1
    <3>3. rpc' = "zeroNow" /\ readStatus' = readStatus
      BY <3>1, <3>2
    <3> QED
      BY <2>3, <3>1, <3>3 DEF Setup
  <2>4. CASE ZeroNow
    BY <2>4 DEF ZeroNow
  <2>5. CASE TestBelow
    BY <2>5 DEF TestBelow
  <2>6. CASE TestInfinite
    BY <2>6 DEF TestInfinite
  <2>7. CASE ReadOneBlock
    BY <2>7 DEF ReadOneBlock
  <2>8. CASE CheckStatus
    BY <2>8 DEF CheckStatus
  <2>9. CASE CountBlock
    BY <2>9 DEF CountBlock
  <2>10. CASE Hold
    BY <2>10 DEF Hold
  <2>11. CASE SwapFlag \/ ZeroTime \/ Report \/ TestServerMode \/ TestExit
    BY <2>11 DEF SwapFlag, ZeroTime, Report, TestServerMode, TestExit
  <2> QED
    BY <2>1, <2>2, <2>3, <2>4, <2>5, <2>6, <2>7, <2>8, <2>9, <2>10, <2>11 DEF Reader
<1>w. CASE rpc \in {"wait", "off", "ended"}
  <2>1. Wait
    BY <1>w DEF Reader, ReaderGoto, ReaderStep, Refresh, SwapFlag, ZeroNow, TestBelow, TestInfinite,
                ReadOneBlock, CheckStatus, ZeroTime, CountBlock, Hold, Report, TestServerMode,
                TestExit, Setup
  <2>2. rpc = "wait" /\ UNCHANGED shared /\ rpc' = IF flag = "true" THEN "setup" ELSE "ended"
    BY <2>1 DEF Wait, ReaderGoto, ReaderStep
  <2>3. flag # "unset"
    BY <2>1 DEF Wait
  <2>4. CASE Refused
    BY <2>2, <2>4 DEF Refused
  <2>5. ASSUME NEW p \in Threads, Ordering(p)
        PROVE  Ordering(p)'
    BY <2>2, <2>3, <2>5, <1>f DEF Ordering, shared
  <2> QED
    BY <1>1, <2>4, <2>5 DEF CalmInv
<1>2. Recording \/ rpc \in {"wait", "off", "ended"}
  BY DEF CalmInv, Refused, Ordering
<1> QED
  BY <1>1, <1>w, <1>2

(* The handler of the read command.                                        *)
LEMMA CalmHandler ==
    ASSUME TypeOK, BatchInv, CalmInv, NEW p \in Threads, Handler(p), UNCHANGED mode
    PROVE  CalmInv'
<1>t. pc \in [Threads -> Handlers \union {"idle"}]
  BY DEF TypeOK
<1>f. UNCHANGED <<rpc, nowReadTime, arg, calm, want>>
  BY HandlerFrame
<1>h. pc[p] \in {"reset", "setTime", "setDo", "setFlag", "setHold", "setExit", "clearFlag",
                 "exitServer"}
  BY HandlerFrame
<1> SUFFICES ASSUME calm
             PROVE  (Recording \/ Refused \/ \E q \in Threads : Ordering(q))'
  BY <1>f DEF CalmInv
<1>1. CASE Refused
  <2>1. flag = "false" => flag' = "false"
    BY DEF Handler, ResetTime, SetTime, SetDo, SetFlag, SetHold, SetExit, ClearFlag, ExitServer
  <2> QED
    BY <1>1, <1>f, <2>1 DEF Refused
<1>2. CASE Recording
  BY <1>2, <1>h DEF Recording
<1>3. ASSUME NEW q \in Threads, Ordering(q)
      PROVE  (Recording \/ Refused \/ Ordering(q))'
  <2>1. q = p
    BY <1>3, <1>h DEF Ordering
  <2>2. \A r \in Threads \ {p} : pc'[r] = "idle"
    BY <1>3, <1>t, <2>1, HandlerFrame DEF Ordering
  <2> USE <1>t, <1>f, <1>3, <2>1, <2>2 DEF Ordering, HandlerGoto
  <2>3. CASE ResetTime(p)
    BY <2>3 DEF ResetTime
  <2>4. CASE SetTime(p)
    BY <2>4 DEF SetTime
  <2>5. CASE SetDo(p)
    BY <2>5 DEF SetDo
  <2>6. CASE SetFlag(p)
    <3>1. CASE flag = "unset"
      <4>1. /\ pc'[p] = "started" /\ flag' = "true" /\ rpc \in {"wait", "off"}
            /\ readTime' = want /\ readStatus' = "DO"
        BY <2>6, <3>1 DEF SetFlag
      <4>2. rpc = "off" => mode = "batch"
        BY DEF BatchInv
      <4> QED
        BY <4>1, <4>2 DEF Recording
    <3>2. CASE flag = "false"
      BY <2>6, <3>2 DEF SetFlag, Refused
    <3> QED
      BY <3>1, <3>2
  <2>7. CASE SetHold(p) \/ SetExit(p) \/ ClearFlag(p) \/ ExitServer(p)
    BY <2>7 DEF SetHold, SetExit, ClearFlag, ExitServer
  <2> QED
    BY <2>3, <2>4, <2>5, <2>6, <2>7 DEF Handler
<1> QED
  BY <1>1, <1>2, <1>3 DEF CalmInv

(* The reply ends the handler.                                             *)
LEMMA CalmReply ==
    ASSUME TypeOK, CalmInv, NEW p \in Threads, Replying(p), pc' = [pc EXCEPT ![p] = "idle"],
           UNCHANGED <<mode, readStatus, readTime, nowReadTime, flag, rpc, arg, calm, want>>
    PROVE  CalmInv'
<1>1. pc'[p] = "idle" /\ \A q \in Threads \ {p} : pc'[q] = pc[q]
  BY DEF TypeOK
<1>2. CASE Recording
  BY <1>1, <1>2 DEF CalmInv, Recording
<1>3. CASE Refused
  BY <1>3 DEF CalmInv, Refused
<1>4. ASSUME NEW q \in Threads, Ordering(q)
      PROVE  FALSE
  BY <1>4 DEF Ordering, Replying
<1> QED
  BY <1>2, <1>3, <1>4 DEF CalmInv

LEMMA CalmSame ==
    ASSUME CalmInv,
           UNCHANGED <<mode, readStatus, readTime, nowReadTime, flag, rpc, pc, arg, calm, want>>
    PROVE  CalmInv'
  BY DEF CalmInv, Recording, Refused, Ordering

LEMMA CalmStep ==
    ASSUME TypeOK, BatchInv, CalmInv, Next
    PROVE  CalmInv'
<1>m. UNCHANGED mode /\ "main" \in Threads /\ "kbd" \in Threads
  BY DEF Next, Step, Threads
<1>1. CASE Reader
  BY <1>1, <1>m, CalmReader
<1>2. CASE Tcp
  BY <1>2, <1>m, TcpFrame, CalmSame DEF shared, cmdVars, history
<1>3. CASE Main
  <2>1. UNCHANGED <<readStatus, readTime, nowReadTime>>
    BY <1>3, MainFrame
  <2>2. CASE GetCommand
    BY <1>m, <2>2, CalmBegin DEF GetCommand
  <2>3. CASE MainReply
    BY <1>m, <2>1, <2>3, CalmReply DEF MainReply, history
  <2>4. CASE Launch
    <3>1. /\ rpc = "off" /\ rpc' = "refresh" /\ mode = "batch"
          /\ UNCHANGED <<flag, pc, arg, calm, want>>
          /\ \A p \in Threads : pc[p] = "idle"
      BY <2>4 DEF Launch, MainGoto, history, BatchInv, Threads
    <3> QED
      BY <1>m, <2>1, <3>1 DEF CalmInv, Recording, Refused, Ordering
  <2>5. CASE Leave
    <3>1. /\ UNCHANGED <<rpc, pc, arg, calm, want>> /\ rpc # "off"
          /\ flag' = IF flag = "unset" THEN "false" ELSE flag
      BY <2>5 DEF Leave, MainGoto, history, BatchInv
    <3>2. CASE Recording
      BY <1>m, <2>1, <3>1, <3>2 DEF CalmInv, Recording
    <3>3. CASE Refused
      BY <3>1, <3>3 DEF CalmInv, Refused
    <3>4. ASSUME NEW p \in Threads, Ordering(p)
          PROVE  Ordering(p)'
      BY <2>1, <3>1, <3>4 DEF Ordering
    <3> QED
      BY <3>1, <3>2, <3>3, <3>4 DEF CalmInv
  <2>6. CASE ~(GetCommand \/ MainReply \/ Launch \/ Leave)
    BY <1>3, <1>m, <2>1, <2>6, MainFrame, CalmSame
  <2> QED
    BY <2>2, <2>3, <2>4, <2>5, <2>6
<1>4. ASSUME NEW p \in Threads, Handler(p)
      PROVE  CalmInv'
  BY <1>4, <1>m, CalmHandler
<1>5. CASE KbdReply
  BY <1>5, <1>m, CalmReply DEF KbdReply, shared, history
<1>6. CASE ClientConnects \/ \E c \in Commands : ClientSends(c)
  BY <1>6, <1>m, CalmSame DEF ClientConnects, ClientSends, shared, cmdVars, history
<1>7. ASSUME NEW c \in Commands, KbdCommand(c) \/ Once(c)
      PROVE  CalmInv'
  BY <1>7, <1>m, CalmBegin DEF KbdCommand, Once, shared
<1> QED
  BY <1>1, <1>2, <1>3, <1>4, <1>5, <1>6, <1>7 DEF Next, Step

-----------------------------------------------------------------------------
(* The invariant, and the theorems.                                        *)

LEMMA InitInv == Init => IInv
<1> SUFFICES ASSUME Init PROVE IInv
  OBVIOUS
<1>1. TypeOK
  <2>1. /\ readTime \in Lengths /\ nowReadTime \in 0 .. MaxTime + 1 /\ cmds \in 0 .. MaxCmds
        /\ want \in Lengths /\ recv \in Messages
        /\ arg \in [Threads -> Lengths] /\ pc \in [Threads -> Handlers \union {"idle"}]
    BY NumberFacts, MessageFacts DEF Init
  <2>2. /\ useTcp \in BOOLEAN /\ server \in BOOLEAN /\ mserver \in BOOLEAN
        /\ tpc \in {"start", "run", "ended"} /\ rpc \in {"refresh", "wait", "off"}
        /\ mpc \in {"outer", "conn", "get", "once"} /\ conn \in {"none", "ONLINE"}
    BY DEF Init
  <2>3. /\ mode \in Modes /\ readStatus = "HOLD" /\ flag = "unset" /\ promised = "unset"
        /\ stopped = FALSE /\ aborted = FALSE /\ calm = FALSE
        /\ accepted = 0 /\ sessions = 0 /\ late = 0
    BY DEF Init
  <2>4. 0 \in Nat /\ 0 \in 0 .. 2
    OBVIOUS
  <2>5. /\ readStatus \in {"HOLD", "DO", "EXIT"} /\ flag \in {"unset", "true", "false"}
        /\ promised \in {"unset", "server", "NULL"} /\ stopped \in BOOLEAN
        /\ aborted \in BOOLEAN /\ calm \in BOOLEAN
        /\ accepted \in Nat /\ sessions \in Nat /\ late \in 0 .. 2
    BY <2>3, <2>4
  <2> QED
    BY <2>1, <2>2, <2>3, <2>5 DEF TypeOK
<1>2. BatchInv
  BY DEF Init, BatchInv, Threads
<1>3. StopInv /\ SessionInv /\ CalmInv
  BY DEF Init, StopInv, StopBound, SessionInv, OrderedSessions, Granted, CalmInv
<1> QED
  BY <1>1, <1>2, <1>3 DEF IInv

LEMMA NextInv == IInv /\ [Next]_vars => IInv'
<1> SUFFICES ASSUME IInv, [Next]_vars PROVE IInv'
  OBVIOUS
<1>1. CASE Next
  BY <1>1, TypeStep, BatchStep, StopStep, SessionStep, CalmStep DEF IInv
<1>2. CASE UNCHANGED vars
  <2> USE <1>2 DEF IInv, vars, shared, tcpVars, serverVars, mainVars, cmdVars, history
  <2>1. TypeOK'
    BY DEF TypeOK
  <2>2. BatchInv' /\ StopInv' /\ SessionInv'
    BY DEF BatchInv, StopInv, StopBound, SessionInv, OrderedSessions, Granted
  <2>3. CalmInv'
    BY CalmSame
  <2> QED
    BY <2>1, <2>2, <2>3
<1> QED
  BY <1>1, <1>2

LEMMA Invariance == Spec => []IInv
  BY InitInv, NextInv, PTL DEF Spec

(* TypeCorrect: the variables keep their types.                            *)
THEOREM TypeCorrect == Spec => []TypeOK
<1>1. IInv => TypeOK
  BY DEF IInv
<1> QED
  BY <1>1, Invariance, PTL

(* StopsInTime: at most one block is read after readStatus has left DO,    *)
(* unless a read command intervenes.                                       *)
THEOREM StopsInTime == Spec => []StopBound
<1>1. IInv => StopBound
  BY DEF IInv, StopInv
<1> QED
  BY <1>1, Invariance, PTL

(* SessionsOrdered: once the server runs, there are never more sessions    *)
(* than replies "Start reading".                                           *)
THEOREM SessionsOrdered == Spec => []OrderedSessions
<1>1. IInv => OrderedSessions
  BY DEF IInv, SessionInv, OrderedSessions
<1> QED
  BY <1>1, Invariance, PTL

(* ReadsItsLength: an undisturbed read command reads the blocks it asks    *)
(* for.                                                                    *)
THEOREM ReadsItsLength == Spec => []ExactLength
<1>1. IInv => ExactLength
  BY DEF IInv, CalmInv, Recording, Refused, Ordering, ExactLength
<1> QED
  BY <1>1, Invariance, PTL
===============================================================================
