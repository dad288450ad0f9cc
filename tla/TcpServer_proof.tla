--------------------------- MODULE TcpServer_proof ---------------------------
(***************************************************************************)
(* Proofs about TcpServer, for every number of server objects, of commands *)
(* and of the keyboard thread's messages, whatever ends the connections,   *)
(* with and without exit.                                                  *)
(***************************************************************************)
EXTENDS TcpServer, SequenceLemmas, TLAPS

MainPoints == {"outer", "take", "inner", "conn", "recv", "clear", "get", "done", "leave"}
MainType == MainPoints \union {"left"} \union Sending \union Exiting
KbdType == {"idle"} \union Sending \union Exiting
Points == MainType \union KbdType

Received == {EXIT_MSG, LOST_MSG, Error} \union Commands

(* What the main thread is going to send is a command or an error text,    *)
(* and it looks at the current promise only while it waits.                *)
MainInv ==
    /\ pc \in [Threads -> Points]
    /\ got = Pending => pc["main"] = "get"
    /\ pc["main"] \in {"get", "done"} => got \in Received \union {Pending}
    /\ pc["main"] \in Sending \union Exiting => got \in Commands \union {Error}

(* What may lie behind a number c: the commands on their way, and the one  *)
(* that was handed over.                                                   *)
Behind(c, last, way, slot) ==
    /\ c <= last
    /\ \A i \in 1 .. Len(way) : c < way[i]
    /\ slot \in Commands => c <= slot

\* The commands that were executed are so once, and in the order of sending.
OncePerCommand ==
    \A i, j \in 1 .. Len(executed) :
        i < j /\ executed[i] \in Commands /\ executed[j] \in Commands
            => executed[i] < executed[j]

(* The commands pass from sent to chan, to the promise, to got and to      *)
(* executed, some of them dropped on the way, and do not overtake.         *)
OrderInv ==
    /\ \A i \in 1 .. Len(chan) : chan[i] <= sent
    /\ \A i, j \in 1 .. Len(chan) : i < j => chan[i] < chan[j]
    /\ srv.slot \in Commands => Behind(srv.slot, sent, chan, srv.slot)
    /\ got \in Commands => Behind(got, sent, chan, srv.slot)
    /\ \A i \in 1 .. Len(executed) : executed[i] \in Commands =>
          /\ Behind(executed[i], sent, chan, srv.slot)
          /\ got = Pending /\ srv.slot \in Commands => executed[i] < srv.slot
          /\ pc["main"] \in {"get", "done"} /\ got \in Commands => executed[i] < got
    /\ OncePerCommand

Executed(c) == \E k \in 1 .. Len(executed) : executed[k] = c

\* The main thread has executed a command, and not sent the reply yet.
Unsent == {"reply", "push"} \union Exiting

(* The replies that were pushed answer commands that were executed, in the *)
(* order of the commands; the one to come answers the last one executed.   *)
AnswerInv ==
    /\ \A i \in 1 .. Len(pushed) : pushed[i] \in Commands => Executed(pushed[i])
    /\ \A i, j \in 1 .. Len(pushed) :
          i < j /\ pushed[i] \in Commands /\ pushed[j] \in Commands => pushed[i] < pushed[j]
    /\ pc["main"] \in Unsent =>
          /\ Len(executed) > 0 /\ executed[Len(executed)] = got
          /\ got \in Commands =>
                \A i \in 1 .. Len(pushed) : pushed[i] \in Commands => pushed[i] < got

IInv == TypeOK /\ MainInv /\ OrderInv /\ AnswerInv /\ RepliesInOrder /\ NeverWedged

-----------------------------------------------------------------------------
(* The numbers that stand for something else are no commands.              *)
LEMMA NumberFacts ==
    /\ MaxSent \in Nat /\ MaxConns \in Nat \ {0} /\ MaxOutputs \in Nat
    /\ \A c \in Commands : c \in Nat /\ c \in 1 .. MaxSent
    /\ NoMsg \notin Commands /\ EXIT_MSG \notin Commands /\ LOST_MSG \notin Commands
    /\ Error \notin Commands /\ Pending \notin Commands /\ Output \notin Commands
    /\ Pending \notin {NoMsg, EXIT_MSG, LOST_MSG, Error, Output}
    /\ Error \notin {NoMsg, EXIT_MSG, LOST_MSG}
  BY ConstantsAssumption
     DEF ConstantsAssumption, Commands, NoMsg, EXIT_MSG, LOST_MSG, Error, Pending, Output

(* What get() returns is no promise any more.                              *)
LEMMA AbandonedFacts ==
    ASSUME TypeOK
    PROVE  /\ Abandoned # Pending
           /\ got # Pending => Abandoned = got
           /\ got = Pending =>
                 /\ Abandoned \in Received
                 /\ Abandoned \in Commands => srv.slot = Abandoned
           /\ Abandoned \in 0 .. MaxSent + 4
<1>1. srv.slot \in {NoMsg, EXIT_MSG, LOST_MSG} \union Commands
  BY DEF TypeOK, Server
<1>2. got \in 0 .. MaxSent + 4
  BY DEF TypeOK
<1>3. CASE got # Pending
  BY <1>2, <1>3 DEF Abandoned
<1>4. CASE got = Pending
  <2>1. Abandoned \in Received
    BY <1>1, <1>4 DEF Abandoned, Received
  <2>2. Abandoned \in Commands => srv.slot = Abandoned
    BY <1>4, NumberFacts DEF Abandoned
  <2>3. Abandoned # Pending
    BY <2>1, NumberFacts DEF Received
  <2>4. Abandoned \in 0 .. MaxSent + 4
    BY <2>1, ConstantsAssumption
       DEF ConstantsAssumption, Received, EXIT_MSG, LOST_MSG, Error, Commands
  <2> QED
    BY <1>4, <2>1, <2>2, <2>3, <2>4
<1> QED
  BY <1>3, <1>4

-----------------------------------------------------------------------------
(* What the actions leave alone.                                           *)

LEMMA HandlersFrame ==
    ASSUME Handlers
    PROVE  UNCHANGED <<tcpVars, peer, sent, exiting, pc, ptr, mainVars, outputs, pushed>>
<1>1. CASE OnAccept
  BY <1>1 DEF OnAccept, Accepted, Handle
<1>2. CASE OnReceive \/ OnEof \/ OnError \/ OnWriteFails \/ SetWriteDone
  BY <1>2 DEF OnReceive, OnEof, OnError, OnWriteFails, SetWriteDone, Handle
<1>3. CASE AsyncWrite \/ OnWrite
  BY <1>3 DEF AsyncWrite, OnWrite, WriteOrRest, WriteFront, Handle
<1> QED
  BY <1>1, <1>2, <1>3 DEF Handlers

LEMMA MainFrame ==
    ASSUME Main
    PROVE  /\ pc["main"] \in MainPoints
           /\ \E t \in MainPoints \union {"reply", "exitStatus", "left"} :
                 pc' = [pc EXCEPT !["main"] = t]
           /\ UNCHANGED <<inc, tpc, server, clientVars, wire, outputs, ptr, pushed, aborted>>
<1> USE DEF MainGoto, Goto, MainPoints
<1>1. CASE Outer \/ Take \/ Inner \/ IsConnected
  BY <1>1 DEF Outer, Take, Inner, IsConnected
<1>2. CASE RefreshDoneFlag \/ ClearRecvMsg \/ Get \/ Leave
  BY <1>2 DEF RefreshDoneFlag, ClearRecvMsg, Get, Leave
<1>3. CASE Done
  BY <1>3 DEF Done
<1> QED
  BY <1>1, <1>2, <1>3 DEF Main

LEMMA ExecutorFrame ==
    ASSUME NEW p \in Threads, Executor(p)
    PROVE  /\ pc[p] \in Sending \union Exiting
           /\ \E t \in Sending \union Exiting \union {Resume(p)} : pc' = [pc EXCEPT ![p] = t]
           /\ UNCHANGED <<inc, tpc, server, promised, clientVars, wire, outputs, exiting,
                          mine, executed, aborted>>
<1> USE DEF Act, Goto, Sending, Exiting
<1>1. CASE Reply(p) \/ Push(p) \/ Refresh(p)
  BY <1>1 DEF Reply, Push, Refresh
<1>2. CASE Swap(p) \/ Post(p)
  BY <1>2 DEF Swap, Post
<1>3. CASE ExitStatus(p) \/ ExitRecv(p) \/ ExitStop(p)
  BY <1>3 DEF ExitStatus, ExitRecv, ExitStop
<1> QED
  BY <1>1, <1>2, <1>3 DEF Executor

-----------------------------------------------------------------------------
(* The server object stays of its type.                                    *)

(* A call of _async_write leaves the line it takes away to the wire.       *)
LEMMA WriteType ==
    ASSUME NEW s \in Server, wire \in Seq(Replies), WriteOrRest(s)
    PROVE  srv' \in Server /\ wire' \in Seq(Replies)
<1>1. s.msgQueue \in Seq(Replies) /\ s.writing \in Nat
  BY DEF Server
<1>2. CASE s.msgQueue # <<>> /\ WriteFront(s)
  <2>1. Head(s.msgQueue) \in Replies /\ Tail(s.msgQueue) \in Seq(Replies)
    BY <1>1, <1>2, HeadTailProperties
  <2>2. s.writing + 1 \in Nat
    BY <1>1
  <2>3. [s EXCEPT !.writeDone = FALSE, !.writing = @ + 1, !.msgQueue = Tail(@)] \in Server
    BY <2>1, <2>2 DEF Server
  <2> QED
    BY <1>2, <2>1, <2>3, AppendProperties DEF WriteFront, Handle
<1>3. CASE s.msgQueue = <<>> /\ Handle([s EXCEPT !.emptied = TRUE]) /\ UNCHANGED wire
  BY <1>3 DEF Handle, Server
<1> QED
  BY <1>2, <1>3 DEF WriteOrRest

LEMMA SrvStep ==
    ASSUME TypeOK, MainInv, Next
    PROVE  srv' \in Server
<1>t. srv \in Server /\ chan \in Seq(Commands) /\ wire \in Seq(Replies)
  BY DEF TypeOK
<1>1. CASE Connect \/ Send \/ (\E how \in Breaks \ {"noAccept"} : Break(how)) \/ Say \/ GiveExit
  BY <1>1, <1>t DEF Connect, Send, Break, Say, GiveExit
<1>2. CASE OnAccept
  <2>1. ASSUME NEW s \in Server, NEW value \in {"ONLINE", "FAIL"}, Accepted(s, value)
        PROVE  srv' \in Server
    BY <2>1 DEF Accepted, Handle, Set, Server
  <2>2. /\ [srv EXCEPT !.awaits = "receive"] \in Server
        /\ [srv EXCEPT !.awaits = "nothing"] \in Server
    BY <1>t DEF Server
  <2> QED
    BY <1>2, <2>1, <2>2 DEF OnAccept
<1>3. CASE OnReceive
  <2>1. PICK n \in 1 .. Len(chan) : TRUE
    BY <1>3 DEF OnReceive
  <2>2. chan[1] \in Commands
    BY <1>t, <2>1
  <2>3. /\ [srv EXCEPT !.awaits = "nothing"] \in Server
        /\ [srv EXCEPT !.slot = Set(@, NoMsg, chan[1])] \in Server
    BY <1>t, <2>2 DEF Server, Set
  <2> QED
    BY <1>3, <2>3 DEF OnReceive, Handle
<1>4. CASE OnEof
  <2>1. [srv EXCEPT !.awaits = "nothing"] \in Server
    BY <1>t DEF Server
  <2>2. Set(srv.slot, NoMsg, LOST_MSG) \in {NoMsg, EXIT_MSG, LOST_MSG} \union Commands
    BY <1>t DEF Server, Set
  <2>3. [srv EXCEPT !.awaits = "nothing", !.status = "LOST",
                    !.slot = Set(@, NoMsg, LOST_MSG)] \in Server
    BY <1>t, <2>2 DEF Server
  <2> QED
    BY <1>4, <2>1, <2>3 DEF OnEof, Handle
<1>5. CASE OnError
  BY <1>5, <1>t DEF OnError, Handle, Server
<1>6. CASE AsyncWrite
  <2>1. [srv EXCEPT !.posted = @ - 1] \in Server
    <3>1. srv.posted \in Nat /\ srv.posted > 0
      BY <1>6, <1>t DEF AsyncWrite, Server
    <3>2. srv.posted - 1 \in Nat
      BY <3>1
    <3> QED
      BY <1>t, <3>2 DEF Server
  <2> QED
    BY <1>6, <1>t, <2>1, WriteType DEF AsyncWrite
<1>w. srv.writing > 0 => srv.writing - 1 \in Nat
  BY <1>t DEF Server
<1>7. CASE OnWrite
  <2>1. [srv EXCEPT !.writing = @ - 1] \in Server
    BY <1>7, <1>t, <1>w DEF OnWrite, Server
  <2> QED
    BY <1>7, <1>t, <2>1, WriteType DEF OnWrite
<1>8. CASE OnWriteFails
  BY <1>8, <1>t, <1>w DEF OnWriteFails, Handle, Server
<1>9. CASE SetWriteDone
  BY <1>9, <1>t DEF SetWriteDone, Handle, Server
<1>10. CASE RunReturns \/ WaitAllDone \/ Forget \/ Renew \/ End
  BY <1>10, <1>t DEF RunReturns, WaitAllDone, Forget, Renew, End
<1>11. CASE Destroy
  <2>1. NewServer \in Server
    BY EmptySeq DEF NewServer, Server
  <2> QED
    BY <1>11, <2>1 DEF Destroy
<1>12. CASE Outer \/ Take \/ Inner \/ IsConnected
  BY <1>12, <1>t DEF Outer, Take, Inner, IsConnected
<1>13. CASE RefreshDoneFlag
  BY <1>13, <1>t DEF RefreshDoneFlag, Server
<1>14. CASE ClearRecvMsg
  BY <1>14, <1>t DEF ClearRecvMsg, Server
<1>15. CASE Get
  BY <1>15, <1>t DEF Get, Server
<1>16. CASE Done
  BY <1>16, <1>t DEF Done, Server
<1>17. CASE Leave
  BY <1>17, <1>t DEF Leave, Set, Server
<1>18. ASSUME NEW p \in Threads, Executor(p)
       PROVE  srv' \in Server
  <2>1. CASE Reply(p) \/ Refresh(p)
    BY <2>1, <1>t DEF Reply, Refresh
  <2>2. CASE Push(p)
    <3> DEFINE line == IF p = "main" THEN got ELSE Output
    <3>1. line \in Replies
      BY <2>2 DEF Push, Act, Goto, MainInv, Sending, Replies
    <3>2. Append(srv.msgQueue, line) \in Seq(Replies)
      BY <1>t, <3>1, AppendProperties DEF Server
    <3>3. srv' = [srv EXCEPT !.msgQueue = Append(@, line)]
      BY <2>2 DEF Push
    <3> HIDE DEF line
    <3> QED
      BY <1>t, <3>2, <3>3 DEF Server
  <2>3. CASE Swap(p)
    BY <2>3, <1>t DEF Swap, Server
  <2>4. CASE Post(p)
    <3>1. srv.posted + 1 \in Nat
      BY <1>t DEF Server
    <3>2. [srv EXCEPT !.posted = @ + 1] \in Server
      BY <1>t, <3>1 DEF Server
    <3> QED
      BY <2>4, <1>t, <3>2 DEF Post
  <2>5. CASE ExitStatus(p)
    BY <2>5, <1>t DEF ExitStatus, Set, Server
  <2>6. CASE ExitRecv(p)
    BY <2>6, <1>t DEF ExitRecv, Set, Server
  <2>7. CASE ExitStop(p)
    BY <2>7, <1>t DEF ExitStop, Server
  <2> QED
    BY <1>18, <2>1, <2>2, <2>3, <2>4, <2>5, <2>6, <2>7 DEF Executor
<1>19. ASSUME NEW p \in Threads, UseDestroyed(p)
       PROVE  srv' \in Server
  BY <1>19, <1>t DEF UseDestroyed
<1> QED
  BY <1>1, <1>2, <1>3, <1>4, <1>5, <1>6, <1>7, <1>8, <1>9, <1>10, <1>11, <1>12, <1>13,
     <1>14, <1>15, <1>16, <1>17, <1>18, <1>19 DEF Next, Tcp, Handlers, Main

-----------------------------------------------------------------------------
(* The control points, and what get() returns.                             *)

LEMMA PcStep ==
    ASSUME pc \in [Threads -> Points], pc["main"] \in MainType, pc["kbd"] \in KbdType, Next
    PROVE  pc' \in [Threads -> Points] /\ pc'["main"] \in MainType /\ pc'["kbd"] \in KbdType
<1>1. CASE UNCHANGED pc
  BY <1>1
<1>2. Connect \/ Send \/ (\E how \in Breaks \ {"noAccept"} : Break(how)) \/ Tcp => UNCHANGED pc
  BY HandlersFrame
     DEF Connect, Send, Break, Tcp, RunReturns, WaitAllDone, Forget, Destroy, Renew, End, TcpGoto
<1>g. ASSUME NEW p \in Threads,
             NEW t \in IF p = "main" THEN MainType ELSE KbdType, pc' = [pc EXCEPT ![p] = t]
      PROVE  pc' \in [Threads -> Points] /\ pc'["main"] \in MainType /\ pc'["kbd"] \in KbdType
  <2>1. MainType \subseteq Points /\ KbdType \subseteq Points
    BY DEF Points
  <2>2. CASE p = "main"
    BY <1>g, <2>1, <2>2 DEF Threads
  <2>3. CASE p = "kbd"
    BY <1>g, <2>1, <2>3 DEF Threads
  <2> QED
    BY <2>2, <2>3 DEF Threads
<1>3. CASE Main
  <2>1. PICK t \in MainPoints \union {"reply", "exitStatus", "left"} :
           pc' = [pc EXCEPT !["main"] = t]
    BY <1>3, MainFrame
  <2>2. t \in MainType
    BY DEF MainType, Sending, Exiting
  <2> QED
    BY <1>g, <2>1, <2>2 DEF Threads
<1>4. CASE Say \/ GiveExit
  <2>1. PICK t \in KbdType : pc' = [pc EXCEPT !["kbd"] = t]
    BY <1>4 DEF Say, GiveExit, Goto, KbdType, Sending, Exiting
  <2> QED
    BY <1>g, <2>1 DEF Threads
<1>5. ASSUME NEW p \in Threads, Executor(p)
      PROVE  pc' \in [Threads -> Points] /\ pc'["main"] \in MainType /\ pc'["kbd"] \in KbdType
  <2>1. PICK t \in Sending \union Exiting \union {Resume(p)} : pc' = [pc EXCEPT ![p] = t]
    BY <1>5, ExecutorFrame
  <2>2. t \in IF p = "main" THEN MainType ELSE KbdType
    BY DEF Resume, MainType, MainPoints, KbdType
  <2> QED
    BY <1>g, <2>1, <2>2
<1>6. ASSUME NEW p \in Threads, UseDestroyed(p), pc' # pc
      PROVE  pc' \in [Threads -> Points] /\ pc'["main"] \in MainType /\ pc'["kbd"] \in KbdType
  <2>1. PICK t \in {"outer", "done", Resume(p)} :
           pc' = [pc EXCEPT ![p] = t] /\ (p = "kbd" => t = "idle")
    BY <1>6 DEF UseDestroyed, Uses, Resume, Threads
  <2>2. t \in IF p = "main" THEN MainType ELSE KbdType
    BY <2>1 DEF Resume, MainType, MainPoints, KbdType, Threads
  <2> QED
    BY <1>g, <2>1, <2>2
<1> QED
  BY <1>1, <1>2, <1>3, <1>4, <1>5, <1>6 DEF Next

(* Only the end of an object, the main thread and a replaced promise       *)
(* decide what get() returns.                                              *)
LEMMA GotFrame ==
    ASSUME Next, ~ClearRecvMsg
    PROVE  got' = got \/ got' = Abandoned
<1>1. CASE Connect \/ Send \/ (\E how \in Breaks \ {"noAccept"} : Break(how)) \/ Say \/ GiveExit
  BY <1>1 DEF Connect, Send, Break, Say, GiveExit, mainVars
<1>2. CASE Tcp
  BY <1>2, HandlersFrame
     DEF Tcp, RunReturns, WaitAllDone, Forget, Destroy, Renew, End, TcpGoto, mainVars
<1>3. CASE Main
  BY <1>3 DEF Main, Outer, Take, Inner, IsConnected, RefreshDoneFlag, Get, Done, Leave, mainVars
<1>4. ASSUME NEW p \in Threads, Executor(p)
      PROVE  got' = got \/ got' = Abandoned
  BY <1>4 DEF Executor, Reply, Push, Refresh, Swap, Post, ExitStatus, ExitRecv, ExitStop
<1>5. ASSUME NEW p \in Threads, UseDestroyed(p)
      PROVE  got' = got
  BY <1>5 DEF UseDestroyed
<1> QED
  BY <1>1, <1>2, <1>3, <1>4, <1>5 DEF Next

(* The main thread enters "get" and "done" only in waitRecv, and what it   *)
(* sends is what it has received.                                          *)
LEMMA MainStep ==
    ASSUME TypeOK, MainInv, Next
    PROVE  MainInv'
<1>t. pc \in [Threads -> Points] /\ pc' \in [Threads -> Points]
  BY PcStep DEF TypeOK, MainInv, MainType, MainPoints, KbdType
<1>a. CASE /\ got' = got \/ got' = Abandoned
           /\ pc'["main"] = pc["main"]
               \/ pc'["main"] \notin {"get", "done"} \union Sending \union Exiting
           /\ got' = Pending => pc'["main"] = pc["main"]
  <2>1. CASE got # Pending
    BY <1>a, <1>t, <2>1, AbandonedFacts DEF MainInv
  <2>2. CASE got = Pending
    <3>1. pc["main"] = "get"
      BY <2>2 DEF MainInv
    <3>2. got' \in Received \union {Pending}
      BY <1>a, <2>2, AbandonedFacts
    <3> QED
      BY <1>a, <1>t, <3>1, <3>2 DEF MainInv, Sending, Exiting
  <2> QED
    BY <2>1, <2>2
<1>1. CASE Connect \/ Send \/ (\E how \in Breaks \ {"noAccept"} : Break(how)) \/ Tcp
  <2>1. UNCHANGED pc
    BY <1>1, HandlersFrame
       DEF Connect, Send, Break, Tcp, RunReturns, WaitAllDone, Forget, Destroy, Renew, End, TcpGoto
  <2>2. ~ClearRecvMsg
    BY <1>t, <2>1 DEF ClearRecvMsg, MainGoto, Goto, Threads
  <2> QED
    BY <1>a, <2>1, <2>2, GotFrame
<1>2. CASE Say \/ GiveExit
  <2>1. got' = got /\ pc'["main"] = pc["main"]
    BY <1>2, <1>t DEF Say, GiveExit, Goto, mainVars, Threads
  <2> QED
    BY <1>a, <2>1
<1>3. CASE Outer \/ Take \/ Inner \/ IsConnected \/ RefreshDoneFlag \/ Leave
  <2>1. /\ got' = got
        /\ pc["main"] # "get"
        /\ pc'["main"] \notin {"get", "done"} \union Sending \union Exiting
    BY <1>3, <1>t
       DEF Outer, Take, Inner, IsConnected, RefreshDoneFlag, Leave, MainGoto, Goto, mainVars,
           Sending, Exiting, Threads
  <2> QED
    BY <1>a, <2>1 DEF MainInv
<1>4. CASE ClearRecvMsg
  <2>1. got' = Pending /\ pc'["main"] = "get"
    BY <1>4, <1>t DEF ClearRecvMsg, MainGoto, Goto, Threads
  <2> QED
    BY <1>t, <2>1 DEF MainInv, Sending, Exiting
<1>5. CASE Get
  <2>1. got' = Abandoned /\ pc["main"] = "get" /\ pc'["main"] = "done"
    BY <1>5, <1>t DEF Get, MainGoto, Goto, Threads
  <2>2. got' \in Received /\ got' # Pending
    BY <2>1, AbandonedFacts DEF MainInv
  <2> QED
    BY <1>t, <2>1, <2>2 DEF MainInv, Sending, Exiting
<1>6. CASE Done
  <2>1. /\ got' = got /\ pc["main"] = "done"
        /\ \/ pc'["main"] = "outer"
           \/ pc'["main"] \in {"reply", "exitStatus"} /\ got \notin {EXIT_MSG, LOST_MSG}
    BY <1>6, <1>t, NumberFacts DEF Done, MainGoto, Goto, Threads
  <2> QED
    BY <1>t, <2>1 DEF MainInv, Received, Sending, Exiting
<1>7. ASSUME NEW p \in Threads, Executor(p)
      PROVE  MainInv'
  <2>1. ~ClearRecvMsg
    BY <1>7, <1>t, ExecutorFrame
       DEF ClearRecvMsg, MainGoto, Goto, Sending, Exiting, Resume, Threads
  <2>2. CASE p = "main"
    <3>1. got # Pending /\ got \in Commands \union {Error}
      BY <1>7, <2>2, ExecutorFrame DEF MainInv, Sending, Exiting
    <3>2. got' = got
      BY <2>1, <3>1, GotFrame, AbandonedFacts
    <3>3. pc'["main"] \in Sending \union Exiting \union {"inner"}
      BY <1>7, <1>t, <2>2, ExecutorFrame DEF Resume
    <3> QED
      BY <1>t, <3>1, <3>2, <3>3 DEF MainInv, Sending, Exiting
  <2>3. CASE p = "kbd"
    <3>1. pc'["main"] = pc["main"]
      BY <1>7, <1>t, <2>3, ExecutorFrame DEF Threads
    <3> QED
      BY <1>a, <2>1, <3>1, GotFrame
  <2> QED
    BY <2>2, <2>3 DEF Threads
<1>8. ASSUME NEW p \in Threads, UseDestroyed(p)
      PROVE  MainInv'
  <2>1. got' = got
    BY <1>8 DEF UseDestroyed
  <2>2. \/ pc'["main"] = pc["main"]
        \/ /\ pc["main"] # "get"
           /\ pc'["main"] \notin {"get", "done"} \union Sending \union Exiting
    BY <1>8, <1>t DEF UseDestroyed, Uses, Resume, Sending, Exiting, Threads
  <2> QED
    BY <1>a, <2>1, <2>2 DEF MainInv
<1> QED
  BY <1>1, <1>2, <1>3, <1>4, <1>5, <1>6, <1>7, <1>8 DEF Next, Main

-----------------------------------------------------------------------------
(* The other variables.                                                    *)

LEMMA ClientStep ==
    ASSUME TypeOK, MainInv, Next
    PROVE  /\ peer' \in {"none", "open", "closed", "reset"}
           /\ chan' \in Seq(Commands) /\ sent' \in 0 .. MaxSent
           /\ outputs' \in 0 .. MaxOutputs
<1>t. /\ peer \in {"none", "open", "closed", "reset"}
      /\ chan \in Seq(Commands) /\ sent \in 0 .. MaxSent
      /\ outputs \in 0 .. MaxOutputs
  BY DEF TypeOK
<1>1. CASE Connect
  BY <1>1, <1>t DEF Connect
<1>2. CASE Send
  <2>1. sent + 1 \in Commands /\ sent + 1 \in 0 .. MaxSent
    BY <1>2, <1>t, NumberFacts DEF Send, Commands
  <2>2. Append(chan, sent + 1) \in Seq(Commands)
    BY <1>t, <2>1, AppendProperties
  <2> QED
    BY <1>2, <1>t, <2>1, <2>2 DEF Send
<1>3. CASE \E how \in Breaks \ {"noAccept"} : Break(how)
  BY <1>3, <1>t, EmptySeq, ConstantsAssumption DEF Break, ConstantsAssumption
<1>4. CASE Handlers
  <2>1. chan' \in Seq(Commands)
    <3>1. CASE OnReceive
      <4>1. PICK n \in 1 .. Len(chan) : chan' = SubSeq(chan, n + 1, Len(chan))
        BY <3>1 DEF OnReceive
      <4>2. n + 1 \in Nat /\ n + 1 >= 1 /\ Len(chan) \in Nat
        BY <1>t, LenProperties
      <4>3. \A k \in n + 1 .. Len(chan) : chan[k] \in Commands
        BY <1>t, <4>2, ElementOfSeq
      <4> QED
        BY <1>t, <4>1, <4>2, <4>3, SubSeqProperties
    <3>2. CASE ~OnReceive
      BY <1>4, <1>t, <3>2
         DEF Handlers, OnAccept, Accepted, OnEof, OnError, AsyncWrite, OnWrite, OnWriteFails,
             SetWriteDone
    <3> QED
      BY <3>1, <3>2
  <2> QED
    BY <1>4, <1>t, <2>1, HandlersFrame
<1>5. CASE RunReturns \/ WaitAllDone \/ Forget \/ End
  BY <1>5, <1>t DEF RunReturns, WaitAllDone, Forget, End, TcpGoto
<1>6. CASE Destroy \/ Renew
  BY <1>6, <1>t, EmptySeq DEF Destroy, Renew
<1>7. CASE Main
  BY <1>7, <1>t, MainFrame DEF clientVars
<1>8. CASE Say
  BY <1>8, <1>t, NumberFacts DEF Say, clientVars
<1>9. CASE GiveExit
  BY <1>9, <1>t DEF GiveExit, Goto, clientVars
<1>10. ASSUME NEW p \in Threads, Executor(p) \/ UseDestroyed(p)
       PROVE  UNCHANGED <<clientVars, outputs>>
  BY <1>10, ExecutorFrame DEF UseDestroyed
<1> QED
  BY <1>1, <1>2, <1>3, <1>4, <1>5, <1>6, <1>7, <1>8, <1>9, <1>10, <1>t DEF Next, Tcp, clientVars

LEMMA TcpStep ==
    ASSUME TypeOK, MainInv, Next
    PROVE  /\ inc' \in 1 .. MaxConns
           /\ tpc' \in {"run", "wait", "forget", "check", "renew", "ending", "ended"}
           /\ server' \in 0 .. MaxConns /\ promised' \in 0 .. Null /\ aborted' \in BOOLEAN
<1>t. /\ inc \in 1 .. MaxConns
      /\ tpc \in {"run", "wait", "forget", "check", "renew", "ending", "ended"}
      /\ server \in 0 .. MaxConns /\ promised \in 0 .. Null /\ aborted \in BOOLEAN
  BY DEF TypeOK
<1>n. 0 \in 0 .. Null /\ Null \in 0 .. Null /\ 0 \in 0 .. MaxConns
  BY NumberFacts DEF Null
<1>1. CASE Connect \/ Send \/ (\E how \in Breaks \ {"noAccept"} : Break(how)) \/ Say \/ GiveExit
  BY <1>1, <1>t DEF Connect, Send, Break, Say, GiveExit, Goto, tcpVars
<1>2. CASE Handlers
  <2>1. aborted' \in BOOLEAN
    <3>1. CASE OnAccept
      BY <3>1 DEF OnAccept, Accepted
    <3>2. CASE ~OnAccept
      BY <1>2, <1>t, <3>2
         DEF Handlers, OnReceive, OnEof, OnError, AsyncWrite, OnWrite, OnWriteFails, SetWriteDone
    <3> QED
      BY <3>1, <3>2
  <2> QED
    BY <1>2, <1>t, <2>1, HandlersFrame DEF tcpVars
<1>3. CASE RunReturns \/ WaitAllDone \/ Forget \/ Destroy
  BY <1>3, <1>t, <1>n DEF RunReturns, WaitAllDone, Forget, Destroy, TcpGoto
<1>4. CASE Renew
  <2>1. inc + 1 \in 1 .. MaxConns /\ inc + 1 \in 0 .. MaxConns /\ inc + 1 \in 0 .. Null
    BY <1>4, <1>t, NumberFacts DEF Renew, Null
  <2>2. (promised # 0) \in BOOLEAN
    OBVIOUS
  <2> QED
    BY <1>4, <1>t, <2>1, <2>2 DEF Renew, SetPromise, Set
<1>5. CASE End
  <2>1. (promised # 0) \in BOOLEAN
    OBVIOUS
  <2> QED
    BY <1>5, <1>t, <1>n, <2>1 DEF End, TcpGoto, SetPromise, Set
<1>6. CASE Main
  <2>1. promised' \in 0 .. Null
    BY <1>6, <1>t, <1>n
       DEF Main, Outer, Take, Inner, IsConnected, RefreshDoneFlag, ClearRecvMsg, Get, Done, Leave
  <2> QED
    BY <1>6, <1>t, <2>1, MainFrame
<1>7. ASSUME NEW p \in Threads, Executor(p)
      PROVE  UNCHANGED <<inc, tpc, server, promised, aborted>>
  BY <1>7, ExecutorFrame
<1>8. ASSUME NEW p \in Threads, UseDestroyed(p)
      PROVE  UNCHANGED <<inc, tpc, server, promised>> /\ aborted' \in BOOLEAN
  BY <1>8, <1>t DEF UseDestroyed, tcpVars
<1> QED
  BY <1>1, <1>2, <1>3, <1>4, <1>5, <1>6, <1>7, <1>8, <1>t DEF Next, Tcp

LEMMA LinesStep ==
    ASSUME TypeOK, MainInv, Next
    PROVE  wire' \in Seq(Replies) /\ pushed' \in Seq(Replies)
<1>t. wire \in Seq(Replies) /\ pushed \in Seq(Replies) /\ srv \in Server
  BY DEF TypeOK
<1>1. CASE Connect \/ Send \/ (\E how \in Breaks \ {"noAccept"} : Break(how)) \/ Say \/ GiveExit
  BY <1>1, <1>t DEF Connect, Send, Break, Say, GiveExit, Goto
<1>2. CASE Handlers
  <2>1. wire' \in Seq(Replies)
    <3>1. CASE AsyncWrite
      <4>1. srv.posted \in Nat /\ srv.posted > 0
        BY <1>t, <3>1 DEF AsyncWrite, Server
      <4>2. srv.posted - 1 \in Nat
        BY <4>1
      <4>3. [srv EXCEPT !.posted = @ - 1] \in Server
        BY <1>t, <4>2 DEF Server
      <4> QED
        BY <1>t, <3>1, <4>3, WriteType DEF AsyncWrite
    <3>2. CASE OnWrite
      <4>1. srv.writing \in Nat /\ srv.writing > 0
        BY <1>t, <3>2 DEF OnWrite, Server
      <4>2. srv.writing - 1 \in Nat
        BY <4>1
      <4>3. [srv EXCEPT !.writing = @ - 1] \in Server
        BY <1>t, <4>2 DEF Server
      <4> QED
        BY <1>t, <3>2, <4>3, WriteType DEF OnWrite
    <3>3. CASE OnAccept \/ OnReceive \/ OnEof \/ OnError \/ OnWriteFails \/ SetWriteDone
      BY <1>t, <3>3
         DEF OnAccept, Accepted, OnReceive, OnEof, OnError, OnWriteFails, SetWriteDone
    <3> QED
      BY <1>2, <3>1, <3>2, <3>3 DEF Handlers
  <2> QED
    BY <1>2, <1>t, <2>1, HandlersFrame
<1>3. CASE RunReturns \/ WaitAllDone \/ Forget \/ Renew \/ End
  BY <1>3, <1>t DEF RunReturns, WaitAllDone, Forget, Renew, End, TcpGoto
<1>4. CASE Destroy
  BY <1>4, EmptySeq DEF Destroy
<1>5. CASE Main
  BY <1>5, <1>t, MainFrame
<1>6. ASSUME NEW p \in Threads, Executor(p)
      PROVE  wire' \in Seq(Replies) /\ pushed' \in Seq(Replies)
  <2>1. CASE Push(p)
    <3>1. (IF p = "main" THEN got ELSE Output) \in Replies
      BY <2>1 DEF Push, Act, Goto, MainInv, Sending, Replies
    <3>2. pushed' \in Seq(Replies)
      BY <1>t, <2>1, <3>1, AppendProperties DEF Push
    <3> QED
      BY <1>6, <1>t, <3>2, ExecutorFrame
  <2>2. CASE ~Push(p)
    BY <1>6, <1>t, <2>2, ExecutorFrame
       DEF Executor, Reply, Refresh, Swap, Post, ExitStatus, ExitRecv, ExitStop
  <2> QED
    BY <2>1, <2>2
<1>7. ASSUME NEW p \in Threads, UseDestroyed(p)
      PROVE  UNCHANGED <<wire, pushed>>
  BY <1>7 DEF UseDestroyed
<1> QED
  BY <1>1, <1>2, <1>3, <1>4, <1>5, <1>6, <1>7, <1>t DEF Next, Tcp

LEMMA ThreadsStep ==
    ASSUME TypeOK, MainInv, Next
    PROVE  /\ ptr' \in [Threads -> 0 .. MaxConns] /\ mine' \in 0 .. Null
           /\ exiting' \in BOOLEAN /\ got' \in 0 .. MaxSent + 4
           /\ executed' \in Seq(Commands \union {Error})
<1>t. /\ ptr \in [Threads -> 0 .. MaxConns] /\ mine \in 0 .. Null
      /\ exiting \in BOOLEAN /\ got \in 0 .. MaxSent + 4
      /\ executed \in Seq(Commands \union {Error})
      /\ inc \in 0 .. MaxConns /\ inc \in 0 .. Null /\ server \in 0 .. MaxConns
      /\ promised \in 0 .. Null
  BY NumberFacts DEF TypeOK, Null
<1>n. 0 \in 0 .. MaxConns
  BY NumberFacts
<1>g. got' \in 0 .. MaxSent + 4
  <2>1. CASE ClearRecvMsg
    <3>1. Pending \in 0 .. MaxSent + 4
      BY NumberFacts DEF Pending
    <3> QED
      BY <2>1, <3>1 DEF ClearRecvMsg
  <2>2. CASE ~ClearRecvMsg
    BY <1>t, <2>2, GotFrame, AbandonedFacts
  <2> QED
    BY <2>1, <2>2
<1>1. CASE Connect \/ Send \/ (\E how \in Breaks \ {"noAccept"} : Break(how)) \/ Say \/ GiveExit
  BY <1>1, <1>t, <1>g DEF Connect, Send, Break, Say, GiveExit, mainVars
<1>2. CASE Tcp
  BY <1>2, <1>t, <1>g, HandlersFrame
     DEF Tcp, RunReturns, WaitAllDone, Forget, Destroy, Renew, End, TcpGoto, mainVars
<1>3. CASE Outer \/ Take \/ Inner \/ IsConnected \/ RefreshDoneFlag \/ ClearRecvMsg \/ Get \/ Leave
  BY <1>3, <1>t, <1>g
     DEF Outer, Take, Inner, IsConnected, RefreshDoneFlag, ClearRecvMsg, Get, Leave, MainGoto,
         mainVars
<1>4. CASE Done
  <2>1. /\ UNCHANGED <<ptr, mine>> /\ exiting' \in BOOLEAN
        /\ executed' = executed \/ (executed' = Append(executed, got)
                                      /\ got \notin {EXIT_MSG, LOST_MSG})
    BY <1>4, <1>t, NumberFacts DEF Done, MainGoto
  <2>2. got \in Received
    BY <1>4 DEF Done, MainGoto, Goto, MainInv
  <2>3. executed' \in Seq(Commands \union {Error})
    BY <1>t, <2>1, <2>2, AppendProperties DEF Received
  <2> QED
    BY <1>t, <1>g, <2>1, <2>3
<1>5. ASSUME NEW p \in Threads, Executor(p)
      PROVE  ptr' \in [Threads -> 0 .. MaxConns] /\ UNCHANGED <<mine, exiting, executed>>
  <2>1. \E n \in 0 .. MaxConns : ptr' = [ptr EXCEPT ![p] = n] \/ ptr' = ptr
    BY <1>5, <1>t, <1>n
       DEF Executor, Reply, Push, Refresh, Swap, Post, ExitStatus, ExitRecv, ExitStop
  <2> QED
    BY <1>5, <1>t, <2>1, ExecutorFrame
<1>6. ASSUME NEW p \in Threads, UseDestroyed(p)
      PROVE  /\ ptr' \in [Threads -> 0 .. MaxConns] /\ mine' \in 0 .. Null
             /\ UNCHANGED <<exiting, executed>>
  BY <1>6, <1>t DEF UseDestroyed
<1> QED
  BY <1>1, <1>2, <1>3, <1>4, <1>5, <1>6, <1>t, <1>g DEF Next, Main

LEMMA TypeStep ==
    ASSUME TypeOK, MainInv, Next
    PROVE  TypeOK'
<1>1. pc' \in [Threads -> Points] /\ pc'["main"] \in MainType /\ pc'["kbd"] \in KbdType
  BY PcStep DEF TypeOK, MainInv, MainType, MainPoints, KbdType
<1> QED
  BY <1>1, SrvStep, ClientStep, TcpStep, LinesStep, ThreadsStep
     DEF TypeOK, MainType, MainPoints, KbdType

-----------------------------------------------------------------------------
(* What was pushed.                                                        *)

Writers == AsyncWrite \/ OnWrite \/ OnWriteFails \/ SetWriteDone \/ Destroy

(* The other steps leave alone what the writers are about.                 *)
LEMMA WriterFrame ==
    ASSUME TypeOK, Next, ~Writers, \A p \in Threads : ~Push(p)
    PROVE  /\ UNCHANGED <<wire, pushed>>
           /\ srv'.msgQueue = srv.msgQueue /\ srv'.writeDone = srv.writeDone
           /\ srv'.writing = srv.writing /\ srv'.emptied = srv.emptied
           /\ srv'.failed = srv.failed
<1> DEFINE Same(s) == /\ s.msgQueue = srv.msgQueue /\ s.writeDone = srv.writeDone
                      /\ s.writing = srv.writing /\ s.emptied = srv.emptied
                      /\ s.failed = srv.failed
<1>t. srv \in Server
  BY DEF TypeOK
<1>1. CASE Connect \/ Send \/ (\E how \in Breaks \ {"noAccept"} : Break(how)) \/ Say \/ GiveExit
  BY <1>1 DEF Connect, Send, Break, Say, GiveExit, Goto
<1>2. CASE OnAccept \/ OnReceive \/ OnEof \/ OnError
  <2>1. UNCHANGED <<wire, pushed>>
    BY <1>2 DEF OnAccept, Accepted, OnReceive, OnEof, OnError, Handle
  <2>2. Same(srv')
    BY <1>2, <1>t DEF OnAccept, Accepted, OnReceive, OnEof, OnError, Handle, Server
  <2> QED
    BY <2>1, <2>2
<1>3. CASE RunReturns \/ WaitAllDone \/ Forget \/ Renew \/ End
  BY <1>3 DEF RunReturns, WaitAllDone, Forget, Renew, End, TcpGoto
<1>4. CASE Main
  <2>1. Same(srv')
    BY <1>4, <1>t
       DEF Main, Outer, Take, Inner, IsConnected, RefreshDoneFlag, ClearRecvMsg, Get, Done, Leave,
           Server
  <2> QED
    BY <1>4, <2>1, MainFrame
<1>5. ASSUME NEW p \in Threads, Executor(p)
      PROVE  UNCHANGED <<wire, pushed>> /\ Same(srv')
  <2>1. Same(srv') /\ UNCHANGED pushed
    BY <1>5, <1>t DEF Executor, Reply, Refresh, Swap, Post, ExitStatus, ExitRecv, ExitStop, Server
  <2> QED
    BY <1>5, <2>1, ExecutorFrame
<1>6. ASSUME NEW p \in Threads, UseDestroyed(p)
      PROVE  UNCHANGED <<srv, wire, pushed>>
  BY <1>6 DEF UseDestroyed
<1> QED
  BY <1>1, <1>2, <1>3, <1>4, <1>5, <1>6 DEF Next, Tcp, Handlers, Writers

(* A handler that writes takes the front of the queue, or sees it empty    *)
(* and sets _writeDone next.                                               *)
LEMMA WriteStep ==
    ASSUME TypeOK, RepliesInOrder, NEW s \in Server, s.msgQueue = srv.msgQueue, WriteOrRest(s)
    PROVE  RepliesInOrder' /\ NeverWedged'
<1>t. s.msgQueue \in Seq(Replies) /\ s.writing \in Nat /\ wire \in Seq(Replies)
  BY DEF TypeOK, Server
<1>1. CASE s.msgQueue # <<>> /\ WriteFront(s)
  <2>1. /\ srv'.msgQueue = Tail(s.msgQueue) /\ srv'.writing = s.writing + 1
        /\ wire' = Append(wire, Head(s.msgQueue)) /\ pushed' = pushed
    BY <1>1 DEF WriteFront, Handle, Server
  <2>2. RepliesInOrder'
    BY <1>t, <1>1, <2>1, MoveFront DEF RepliesInOrder
  <2>3. srv'.writing > 0
    BY <1>t, <2>1
  <2> QED
    BY <2>2, <2>3 DEF NeverWedged
<1>2. CASE /\ s.msgQueue = <<>>
           /\ Handle([s EXCEPT !.emptied = TRUE])
           /\ UNCHANGED wire
  <2>1. srv'.msgQueue = s.msgQueue /\ srv'.emptied = TRUE /\ UNCHANGED <<wire, pushed>>
    BY <1>2 DEF Handle, Server
  <2> QED
    BY <2>1 DEF RepliesInOrder, NeverWedged
<1> QED
  BY <1>1, <1>2 DEF WriteOrRest

LEMMA QueueStep ==
    ASSUME TypeOK, MainInv, RepliesInOrder, NeverWedged, Next
    PROVE  RepliesInOrder' /\ NeverWedged'
<1>t. /\ srv \in Server /\ srv.msgQueue \in Seq(Replies) /\ srv.posted \in Nat
      /\ srv.writing \in Nat /\ wire \in Seq(Replies)
  BY DEF TypeOK, Server
<1>1. CASE AsyncWrite
  <2>1. srv.posted - 1 \in Nat
    BY <1>1, <1>t DEF AsyncWrite
  <2>2. [srv EXCEPT !.posted = @ - 1] \in Server
    BY <1>t, <2>1 DEF Server
  <2>3. [srv EXCEPT !.posted = @ - 1].msgQueue = srv.msgQueue
    BY <1>t DEF Server
  <2> QED
    BY <1>1, <2>2, <2>3, WriteStep DEF AsyncWrite
<1>2. CASE OnWrite
  <2>1. srv.writing - 1 \in Nat
    BY <1>2, <1>t DEF OnWrite
  <2>2. [srv EXCEPT !.writing = @ - 1] \in Server
    BY <1>t, <2>1 DEF Server
  <2>3. [srv EXCEPT !.writing = @ - 1].msgQueue = srv.msgQueue
    BY <1>t DEF Server
  <2> QED
    BY <1>2, <2>2, <2>3, WriteStep DEF OnWrite
<1>3. CASE OnWriteFails
  <2>1. srv'.msgQueue = srv.msgQueue /\ srv'.failed = TRUE /\ UNCHANGED <<wire, pushed>>
    BY <1>3, <1>t DEF OnWriteFails, Handle, Server
  <2> QED
    BY <2>1 DEF RepliesInOrder, NeverWedged
<1>4. CASE SetWriteDone
  <2>1. srv'.msgQueue = srv.msgQueue /\ srv'.writeDone = TRUE /\ UNCHANGED <<wire, pushed>>
    BY <1>4, <1>t DEF SetWriteDone, Handle, Server
  <2> QED
    BY <2>1 DEF RepliesInOrder, NeverWedged
<1>5. CASE Destroy
  <2>1. srv'.msgQueue = <<>> /\ srv'.writeDone = TRUE /\ wire' = <<>> /\ pushed' = <<>>
    BY <1>5 DEF Destroy, NewServer
  <2>2. <<>> \o <<>> = <<>>
    BY EmptySeq, ConcatEmptySeq
  <2> QED
    BY <2>1, <2>2 DEF RepliesInOrder, NeverWedged
<1>6. ASSUME NEW p \in Threads, Push(p)
      PROVE  RepliesInOrder' /\ NeverWedged'
  <2> DEFINE line == IF p = "main" THEN got ELSE Output
  <2>1. line \in Replies
    BY <1>6 DEF Push, Act, Goto, MainInv, Sending, Replies
  <2>2. /\ srv'.msgQueue = Append(srv.msgQueue, line) /\ pushed' = Append(pushed, line)
        /\ srv'.writeDone = srv.writeDone /\ srv'.writing = srv.writing
        /\ srv'.emptied = srv.emptied /\ srv'.failed = srv.failed
        /\ UNCHANGED wire
    BY <1>6, <1>t DEF Push, Act, Goto, Server
  <2> HIDE DEF line
  <2>3. wire \o Append(srv.msgQueue, line) = Append(wire \o srv.msgQueue, line)
    BY <1>t, <2>1, AppendBehind
  <2> QED
    BY <2>2, <2>3 DEF RepliesInOrder, NeverWedged
<1>7. CASE ~Writers /\ \A p \in Threads : ~Push(p)
  BY <1>7, WriterFrame DEF RepliesInOrder, NeverWedged
<1> QED
  BY <1>1, <1>2, <1>3, <1>4, <1>5, <1>6, <1>7 DEF Writers

-----------------------------------------------------------------------------
(* What was executed.                                                      *)

(* The commands do not overtake when some of them are dropped.             *)
LEMMA OrderKept ==
    ASSUME TypeOK, OrderInv,
           UNCHANGED <<sent, executed>>,
           chan' = chan \/ chan' = <<>>,
           srv'.slot = srv.slot \/ srv'.slot \notin Commands,
           got' = got \/ got' \notin Commands,
           got' = Pending => got = Pending \/ srv'.slot \notin Commands,
           pc'["main"] \in {"get", "done"} =>
               pc["main"] \in {"get", "done"} \/ got' \notin Commands
    PROVE  OrderInv'
<1>1. ASSUME NEW c, Behind(c, sent, chan, srv.slot) PROVE Behind(c, sent', chan', srv'.slot)
  BY <1>1, EmptySeq DEF Behind
<1>2. \A i \in 1 .. Len(chan') : chan'[i] <= sent'
  BY EmptySeq DEF OrderInv
<1>3. \A i, j \in 1 .. Len(chan') : i < j => chan'[i] < chan'[j]
  BY EmptySeq DEF OrderInv
<1>4. OncePerCommand'
  BY DEF OrderInv, OncePerCommand
<1>5. srv'.slot \in Commands => Behind(srv'.slot, sent', chan', srv'.slot) /\ srv'.slot = srv.slot
  BY <1>1 DEF OrderInv
<1>6. got' \in Commands => Behind(got', sent', chan', srv'.slot) /\ got' = got
  BY <1>1 DEF OrderInv
<1>7. ASSUME NEW i \in 1 .. Len(executed'), executed'[i] \in Commands
      PROVE  /\ Behind(executed'[i], sent', chan', srv'.slot)
             /\ got' = Pending /\ srv'.slot \in Commands => executed'[i] < srv'.slot
             /\ pc'["main"] \in {"get", "done"} /\ got' \in Commands => executed'[i] < got'
  <2>1. /\ Behind(executed[i], sent, chan, srv.slot)
        /\ got = Pending /\ srv.slot \in Commands => executed[i] < srv.slot
        /\ pc["main"] \in {"get", "done"} /\ got \in Commands => executed[i] < got
    BY <1>7 DEF OrderInv
  <2>2. executed'[i] = executed[i]
    OBVIOUS
  <2>5. Behind(executed'[i], sent', chan', srv'.slot)
    BY <1>1, <2>1, <2>2
  <2>3. got' = Pending /\ srv'.slot \in Commands => executed'[i] < srv'.slot
    BY <2>1, <2>2
  <2>4. pc'["main"] \in {"get", "done"} /\ got' \in Commands => executed'[i] < got'
    BY <2>1, <2>2
  <2> QED
    BY <2>3, <2>4, <2>5
<1> QED
  BY <1>2, <1>3, <1>4, <1>5, <1>6, <1>7 DEF OrderInv, Behind

(* Nor when get() is given what the promise of its time has.               *)
LEMMA OrderAbandoned ==
    ASSUME TypeOK, OrderInv,
           UNCHANGED <<sent, executed>>, chan' \in {chan, <<>>},
           srv'.slot = srv.slot \/ srv'.slot \notin Commands,
           got' = Abandoned,
           pc["main"] \notin {"get", "done"} /\ got # Pending => pc'["main"] \notin {"get", "done"}
    PROVE  OrderInv'
<1>1. CASE got # Pending \/ Abandoned \notin Commands
  <2>1. /\ got' = got \/ got' \notin Commands
        /\ got' # Pending
    BY <1>1, AbandonedFacts
  <2>2. pc'["main"] \in {"get", "done"} => pc["main"] \in {"get", "done"} \/ got' \notin Commands
    BY <1>1
  <2> QED
    BY <2>1, <2>2, OrderKept
<1>2. CASE got = Pending /\ Abandoned \in Commands
  <2>1. got' = srv.slot /\ srv.slot \in Commands /\ got' # Pending
    BY <1>2, AbandonedFacts
  <2>2. srv'.slot \in Commands => srv'.slot = srv.slot
    OBVIOUS
  <2>3. srv.slot \in Nat
    BY <2>1, NumberFacts
  <2>4. ASSUME NEW c, Behind(c, sent, chan, srv.slot) PROVE Behind(c, sent', chan', srv'.slot)
    <3>1. \A i \in 1 .. Len(chan') : i \in 1 .. Len(chan) /\ chan'[i] = chan[i]
      BY EmptySeq
    <3> QED
      BY <2>4, <2>2, <3>1 DEF Behind
  <2>5. Behind(srv.slot, sent, chan, srv.slot) /\ Behind(srv.slot, sent', chan', srv'.slot)
    BY <2>1, <2>4 DEF OrderInv
  <2>6. Behind(got', sent', chan', srv'.slot)
    BY <2>1, <2>2, <2>3, <2>5 DEF Behind
  <2>8. ASSUME NEW i \in 1 .. Len(executed'), executed'[i] \in Commands
        PROVE  Behind(executed'[i], sent', chan', srv'.slot) /\ executed'[i] < got'
    BY <2>8, <2>1, <2>4, <1>2 DEF OrderInv
  <2>9. OncePerCommand'
    BY DEF OrderInv, OncePerCommand
  <2>7. /\ \A i \in 1 .. Len(chan') : chan'[i] <= sent'
        /\ \A i, j \in 1 .. Len(chan') : i < j => chan'[i] < chan'[j]
    BY EmptySeq DEF OrderInv
  <2> QED
    BY <2>1, <2>5, <2>2, <2>6, <2>7, <2>8, <2>9 DEF OrderInv, Behind
<1> QED
  BY <1>1, <1>2

(* A command that is sent follows all the others.                          *)
LEMMA OrderSend ==
    ASSUME TypeOK, OrderInv, Send
    PROVE  OrderInv'
<1>t. sent \in Nat /\ chan \in Seq(Commands) /\ Len(chan) \in Nat
  BY DEF TypeOK
<1>1. /\ sent' = sent + 1 /\ chan' = Append(chan, sent + 1)
      /\ UNCHANGED <<srv, got, executed, pc>>
  BY DEF Send, mainVars
<1>2. /\ Len(chan') = Len(chan) + 1
      /\ \A i \in 1 .. Len(chan) : chan'[i] = chan[i]
      /\ chan'[Len(chan) + 1] = sent + 1
  BY <1>t, <1>1, AppendProperties
<1>3. \A i \in 1 .. Len(chan) : chan[i] \in Nat
  BY <1>t, ElementOfSeq, NumberFacts
<1>4. ASSUME NEW i \in 1 .. Len(chan') PROVE i \in 1 .. Len(chan) \/ i = Len(chan) + 1
  BY <1>t, <1>2
<1>5. ASSUME NEW c \in Nat, Behind(c, sent, chan, srv.slot)
      PROVE  Behind(c, sent', chan', srv'.slot)
  <2>1. c <= sent'
    BY <1>t, <1>1, <1>5 DEF Behind
  <2>2. ASSUME NEW i \in 1 .. Len(chan') PROVE c < chan'[i]
    BY <1>t, <1>1, <1>2, <1>4, <1>5, <2>2 DEF Behind
  <2>3. srv'.slot \in Commands => c <= srv'.slot
    BY <1>1, <1>5 DEF Behind
  <2> QED
    BY <2>1, <2>2, <2>3 DEF Behind
<1>6. \A i \in 1 .. Len(chan') : chan'[i] <= sent'
  BY <1>t, <1>1, <1>2, <1>3, <1>4 DEF OrderInv
<1>7. ASSUME NEW i \in 1 .. Len(chan'), NEW j \in 1 .. Len(chan'), i < j
      PROVE  chan'[i] < chan'[j]
  <2>1. i \in 1 .. Len(chan)
    BY <1>t, <1>2, <1>4, <1>7
  <2>2. CASE j \in 1 .. Len(chan)
    BY <1>2, <1>7, <2>1, <2>2 DEF OrderInv
  <2>3. CASE j = Len(chan) + 1
    <3>1. chan[i] \in Nat /\ chan[i] <= sent
      BY <1>3, <2>1 DEF OrderInv
    <3> QED
      BY <1>t, <1>2, <2>1, <2>3, <3>1
  <2> QED
    BY <1>4, <2>2, <2>3
<1>8. /\ srv'.slot \in Commands => Behind(srv'.slot, sent', chan', srv'.slot)
      /\ got' \in Commands => Behind(got', sent', chan', srv'.slot)
  BY <1>1, <1>5, NumberFacts DEF OrderInv
<1>9. ASSUME NEW i \in 1 .. Len(executed'), executed'[i] \in Commands
      PROVE  /\ Behind(executed'[i], sent', chan', srv'.slot)
             /\ got' = Pending /\ srv'.slot \in Commands => executed'[i] < srv'.slot
             /\ pc'["main"] \in {"get", "done"} /\ got' \in Commands => executed'[i] < got'
  BY <1>9, <1>1, <1>5, NumberFacts DEF OrderInv
<1>10. OncePerCommand'
  BY <1>1 DEF OrderInv, OncePerCommand
<1> QED
  BY <1>6, <1>7, <1>8, <1>9, <1>10 DEF OrderInv

(* The command handed over lies before those still on their way.           *)
LEMMA OrderReceive ==
    ASSUME TypeOK, OrderInv, OnReceive
    PROVE  OrderInv'
<1>t. sent \in Nat /\ chan \in Seq(Commands) /\ Len(chan) \in Nat /\ srv \in Server
  BY DEF TypeOK
<1>1. PICK n \in 1 .. Len(chan) : chan' = SubSeq(chan, n + 1, Len(chan))
  BY DEF OnReceive
<1>2. UNCHANGED <<sent, got, executed, pc>>
  BY DEF OnReceive, Handle, mainVars
<1>3. srv'.slot = srv.slot \/ (srv.slot = NoMsg /\ srv'.slot = chan[1])
  BY <1>t DEF OnReceive, Handle, Set, Server
<1>4. \A i \in 1 .. Len(chan) : chan[i] \in Nat /\ chan[i] \in Commands
  BY <1>t, ElementOfSeq, NumberFacts
<1>5. ASSUME NEW i \in 1 .. Len(chan')
      PROVE  i + n \in 1 .. Len(chan) /\ chan'[i] = chan[i + n]
  <2>1. Len(chan') = IF n + 1 <= Len(chan) THEN Len(chan) - n ELSE 0
    BY <1>t, <1>1, <1>4, SubSeqProperties
  <2>2. i \in 1 .. Len(chan) - n /\ n + 1 <= Len(chan)
    BY <1>t, <2>1
  <2> QED
    BY <1>t, <1>1, <1>4, <2>2, SubSeqProperties
<1>6. 1 \in 1 .. Len(chan) /\ chan[1] \in Nat /\ chan[1] <= sent
  BY <1>t, <1>4 DEF OrderInv
<1>7. ASSUME NEW c \in Nat, Behind(c, sent, chan, srv.slot)
      PROVE  Behind(c, sent', chan', srv'.slot) /\ c < chan[1]
  <2>1. c < chan[1]
    BY <1>6, <1>7 DEF Behind
  <2>2. \A i \in 1 .. Len(chan') : c < chan'[i]
    BY <1>5, <1>7 DEF Behind
  <2> QED
    BY <1>2, <1>3, <1>6, <1>7, <2>1, <2>2 DEF Behind
<1>8. \A i \in 1 .. Len(chan') : chan'[i] <= sent'
  BY <1>2, <1>5 DEF OrderInv
<1>9. \A i, j \in 1 .. Len(chan') : i < j => chan'[i] < chan'[j]
  <2>1. ASSUME NEW i \in 1 .. Len(chan'), NEW j \in 1 .. Len(chan'), i < j
        PROVE  chan'[i] < chan'[j]
    <3>1. i + n < j + n
      BY <2>1
    <3> QED
      BY <1>5, <3>1 DEF OrderInv
  <2> QED
    BY <2>1
<1>10. srv'.slot \in Commands => Behind(srv'.slot, sent', chan', srv'.slot)
  <2>1. CASE srv'.slot = srv.slot
    <3>1. srv.slot \in Commands => Behind(srv.slot, sent', chan', srv'.slot)
      BY <1>7, NumberFacts DEF OrderInv
    <3> QED
      BY <2>1, <3>1
  <2>2. CASE srv'.slot = chan[1]
    <3>1. \A i \in 1 .. Len(chan') : chan[1] < chan'[i]
      BY <1>5, <1>6 DEF OrderInv
    <3> QED
      BY <1>2, <1>6, <2>2, <3>1 DEF Behind
  <2> QED
    BY <1>3, <2>1, <2>2
<1>11. got' \in Commands => Behind(got', sent', chan', srv'.slot)
  BY <1>2, <1>7, NumberFacts DEF OrderInv
<1>12. ASSUME NEW i \in 1 .. Len(executed'), executed'[i] \in Commands
       PROVE  /\ Behind(executed'[i], sent', chan', srv'.slot)
              /\ got' = Pending /\ srv'.slot \in Commands => executed'[i] < srv'.slot
              /\ pc'["main"] \in {"get", "done"} /\ got' \in Commands => executed'[i] < got'
  <2>1. /\ executed'[i] = executed[i] /\ executed[i] \in Nat
        /\ Behind(executed[i], sent, chan, srv.slot) /\ i \in 1 .. Len(executed)
    BY <1>2, <1>12, NumberFacts DEF OrderInv
  <2>2. Behind(executed'[i], sent', chan', srv'.slot) /\ executed[i] < chan[1]
    BY <1>7, <2>1
  <2>3. got' = Pending /\ srv'.slot \in Commands => executed'[i] < srv'.slot
    BY <1>2, <1>3, <1>12, <2>1, <2>2 DEF OrderInv
  <2>4. pc'["main"] \in {"get", "done"} /\ got' \in Commands => executed'[i] < got'
    BY <1>2, <1>12, <2>1 DEF OrderInv
  <2> QED
    BY <2>2, <2>3, <2>4
<1>13. OncePerCommand'
  BY <1>2 DEF OrderInv, OncePerCommand
<1> QED
  BY <1>8, <1>9, <1>10, <1>11, <1>12, <1>13 DEF OrderInv

(* The main thread executes what it was given last.                        *)
LEMMA OrderDone ==
    ASSUME TypeOK, MainInv, OrderInv, Done
    PROVE  OrderInv'
<1>t. /\ srv \in Server /\ executed \in Seq(Commands \union {Error})
      /\ Len(executed) \in Nat /\ pc \in [Threads -> Points]
  BY DEF TypeOK, MainInv
<1>1. /\ UNCHANGED <<sent, chan, got>> /\ srv'.slot = srv.slot
      /\ pc["main"] = "done" /\ pc'["main"] \notin {"get", "done"}
  BY <1>t DEF Done, MainGoto, Goto, clientVars, Server, Threads
<1>2. CASE executed' = executed
  BY <1>1, <1>2, OrderKept
<1>3. CASE executed' = Append(executed, got)
  <2>1. got # Pending /\ got \in Received
    BY <1>1 DEF Done, MainGoto, Goto, MainInv
  <2>2. /\ Len(executed') = Len(executed) + 1
        /\ \A i \in 1 .. Len(executed) : executed'[i] = executed[i]
        /\ executed'[Len(executed) + 1] = got
    BY <1>t, <1>3, AppendProperties
  <2>3. ASSUME NEW i \in 1 .. Len(executed')
        PROVE  i \in 1 .. Len(executed) \/ i = Len(executed) + 1
    BY <1>t, <2>2
  <2>4. ASSUME NEW i \in 1 .. Len(executed'), executed'[i] \in Commands
        PROVE  Behind(executed'[i], sent, chan, srv.slot)
    BY <1>1, <2>2, <2>3, <2>4 DEF OrderInv
  <2>5. ASSUME NEW i \in 1 .. Len(executed'), NEW j \in 1 .. Len(executed'), i < j,
               executed'[i] \in Commands, executed'[j] \in Commands
        PROVE  executed'[i] < executed'[j]
    <3>1. i \in 1 .. Len(executed)
      BY <1>t, <2>2, <2>3, <2>5
    <3>2. CASE j \in 1 .. Len(executed)
      BY <2>2, <2>5, <3>1, <3>2 DEF OrderInv, OncePerCommand
    <3>3. CASE j = Len(executed) + 1
      BY <1>1, <2>2, <2>5, <3>1, <3>3 DEF OrderInv
    <3> QED
      BY <2>3, <3>2, <3>3
  <2>6. OncePerCommand'
    BY <2>5 DEF OncePerCommand
  <2>7. /\ \A i \in 1 .. Len(chan') : chan'[i] <= sent'
        /\ \A i, j \in 1 .. Len(chan') : i < j => chan'[i] < chan'[j]
        /\ srv'.slot \in Commands => Behind(srv'.slot, sent', chan', srv'.slot)
        /\ got' \in Commands => Behind(got', sent', chan', srv'.slot)
    BY <1>1 DEF OrderInv
  <2> QED
    BY <1>1, <2>1, <2>4, <2>6, <2>7 DEF OrderInv
<1> QED
  BY <1>2, <1>3 DEF Done

(* Which steps change the message handed over, and to what.                *)
LEMMA SlotFrame ==
    ASSUME TypeOK, Next, ~OnReceive
    PROVE  srv'.slot = srv.slot \/ srv'.slot \notin Commands
<1>t. srv \in Server
  BY DEF TypeOK
<1>1. CASE Connect \/ Send \/ (\E how \in Breaks \ {"noAccept"} : Break(how)) \/ Say \/ GiveExit
  BY <1>1 DEF Connect, Send, Break, Say, GiveExit
<1>2. CASE OnAccept \/ OnEof \/ OnError \/ OnWriteFails \/ SetWriteDone
  BY <1>2, <1>t, NumberFacts
     DEF OnAccept, Accepted, OnEof, OnError, OnWriteFails, SetWriteDone, Handle, Set, Server
<1>3. CASE AsyncWrite \/ OnWrite
  <2>1. PICK s \in {[srv EXCEPT !.posted = @ - 1], [srv EXCEPT !.writing = @ - 1]} : WriteOrRest(s)
    BY <1>3 DEF AsyncWrite, OnWrite
  <2>2. /\ [srv EXCEPT !.posted = @ - 1].slot = srv.slot
        /\ [srv EXCEPT !.writing = @ - 1].slot = srv.slot
    BY <1>t DEF Server
  <2>3. s.slot = srv.slot
    BY <2>1, <2>2
  <2>4. /\ [s EXCEPT !.emptied = TRUE].slot = s.slot
        /\ [s EXCEPT !.writeDone = FALSE, !.writing = @ + 1, !.msgQueue = Tail(@)].slot = s.slot
    BY <1>t, <2>1 DEF Server
  <2> QED
    BY <2>1, <2>3, <2>4 DEF WriteOrRest, WriteFront, Handle
<1>4. CASE RunReturns \/ WaitAllDone \/ Forget \/ Renew \/ End
  BY <1>4 DEF RunReturns, WaitAllDone, Forget, Renew, End
<1>5. CASE Destroy
  BY <1>5, NumberFacts DEF Destroy, NewServer
<1>6. CASE Main
  BY <1>6, <1>t, NumberFacts
     DEF Main, Outer, Take, Inner, IsConnected, RefreshDoneFlag, ClearRecvMsg, Get, Done, Leave, Set,
         Server
<1>7. ASSUME NEW p \in Threads, Executor(p)
      PROVE  srv'.slot = srv.slot \/ srv'.slot \notin Commands
  BY <1>7, <1>t, NumberFacts
     DEF Executor, Reply, Push, Refresh, Swap, Post, ExitStatus, ExitRecv, ExitStop, Set, Server
<1>8. ASSUME NEW p \in Threads, UseDestroyed(p)
      PROVE  UNCHANGED srv
  BY <1>8 DEF UseDestroyed
<1> QED
  BY <1>1, <1>2, <1>3, <1>4, <1>5, <1>6, <1>7, <1>8 DEF Next, Tcp, Handlers

LEMMA OrderStep ==
    ASSUME TypeOK, MainInv, OrderInv, Next
    PROVE  OrderInv'
<1>t. pc \in [Threads -> Points] /\ pc' \in [Threads -> Points]
  BY MainStep DEF MainInv
<1>1. CASE Send
  BY <1>1, OrderSend
<1>2. CASE OnReceive
  BY <1>2, OrderReceive
<1>3. CASE Done
  BY <1>3, OrderDone
<1>5. CASE ~OnReceive /\ got' = got /\ UNCHANGED <<sent, executed>> /\ chan' \in {chan, <<>>}
             /\ (pc'["main"] \in {"get", "done"} => pc["main"] \in {"get", "done"})
  BY <1>5, SlotFrame, OrderKept
<1>6. CASE Connect \/ (\E how \in Breaks \ {"noAccept"} : Break(how)) \/ Say \/ GiveExit
  <2>1. /\ UNCHANGED <<sent, executed, got>> /\ chan' \in {chan, <<>>}
        /\ pc'["main"] = pc["main"] /\ srv' = srv
    BY <1>6, <1>t DEF Connect, Break, Say, GiveExit, Goto, mainVars, clientVars, Threads
  <2> QED
    BY <2>1, OrderKept
<1>7. CASE Handlers /\ ~OnReceive
  <2>1. UNCHANGED <<sent, executed, got, pc>>
    BY <1>7, HandlersFrame DEF mainVars
  <2>2. chan' = chan
    BY <1>7 DEF Handlers, OnAccept, Accepted, OnEof, OnError, AsyncWrite, OnWrite, OnWriteFails,
                SetWriteDone
  <2> QED
    BY <1>5, <1>7, <2>1, <2>2
<1>8. CASE RunReturns \/ WaitAllDone \/ Forget \/ End
  <2>1. UNCHANGED <<sent, executed, got, pc, chan, srv>>
    BY <1>8 DEF RunReturns, WaitAllDone, Forget, End, TcpGoto
  <2> QED
    BY <2>1, OrderKept
<1>9. CASE Destroy
  <2>1. /\ UNCHANGED <<sent, executed, pc>> /\ chan' = <<>> /\ srv'.slot = NoMsg
        /\ got' = Abandoned
    BY <1>9 DEF Destroy, NewServer
  <2> QED
    BY <2>1, OrderAbandoned, NumberFacts
<1>10. CASE Renew
  <2>1. UNCHANGED <<sent, executed, got, pc, srv>> /\ chan' = <<>>
    BY <1>10 DEF Renew, mainVars
  <2> QED
    BY <2>1, OrderKept
<1>11. CASE Outer \/ Take \/ Inner \/ IsConnected \/ RefreshDoneFlag \/ Leave
  <2>1. UNCHANGED <<sent, executed, got, chan>> /\ pc'["main"] \notin {"get", "done"}
    BY <1>11, <1>t
       DEF Outer, Take, Inner, IsConnected, RefreshDoneFlag, Leave, MainGoto, Goto, mainVars,
           clientVars, Threads
  <2>2. srv'.slot = srv.slot \/ srv'.slot \notin Commands
    <3>1. srv \in Server
      BY DEF TypeOK
    <3> QED
      BY <1>11, <3>1, NumberFacts
         DEF Outer, Take, Inner, IsConnected, RefreshDoneFlag, Leave, Set, Server
  <2> QED
    BY <2>1, <2>2, OrderKept
<1>12. CASE ClearRecvMsg
  <2>1. /\ UNCHANGED <<sent, executed, chan>> /\ got' = Pending /\ srv'.slot = NoMsg
    BY <1>12 DEF ClearRecvMsg, MainGoto, Goto, clientVars, TypeOK, Server
  <2> QED
    BY <2>1, OrderKept, NumberFacts
<1>13. CASE Get
  <2>1. /\ UNCHANGED <<sent, executed, chan>> /\ got' = Abandoned /\ srv'.slot = srv.slot
        /\ pc["main"] = "get"
    BY <1>13 DEF Get, MainGoto, Goto, clientVars, TypeOK, Server
  <2> QED
    BY <2>1, OrderAbandoned
<1>14. ASSUME NEW p \in Threads, Executor(p)
       PROVE  OrderInv'
  <2>1. UNCHANGED <<sent, executed, chan>>
    BY <1>14, ExecutorFrame DEF clientVars
  <2>2. srv'.slot = srv.slot \/ srv'.slot \notin Commands
    <3>1. srv \in Server
      BY DEF TypeOK
    <3> QED
      BY <1>14, <3>1, NumberFacts
         DEF Executor, Reply, Push, Refresh, Swap, Post, ExitStatus, ExitRecv, ExitStop, Set, Server
  <2>3. got' = got \/ got' = Abandoned
    BY <1>14 DEF Executor, Reply, Push, Refresh, Swap, Post, ExitStatus, ExitRecv, ExitStop
  <2>4. pc'["main"] = pc["main"] \/ pc'["main"] \notin {"get", "done"}
    BY <1>14, <1>t, ExecutorFrame DEF Resume, Sending, Exiting, Threads
  <2> QED
    BY <2>1, <2>2, <2>3, <2>4, OrderKept, OrderAbandoned
<1>15. ASSUME NEW p \in Threads, UseDestroyed(p)
       PROVE  OrderInv'
  <2>1. UNCHANGED <<sent, executed, chan, got, srv>>
    BY <1>15 DEF UseDestroyed, clientVars
  <2>2. pc'["main"] = pc["main"] \/ pc'["main"] \notin {"get", "done"}
    BY <1>15, <1>t DEF UseDestroyed, Uses, Resume, Threads
  <2> QED
    BY <2>1, <2>2, OrderKept
<1> QED
  BY <1>1, <1>2, <1>3, <1>6, <1>7, <1>8, <1>9, <1>10, <1>11, <1>12, <1>13, <1>14, <1>15
     DEF Next, Tcp, Main

-----------------------------------------------------------------------------
(* What is answered.                                                       *)

LEMMA AnswerStep ==
    ASSUME TypeOK, MainInv, OrderInv, AnswerInv, Next
    PROVE  AnswerInv'
<1>t. /\ pushed \in Seq(Replies) /\ executed \in Seq(Commands \union {Error})
      /\ Len(pushed) \in Nat /\ Len(executed) \in Nat /\ pc \in [Threads -> Points]
  BY DEF TypeOK, MainInv
<1>p. pc' \in [Threads -> Points]
  BY MainStep DEF MainInv
<1>1. CASE Done
  <2>1. /\ pushed' = pushed /\ got' = got /\ pc["main"] = "done"
        /\ \/ executed' = executed /\ pc'["main"] = "outer"
           \/ executed' = Append(executed, got)
    BY <1>1, <1>t DEF Done, MainGoto, Goto, Threads
  <2>2. CASE executed' = executed /\ pc'["main"] = "outer"
    BY <2>1, <2>2 DEF AnswerInv, Executed, Unsent, Exiting
  <2>3. CASE executed' = Append(executed, got)
    <3>1. /\ Len(executed') = Len(executed) + 1 /\ executed'[Len(executed) + 1] = got
          /\ \A k \in 1 .. Len(executed) : executed'[k] = executed[k]
          /\ \A k \in 1 .. Len(executed) : k \in 1 .. Len(executed')
      <4>1. got \in Received /\ got # Pending
        BY <2>1 DEF MainInv
      <4> QED
        BY <1>t, <2>3, AppendProperties
    <3>2. \A k \in 1 .. Len(executed) :
             executed[k] \in Commands /\ got \in Commands => executed[k] < got
      BY <2>1 DEF OrderInv
    <3>3. ASSUME NEW i \in 1 .. Len(pushed), pushed[i] \in Commands
          PROVE  Executed(pushed[i])' /\ (got \in Commands => pushed[i] < got)
      <4>1. PICK k \in 1 .. Len(executed) : executed[k] = pushed[i]
        BY <3>3 DEF AnswerInv, Executed
      <4> QED
        BY <2>1, <3>1, <3>2, <3>3, <4>1 DEF Executed
    <3>4. \A i, j \in 1 .. Len(pushed') :
             i < j /\ pushed'[i] \in Commands /\ pushed'[j] \in Commands => pushed'[i] < pushed'[j]
      BY <2>1 DEF AnswerInv
    <3>5. executed'[Len(executed')] = got' /\ Len(executed') > 0
      BY <1>t, <2>1, <3>1 DEF Executed
    <3> QED
      BY <2>1, <3>3, <3>4, <3>5 DEF AnswerInv
  <2> QED
    BY <2>1, <2>2, <2>3
<1>s. CASE /\ executed' = executed
           /\ \/ pushed' = pushed
              \/ pushed' = <<>>
           /\ pc'["main"] \in Unsent => pc["main"] \in Unsent
           /\ pc["main"] \in Unsent => got' = got
  BY <1>s, EmptySeq DEF AnswerInv, Executed
<1>g. pc["main"] \in Unsent => got # Pending /\ got \in Commands \union {Error}
  BY DEF MainInv, Unsent, Sending, Exiting
<1>a. pc["main"] \in Unsent /\ ~ClearRecvMsg => got' = got
  BY <1>g, GotFrame, AbandonedFacts
<1>2. CASE Connect \/ Send \/ (\E how \in Breaks \ {"noAccept"} : Break(how)) \/ Say \/ GiveExit
  <2>1. UNCHANGED <<executed, pushed, got>> /\ pc'["main"] = pc["main"]
    BY <1>2, <1>t DEF Connect, Send, Break, Say, GiveExit, Goto, mainVars, Threads
  <2> QED
    BY <1>s, <2>1
<1>3. CASE Tcp
  <2>1. UNCHANGED <<executed, pc>> /\ pushed' \in {pushed, <<>>}
    BY <1>3, HandlersFrame
       DEF Tcp, RunReturns, WaitAllDone, Forget, Destroy, Renew, End, TcpGoto, mainVars
  <2>2. ~ClearRecvMsg
    BY <1>t, <2>1 DEF ClearRecvMsg, MainGoto, Goto, Threads
  <2> QED
    BY <1>s, <1>a, <2>1, <2>2
<1>4. CASE Main /\ ~Done
  <2>1. executed' = executed
    BY <1>4 DEF Main, Outer, Take, Inner, IsConnected, RefreshDoneFlag, ClearRecvMsg, Get, Leave,
                mainVars
  <2>2. pushed' = pushed /\ pc["main"] \notin Unsent
    BY <1>4, MainFrame DEF MainPoints, Unsent, Exiting
  <2>3. pc'["main"] \notin Unsent
    BY <1>4, <1>t
       DEF Main, Outer, Take, Inner, IsConnected, RefreshDoneFlag, ClearRecvMsg, Get, Leave,
           MainGoto, Goto, Unsent, Exiting, Threads
  <2> QED
    BY <1>s, <2>1, <2>2, <2>3
<1>5. ASSUME NEW p \in Threads, Executor(p)
      PROVE  AnswerInv'
  <2>1. executed' = executed /\ ~ClearRecvMsg
    BY <1>5, <1>t, ExecutorFrame
       DEF ClearRecvMsg, MainGoto, Goto, Sending, Exiting, Resume, Threads
  <2>2. CASE ~Push(p)
    <3>1. pushed' = pushed
      BY <1>5, <2>2 DEF Executor, Reply, Refresh, Swap, Post, ExitStatus, ExitRecv, ExitStop
    <3>2. pc'["main"] \in Unsent => pc["main"] \in Unsent
      BY <1>5, <1>t, <2>2
         DEF Executor, Reply, Refresh, Swap, Post, ExitStatus, ExitRecv, ExitStop, Act, Goto, Resume,
             Unsent, Exiting, Threads
    <3> QED
      BY <1>s, <1>a, <2>1, <3>1, <3>2
  <2>3. CASE Push(p) /\ p = "kbd"
    <3>1. pc'["main"] = pc["main"] /\ pushed' = Append(pushed, Output)
      BY <1>t, <2>3 DEF Push, Act, Goto, Threads
    <3>2. /\ Len(pushed') = Len(pushed) + 1 /\ pushed'[Len(pushed) + 1] = Output
          /\ \A i \in 1 .. Len(pushed) : pushed'[i] = pushed[i]
      <4>1. Output \in Replies
        BY DEF Replies
      <4> QED
        BY <1>t, <3>1, <4>1, AppendProperties
    <3>3. ASSUME NEW i \in 1 .. Len(pushed'), pushed'[i] \in Commands
          PROVE  i \in 1 .. Len(pushed) /\ pushed'[i] = pushed[i]
      BY <1>t, <3>2, <3>3, NumberFacts
    <3> QED
      BY <1>a, <2>1, <3>1, <3>3 DEF AnswerInv, Executed
  <2>4. CASE Push(p) /\ p = "main"
    <3>1. /\ pc["main"] = "push" /\ pc'["main"] = "refresh"
          /\ pushed' = Append(pushed, got)
      BY <1>t, <2>4 DEF Push, Act, Goto, Threads
    <3>2. pc["main"] \in Unsent /\ pc'["main"] \notin Unsent
      BY <3>1 DEF Unsent, Exiting
    <3>3. /\ Len(pushed') = Len(pushed) + 1 /\ pushed'[Len(pushed) + 1] = got
          /\ \A i \in 1 .. Len(pushed) : pushed'[i] = pushed[i]
      <4>1. got \in Replies
        BY <1>g, <3>2 DEF Replies
      <4> QED
        BY <1>t, <3>1, <4>1, AppendProperties
    <3>4. ASSUME NEW i \in 1 .. Len(pushed')
          PROVE  \/ i \in 1 .. Len(pushed) /\ pushed'[i] = pushed[i]
                 \/ i = Len(pushed) + 1 /\ pushed'[i] = got
      BY <1>t, <3>3
    <3>5. Executed(got)
      BY <1>t, <3>2 DEF AnswerInv, Executed
    <3>6. ASSUME NEW i \in 1 .. Len(pushed'), pushed'[i] \in Commands
          PROVE  Executed(pushed[i])' \/ Executed(pushed'[i])
      BY <3>4, <3>5, <3>6 DEF AnswerInv
    <3>7. ASSUME NEW i \in 1 .. Len(pushed'), NEW j \in 1 .. Len(pushed'), i < j,
                 pushed'[i] \in Commands, pushed'[j] \in Commands
          PROVE  pushed'[i] < pushed'[j]
      <4>1. i \in 1 .. Len(pushed)
        BY <1>t, <3>3, <3>7
      <4>2. CASE j \in 1 .. Len(pushed)
        BY <3>3, <3>7, <4>1, <4>2 DEF AnswerInv
      <4>3. CASE j = Len(pushed) + 1
        BY <3>2, <3>3, <3>7, <4>1, <4>3 DEF AnswerInv
      <4> QED
        BY <3>4, <4>2, <4>3
    <3>8. ASSUME NEW i \in 1 .. Len(pushed'), pushed'[i] \in Commands
          PROVE  \E k \in 1 .. Len(executed') : executed'[k] = pushed'[i]
      BY <2>1, <3>4, <3>5, <3>8 DEF AnswerInv, Executed
    <3> QED
      BY <3>2, <3>7, <3>8 DEF AnswerInv, Executed
  <2> QED
    BY <2>2, <2>3, <2>4 DEF Threads
<1>6. ASSUME NEW p \in Threads, UseDestroyed(p)
      PROVE  AnswerInv'
  <2>1. UNCHANGED <<executed, pushed, got>>
    BY <1>6 DEF UseDestroyed
  <2>2. pc'["main"] = pc["main"] \/ pc'["main"] \notin Unsent
    BY <1>6, <1>t DEF UseDestroyed, Uses, Resume, Unsent, Exiting, Threads
  <2> QED
    BY <1>s, <2>1, <2>2
<1> QED
  BY <1>1, <1>2, <1>3, <1>4, <1>5, <1>6 DEF Next, Main

-----------------------------------------------------------------------------
(* The invariant, and the theorems.                                        *)

LEMMA InitInv == Init => IInv
<1> SUFFICES ASSUME Init PROVE IInv
  OBVIOUS
<1>1. NewServer \in Server
  BY EmptySeq DEF NewServer, Server
<1>2. TypeOK
  <2>1. 1 \in 1 .. MaxConns /\ 1 \in 0 .. MaxConns /\ 1 \in 0 .. Null /\ 0 \in 0 .. Null
        /\ 0 \in 0 .. MaxSent /\ 0 \in 0 .. MaxOutputs /\ NoMsg \in 0 .. MaxSent + 4
        /\ 0 \in 0 .. MaxConns
    BY NumberFacts DEF Null, NoMsg
  <2> QED
    BY <1>1, <2>1, EmptySeq DEF Init, TypeOK, Threads
<1>3. MainInv
  BY NumberFacts
     DEF Init, MainInv, Threads, Points, MainType, MainPoints, KbdType, Sending, Exiting
<1>4. OrderInv
  BY NumberFacts, EmptySeq DEF Init, NewServer, OrderInv, OncePerCommand
<1>6. AnswerInv
  BY EmptySeq DEF Init, AnswerInv, Unsent, Exiting, Threads
<1>5. RepliesInOrder /\ NeverWedged
  <2>1. <<>> \o <<>> = <<>>
    BY EmptySeq, ConcatEmptySeq
  <2> QED
    BY <2>1 DEF Init, NewServer, RepliesInOrder, NeverWedged
<1> QED
  BY <1>2, <1>3, <1>4, <1>5, <1>6 DEF IInv

LEMMA NextInv == IInv /\ [Next]_vars => IInv'
<1> SUFFICES ASSUME IInv, [Next]_vars PROVE IInv'
  OBVIOUS
<1>1. CASE Next
  BY <1>1, TypeStep, MainStep, OrderStep, AnswerStep, QueueStep DEF IInv
<1>2. CASE UNCHANGED vars
  <2>1. UNCHANGED <<srv, inc, tpc, server, promised, peer, chan, sent, wire, exiting, pc, ptr,
                    mine, got, executed, outputs, aborted, pushed>>
    BY <1>2 DEF vars, tcpVars, clientVars, mainVars
  <2>2. TypeOK' /\ MainInv'
    BY <2>1 DEF IInv, TypeOK, MainInv
  <2>3. OrderInv'
    BY <2>1 DEF IInv, OrderInv, OncePerCommand
  <2>4. AnswerInv'
    BY <2>1 DEF IInv, AnswerInv, Executed
  <2> QED
    BY <2>1, <2>2, <2>3, <2>4 DEF IInv, RepliesInOrder, NeverWedged
<1> QED
  BY <1>1, <1>2

LEMMA Invariance == Spec => []IInv
  BY InitInv, NextInv, PTL DEF Spec

(* TypeCorrect: the variables keep their types.                            *)
THEOREM TypeCorrect == Spec => []TypeOK
<1>1. IInv => TypeOK
  BY DEF IInv
<1> QED
  BY <1>1, Invariance, PTL

(* ExecutedOnce: each command is executed once at most, and in the order   *)
(* in which they were sent, although promise and connection are replaced.  *)
THEOREM ExecutedOnce == Spec => []OncePerCommand
<1>1. IInv => OncePerCommand
  BY DEF IInv, OrderInv
<1> QED
  BY <1>1, Invariance, PTL

(* QueuedInOrder: what the threads push is written once and in the order   *)
(* of the pushes.                                                          *)
THEOREM QueuedInOrder == Spec => []RepliesInOrder
<1>1. IInv => RepliesInOrder
  BY DEF IInv
<1> QED
  BY <1>1, Invariance, PTL

(* WriterReturns: while _writeDone is FALSE, a handler is to come that     *)
(* sets it or writes on, until a write fails.                              *)
THEOREM WriterReturns == Spec => []NeverWedged
<1>1. IInv => NeverWedged
  BY DEF IInv
<1> QED
  BY <1>1, Invariance, PTL

(* WireAnswers: what the current client is sent in reply answers commands  *)
(* that were executed, each once, in the order of the commands.            *)
WireAnswers ==
    /\ \A i \in 1 .. Len(wire) : wire[i] \in Commands => Executed(wire[i])
    /\ \A i, j \in 1 .. Len(wire) :
          i < j /\ wire[i] \in Commands /\ wire[j] \in Commands => wire[i] < wire[j]

(* AnsweredInOrder: however the handlers and the two threads that send     *)
(* interleave, the client gets each reply once and in order, and none to a *)
(* command that was dropped.                                               *)
THEOREM AnsweredInOrder == Spec => []WireAnswers
<1>1. IInv => WireAnswers
  <2> SUFFICES ASSUME IInv PROVE WireAnswers
    OBVIOUS
  <2>1. /\ wire \in Seq(Replies) /\ srv.msgQueue \in Seq(Replies)
        /\ pushed = wire \o srv.msgQueue
    BY DEF IInv, TypeOK, Server, RepliesInOrder
  <2>2. \A i \in 1 .. Len(wire) : i \in 1 .. Len(pushed) /\ pushed[i] = wire[i]
    BY <2>1, ConcatProperties
  <2> QED
    BY <2>2 DEF IInv, AnswerInv, WireAnswers
<1> QED
  BY <1>1, Invariance, PTL

-----------------------------------------------------------------------------
(* The server implements CommandService: sending is Ask, executing is      *)
(* CarryOut, pushing a line is Answer or Notify, writing it is Deliver,    *)
(* the end of the server object is Reconnect; everything else leaves the   *)
(* service's variables unchanged.                                          *)

(* What the service does not see.                                          *)
LEMMA QuietStep ==
    ASSUME UNCHANGED <<sent, executed, pushed, wire>>
    PROVE  UNCHANGED Service!servVars
  BY DEF Service!servVars

LEMMA SendIsAsk ==
    ASSUME Send
    PROVE  Service!Ask
  BY DEF Send, mainVars, Service!Ask

(* What is executed was sent, and later than all that was executed.        *)
LEMMA DoneIsCarryOut ==
    ASSUME IInv, Done
    PROVE  \/ \E c \in Commands \union {Error} : Service!CarryOut(c)
           \/ UNCHANGED Service!servVars
<1>1. /\ pc["main"] = "done"
      /\ UNCHANGED <<sent, pushed, wire>>
      /\ \/ executed' = executed
         \/ executed' = Append(executed, got) /\ got \notin {EXIT_MSG, LOST_MSG}
         \/ executed' = Append(executed, got) /\ got \in Commands
  BY DEF Done, MainGoto, Goto, clientVars
<1>2. CASE executed' = executed
  BY <1>1, <1>2, QuietStep
<1>3. CASE executed' = Append(executed, got) /\ got \notin {EXIT_MSG, LOST_MSG}
  <2>1. got \in Commands \union {Error}
    BY <1>1, <1>3 DEF IInv, MainInv, Received
  <2>2. got \in Commands => got <= sent /\ Service!Later(got, executed)
    BY <1>1 DEF IInv, OrderInv, Behind, Service!Later
  <2> QED
    BY <1>1, <1>3, <2>1, <2>2 DEF Service!CarryOut
<1>4. CASE executed' = Append(executed, got) /\ got \in Commands
  BY <1>3, <1>4, NumberFacts
<1> QED
  BY <1>1, <1>2, <1>3, <1>4

(* What the main thread pushes answers the last command; the other thread  *)
(* speaks of its own accord.                                               *)
LEMMA PushIsAnswer ==
    ASSUME IInv, NEW p \in Threads, Push(p)
    PROVE  Service!Answer \/ Service!Notify
<1>1. UNCHANGED <<sent, executed, wire>> /\ pc[p] = "push"
  BY DEF Push, Act, Goto, clientVars
<1>2. CASE p = "main"
  <2>1. pushed' = Append(pushed, got)
    BY <1>2 DEF Push
  <2>2. executed \in Seq(Commands \union {Error})
    BY DEF IInv, TypeOK
  <2>3. Len(executed) > 0 /\ executed[Len(executed)] = got
    BY <1>1, <1>2 DEF IInv, AnswerInv, Unsent
  <2>4. executed # <<>>
    BY <2>2, <2>3, EmptySeq
  <2>5. got \in Commands => Service!Later(got, pushed)
    BY <1>1, <1>2 DEF IInv, AnswerInv, Unsent, Service!Later
  <2> QED
    BY <1>1, <2>1, <2>3, <2>4, <2>5 DEF Service!Answer
<1>3. CASE p # "main"
  BY <1>1, <1>3 DEF Push, Service!Notify
<1> QED
  BY <1>2, <1>3

(* The front of the queue is the next of the lines that were pushed.       *)
LEMMA WriteIsDeliver ==
    ASSUME IInv, NEW s, s.msgQueue = srv.msgQueue, WriteOrRest(s), UNCHANGED <<sent, executed, pushed>>
    PROVE  Service!Deliver \/ UNCHANGED Service!servVars
<1> DEFINE queue == srv.msgQueue
<1>1. /\ wire \in Seq(Replies) /\ queue \in Seq(Replies)
      /\ pushed = wire \o queue
      /\ Len(wire) \in Nat /\ Len(queue) \in Nat
  BY LenProperties DEF IInv, TypeOK, Server, RepliesInOrder
<1>2. CASE queue # <<>> /\ wire' = Append(wire, Head(queue))
  <2>1. Len(queue) > 0 /\ Head(queue) = queue[1]
    BY <1>1, <1>2, EmptySeq
  <2>2. Len(pushed) = Len(wire) + Len(queue) /\ pushed[Len(wire) + 1] = queue[1]
    BY <1>1, <2>1, ConcatProperties
  <2> HIDE DEF queue
  <2>3. Len(wire) < Len(pushed)
    BY <1>1, <2>1, <2>2
  <2> QED
    BY <1>2, <2>1, <2>2, <2>3 DEF Service!Deliver
<1>3. CASE wire' = wire
  BY <1>3, QuietStep
<1> QED
  BY <1>2, <1>3 DEF WriteOrRest, WriteFront

LEMMA DestroyIsReconnect ==
    ASSUME Destroy
    PROVE  Service!Reconnect
  BY DEF Destroy, Service!Reconnect

-----------------------------------------------------------------------------
LEMMA HandlersStep ==
    ASSUME IInv, Handlers
    PROVE  Service!Deliver \/ UNCHANGED Service!servVars
<1>1. UNCHANGED <<sent, executed, pushed>>
  BY HandlersFrame DEF mainVars
<1>2. CASE OnAccept \/ OnReceive \/ OnEof \/ OnError \/ OnWriteFails \/ SetWriteDone
  <2>1. wire' = wire
    BY <1>2 DEF OnAccept, Accepted, OnReceive, OnEof, OnError, OnWriteFails, SetWriteDone
  <2> QED
    BY <1>1, <2>1, QuietStep
<1>3. CASE AsyncWrite
  <2>1. srv \in Server
    BY DEF IInv, TypeOK
  <2>2. [srv EXCEPT !.posted = @ - 1].msgQueue = srv.msgQueue
    BY <2>1 DEF Server
  <2> QED
    BY <1>1, <1>3, <2>2, WriteIsDeliver DEF AsyncWrite
<1>4. CASE OnWrite
  <2>1. srv \in Server
    BY DEF IInv, TypeOK
  <2>2. [srv EXCEPT !.writing = @ - 1].msgQueue = srv.msgQueue
    BY <2>1 DEF Server
  <2> QED
    BY <1>1, <1>4, <2>2, WriteIsDeliver DEF OnWrite
<1> QED
  BY <1>2, <1>3, <1>4 DEF Handlers

LEMMA StepServes ==
    ASSUME IInv, Next
    PROVE  Service!ServNext \/ UNCHANGED Service!servVars
<1>1. CASE Send
  BY <1>1, SendIsAsk DEF Service!ServNext
<1>2. CASE Connect \/ (\E how \in Breaks \ {"noAccept"} : Break(how)) \/ Say \/ GiveExit
  BY <1>2, QuietStep
     DEF Connect, Break, Say, GiveExit, Goto, clientVars, mainVars
<1>3. CASE Handlers
  BY <1>3, HandlersStep DEF Service!ServNext
<1>4. CASE RunReturns \/ WaitAllDone \/ Forget \/ Renew \/ End
  BY <1>4, QuietStep DEF RunReturns, WaitAllDone, Forget, Renew, End, TcpGoto, mainVars
<1>5. CASE Destroy
  BY <1>5, DestroyIsReconnect DEF Service!ServNext
<1>6. CASE Done
  BY <1>6, DoneIsCarryOut DEF Service!ServNext
<1>7. CASE Main /\ ~Done
  <2>1. UNCHANGED <<sent, pushed, wire>>
    BY <1>7, MainFrame DEF clientVars
  <2>2. executed' = executed
    BY <1>7 DEF Main, Outer, Take, Inner, IsConnected, RefreshDoneFlag, ClearRecvMsg, Get, Leave,
                mainVars
  <2> QED
    BY <2>1, <2>2, QuietStep
<1>8. ASSUME NEW p \in Threads, Push(p)
      PROVE  Service!ServNext
  BY <1>8, PushIsAnswer DEF Service!ServNext
<1>9. ASSUME NEW p \in Threads, Executor(p), ~Push(p)
      PROVE  UNCHANGED Service!servVars
  <2>1. UNCHANGED <<sent, executed, wire>>
    BY <1>9, ExecutorFrame DEF clientVars
  <2>2. pushed' = pushed
    BY <1>9 DEF Executor, Reply, Refresh, Swap, Post, ExitStatus, ExitRecv, ExitStop
  <2> QED
    BY <2>1, <2>2, QuietStep
<1>10. ASSUME NEW p \in Threads, UseDestroyed(p)
       PROVE  UNCHANGED Service!servVars
  BY <1>10, QuietStep DEF UseDestroyed, clientVars
<1> QED
  BY <1>1, <1>2, <1>3, <1>4, <1>5, <1>6, <1>7, <1>8, <1>9, <1>10 DEF Next, Tcp

(* ServesCommands: the server implements the abstract service: commands    *)
(* are carried out once at most and in order, the last one is answered     *)
(* once, and the client gets what is said since it came, in order.         *)
THEOREM ServesCommands == Spec => Serves
<1>1. Init => Service!ServInit
  BY DEF Init, Service!ServInit
<1>2. IInv /\ [Next]_vars => [Service!ServNext]_(Service!servVars)
  <2> SUFFICES ASSUME IInv, [Next]_vars
               PROVE  Service!ServNext \/ UNCHANGED Service!servVars
    OBVIOUS
  <2>1. CASE UNCHANGED vars
    BY <2>1, QuietStep DEF vars, clientVars, mainVars
  <2> QED
    BY <2>1, StepServes
<1> QED
  BY <1>1, <1>2, Invariance, PTL DEF Spec, Serves, Service!ServSpec
=============================================================================
