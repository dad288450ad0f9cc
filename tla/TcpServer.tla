------------------------------ MODULE TcpServer ------------------------------
(***************************************************************************)
(* The TCP server (tcpServer.cpp) with the threads that use it (main.cpp): *)
(* tcpThread runs the handlers of one server object after the other, a new *)
(* one whenever a connection has ended; the main thread, readByTcp, waits  *)
(* for the client's commands in waitRecv and answers them with send; and   *)
(* readByKbd (as readThread does with its messages) sends what it has to   *)
(* say to the client, and executes exit.  A message received is handed     *)
(* over in a promise, which waitRecv and send replace while the handlers   *)
(* set it; what is sent goes through _msgQueue.                            *)
(*                                                                         *)
(* Commands are numbered in the order in which clients send them, and a    *)
(* reply bears the number of its command.  A line is short: its write is   *)
(* done when async_write is called, and reported later.  _msgQueue is      *)
(* accessed by two threads without a lock; here each access is atomic      *)
(* (WriteHddThread shows what becomes of the accesses to such a queue).    *)
(* What exec does to the state of the reader is the matter of DaqControl.  *)
(***************************************************************************)
EXTENDS Naturals, Sequences

CONSTANTS MaxConns,    \* bound on the server objects
          MaxSent,     \* bound on the commands the clients send
          MaxOutputs,  \* bound on the messages of the keyboard thread
          Lockstep,    \* does a client await each reply before it goes on?
          Exits,       \* may exit be given?
          Breaks,      \* what may end a connection, or prevent it
          Timeouts     \* may waitAllDone time out?

ASSUME ConstantsAssumption ==
    /\ MaxConns \in Nat \ {0}
    /\ MaxSent \in Nat
    /\ MaxOutputs \in Nat
    /\ Lockstep \in BOOLEAN
    /\ Exits \in BOOLEAN
    /\ Breaks \subseteq {"closed", "reset", "noAccept"}
    /\ Timeouts \in BOOLEAN

VARIABLES
    srv,        \* the current server object and its io_service
    inc,        \* the number of server objects so far
    tpc,        \* control point of tcpThread
    server,     \* tcpServer: the number of an object, 0 for NULL
    promised,   \* the value of tcpServer_promise, 0 while it has none
    peer,       \* the client's end of the connection
    chan,       \* the commands on their way to the server
    sent,       \* number of commands sent
    wire,       \* the replies written to the connection
    exiting,    \* readStatus = EXIT
    pc,         \* control points of the main and the keyboard thread
    ptr,        \* the server object they send to, or exit
    mine,       \* the server object readByTcp uses
    got,        \* what its get() will return
    outputs,    \* number of messages of the keyboard thread
    aborted,    \* std::terminate, or a crash
    executed,   \* history: what the main thread has executed
    pushed      \* history: what was pushed to _msgQueue of this object

tcpVars == <<inc, tpc, server, promised>>
clientVars == <<peer, chan, sent>>
mainVars == <<mine, got, executed>>
vars == <<srv, tcpVars, clientVars, wire, exiting, pc, ptr, mainVars, outputs,
          aborted, pushed>>

Threads == {"main", "kbd"}
Commands == 1 .. MaxSent
NoMsg == 0
EXIT_MSG == MaxSent + 1
LOST_MSG == MaxSent + 2
Error == MaxSent + 3        \* the text of a future_error, and the reply to it
Pending == MaxSent + 4      \* get() looks at the current promise
Output == MaxSent + 5       \* what the keyboard thread says
Null == MaxConns + 1        \* tcpServer_promise has the value NULL
Replies == Commands \union {Error, Output}

(* The members of the server, and what its io_service has to do.           *)
Server ==
    [status : {"OFFLINE", "ONLINE", "LOST", "FAIL", "EXIT"},
     conn : {"none", "ONLINE", "FAIL", "EXIT"},    \* _connection_status_writer
     slot : {NoMsg, EXIT_MSG, LOST_MSG} \union Commands, \* _receive_msg_writer
     fut : {"invalid", "valid", "waiting"},        \* _receive_msg
     doneFlag : {"invalid", "unset", "set"},       \* _doneFlag
     msgQueue : Seq(Replies),                      \* _msgQueue
     writeDone : BOOLEAN,                          \* _writeDone
     awaits : {"accept", "receive", "nothing"},    \* its pending operation
     posted : Nat,                                 \* posted calls of _async_write
     writing : Nat,                                \* writes not yet reported
     emptied : BOOLEAN,    \* a handler has seen _msgQueue empty, and goes on
     failed : BOOLEAN,                             \* a write has failed
     stopped : BOOLEAN]                            \* _io.stop() was called

\* A server that has called start_accept.
NewServer ==
    [status |-> "OFFLINE", conn |-> "none", slot |-> NoMsg, fut |-> "invalid",
     doneFlag |-> "invalid", msgQueue |-> <<>>, writeDone |-> TRUE,
     awaits |-> "accept", posted |-> 0, writing |-> 0, emptied |-> FALSE,
     failed |-> FALSE, stopped |-> FALSE]

Sending == {"reply", "push", "refresh", "swap", "post"}
Exiting == {"exitStatus", "exitRecv", "exitStop"}

TypeOK ==
    /\ srv \in Server
    /\ inc \in 1 .. MaxConns
    /\ tpc \in {"run", "wait", "forget", "check", "renew", "ending", "ended"}
    /\ server \in 0 .. MaxConns
    /\ promised \in 0 .. Null
    /\ peer \in {"none", "open", "closed", "reset"}
    /\ chan \in Seq(Commands)
    /\ sent \in 0 .. MaxSent
    /\ wire \in Seq(Replies)
    /\ exiting \in BOOLEAN
    /\ pc["main"] \in {"outer", "take", "inner", "conn", "recv", "clear", "get",
                       "done", "leave", "left"} \union Sending \union Exiting
    /\ pc["kbd"] \in {"idle"} \union Sending \union Exiting
    /\ ptr \in [Threads -> 0 .. MaxConns]
    /\ mine \in 0 .. Null
    /\ got \in 0 .. MaxSent + 4
    /\ outputs \in 0 .. MaxOutputs
    /\ aborted \in BOOLEAN
    /\ executed \in Seq(Commands \union {Error})
    /\ pushed \in Seq(Replies)

Init ==
    /\ srv = NewServer
    /\ inc = 1 /\ server = 1 /\ promised = 1 /\ tpc = "run"
    /\ peer = "none" /\ chan = <<>> /\ sent = 0 /\ wire = <<>>
    /\ exiting = FALSE
    /\ pc = [p \in Threads |-> IF p = "main" THEN "outer" ELSE "idle"]
    /\ ptr = [p \in Threads |-> 0]
    /\ mine = 0 /\ got = NoMsg /\ outputs = 0
    /\ aborted = FALSE
    /\ executed = <<>> /\ pushed = <<>>

-----------------------------------------------------------------------------
(* The clients, one after the other.                                       *)

Connect ==
    /\ peer = "none" /\ tpc = "run"
    /\ peer' = "open"
    /\ UNCHANGED <<srv, tcpVars, chan, sent, wire, exiting, pc, ptr, mainVars,
                   outputs, aborted, pushed>>

Answered(n) == \E i \in 1 .. Len(wire) : wire[i] = n

Send ==
    /\ peer = "open"
    /\ sent < MaxSent
    /\ Lockstep => sent = 0 \/ Answered(sent)
    /\ sent' = sent + 1
    /\ chan' = Append(chan, sent + 1)
    /\ UNCHANGED <<srv, tcpVars, peer, wire, exiting, pc, ptr, mainVars, outputs,
                   aborted, pushed>>

(* Closed, what was sent still arrives; reset, it may be lost.             *)
Break(how) ==
    /\ peer = "open"
    /\ peer' = how
    /\ \/ UNCHANGED chan
       \/ how = "reset" /\ chan' = <<>>
    /\ UNCHANGED <<srv, tcpVars, sent, wire, exiting, pc, ptr, mainVars, outputs,
                   aborted, pushed>>

-----------------------------------------------------------------------------
(* tcpThread: the handlers called by io_service::run, one at a time.       *)

Idle == tpc = "run" /\ ~srv.stopped /\ ~srv.emptied

Handle(s) ==
    /\ srv' = s
    /\ UNCHANGED <<tcpVars, peer, sent, exiting, pc, ptr, mainVars, outputs, pushed>>

\* A promise keeps its first value.
Set(old, none, new) == IF old = none THEN new ELSE old

(* set_value throws out of run() when exit() has set the promise.          *)
Accepted(s, value) ==
    /\ Handle([s EXCEPT !.status = value, !.conn = Set(@, "none", value)])
    /\ aborted' = (srv.conn # "none")
    /\ UNCHANGED <<chan, wire>>

OnAccept ==
    /\ Idle /\ srv.awaits = "accept"
    /\ \/ peer # "none" /\ Accepted([srv EXCEPT !.awaits = "receive"], "ONLINE")
       \/ "noAccept" \in Breaks /\ Accepted([srv EXCEPT !.awaits = "nothing"], "FAIL")

\* Mutant: the line received is not consumed.
OnReceiveKeeps ==
    /\ Idle /\ srv.awaits = "receive"
    /\ chan # <<>>
    /\ IF srv.status = "EXIT"
       THEN Handle([srv EXCEPT !.awaits = "nothing"])
       ELSE Handle([srv EXCEPT !.slot = Set(@, NoMsg, chan[1])])
    /\ UNCHANGED <<chan, wire, aborted>>

(* The first line is handed over, unless the promise has a value; the      *)
(* lines that came with it are consumed, too.                              *)
OnReceive ==
    /\ Idle /\ srv.awaits = "receive"
    /\ \E n \in 1 .. Len(chan) : chan' = SubSeq(chan, n + 1, Len(chan))
    /\ IF srv.status = "EXIT"
       THEN Handle([srv EXCEPT !.awaits = "nothing"])
       ELSE Handle([srv EXCEPT !.slot = Set(@, NoMsg, chan[1])])
    /\ UNCHANGED <<wire, aborted>>

(* The end of the connection is a message, an error is not.                *)
OnEof ==
    /\ Idle /\ srv.awaits = "receive"
    /\ peer = "closed" /\ chan = <<>>
    /\ IF srv.status = "EXIT"
       THEN Handle([srv EXCEPT !.awaits = "nothing"])
       ELSE Handle([srv EXCEPT !.awaits = "nothing", !.status = "LOST",
                               !.slot = Set(@, NoMsg, LOST_MSG)])
    /\ UNCHANGED <<chan, wire, aborted>>

OnError ==
    /\ Idle /\ srv.awaits = "receive"
    /\ peer = "reset" /\ chan = <<>>
    /\ Handle([srv EXCEPT !.awaits = "nothing",
                          !.status = IF @ = "EXIT" THEN @ ELSE "FAIL"])
    /\ UNCHANGED <<chan, wire, aborted>>

\* Mutant: the reply stays in the queue.
WriteFrontKeeps(s) ==
    /\ Handle([s EXCEPT !.writeDone = FALSE, !.writing = @ + 1])
    /\ wire' = Append(wire, Head(s.msgQueue))

(* _async_write, when there is something to write.                         *)
WriteFront(s) ==
    /\ Handle([s EXCEPT !.writeDone = FALSE, !.writing = @ + 1,
                        !.msgQueue = Tail(@)])
    /\ wire' = Append(wire, Head(s.msgQueue))

WriteOrRest(s) ==
    \/ s.msgQueue # <<>> /\ WriteFront(s)
    \/ s.msgQueue = <<>> /\ Handle([s EXCEPT !.emptied = TRUE]) /\ UNCHANGED wire

AsyncWrite ==
    /\ Idle /\ srv.posted > 0
    /\ WriteOrRest([srv EXCEPT !.posted = @ - 1])
    /\ UNCHANGED <<chan, aborted>>

OnWrite ==
    /\ Idle /\ srv.writing > 0
    /\ WriteOrRest([srv EXCEPT !.writing = @ - 1])
    /\ UNCHANGED <<chan, aborted>>

OnWriteFails ==
    /\ Idle /\ srv.writing > 0
    /\ peer \in {"closed", "reset"}
    /\ Handle([srv EXCEPT !.writing = @ - 1, !.failed = TRUE])
    /\ UNCHANGED <<chan, wire, aborted>>

\* Mutant: _on_write and _async_write leave _writeDone as it is.
SetWriteDoneForgotten ==
    /\ tpc = "run" /\ srv.emptied
    /\ Handle([srv EXCEPT !.emptied = FALSE])
    /\ UNCHANGED <<chan, wire, aborted>>

(* The handler that has seen the queue empty sets _writeDone.              *)
SetWriteDone ==
    /\ tpc = "run" /\ srv.emptied
    /\ Handle([srv EXCEPT !.emptied = FALSE, !.writeDone = TRUE])
    /\ UNCHANGED <<chan, wire, aborted>>

Handlers ==
    \/ OnAccept \/ OnReceive \/ OnEof \/ OnError
    \/ AsyncWrite \/ OnWrite \/ OnWriteFails \/ SetWriteDone

-----------------------------------------------------------------------------
(* tcpThread: the life of the server objects.                              *)

TcpGoto(from, to) ==
    /\ tpc = from
    /\ tpc' = to
    /\ UNCHANGED <<inc, peer, chan, sent, wire, exiting, pc, ptr, mine, executed,
                   outputs, pushed>>

(* run() returns when it was stopped or has nothing left to do.            *)
RunReturns ==
    /\ ~srv.emptied
    /\ \/ srv.stopped
       \/ srv.awaits = "nothing" /\ srv.posted = 0 /\ srv.writing = 0
    /\ TcpGoto("run", "wait")
    /\ UNCHANGED <<srv, server, promised, got, aborted>>

\* Mutant: waitAllDone(-1).
WaitAllDoneForever ==
    /\ srv.doneFlag # "unset"
    /\ TcpGoto("wait", "forget")
    /\ UNCHANGED <<srv, server, promised, got, aborted>>

(* waitAllDone: until waitRecv has returned, for 100 ms at most.           *)
WaitAllDone ==
    /\ srv.doneFlag # "unset" \/ Timeouts
    /\ TcpGoto("wait", "forget")
    /\ UNCHANGED <<srv, server, promised, got, aborted>>

(* tcpServer = NULL.                                                       *)
Forget ==
    /\ TcpGoto("forget", "check")
    /\ server' = 0
    /\ UNCHANGED <<srv, promised, got, aborted>>

\* What get() returns when the promise it looks at is replaced or destroyed.
Abandoned ==
    IF got # Pending THEN got ELSE IF srv.slot = NoMsg THEN Error ELSE srv.slot

(* Either way the object is destroyed, its promises and its connection     *)
(* with it; srv is the one to come from now on.                            *)
Destroy ==
    /\ tpc = "check"
    /\ tpc' = IF srv.status = "EXIT" THEN "ending" ELSE "renew"
    /\ got' = Abandoned
    /\ srv' = NewServer
    /\ chan' = <<>> /\ wire' = <<>> /\ pushed' = <<>>
    /\ UNCHANGED <<inc, server, promised, peer, sent, exiting, pc, ptr, mine,
                   executed, outputs, aborted>>

SetPromise(value) ==
    /\ promised' = Set(promised, 0, value)
    /\ aborted' = (promised # 0)

(* The next object; its start is one step here (DaqControl has them all).  *)
Renew ==
    /\ tpc = "renew" /\ inc < MaxConns
    /\ tpc' = "run"
    /\ inc' = inc + 1
    /\ server' = inc + 1
    /\ SetPromise(inc + 1)
    /\ peer' = "none" /\ chan' = <<>>
    /\ UNCHANGED <<srv, sent, wire, exiting, pc, ptr, mainVars, outputs, pushed>>

End ==
    /\ TcpGoto("ending", "ended")
    /\ SetPromise(Null)
    /\ UNCHANGED <<srv, server, got>>

Tcp ==
    \/ Handlers \/ RunReturns \/ WaitAllDone \/ Forget \/ Destroy \/ Renew \/ End

Alive(n) == n = inc /\ tpc \notin {"renew", "ending", "ended"}

-----------------------------------------------------------------------------
(* readByTcp.                                                              *)

Goto(p, from, to) ==
    /\ pc[p] = from
    /\ pc' = [pc EXCEPT ![p] = to]
    /\ UNCHANGED <<inc, tpc, clientVars, wire, outputs>>

MainGoto(from, to) ==
    /\ Goto("main", from, to)
    /\ UNCHANGED <<server, ptr, pushed, aborted>>

Outer ==
    /\ MainGoto("outer", IF exiting THEN "leave" ELSE "take")
    /\ UNCHANGED <<srv, promised, exiting, mainVars>>

(* The promise is read and replaced.                                       *)
Take ==
    /\ promised # 0
    /\ MainGoto("take", "inner")
    /\ mine' = promised
    /\ promised' = 0
    /\ UNCHANGED <<srv, exiting, got, executed>>

Inner ==
    /\ MainGoto("inner", IF mine # Null /\ ~exiting THEN "conn" ELSE "outer")
    /\ UNCHANGED <<srv, promised, exiting, mainVars>>

IsConnected ==
    /\ Alive(mine) /\ srv.conn # "none"
    /\ MainGoto("conn", IF srv.conn = "ONLINE" THEN "recv" ELSE "outer")
    /\ UNCHANGED <<srv, promised, exiting, mainVars>>

(* waitRecv: a new promise for the end of the wait, a new promise for the  *)
(* message, and the wait itself.  get() waits on the promise of its time:  *)
(* whether _receive_msg is valid meanwhile depends on the library.         *)
RefreshDoneFlag ==
    /\ Alive(mine)
    /\ MainGoto("recv", "clear")
    /\ srv' = [srv EXCEPT !.doneFlag = "unset"]
    /\ UNCHANGED <<promised, exiting, mainVars>>

ClearRecvMsg ==
    /\ Alive(mine)
    /\ MainGoto("clear", "get")
    /\ srv' = [srv EXCEPT !.slot = NoMsg, !.fut = "waiting"]
    /\ got' = Pending
    /\ UNCHANGED <<promised, exiting, mine, executed>>

Get ==
    /\ got # Pending \/ (Alive(mine) /\ srv.slot # NoMsg)
    /\ MainGoto("get", "done")
    /\ got' = Abandoned
    /\ srv' = IF Alive(mine) THEN [srv EXCEPT !.fut = "invalid"] ELSE srv
    /\ UNCHANGED <<promised, exiting, mine, executed>>

(* _done(), then the command, which may be exit, or the end of the loop.   *)
Done ==
    /\ srv' = IF Alive(mine) THEN [srv EXCEPT !.doneFlag = "set"] ELSE srv
    /\ \/ /\ got \in {EXIT_MSG, LOST_MSG}
          /\ MainGoto("done", "outer")
          /\ UNCHANGED <<exiting, executed>>
       \/ /\ got \notin {EXIT_MSG, LOST_MSG}
          /\ MainGoto("done", "reply")
          /\ executed' = Append(executed, got)
          /\ UNCHANGED exiting
       \/ /\ got \in Commands /\ Exits
          /\ MainGoto("done", "exitStatus")
          /\ executed' = Append(executed, got)
          /\ exiting' = TRUE
    /\ UNCHANGED <<promised, mine, got>>

(* The loop is left: exit() is called (once more), in one step here.       *)
Leave ==
    /\ MainGoto("leave", "left")
    /\ srv' = IF server = 0 THEN srv
              ELSE [srv EXCEPT !.status = "EXIT", !.conn = Set(@, "none", "EXIT"),
                               !.slot = Set(@, NoMsg, EXIT_MSG), !.stopped = TRUE]
    /\ UNCHANGED <<promised, exiting, mainVars>>

Main ==
    \/ Outer \/ Take \/ Inner \/ IsConnected \/ RefreshDoneFlag \/ ClearRecvMsg
    \/ Get \/ Done \/ Leave

-----------------------------------------------------------------------------
(* output() and exitRead, in the main and the keyboard thread.  A line is  *)
(* one item here; send pushes the lines of a longer text one by one.       *)

\* Mutant: after send, both threads are in the loop of readByTcp.
ResumeLoop(p) == "inner"

Resume(p) == IF p = "main" THEN "inner" ELSE "idle"

Act(p, from, to) ==
    /\ Goto(p, from, to)
    /\ UNCHANGED <<server, promised, exiting, mine, executed, aborted>>

Say ==
    /\ pc["kbd"] = "idle"
    /\ outputs < MaxOutputs
    /\ outputs' = outputs + 1
    /\ pc' = [pc EXCEPT !["kbd"] = "reply"]
    /\ UNCHANGED <<srv, tcpVars, clientVars, wire, exiting, ptr, mainVars, aborted,
                   pushed>>

GiveExit ==
    /\ Exits /\ ~exiting
    /\ Goto("kbd", "idle", "exitStatus")
    /\ exiting' = TRUE
    /\ UNCHANGED <<srv, server, promised, ptr, mainVars, aborted, pushed>>

(* output_toClient, for a client that is online.                           *)
Online == server # 0 /\ srv.conn = "ONLINE" /\ srv.status = "ONLINE"

Reply(p) ==
    /\ Act(p, "reply", IF Online THEN "push" ELSE Resume(p))
    /\ ptr' = [ptr EXCEPT ![p] = IF Online THEN server ELSE 0]
    /\ UNCHANGED <<srv, got, pushed>>

(* send: the line is pushed, ...                                           *)
Push(p) ==
    /\ Alive(ptr[p])
    /\ Act(p, "push", "refresh")
    /\ LET line == IF p = "main" THEN got ELSE Output
       IN  /\ srv' = [srv EXCEPT !.msgQueue = Append(@, line)]
           /\ pushed' = Append(pushed, line)
    /\ UNCHANGED <<ptr, got>>

(* ... a received message is cleared, as is one nobody can receive, ...    *)
Refresh(p) ==
    /\ Alive(ptr[p])
    /\ \/ srv.fut # "valid" /\ Act(p, "refresh", "swap")
       \/ srv.fut # "invalid" /\ Act(p, "refresh", IF srv.slot # NoMsg THEN "swap" ELSE "post")
    /\ UNCHANGED <<srv, ptr, got, pushed>>

Swap(p) ==
    /\ Alive(ptr[p])
    /\ Act(p, "swap", "post")
    /\ srv' = [srv EXCEPT !.slot = NoMsg, !.fut = "valid"]
    /\ got' = Abandoned
    /\ UNCHANGED <<ptr, pushed>>

(* ... and a writer is posted if none is at work.                          *)
Post(p) ==
    /\ Alive(ptr[p])
    /\ Act(p, "post", Resume(p))
    /\ srv' = IF srv.writeDone THEN [srv EXCEPT !.posted = @ + 1] ELSE srv
    /\ ptr' = [ptr EXCEPT ![p] = 0]
    /\ UNCHANGED <<got, pushed>>

\* Mutant: status is not set to EXIT.
ExitStatusForgotten(p) ==
    /\ Act(p, "exitStatus", IF server = 0 THEN "reply" ELSE "exitRecv")
    /\ ptr' = [ptr EXCEPT ![p] = server]
    /\ srv' = IF server = 0 THEN srv
              ELSE [srv EXCEPT !.conn = Set(@, "none", "EXIT")]
    /\ UNCHANGED <<got, pushed>>

(* exit: the status, the message, and the io_service.                      *)
ExitStatus(p) ==
    /\ Act(p, "exitStatus", IF server = 0 THEN "reply" ELSE "exitRecv")
    /\ ptr' = [ptr EXCEPT ![p] = server]
    /\ srv' = IF server = 0 THEN srv
              ELSE [srv EXCEPT !.status = "EXIT", !.conn = Set(@, "none", "EXIT")]
    /\ UNCHANGED <<got, pushed>>

ExitRecv(p) ==
    /\ Alive(ptr[p])
    /\ Act(p, "exitRecv", "exitStop")
    /\ srv' = [srv EXCEPT !.slot = Set(@, NoMsg, EXIT_MSG)]
    /\ UNCHANGED <<ptr, got, pushed>>

ExitStop(p) ==
    /\ Alive(ptr[p])
    /\ Act(p, "exitStop", "reply")
    /\ srv' = [srv EXCEPT !.stopped = TRUE]
    /\ ptr' = [ptr EXCEPT ![p] = 0]
    /\ UNCHANGED <<got, pushed>>

Executor(p) ==
    \/ Reply(p) \/ Push(p) \/ Refresh(p) \/ Swap(p) \/ Post(p)
    \/ ExitStatus(p) \/ ExitRecv(p) \/ ExitStop(p)

Uses(p) ==
    \/ p = "main" /\ pc[p] \in {"conn", "recv", "clear", "done"} /\ ~Alive(mine)
    \/ pc[p] \in {"push", "refresh", "swap", "post", "exitRecv", "exitStop"}
           /\ ~Alive(ptr[p])

(* Use of an object that was destroyed: a crash, an answer to the effect   *)
(* that there is no connection, or the use of its successor, which lies at *)
(* the same address.                                                       *)
UseDestroyed(p) ==
    /\ Uses(p)
    /\ \/ aborted' = TRUE /\ UNCHANGED <<pc, mine, ptr>>
       \/ /\ pc' = [pc EXCEPT ![p] = IF @ \in {"conn", "recv", "clear"} THEN "outer"
                                     ELSE IF @ = "done" THEN @ ELSE Resume(p)]
          /\ UNCHANGED <<mine, ptr, aborted>>
       \/ /\ tpc = "run"
          /\ mine' = (IF p = "main" /\ mine # Null THEN inc ELSE mine)
          /\ ptr' = [ptr EXCEPT ![p] = inc]
          /\ UNCHANGED <<pc, aborted>>
    /\ UNCHANGED <<srv, tcpVars, clientVars, wire, exiting, got, executed, outputs,
                   pushed>>

-----------------------------------------------------------------------------
Over == aborted \/ (pc["main"] = "left" /\ tpc = "ended")

Next ==
    /\ ~Over
    /\ \/ Connect \/ Send \/ \E how \in Breaks \ {"noAccept"} : Break(how)
       \/ Tcp \/ Main \/ Say \/ GiveExit
       \/ \E p \in Threads : Executor(p) \/ UseDestroyed(p)

(* Every thread keeps running; a client or a user need not do anything.    *)
Fairness ==
    /\ WF_vars(~Over /\ Tcp)
    /\ WF_vars(~Over /\ (Main \/ Executor("main") \/ UseDestroyed("main")))
    /\ WF_vars(~Over /\ (Executor("kbd") \/ UseDestroyed("kbd")))

Spec == Init /\ [][Next]_vars
FairSpec == Spec /\ Fairness

-----------------------------------------------------------------------------
(* RepliesInOrder: what was pushed is on the wire or in the queue, once    *)
(* and in the order of the pushes, although two posts may lead to two      *)
(* writes at a time.                                                       *)
RepliesInOrder == pushed = wire \o srv.msgQueue

(* NeverWedged: while _writeDone is FALSE there is a handler to come that  *)
(* will set it or write on, so that a line left behind in the queue goes   *)
(* out with the next one, until a write fails.                             *)
NeverWedged == ~srv.writeDone => srv.writing > 0 \/ srv.emptied \/ srv.failed

(* Reaccepts: when the client is gone, there is a new server object for    *)
(* the next one, even if the main thread never heard of the loss.          *)
Gone(n) == inc = n /\ peer \in {"closed", "reset"}
Reaccepts == \A n \in 1 .. MaxConns - 1 : Gone(n) ~> inc > n \/ exiting \/ Over

(* ExitStops: exit ends the server, with whatever it is busy, and the main *)
(* thread leaves its loop (main.cpp:513: "exit tcp server"), unless the    *)
(* connection breaks meanwhile: an exit that meets the change to the next  *)
(* server object finds none to stop.                                       *)
Broken == peer \in {"closed", "reset"} \/ srv.conn = "FAIL"
ExitStops == exiting /\ inc = 1 /\ tpc # "renew" /\ ~Broken ~> Over \/ Broken

(* LockstepServed: a client that awaits the reply to each command before   *)
(* it sends the next one gets every command executed (README.md:14: "It    *)
(* can be controlled by other TCP client").                                *)
LockstepServed ==
    pc["main"] = "get" /\ got = Pending /\ srv.slot = NoMsg /\ chan = <<>> =>
        \A c \in 1 .. sent : \E i \in 1 .. Len(executed) : executed[i] = c

Service == INSTANCE CommandService WITH
    Failure <- Error, Notice <- Output,
    asked <- sent, carried <- executed, lines <- pushed, delivered <- wire

(* Serves: the threads, with their promises and queues and one server      *)
(* object after the other, implement the abstract service: commands are    *)
(* executed once at most and in the order in which they were sent, however *)
(* often promise and connection are replaced; the client gets the replies  *)
(* in the same order, each once, and none to a command that was dropped.   *)
Serves == Service!ServSpec
=============================================================================
