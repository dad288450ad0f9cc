------------------------------ MODULE TcpClient ------------------------------
(***************************************************************************)
(* The client mode: TcpClient (tcpClient.cpp) with makeClient (-c), which  *)
(* sends what is typed, and makeClient_sendCmd (-ec), which sends one      *)
(* command and waits for the answer.  Two threads: the main thread calls   *)
(* send, is_connected, lastRecv and exit; the other one runs the handlers  *)
(* of the io_service.  They share _msgQueue, which has no lock, and the    *)
(* promise of the next message, which send replaces.                       *)
(*                                                                         *)
(* Messages are numbered in the order in which they are sent; a line of    *)
(* the server bears the number of the message it answers, or is Output,    *)
(* which the server says of its own accord.                                *)
(***************************************************************************)
EXTENDS Naturals, Sequences

CONSTANTS Modes,       \* the ways in: {"c", "ec"} or one of them
          MaxLines,    \* bound on the commands typed in one session
          MaxOutputs   \* bound on the lines nobody asked the server for, per mode

ASSUME ConstantsAssumption ==
    /\ Modes \subseteq {"c", "ec"} /\ Modes # {}
    /\ MaxLines \in Nat \ {0}
    /\ MaxOutputs \in [Modes -> Nat]

VARIABLES
    pc,         \* control point of the main thread
    mode,       \* makeClient or makeClient_sendCmd
    line,       \* what it is about to send
    isSending,  \* the local variable of send
    status,     \* the status of the client
    conn,       \* _connection_status_writer
    slot,       \* _receive_msg_writer: the message it was set to
    msgQueue,   \* _msgQueue
    io,         \* what the io_service has to do
    net,        \* the connection
    wire,       \* what was written to it
    inbox,      \* the lines of the server that were not yet read
    cut,        \* the beginning of the next line was consumed
    server,     \* how much the server has answered, and said
    pushed,     \* history: what was pushed to _msgQueue
    begun,      \* history: what was popped and given to async_write
    heard,      \* history: the lines _on_receive has printed
    mark,       \* history: how many of them before send replaced the promise
    raced       \* history: "yes" if _msgQueue, which send's test met with
                \* messages ("met"), was empty when it pushed

sendVars == <<line, isSending, pushed, mark, raced>>
clientVars == <<status, conn, slot, msgQueue, begun, heard>>
netVars == <<net, wire, inbox, cut, server>>
vars == <<pc, mode, sendVars, clientVars, io, netVars>>

Messages == 1 .. MaxLines
EXIT == MaxLines + 1        \* "exit", and for -ec "clientExit", too
Junk == MaxLines + 2        \* what became of a buffer that was freed
Output == MaxLines + 3
Torn == MaxLines + 4        \* the end of a line
NoMsg == 0

Texts == Messages \union {EXIT}
Lines == Texts \union {Junk, Output}

(* The io_service: pending operations, posted calls of _async_write, the   *)
(* writes that were begun, with their outcome, whether one has failed,     *)
(* whether stop() was called, and whether run() has returned.              *)
Write == [text : Texts, res : {"pending", "ok", "error"}]
Io == [connecting : BOOLEAN, receiving : BOOLEAN, posted : Nat,
       writes : Seq(Write),
       failed : BOOLEAN, stopped : BOOLEAN, ended : BOOLEAN]

TypeOK ==
    /\ pc \in {"connect", "prompt", "test", "push", "renew", "post", "recv",
               "stop", "join", "returned"}
    /\ mode \in Modes
    /\ line \in Texts \union {NoMsg}
    /\ isSending \in BOOLEAN
    /\ status \in {"OFFLINE", "ONLINE", "LOST", "FAIL"}
    /\ conn \in {"none", "ONLINE", "FAIL"}
    /\ slot \in Lines \union {NoMsg, Torn}
    /\ msgQueue \in Seq(Texts)
    /\ io \in Io
    /\ net \in {"connecting", "up", "refused", "closed"}
    /\ wire \in Seq(Texts \union {Junk})
    /\ inbox \in Seq(Lines)
    /\ cut \in BOOLEAN
    /\ server \in [answered : Nat, said : 0 .. MaxOutputs[mode]]
    /\ pushed \in Seq(Texts)
    /\ begun \in Seq(Texts)
    /\ heard \in Seq(Lines \union {Torn})
    /\ mark \in Nat
    /\ raced \in {"no", "met", "yes"}

(* connect was called and the thread started.                              *)
Init ==
    /\ mode \in Modes
    /\ pc = IF mode = "c" THEN "prompt" ELSE "connect"
    /\ line = NoMsg /\ isSending = FALSE
    /\ status = "OFFLINE" /\ conn = "none" /\ slot = NoMsg
    /\ msgQueue = <<>>
    /\ io = [connecting |-> TRUE, receiving |-> FALSE, posted |-> 0,
             writes |-> <<>>, failed |-> FALSE, stopped |-> FALSE,
             ended |-> FALSE]
    /\ net = "connecting" /\ wire = <<>> /\ inbox = <<>> /\ cut = FALSE
    /\ server = [answered |-> 0, said |-> 0]
    /\ pushed = <<>> /\ begun = <<>> /\ heard = <<>>
    /\ mark = 0 /\ raced = "no"

-----------------------------------------------------------------------------
(* The main thread.                                                        *)

Goto(from, to) ==
    /\ pc = from
    /\ pc' = to
    /\ UNCHANGED <<mode, status, conn, begun, heard, netVars>>

(* is_connected: waits for 100 ms.                                         *)
IsConnected ==
    /\ \/ conn = "ONLINE" /\ Goto("connect", "test")
          /\ line' \in {1, EXIT}
       \/ conn # "ONLINE" /\ Goto("connect", "stop") /\ UNCHANGED line
    /\ UNCHANGED <<slot, msgQueue, io, isSending, pushed, mark, raced>>

(* getline: a command, exit, or clientExit, which is not sent.             *)
Type ==
    /\ \/ Goto("prompt", "test")
          /\ \/ Len(pushed) < MaxLines /\ line' = Len(pushed) + 1
             \/ line' = EXIT
       \/ Goto("prompt", "stop") /\ UNCHANGED line
    /\ UNCHANGED <<slot, msgQueue, io, isSending, pushed, mark, raced>>

Meets == IF raced # "yes" /\ msgQueue # <<>> THEN "met" ELSE raced

\* Mutant: ... = _msgQueue.empty().
SendTestInverted ==
    /\ Goto("test", "push")
    /\ isSending' = (msgQueue = <<>>)
    /\ raced' = Meets
    /\ UNCHANGED <<line, slot, msgQueue, io, pushed, mark>>

(* send: is_sending, ...                                                   *)
SendTest ==
    /\ Goto("test", "push")
    /\ isSending' = (msgQueue # <<>>)
    /\ raced' = Meets
    /\ UNCHANGED <<line, slot, msgQueue, io, pushed, mark>>

(* ... push, ...                                                           *)
SendPush ==
    /\ Goto("push", "renew")
    /\ msgQueue' = Append(msgQueue, line)
    /\ pushed' = Append(pushed, line)
    /\ raced' = CASE raced = "met" /\ msgQueue = <<>> -> "yes"
                  [] raced = "met" /\ msgQueue # <<>> -> "no"
                  [] OTHER -> raced
    /\ UNCHANGED <<line, isSending, slot, io, mark>>

\* Mutant: the promise of the last message stays.
SendRenewForgotten ==
    /\ Goto("renew", "post")
    /\ mark' = Len(heard)
    /\ UNCHANGED <<line, isSending, slot, msgQueue, io, pushed, raced>>

(* ... a new promise, ...                                                  *)
SendRenew ==
    /\ Goto("renew", "post")
    /\ slot' = NoMsg
    /\ mark' = Len(heard)
    /\ UNCHANGED <<line, isSending, msgQueue, io, pushed, raced>>

AfterSend == IF mode = "ec" THEN "recv" ELSE IF line = EXIT THEN "stop" ELSE "prompt"

(* ... and a call of _async_write, if none seemed to be at work.           *)
SendPost ==
    /\ Goto("post", AfterSend)
    /\ io' = IF isSending THEN io ELSE [io EXCEPT !.posted = @ + 1]
    /\ UNCHANGED <<sendVars, slot, msgQueue>>

(* lastRecv: waits for a second; its text is dropped by its caller.        *)
LastRecv ==
    /\ Goto("recv", "stop")
    /\ UNCHANGED <<sendVars, slot, msgQueue, io>>

\* Mutant: exit() leaves the io_service running.
ExitForgotten ==
    /\ Goto("stop", "join")
    /\ UNCHANGED <<sendVars, slot, msgQueue, io>>

(* exit: _io.stop().                                                       *)
Exit ==
    /\ Goto("stop", "join")
    /\ io' = [io EXCEPT !.stopped = TRUE]
    /\ UNCHANGED <<sendVars, slot, msgQueue>>

Join ==
    /\ io.ended
    /\ Goto("join", "returned")
    /\ UNCHANGED <<sendVars, slot, msgQueue, io>>

Main ==
    \/ IsConnected \/ SendTest \/ SendPush \/ SendRenew \/ SendPost \/ LastRecv
    \/ Exit \/ Join

-----------------------------------------------------------------------------
(* The handlers, called by io_service::run one at a time.                  *)

Handle(i) ==
    /\ ~io.stopped /\ ~io.ended
    /\ io' = i
    /\ UNCHANGED <<pc, mode, sendVars, server, net>>

\* Mutant: the promise is set to the error, not to the status.
OnConnectErr ==
    /\ io.connecting /\ net # "connecting"
    /\ Handle([io EXCEPT !.connecting = FALSE, !.receiving = (net = "up")])
    /\ status' = IF net = "refused" THEN "FAIL" ELSE "ONLINE"
    /\ conn' = net
    /\ UNCHANGED <<slot, msgQueue, begun, heard, wire, inbox, cut>>

(* The connection is established, or not; the promise has the status.      *)
OnConnect ==
    /\ io.connecting /\ net # "connecting"
    /\ Handle([io EXCEPT !.connecting = FALSE, !.receiving = (net = "up")])
    /\ status' = IF net = "refused" THEN "FAIL" ELSE "ONLINE"
    /\ conn' = status'
    /\ UNCHANGED <<slot, msgQueue, begun, heard, wire, inbox, cut>>

\* Mutant: the buffer is not consumed.
OnReceiveKeeps ==
    /\ io.receiving /\ inbox # <<>>
    /\ LET text == IF cut THEN Torn ELSE Head(inbox)
       IN  /\ slot' = IF slot = NoMsg THEN text ELSE slot
           /\ heard' = Append(heard, text)
    /\ Handle(io)
    /\ UNCHANGED <<status, conn, msgQueue, begun, wire, inbox, cut>>

(* The first line is printed and handed over, unless the promise has a     *)
(* value; whatever else is in the buffer is consumed with it: lines, and   *)
(* the beginning of a line.                                                *)
OnReceive ==
    /\ io.receiving /\ inbox # <<>>
    /\ status = "ONLINE"
    /\ LET text == IF cut THEN Torn ELSE Head(inbox)
       IN  /\ slot' = IF slot = NoMsg THEN text ELSE slot
           /\ heard' = Append(heard, text)
    /\ \E n \in 1 .. Len(inbox) :
           /\ inbox' = SubSeq(inbox, n + 1, Len(inbox))
           /\ cut' \in {FALSE, n < Len(inbox)}
    /\ Handle(io)
    /\ UNCHANGED <<status, conn, msgQueue, begun, wire>>

(* The client has taken its leave, or the connection is over.              *)
OnReceiveEnds ==
    /\ io.receiving
    /\ \/ inbox # <<>> /\ status # "ONLINE"
       \/ inbox = <<>> /\ net = "closed"
    /\ Handle([io EXCEPT !.receiving = FALSE])
    /\ status' = "LOST"
    /\ UNCHANGED <<conn, slot, msgQueue, begun, heard, wire, inbox, cut>>

\* Mutant: the message stays in the queue.
WriteFrontKeeps(i) ==
    /\ begun' = Append(begun, Head(msgQueue))
    /\ UNCHANGED <<msgQueue, status>>
    /\ \E res \in {"pending", "ok", "error"} :
          /\ res = "pending" <=> net = "connecting"
          /\ res = "ok" => net \in {"up", "closed"}
          /\ res = "error" => net \in {"refused", "closed"}
          /\ Handle([i EXCEPT !.writes = Append(@, [text |-> Head(msgQueue), res |-> res])])
    /\ wire' = IF net = "up" THEN Append(wire, Head(msgQueue)) ELSE wire
    /\ UNCHANGED <<conn, slot, heard, inbox, cut>>

(* _async_write, when there is something to write: it is written at once,  *)
(* but for a connection that is not established yet.                       *)
WriteFront(i) ==
    /\ begun' = Append(begun, Head(msgQueue))
    /\ msgQueue' = Tail(msgQueue)
    /\ status' = IF Head(msgQueue) = EXIT THEN "LOST" ELSE status
    /\ \E res \in {"pending", "ok", "error"} :
          /\ res = "pending" <=> net = "connecting"
          /\ res = "ok" => net \in {"up", "closed"}
          /\ res = "error" => net \in {"refused", "closed"}
          /\ Handle([i EXCEPT !.writes = Append(@, [text |-> Head(msgQueue), res |-> res])])
    /\ wire' = IF net = "up" THEN Append(wire, Head(msgQueue)) ELSE wire
    /\ UNCHANGED <<conn, slot, heard, inbox, cut>>

WriteOrReturn(i) ==
    \/ msgQueue # <<>> /\ WriteFront(i)
    \/ msgQueue = <<>> /\ Handle(i) /\ UNCHANGED <<clientVars, wire, inbox, cut>>

AsyncWrite ==
    /\ io.posted > 0
    /\ WriteOrReturn([io EXCEPT !.posted = @ - 1])

\* Mutant: _on_write does not look at the queue again.
OnWriteOnce ==
    /\ io.writes # <<>> /\ ~io.connecting
    /\ Head(io.writes).res = "ok"
    /\ Handle([io EXCEPT !.writes = Tail(@)])
    /\ UNCHANGED <<clientVars, wire, inbox, cut>>

OnWrite ==
    /\ io.writes # <<>> /\ ~io.connecting
    /\ Head(io.writes).res = "ok"
    /\ WriteOrReturn([io EXCEPT !.writes = Tail(@)])

(* A failed write is reported, and nothing is written any more.            *)
OnWriteFails ==
    /\ io.writes # <<>> /\ ~io.connecting
    /\ Head(io.writes).res = "error"
    /\ Handle([io EXCEPT !.writes = Tail(@), !.failed = TRUE])
    /\ UNCHANGED <<clientVars, wire, inbox, cut>>

(* run() returns when it was stopped or has nothing left to do.            *)
RunReturns ==
    /\ ~io.ended
    /\ \/ io.stopped
       \/ ~io.connecting /\ ~io.receiving /\ io.posted = 0 /\ io.writes = <<>>
    /\ io' = [io EXCEPT !.ended = TRUE]
    /\ UNCHANGED <<pc, mode, sendVars, clientVars, netVars>>

Handlers ==
    \/ OnConnect \/ OnReceive \/ OnReceiveEnds \/ AsyncWrite \/ OnWrite
    \/ OnWriteFails \/ RunReturns

-----------------------------------------------------------------------------
(* The connection and the server.                                          *)

(* What happens after stop() makes no difference to the client.            *)
World ==
    /\ ~io.stopped
    /\ UNCHANGED <<pc, mode, sendVars, clientVars>>

Done(res) == [k \in DOMAIN io.writes |-> [io.writes[k] EXCEPT !.res = res]]

(* What was begun before is written now, from a buffer that is no more: a  *)
(* local string of _async_write.                                           *)
Establish ==
    /\ net = "connecting"
    /\ net' = "up"
    /\ io' = [io EXCEPT !.writes = Done("ok")]
    /\ \E spoilt \in SUBSET DOMAIN io.writes :
          wire' = [k \in DOMAIN io.writes |->
                      IF k \in spoilt THEN Junk ELSE io.writes[k].text]
    /\ UNCHANGED <<inbox, cut, server>> /\ World

Refuse ==
    /\ net = "connecting"
    /\ net' = "refused"
    /\ io' = [io EXCEPT !.writes = Done("error")]
    /\ UNCHANGED <<wire, inbox, cut, server>> /\ World

(* The server answers in order, but may miss a command (see TcpServer).    *)
Answer ==
    /\ net = "up"
    /\ \E k \in server.answered + 1 .. Len(wire) :
          /\ server' = [server EXCEPT !.answered = k]
          /\ inbox' = Append(inbox, wire[k])
    /\ UNCHANGED <<io, net, wire, cut>> /\ World

Say ==
    /\ net = "up"
    /\ server.said < MaxOutputs[mode]
    /\ server' = [server EXCEPT !.said = @ + 1]
    /\ inbox' = Append(inbox, Output)
    /\ UNCHANGED <<io, net, wire, cut>> /\ World

(* What was on its way arrives, or does not.                               *)
Close ==
    /\ net = "up"
    /\ net' = "closed"
    /\ inbox' \in {inbox, <<>>}
    /\ UNCHANGED <<io, wire, cut, server>> /\ World

-----------------------------------------------------------------------------
Terminated == pc = "returned" /\ UNCHANGED vars

Next ==
    \/ Type \/ Main \/ Handlers
    \/ Establish \/ Refuse \/ Answer \/ Say \/ Close
    \/ Terminated

(* Both threads keep running, and an attempt to connect comes to an end;   *)
(* nobody has to type or to answer.                                        *)
Fairness ==
    /\ WF_vars(Main)
    /\ WF_vars(Handlers)
    /\ WF_vars(Establish \/ Refuse)

Spec == Init /\ [][Next]_vars /\ Fairness

-----------------------------------------------------------------------------
(* SentInOrder: what was pushed to _msgQueue is given to async_write once  *)
(* and in that order, although the two threads share the queue without a   *)
(* lock and two writes may be under way at a time, and so it goes out.     *)
SentInOrder ==
    /\ pushed = begun \o msgQueue
    /\ \A i, j \in 1 .. Len(wire) :
          i < j /\ wire[i] # Junk /\ wire[j] # Junk => wire[i] < wire[j]

\* Somebody is going to look at the queue.
Attended ==
    \/ io.posted > 0 \/ io.writes # <<>>
    \/ pc \in {"renew", "post"} /\ ~isSending

(* StrandedByRace: a message is left behind in the queue, where each later *)
(* send takes it for the sign of a writer at work, only after a send whose *)
(* test met the last message and whose push came after that was popped, or *)
(* after a write that failed.                                              *)
StrandedByRace == msgQueue # <<>> /\ ~Attended => raced = "yes" \/ io.failed

(* FirstAnswer: what lastRecv finds is the first line that came since send *)
(* has replaced the promise, and the answer to the command was not among   *)
(* the lines before.                                                       *)
FirstAnswer ==
    pc = "recv" =>
        /\ slot = IF Len(heard) > mark THEN heard[mark + 1] ELSE NoMsg
        /\ \A k \in 1 .. mark : heard[k] \in {Output, Torn}

C == INSTANCE Conversation WITH
    Messages <- Texts, Others <- {Junk, Output, Torn},
    typed <- pushed, handed <- Len(begun), printed <- heard

(* Converses: the threads with their queue, promises and buffers implement *)
(* the abstract conversation: what is typed is given to async_write once   *)
(* and in order; each answer printed is to a message that was given to it  *)
(* before, later than the one answered last, whatever OnReceive drops of   *)
(* its buffer and whenever the connection was established.                 *)
Converses == C!ConvSpec

(* LinesGoOut: a message that was sent is written, unless it is stranded   *)
(* (see above) or the client or the connection ends before.                *)
LinesGoOut ==
    \A n \in 1 .. MaxLines + 1 :
        Len(pushed) >= n ~>
            \/ Len(begun) >= n
            \/ raced = "yes" \/ io.failed \/ io.stopped \/ io.ended

(* ClientEnds: exit and clientExit end the client, and -ec ends, whether   *)
(* the server answers, is silent, or was never there.                      *)
ClientEnds == mode = "ec" \/ line = EXIT \/ pc = "stop" ~> pc = "returned"
=============================================================================
