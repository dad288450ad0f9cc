--------------------------- MODULE TcpClient_proof ---------------------------
(***************************************************************************)
(* Proofs about TcpClient, for every number of commands and of lines that  *)
(* the server says, and every moment at which the connection is            *)
(* established, refused or closed.                                         *)
(***************************************************************************)
EXTENDS TcpClient, SequenceLemmas, TLAPS

\* The commands are the messages 1, 2, 3, ...
Plain == \A k \in 1 .. Len(pushed) : pushed[k] = k /\ k \in Messages

(* What has been pushed went to async_write or is in the queue; it is the  *)
(* messages 1, 2, 3, ..., the last of which may be exit.                   *)
QueueInv ==
    /\ pushed = begun \o msgQueue
    /\ pc \in {"connect", "prompt", "test", "push"} \/ line # EXIT => Plain
    /\ \A k \in 1 .. Len(pushed) :
          \/ pushed[k] = k /\ k \in Messages
          \/ pushed[k] = EXIT /\ k = Len(pushed)
    /\ pc \in {"test", "push"} => line \in {EXIT, Len(pushed) + 1}
    /\ pc \in {"test", "push", "renew", "post"} => line \in Texts
    /\ pc \in {"test", "push"} /\ line # EXIT => line \in Messages
    /\ pc = "connect" => pushed = <<>>

(* What has gone out is what was given to async_write, but for what became *)
(* of the lines begun before the connection was established.               *)
WireInv ==
    /\ Len(wire) <= Len(begun)
    /\ \A k \in 1 .. Len(wire) : wire[k] \in {Junk, begun[k]}
    /\ net = "up" => Len(wire) = Len(begun)
    /\ net = "connecting" =>
          /\ io.connecting
          /\ wire = <<>>
          /\ Len(io.writes) = Len(begun)
          /\ \A k \in 1 .. Len(begun) : io.writes[k].text = begun[k]

(* send that has seen a message in the queue knows that it was one.        *)
StrandInv ==
    /\ pc = "push" /\ isSending => raced \in {"met", "yes"}
    /\ StrandedByRace

Unasked(lines) == \A i \in 1 .. Len(lines) : lines[i] \in {Output, Torn}

(* The promise has the first line since it was replaced; with -ec nothing  *)
(* is written before that.                                                 *)
SlotInv ==
    /\ mark <= Len(heard)
    /\ slot = IF Len(heard) > mark THEN heard[mark + 1] ELSE NoMsg
    /\ pc = "recv" => mode = "ec"
    /\ mode = "ec" =>
          /\ pc # "prompt"
          /\ \A k \in 1 .. mark : heard[k] \in {Output, Torn}
          /\ pc \in {"connect", "test", "push"} => msgQueue = <<>>
          /\ pc = "push" => ~isSending
          /\ pc \in {"connect", "test", "push", "renew", "post"} =>
                /\ io.posted = 0 /\ io.writes = <<>> /\ begun = <<>>
                /\ Unasked(inbox) /\ Unasked(heard)

\* The texts among the lines are among the first n that went out, and ordered.
Answers(lines, n) ==
    \A i \in 1 .. Len(lines) :
        lines[i] \in Texts => \E k \in 1 .. n : wire[k] = lines[i]
Ordered(lines) ==
    \A i, j \in 1 .. Len(lines) :
        i < j /\ lines[i] \in Texts /\ lines[j] \in Texts => lines[i] < lines[j]
Before(first, second) ==
    \A i \in 1 .. Len(first), j \in 1 .. Len(second) :
        first[i] \in Texts /\ second[j] \in Texts => first[i] < second[j]

AnswerInv ==
    /\ server.answered <= Len(wire)
    /\ Answers(heard, server.answered) /\ Answers(inbox, server.answered)
    /\ Ordered(heard) /\ Ordered(inbox) /\ Before(heard, inbox)

IInv == TypeOK /\ QueueInv /\ WireInv /\ StrandInv /\ SlotInv /\ AnswerInv

-----------------------------------------------------------------------------
(* Lines.                                                                  *)

(* The texts and the marks on lines are different numbers.                 *)
LEMMA LineFacts ==
    /\ Messages \subseteq Nat /\ 1 \in Messages /\ EXIT \in Nat /\ EXIT \in Texts
    /\ \A m \in Messages : m < EXIT
    /\ \A t \in Texts : t \in Nat /\ t # NoMsg /\ t # Junk /\ t # Output /\ t # Torn
    /\ Junk # NoMsg /\ Output # NoMsg /\ Torn # NoMsg
    /\ Junk \notin {Output, Torn}
  BY ConstantsAssumption
     DEF ConstantsAssumption, Messages, Texts, EXIT, Junk, Output, Torn, NoMsg

-----------------------------------------------------------------------------
(* Types.                                                                  *)

(* What the steps make of the state of the io_service has its type.        *)
LEMMA IoFacts ==
    ASSUME NEW i \in Io
    PROVE  /\ i.posted \in Nat /\ i.writes \in Seq(Write)
           /\ \A b \in BOOLEAN :
                 /\ [i EXCEPT !.connecting = FALSE, !.receiving = b] \in Io
                 /\ [i EXCEPT !.receiving = b] \in Io
                 /\ [i EXCEPT !.stopped = b] \in Io
                 /\ [i EXCEPT !.ended = b] \in Io
           /\ [i EXCEPT !.posted = @ + 1] \in Io
           /\ i.posted > 0 => [i EXCEPT !.posted = @ - 1] \in Io
           /\ i.writes # <<>> => /\ [i EXCEPT !.writes = Tail(@)] \in Io
                                 /\ [i EXCEPT !.writes = Tail(@), !.failed = TRUE] \in Io
           /\ \A w \in Seq(Write) : [i EXCEPT !.writes = w] \in Io
<1>1. i.posted \in Nat /\ i.writes \in Seq(Write)
  BY DEF Io
<1>2. i.posted > 0 => i.posted - 1 \in Nat
  BY <1>1
<1>3. ASSUME NEW p \in Nat PROVE [i EXCEPT !.posted = p] \in Io
  BY DEF Io
<1>4. ASSUME NEW b \in BOOLEAN
      PROVE  /\ [i EXCEPT !.connecting = FALSE, !.receiving = b] \in Io
             /\ [i EXCEPT !.receiving = b] \in Io
             /\ [i EXCEPT !.stopped = b] \in Io
             /\ [i EXCEPT !.ended = b] \in Io
  BY DEF Io
<1>5. ASSUME NEW w \in Seq(Write)
      PROVE  [i EXCEPT !.writes = w] \in Io /\ [i EXCEPT !.writes = w, !.failed = TRUE] \in Io
  BY DEF Io
<1>6. i.writes # <<>> => Tail(i.writes) \in Seq(Write)
  BY <1>1, HeadTailProperties
<1>7. /\ [i EXCEPT !.posted = @ + 1] \in Io
      /\ i.posted > 0 => [i EXCEPT !.posted = @ - 1] \in Io
  BY <1>1, <1>2, <1>3
<1>8. i.writes # <<>> => /\ [i EXCEPT !.writes = Tail(@)] \in Io
                        /\ [i EXCEPT !.writes = Tail(@), !.failed = TRUE] \in Io
  BY <1>5, <1>6
<1> QED
  BY <1>1, <1>4, <1>5, <1>7, <1>8

(* The outcome of the writes, once it is known for all of them.            *)
LEMMA DoneType ==
    ASSUME io \in Io, NEW res \in {"ok", "error"}
    PROVE  /\ Done(res) \in Seq(Write) /\ Len(Done(res)) = Len(io.writes)
           /\ [io EXCEPT !.writes = Done(res)] \in Io
<1>1. io.writes \in Seq(Write)
  BY IoFacts
<1>2. DOMAIN io.writes = 1 .. Len(io.writes) /\ Len(io.writes) \in Nat
  BY <1>1, LenProperties
<1>3. ASSUME NEW k \in DOMAIN io.writes
      PROVE  [io.writes[k] EXCEPT !.res = res] \in Write
  <2>1. io.writes[k] \in Write
    BY <1>1, <1>2, ElementOfSeq
  <2> QED
    BY <2>1 DEF Write
<1>4. Done(res) \in Seq(Write)
  BY <1>2, <1>3 DEF Done
<1>5. DOMAIN Done(res) = 1 .. Len(io.writes)
  BY <1>2 DEF Done
<1>6. Len(Done(res)) = Len(io.writes)
  BY <1>2, <1>4, <1>5, LenProperties
<1> QED
  BY <1>4, <1>6, IoFacts

(* Starting the write of the front of the queue keeps the types.           *)
LEMMA WriteFrontType ==
    ASSUME TypeOK, NEW i \in Io, msgQueue # <<>>, WriteFront(i)
    PROVE  TypeOK'
<1>1. Head(msgQueue) \in Texts /\ Tail(msgQueue) \in Seq(Texts)
  BY HeadTailProperties DEF TypeOK
<1>2. io' \in Io
  <2>1. PICK res \in {"pending", "ok", "error"} :
           io' = [i EXCEPT !.writes = Append(@, [text |-> Head(msgQueue), res |-> res])]
    BY DEF WriteFront, Handle
  <2>2. [text |-> Head(msgQueue), res |-> res] \in Write
    BY <1>1 DEF Write
  <2>3. Append(i.writes, [text |-> Head(msgQueue), res |-> res]) \in Seq(Write)
    BY <2>2, IoFacts, AppendProperties
  <2> QED
    BY <2>1, <2>3, IoFacts
<1>3. wire' \in Seq(Texts \union {Junk})
  BY <1>1 DEF WriteFront, TypeOK
<1>4. begun' \in Seq(Texts)
  BY <1>1 DEF WriteFront, TypeOK
<1> QED
  BY <1>1, <1>2, <1>3, <1>4 DEF WriteFront, Handle, sendVars, TypeOK

(* So does a handler that writes on if there is something to write.        *)
LEMMA WriteOrReturnType ==
    ASSUME TypeOK, NEW i \in Io, WriteOrReturn(i)
    PROVE  TypeOK'
<1>1. CASE msgQueue # <<>> /\ WriteFront(i)
  BY <1>1, WriteFrontType
<1>2. CASE Handle(i) /\ UNCHANGED <<clientVars, wire, inbox, cut>>
  BY <1>2 DEF Handle, sendVars, clientVars, TypeOK
<1> QED
  BY <1>1, <1>2 DEF WriteOrReturn

(* The types hold in the beginning.                                        *)
LEMMA TypeInit == Init => TypeOK
<1> SUFFICES ASSUME Init PROVE TypeOK
  OBVIOUS
<1>1. io \in Io
  BY EmptySeq DEF Init, Io
<1>2. /\ msgQueue \in Seq(Texts) /\ wire \in Seq(Texts \union {Junk})
      /\ inbox \in Seq(Lines) /\ heard \in Seq(Lines \union {Torn})
      /\ pushed \in Seq(Texts) /\ begun \in Seq(Texts)
  BY EmptySeq DEF Init
<1>3. server \in [answered : Nat, said : 0 .. MaxOutputs[mode]]
  BY ConstantsAssumption DEF ConstantsAssumption, Init
<1>4. pc \in {"connect", "prompt"} /\ mode \in Modes
  BY DEF Init
<1> QED
  BY <1>1, <1>2, <1>3, <1>4 DEF Init, TypeOK

(* Every step preserves the type invariant.                                *)
LEMMA TypeStep ==
    ASSUME IInv, [Next]_vars
    PROVE  TypeOK'
<1> USE DEF Goto, netVars, sendVars, clientVars
<1>t. TypeOK
  BY DEF IInv
<1>l. pc \in {"test", "push", "renew", "post"} => line \in Texts
  BY DEF IInv, QueueInv
<1>i. io \in Io
  BY <1>t DEF TypeOK
<1>1. CASE Type
  <2>1. line' \in Texts \union {NoMsg}
    <3>1. Len(pushed) \in Nat
      BY <1>t DEF TypeOK
    <3> QED
      BY <1>1, <1>t, <3>1, ConstantsAssumption
         DEF ConstantsAssumption, Type, TypeOK, Texts, Messages, EXIT
  <2>2. pc' \in {"test", "stop"}
    BY <1>1 DEF Type
  <2> QED
    BY <1>1, <1>t, <2>1, <2>2 DEF Type, TypeOK
<1>2. CASE IsConnected
  <2>1. line' \in Texts \union {NoMsg}
    BY <1>2, <1>t, LineFacts DEF IsConnected, TypeOK, Texts
  <2> QED
    BY <1>2, <1>t, <2>1 DEF IsConnected, TypeOK
<1>3. CASE SendTest
  BY <1>3, <1>t DEF SendTest, Meets, TypeOK
<1>4. CASE SendPush
  BY <1>4, <1>t, <1>l DEF SendPush, TypeOK
<1>5. CASE SendRenew
  BY <1>5, <1>t DEF SendRenew, TypeOK
<1>6. CASE SendPost
  <2>1. io' \in Io
    BY <1>6, <1>i, IoFacts DEF SendPost
  <2>2. pc' \in {"recv", "stop", "prompt"}
    BY <1>6 DEF SendPost, AfterSend
  <2> QED
    BY <1>6, <1>t, <2>1, <2>2 DEF SendPost, TypeOK
<1>7. CASE LastRecv
  BY <1>7, <1>t DEF LastRecv, TypeOK
<1>8. CASE Exit
  <2>1. io' \in Io
    BY <1>8, <1>i, IoFacts DEF Exit
  <2> QED
    BY <1>8, <1>t, <2>1 DEF Exit, TypeOK
<1>9. CASE Join
  BY <1>9, <1>t DEF Join, TypeOK
<1>10. CASE OnConnect
  <2>1. io' \in Io
    <3>1. (net = "up") \in BOOLEAN
      OBVIOUS
    <3> QED
      BY <1>10, <1>i, <3>1, IoFacts DEF OnConnect, Handle
  <2> QED
    BY <1>10, <1>t, <2>1 DEF OnConnect, Handle, TypeOK
<1>11. CASE OnReceive
  <2> DEFINE text == IF cut THEN Torn ELSE Head(inbox)
  <2>1. text \in Lines \union {Torn}
    BY <1>11, <1>t, HeadTailProperties DEF OnReceive, TypeOK
  <2>2. /\ heard' = Append(heard, text)
        /\ slot' = IF slot = NoMsg THEN text ELSE slot
    BY <1>11 DEF OnReceive
  <2>3. heard' \in Seq(Lines \union {Torn}) /\ slot' \in Lines \union {NoMsg, Torn}
    BY <1>t, <2>1, <2>2 DEF TypeOK
  <2>4. PICK n \in 1 .. Len(inbox) : inbox' = SubSeq(inbox, n + 1, Len(inbox))
                                    /\ cut' \in {FALSE, n < Len(inbox)}
    BY <1>11 DEF OnReceive
  <2>5. inbox' \in Seq(Lines)
    BY <1>t, <2>4, SubSeqProperties DEF TypeOK
  <2>6. cut' \in BOOLEAN
    <3>1. (n < Len(inbox)) \in BOOLEAN
      OBVIOUS
    <3> QED
      BY <2>4, <3>1, Zenon
  <2>7. io' = io /\ UNCHANGED <<pc, mode, sendVars, server, net, status, conn, msgQueue, begun, wire>>
    BY <1>11 DEF OnReceive, Handle
  <2> HIDE DEF text
  <2> QED
    BY <1>t, <2>3, <2>5, <2>6, <2>7 DEF TypeOK
<1>12. CASE OnReceiveEnds
  <2>1. io' \in Io
    BY <1>12, <1>i, IoFacts DEF OnReceiveEnds, Handle
  <2> QED
    BY <1>12, <1>t, <2>1 DEF OnReceiveEnds, Handle, TypeOK
<1>13. CASE AsyncWrite
  <2>1. [io EXCEPT !.posted = @ - 1] \in Io
    BY <1>13, <1>i, IoFacts DEF AsyncWrite
  <2> QED
    BY <1>13, <1>t, <2>1, WriteOrReturnType DEF AsyncWrite
<1>14. CASE OnWrite
  <2>1. [io EXCEPT !.writes = Tail(@)] \in Io
    BY <1>14, <1>i, IoFacts DEF OnWrite
  <2> QED
    BY <1>14, <1>t, <2>1, WriteOrReturnType DEF OnWrite
<1>15. CASE OnWriteFails
  <2>1. io' \in Io
    BY <1>15, <1>i, IoFacts DEF OnWriteFails, Handle
  <2> QED
    BY <1>15, <1>t, <2>1 DEF OnWriteFails, Handle, TypeOK
<1>16. CASE RunReturns
  <2>1. io' \in Io
    BY <1>16, <1>i, IoFacts DEF RunReturns
  <2> QED
    BY <1>16, <1>t, <2>1 DEF RunReturns, TypeOK
<1>17. CASE Establish
  <2>1. io' \in Io
    BY <1>17, <1>i, DoneType DEF Establish
  <2>2. wire' \in Seq(Texts \union {Junk})
    <3>1. PICK spoilt \in SUBSET DOMAIN io.writes :
             wire' = [k \in DOMAIN io.writes |->
                         IF k \in spoilt THEN Junk ELSE io.writes[k].text]
      BY <1>17 DEF Establish
    <3>2. io.writes \in Seq(Write)
      BY <1>i, IoFacts
    <3>3. DOMAIN io.writes = 1 .. Len(io.writes) /\ Len(io.writes) \in Nat
      BY <3>2, LenProperties
    <3>4. ASSUME NEW k \in DOMAIN io.writes
          PROVE  io.writes[k].text \in Texts
      <4>1. io.writes[k] \in Write
        BY <3>2, <3>3, ElementOfSeq
      <4> QED
        BY <4>1 DEF Write
    <3> QED
      BY <3>1, <3>3, <3>4
  <2> QED
    BY <1>17, <1>t, <2>1, <2>2 DEF Establish, World, TypeOK
<1>18. CASE Refuse
  <2>1. io' \in Io
    BY <1>18, <1>i, DoneType DEF Refuse
  <2> QED
    BY <1>18, <1>t, <2>1 DEF Refuse, World, TypeOK
<1>19. CASE Answer
  <2>1. PICK k \in server.answered + 1 .. Len(wire) :
           /\ server' = [server EXCEPT !.answered = k]
           /\ inbox' = Append(inbox, wire[k])
    BY <1>19 DEF Answer
  <2>2. k \in Nat /\ k \in 1 .. Len(wire)
    BY <1>t, <2>1 DEF TypeOK
  <2>3. wire[k] \in Lines
    BY <1>t, <2>2, ElementOfSeq DEF TypeOK, Lines
  <2>4. inbox' \in Seq(Lines)
    BY <1>t, <2>1, <2>3, AppendProperties DEF TypeOK
  <2>5. UNCHANGED <<io, net, wire, cut, pc, mode, sendVars, clientVars>>
    BY <1>19 DEF Answer, World
  <2>6. server' \in [answered : Nat, said : 0 .. MaxOutputs[mode]]
    BY <1>t, <2>1, <2>2 DEF TypeOK
  <2> QED
    BY <1>t, <2>4, <2>5, <2>6 DEF TypeOK
<1>20. CASE Say
  <2>1. inbox' \in Seq(Lines)
    BY <1>20, <1>t, AppendProperties DEF Say, TypeOK, Lines
  <2>2. server' \in [answered : Nat, said : 0 .. MaxOutputs[mode]]
    <3>1. /\ server \in [answered : Nat, said : 0 .. MaxOutputs[mode]]
          /\ MaxOutputs[mode] \in Nat
      BY <1>t, ConstantsAssumption DEF ConstantsAssumption, TypeOK
    <3>2. server.said + 1 \in 0 .. MaxOutputs[mode]
      BY <1>20, <3>1 DEF Say
    <3> QED
      BY <1>20, <3>1, <3>2 DEF Say
  <2> QED
    BY <1>20, <1>t, <2>1, <2>2 DEF Say, World, TypeOK
<1>21. CASE Close
  <2>1. inbox' \in Seq(Lines)
    BY <1>21, <1>t, EmptySeq DEF Close, TypeOK
  <2> QED
    BY <1>21, <1>t, <2>1 DEF Close, World, TypeOK
<1>22. CASE UNCHANGED vars
  BY <1>22, <1>t DEF vars, TypeOK
<1> QED
  BY <1>1, <1>2, <1>3, <1>4, <1>5, <1>6, <1>7, <1>8, <1>9, <1>10, <1>11, <1>12,
     <1>13, <1>14, <1>15, <1>16, <1>17, <1>18, <1>19, <1>20, <1>21, <1>22
     DEF Next, Main, Handlers, Terminated

-----------------------------------------------------------------------------
(* What the actions leave alone.                                           *)

(* The main thread touches nothing that only the handlers and the          *)
(* connection change.                                                      *)
LEMMA MainFrame ==
    ASSUME Type \/ Main
    PROVE  UNCHANGED <<mode, status, conn, begun, heard, net, wire, inbox, cut, server>>
  BY DEF Type, Main, Goto, IsConnected, SendTest, SendPush, SendRenew, SendPost,
         LastRecv, Exit, Join, netVars

(* The handlers and the world, but for _async_write and what calls it,     *)
(* leave the queue and the main thread alone.                              *)
LEMMA QuietFrame ==
    ASSUME \/ OnConnect \/ OnReceive \/ OnReceiveEnds \/ OnWriteFails \/ RunReturns
           \/ Establish \/ Refuse \/ Answer \/ Say \/ Close \/ UNCHANGED vars
    PROVE  UNCHANGED <<pc, mode, line, isSending, mark, raced, pushed, msgQueue, begun>>
<1> USE DEF sendVars, clientVars
<1>1. CASE OnConnect \/ OnReceive \/ OnReceiveEnds \/ OnWriteFails
  BY <1>1 DEF OnConnect, OnReceive, OnReceiveEnds, OnWriteFails, Handle
<1>2. CASE RunReturns \/ Establish \/ Refuse \/ Answer \/ Say \/ Close
  BY <1>2 DEF RunReturns, Establish, Refuse, Answer, Say, Close, World
<1>3. CASE UNCHANGED vars
  BY <1>3 DEF vars
<1> QED
  BY <1>1, <1>2, <1>3

(* A call of _async_write: the front of the queue is written, or the queue *)
(* is empty and nothing else happens.                                      *)
LEMMA WriteCases ==
    ASSUME io \in Io, AsyncWrite \/ OnWrite
    PROVE  \E i \in Io :
              /\ \/ i = [io EXCEPT !.posted = @ - 1] /\ io.posted > 0
                 \/ i = [io EXCEPT !.writes = Tail(@)] /\ io.writes # <<>> /\ ~io.connecting
              /\ WriteOrReturn(i)
<1>1. CASE AsyncWrite
  <2>1. [io EXCEPT !.posted = @ - 1] \in Io
    BY <1>1, IoFacts DEF AsyncWrite
  <2> QED
    BY <1>1, <2>1 DEF AsyncWrite
<1>2. CASE OnWrite
  <2>1. [io EXCEPT !.writes = Tail(@)] \in Io
    BY <1>2, IoFacts DEF OnWrite
  <2> QED
    BY <1>2, <2>1 DEF OnWrite
<1> QED
  BY <1>1, <1>2

LEMMA WriteFrame ==
    ASSUME NEW i, WriteOrReturn(i)
    PROVE  UNCHANGED <<pc, mode, line, isSending, mark, raced, pushed, conn, slot,
                       heard, inbox, cut, server, net>>
  BY DEF WriteOrReturn, WriteFront, Handle, sendVars, clientVars

-----------------------------------------------------------------------------
(* The queue.                                                              *)

LEMMA QueueInit == Init => QueueInv
<1> SUFFICES ASSUME Init PROVE QueueInv
  OBVIOUS
<1>1. pushed = <<>> /\ begun = <<>> /\ msgQueue = <<>>
  BY DEF Init
<1>2. begun \o msgQueue = <<>>
  BY <1>1, EmptySeq, ConcatEmptySeq
<1>3. pc \in {"connect", "prompt"}
  BY DEF Init
<1> QED
  BY <1>1, <1>2, <1>3, EmptySeq DEF QueueInv, Plain

LEMMA QueueStep ==
    ASSUME IInv, [Next]_vars
    PROVE  QueueInv'
<1>q. QueueInv
  BY DEF IInv
<1>t. /\ msgQueue \in Seq(Texts) /\ begun \in Seq(Texts) /\ pushed \in Seq(Texts)
      /\ io \in Io /\ Len(pushed) \in Nat
  BY DEF IInv, TypeOK
<1>1. CASE Type
  <2>1. /\ pc = "prompt" /\ UNCHANGED <<pushed, begun, msgQueue>>
        /\ \/ pc' = "test" /\ line' = EXIT
           \/ pc' = "test" /\ Len(pushed) < MaxLines /\ line' = Len(pushed) + 1
           \/ pc' = "stop"
    BY <1>1 DEF Type, Goto
  <2>2. Len(pushed) < MaxLines => Len(pushed) + 1 \in Messages
    BY <1>t, ConstantsAssumption DEF ConstantsAssumption, Messages
  <2>3. Plain
    BY <1>q, <2>1 DEF QueueInv
  <2> QED
    BY <1>q, <2>1, <2>2, <2>3, LineFacts DEF QueueInv, Plain, Texts
<1>2. CASE IsConnected
  <2>1. /\ pc = "connect" /\ UNCHANGED <<pushed, begun, msgQueue>>
        /\ \/ pc' = "test" /\ line' \in {1, EXIT}
           \/ pc' = "stop"
    BY <1>2 DEF IsConnected, Goto
  <2>2. Plain /\ Len(pushed) = 0
    BY <1>q, <2>1, EmptySeq DEF QueueInv
  <2> QED
    BY <1>q, <2>1, <2>2, LineFacts DEF QueueInv, Plain, Texts
<1>3. CASE SendTest
  BY <1>3, <1>q DEF SendTest, Goto, QueueInv, Plain
<1>4. CASE SendPush
  <2>1. /\ pc = "push" /\ pc' = "renew" /\ UNCHANGED <<line, begun>>
        /\ pushed' = Append(pushed, line) /\ msgQueue' = Append(msgQueue, line)
    BY <1>4 DEF SendPush, Goto
  <2>2. /\ line \in {EXIT, Len(pushed) + 1} /\ line \in Texts
        /\ line # EXIT => line \in Messages
        /\ pushed = begun \o msgQueue /\ Plain
    BY <1>q, <2>1 DEF QueueInv
  <2>3. pushed' = begun' \o msgQueue'
    <3>1. begun \o Append(msgQueue, line) = Append(begun \o msgQueue, line)
      BY <1>t, <2>2, AppendBehind
    <3> QED
      BY <2>1, <2>2, <3>1
  <2>4. /\ Len(pushed') = Len(pushed) + 1 /\ pushed'[Len(pushed) + 1] = line
        /\ \A k \in 1 .. Len(pushed) : pushed'[k] = pushed[k]
    BY <1>t, <2>1, <2>2, AppendProperties
  <2>5. \A k \in 1 .. Len(pushed) : pushed'[k] = k /\ k \in Messages
    BY <2>2, <2>4 DEF Plain
  <2>6. line # EXIT => Plain'
    BY <1>t, <2>2, <2>4, <2>5 DEF Plain
  <2>7. \A k \in 1 .. Len(pushed') :
           \/ pushed'[k] = k /\ k \in Messages
           \/ pushed'[k] = EXIT /\ k = Len(pushed')
    BY <1>t, <2>2, <2>4, <2>5
  <2> QED
    BY <2>1, <2>2, <2>3, <2>6, <2>7 DEF QueueInv
<1>5. CASE SendRenew \/ SendPost
  <2>1. pc \in {"renew", "post"} /\ UNCHANGED <<line, pushed, begun, msgQueue>>
    BY <1>5 DEF SendRenew, SendPost, Goto, sendVars
  <2>2. pc' \in {"post", "recv", "stop"} \/ (pc' = "prompt" /\ line # EXIT)
    BY <1>5 DEF SendRenew, SendPost, AfterSend, Goto
  <2> QED
    BY <1>q, <2>1, <2>2 DEF QueueInv, Plain
<1>6. CASE LastRecv \/ Exit \/ Join
  <2>1. /\ pc \in {"recv", "stop", "join"} /\ pc' \in {"stop", "join", "returned"}
        /\ UNCHANGED <<line, pushed, begun, msgQueue>>
    BY <1>6 DEF LastRecv, Exit, Join, Goto, sendVars
  <2> QED
    BY <1>q, <2>1 DEF QueueInv, Plain
<1>7. CASE AsyncWrite \/ OnWrite
  <2>1. PICK i \in Io : WriteOrReturn(i)
    BY <1>7, <1>t, WriteCases
  <2>2. UNCHANGED <<pc, line, pushed>>
    BY <2>1, WriteFrame
  <2>3. begun' \o msgQueue' = begun \o msgQueue
    <3>1. CASE msgQueue # <<>> /\ WriteFront(i)
      BY <1>t, <3>1, MoveFront DEF WriteFront
    <3>2. CASE UNCHANGED clientVars
      BY <3>2 DEF clientVars
    <3> QED
      BY <2>1, <3>1, <3>2 DEF WriteOrReturn
  <2> QED
    BY <1>q, <2>2, <2>3 DEF QueueInv, Plain
<1>8. CASE \/ OnConnect \/ OnReceive \/ OnReceiveEnds \/ OnWriteFails \/ RunReturns
           \/ Establish \/ Refuse \/ Answer \/ Say \/ Close \/ UNCHANGED vars
  BY <1>8, <1>q, QuietFrame DEF QueueInv, Plain
<1> QED
  BY <1>1, <1>2, <1>3, <1>4, <1>5, <1>6, <1>7, <1>8
     DEF Next, Main, Handlers, Terminated

-----------------------------------------------------------------------------
(* The connection.                                                         *)

LEMMA WireInit == Init => WireInv
  BY EmptySeq DEF Init, WireInv

LEMMA WireStep ==
    ASSUME IInv, [Next]_vars
    PROVE  WireInv'
<1>w. WireInv
  BY DEF IInv
<1>t. /\ wire \in Seq(Texts \union {Junk}) /\ begun \in Seq(Texts)
      /\ msgQueue \in Seq(Texts) /\ io \in Io
      /\ Len(wire) \in Nat /\ Len(begun) \in Nat
  BY DEF IInv, TypeOK
<1>1. ASSUME UNCHANGED <<begun, wire>>, io'.connecting = io.connecting,
             io'.writes = io.writes, net' = net \/ net' \notin {"up", "connecting"}
      PROVE  WireInv'
  BY <1>w, <1>1 DEF WireInv
<1>2. CASE Type \/ Main
  <2>1. UNCHANGED <<begun, wire, net>>
    BY <1>2, MainFrame
  <2>2. io'.connecting = io.connecting /\ io'.writes = io.writes
    BY <1>2, <1>t DEF Io, Type, Main, IsConnected, SendTest, SendPush, SendRenew, SendPost,
                      LastRecv, Exit, Join
  <2> QED
    BY <1>1, <2>1, <2>2
<1>3. CASE AsyncWrite \/ OnWrite
  <2>1. PICK i \in Io :
           /\ \/ i = [io EXCEPT !.posted = @ - 1]
              \/ i = [io EXCEPT !.writes = Tail(@)] /\ ~io.connecting
           /\ WriteOrReturn(i)
    BY <1>3, <1>t, WriteCases
  <2>2. /\ i.connecting = io.connecting /\ net' = net
        /\ net = "connecting" => i.writes = io.writes
        /\ i.writes \in Seq(Write)
    <3>1. net' = net
      BY <2>1, WriteFrame
    <3>2. i.writes \in Seq(Write)
      BY IoFacts
    <3>3. i.connecting = io.connecting
      BY <1>t, <2>1 DEF Io
    <3>4. ASSUME net = "connecting" PROVE i.writes = io.writes
      <4>1. io.connecting
        BY <1>w, <3>4 DEF WireInv
      <4> QED
        BY <1>t, <2>1, <4>1 DEF Io
    <3> QED
      BY <3>1, <3>2, <3>3, <3>4
  <2>3. CASE UNCHANGED clientVars /\ io' = i /\ UNCHANGED wire
    BY <1>w, <2>2, <2>3 DEF WireInv, clientVars
  <2>4. CASE msgQueue # <<>> /\ WriteFront(i)
    <3> DEFINE new == Head(msgQueue)
    <3>1. new \in Texts
      BY <1>t, <2>4, HeadTailProperties
    <3>2. /\ begun' \in Seq(Texts) /\ Len(begun') = Len(begun) + 1
          /\ begun'[Len(begun) + 1] = new
          /\ \A k \in 1 .. Len(begun) : begun'[k] = begun[k]
      BY <1>t, <2>4, <3>1, AppendProperties DEF WriteFront
    <3>3. PICK res \in {"pending", "ok", "error"} :
             io' = [i EXCEPT !.writes = Append(@, [text |-> new, res |-> res])]
      BY <2>4 DEF WriteFront, Handle
    <3>4. CASE net = "connecting"
      <4>1. wire' = <<>> /\ io.connecting /\ i.writes = io.writes
        BY <1>w, <2>2, <2>4, <3>4 DEF WriteFront, WireInv
      <4> DEFINE w == [text |-> new, res |-> res]
      <4>2. w \in Write /\ w.text = new
        BY <3>1 DEF Write
      <4>3. /\ io'.writes = Append(io.writes, w) /\ io'.connecting
        BY <2>2, <3>3, <4>1 DEF Io
      <4>4. /\ Len(io.writes) = Len(begun)
            /\ \A k \in 1 .. Len(begun) : io.writes[k].text = begun[k]
        BY <1>w, <3>4 DEF WireInv
      <4> HIDE DEF w
      <4>5. /\ Len(io'.writes) = Len(begun')
            /\ io'.writes[Len(begun) + 1] = w
            /\ \A k \in 1 .. Len(begun) : io'.writes[k] = io.writes[k]
        BY <2>2, <3>2, <4>1, <4>2, <4>3, <4>4, AppendProperties
      <4>6. \A k \in 1 .. Len(begun') : io'.writes[k].text = begun'[k]
        <5>1. ASSUME NEW k \in 1 .. Len(begun)
              PROVE  io'.writes[k].text = begun'[k]
          BY <3>2, <4>4, <4>5
        <5>2. io'.writes[Len(begun) + 1].text = begun'[Len(begun) + 1]
          BY <3>2, <4>2, <4>5
        <5>3. 1 .. Len(begun') = 1 .. Len(begun) \union {Len(begun) + 1}
          BY <1>t, <3>2
        <5> QED
          BY <5>1, <5>2, <5>3
      <4> QED
        BY <2>2, <3>2, <3>4, <4>1, <4>3, <4>5, <4>6, EmptySeq DEF WireInv
    <3>5. CASE net = "up"
      <4>1. /\ Len(wire') = Len(wire) + 1 /\ wire'[Len(wire) + 1] = new
            /\ \A k \in 1 .. Len(wire) : wire'[k] = wire[k]
        BY <1>t, <2>4, <3>1, <3>5, AppendProperties DEF WriteFront
      <4>2. Len(wire) = Len(begun)
        BY <1>w, <3>5 DEF WireInv
      <4>3. \A k \in 1 .. Len(wire') : wire'[k] \in {Junk, begun'[k]}
        BY <1>w, <1>t, <3>2, <4>1, <4>2 DEF WireInv
      <4> QED
        BY <2>2, <3>2, <3>5, <4>1, <4>2, <4>3 DEF WireInv
    <3>6. CASE net \notin {"connecting", "up"}
      <4>1. wire' = wire
        BY <2>4, <3>6 DEF WriteFront
      <4>2. \A k \in 1 .. Len(wire') : wire'[k] \in {Junk, begun'[k]}
        <5>1. ASSUME NEW k \in 1 .. Len(wire)
              PROVE  wire[k] \in {Junk, begun'[k]}
          <6>1. k \in 1 .. Len(begun) /\ wire[k] \in {Junk, begun[k]}
            BY <1>w, <1>t DEF WireInv
          <6> QED
            BY <3>2, <6>1
        <5> QED
          BY <4>1, <5>1
      <4>3. Len(wire') <= Len(begun')
        BY <1>w, <1>t, <3>2, <4>1 DEF WireInv
      <4> QED
        BY <2>2, <3>6, <4>2, <4>3 DEF WireInv
    <3> QED
      BY <3>4, <3>5, <3>6
  <2> QED
    BY <2>1, <2>3, <2>4 DEF WriteOrReturn, Handle
<1>4. CASE OnConnect \/ OnReceiveEnds \/ OnWriteFails
  <2>1. UNCHANGED <<begun, wire, net>>
    BY <1>4 DEF OnConnect, OnReceiveEnds, OnWriteFails, Handle, clientVars
  <2>2. CASE OnConnect \/ OnWriteFails
    <3>1. net # "connecting"
      BY <1>w, <2>2 DEF OnConnect, OnWriteFails, WireInv
    <3> QED
      BY <1>w, <2>1, <3>1 DEF WireInv
  <2>3. CASE OnReceiveEnds
    <3>1. io'.connecting = io.connecting /\ io'.writes = io.writes
      BY <1>t, <2>3 DEF OnReceiveEnds, Handle, Io
    <3> QED
      BY <1>1, <2>1, <3>1
  <2> QED
    BY <1>4, <2>2, <2>3
<1>5. CASE OnReceive \/ Answer \/ Say \/ Close \/ RunReturns
  <2>1. UNCHANGED <<begun, wire>> /\ (net' = net \/ net' = "closed")
    BY <1>5 DEF OnReceive, Answer, Say, Close, RunReturns, Handle, World, clientVars, netVars
  <2>2. io'.connecting = io.connecting /\ io'.writes = io.writes
    BY <1>t, <1>5 DEF OnReceive, Answer, Say, Close, RunReturns, Handle, World, Io
  <2> QED
    BY <1>1, <2>1, <2>2
<1>6. CASE Establish
  <2>1. /\ net = "connecting" /\ net' = "up" /\ begun' = begun
    BY <1>6 DEF Establish, World, clientVars
  <2>2. PICK spoilt \in SUBSET DOMAIN io.writes :
           wire' = [k \in DOMAIN io.writes |->
                       IF k \in spoilt THEN Junk ELSE io.writes[k].text]
    BY <1>6 DEF Establish
  <2>3. DOMAIN io.writes = 1 .. Len(begun)
    BY <1>w, <1>t, <2>1, IoFacts, LenProperties DEF WireInv
  <2>4. \A k \in 1 .. Len(begun) : wire'[k] \in {Junk, begun[k]}
    BY <1>w, <2>1, <2>2, <2>3 DEF WireInv
  <2>5. Len(wire') = Len(begun)
    <3>1. wire' \in Seq(Texts \union {Junk})
      BY TypeStep DEF TypeOK
    <3>2. DOMAIN wire' = 1 .. Len(begun)
      BY <2>2, <2>3
    <3> QED
      BY <1>t, <3>1, <3>2, LenProperties
  <2> QED
    BY <1>t, <2>1, <2>4, <2>5 DEF WireInv
<1>7. CASE Refuse
  <2>1. net' = "refused" /\ UNCHANGED <<begun, wire>>
    BY <1>7 DEF Refuse, World, clientVars
  <2> QED
    BY <1>w, <2>1 DEF WireInv
<1>8. CASE UNCHANGED vars
  BY <1>1, <1>8 DEF vars, clientVars, netVars
<1> QED
  BY <1>2, <1>3, <1>4, <1>5, <1>6, <1>7, <1>8 DEF Next, Main, Handlers, Terminated

-----------------------------------------------------------------------------
(* Who attends to the queue.                                               *)

LEMMA StrandInit == Init => StrandInv
  BY DEF Init, StrandInv, StrandedByRace

LEMMA StrandStep ==
    ASSUME IInv, [Next]_vars
    PROVE  StrandInv'
<1>s. StrandInv
  BY DEF IInv
<1>t. /\ msgQueue \in Seq(Texts) /\ io \in Io /\ raced \in {"no", "met", "yes"}
      /\ isSending \in BOOLEAN
  BY DEF IInv, TypeOK
<1>io. io.posted \in Nat /\ io.writes \in Seq(Write)
  BY <1>t, IoFacts
<1>1. ASSUME UNCHANGED <<msgQueue, raced, isSending>>,
             pc' # "push" \/ pc' = pc,
             pc \in {"renew", "post"} => pc' \in {"renew", "post"} \/ io'.posted > 0 \/ isSending,
             io.posted > 0 => io'.posted > 0,
             io.writes # <<>> => io'.writes # <<>>,
             io.failed => io'.failed
      PROVE  StrandInv'
  BY <1>s, <1>1 DEF StrandInv, StrandedByRace, Attended
<1>2. CASE Type \/ IsConnected
  BY <1>1, <1>2 DEF Type, IsConnected, Goto
<1>3. CASE SendTest
  BY <1>s, <1>3, <1>t DEF SendTest, Goto, Meets, StrandInv, StrandedByRace, Attended
<1>4. CASE SendPush
  <2>1. /\ pc = "push" /\ pc' = "renew" /\ UNCHANGED <<io, isSending>>
        /\ raced' = CASE raced = "met" /\ msgQueue = <<>> -> "yes"
                       [] raced = "met" /\ msgQueue # <<>> -> "no"
                       [] OTHER -> raced
    BY <1>4 DEF SendPush, Goto
  <2>2. CASE ~isSending
    BY <2>1, <2>2 DEF StrandInv, StrandedByRace, Attended
  <2>3. CASE isSending /\ raced = "yes"
    BY <2>1, <2>3 DEF StrandInv, StrandedByRace
  <2>4. CASE isSending /\ raced = "met" /\ msgQueue = <<>>
    BY <2>1, <2>4 DEF StrandInv, StrandedByRace
  <2>5. CASE isSending /\ raced = "met" /\ msgQueue # <<>>
    BY <1>s, <2>1, <2>5 DEF StrandInv, StrandedByRace, Attended
  <2> QED
    BY <1>s, <2>1, <2>2, <2>3, <2>4, <2>5 DEF StrandInv
<1>5. CASE SendRenew
  BY <1>1, <1>5 DEF SendRenew, Goto
<1>6. CASE SendPost
  <2>1. /\ pc' \in {"recv", "stop", "prompt"} /\ UNCHANGED <<msgQueue, raced, isSending>>
        /\ io' = IF isSending THEN io ELSE [io EXCEPT !.posted = @ + 1]
    BY <1>6 DEF SendPost, AfterSend, Goto, sendVars
  <2>2. CASE isSending
    BY <1>1, <2>1, <2>2
  <2>3. CASE ~isSending
    <3>1. io'.posted > 0
      BY <1>t, <1>io, <2>1, <2>3 DEF Io
    <3> QED
      BY <2>1, <3>1 DEF StrandInv, StrandedByRace, Attended
  <2> QED
    BY <2>2, <2>3
<1>7. CASE LastRecv \/ Exit \/ Join
  <2>1. /\ UNCHANGED <<msgQueue, raced, isSending>>
        /\ pc \in {"recv", "stop", "join"} /\ pc' \in {"stop", "join", "returned"}
    BY <1>7 DEF LastRecv, Exit, Join, Goto, sendVars
  <2>2. io'.posted = io.posted /\ io'.writes = io.writes /\ io'.failed = io.failed
    BY <1>7, <1>t DEF LastRecv, Exit, Join, Io
  <2> QED
    BY <1>1, <2>1, <2>2
<1>8. CASE AsyncWrite \/ OnWrite
  <2>1. PICK i \in Io : WriteOrReturn(i)
    BY <1>8, <1>t, WriteCases
  <2>2. UNCHANGED <<pc, raced, isSending>>
    BY <2>1, WriteFrame
  <2>3. CASE msgQueue # <<>> /\ WriteFront(i)
    <3>1. PICK res \in {"pending", "ok", "error"} :
             io' = [i EXCEPT !.writes = Append(@, [text |-> Head(msgQueue), res |-> res])]
      BY <2>3 DEF WriteFront, Handle
    <3>2. [text |-> Head(msgQueue), res |-> res] \in Write
      BY <1>t, <2>3, HeadTailProperties DEF Write
    <3>3. Append(i.writes, [text |-> Head(msgQueue), res |-> res]) # <<>>
      <4>1. i.writes \in Seq(Write)
        BY IoFacts
      <4> QED
        BY <3>2, <4>1, AppendProperties
    <3>4. io'.writes # <<>>
      BY <3>1, <3>3 DEF Io
    <3> QED
      BY <1>s, <2>2, <3>4 DEF StrandInv, StrandedByRace, Attended
  <2>4. CASE msgQueue = <<>> /\ UNCHANGED clientVars
    BY <1>s, <2>2, <2>4 DEF StrandInv, StrandedByRace, clientVars
  <2> QED
    BY <2>1, <2>3, <2>4 DEF WriteOrReturn
<1>9. CASE OnWriteFails
  <2>1. io'.failed
    BY <1>9, <1>t DEF OnWriteFails, Handle, Io
  <2> QED
    BY <1>s, <1>9, <2>1, QuietFrame DEF StrandInv, StrandedByRace
<1>10. CASE Establish \/ Refuse
  <2>1. PICK res \in {"ok", "error"} : io' = [io EXCEPT !.writes = Done(res)]
    BY <1>10 DEF Establish, Refuse
  <2>2. /\ io'.posted = io.posted /\ io'.failed = io.failed /\ io'.writes = Done(res)
    BY <1>t, <2>1 DEF Io
  <2>3. io.writes # <<>> => io'.writes # <<>>
    <3>1. Len(Done(res)) = Len(io.writes) /\ Done(res) \in Seq(Write)
      BY <1>t, DoneType
    <3> QED
      BY <1>io, <2>2, <3>1, EmptySeq
  <2> QED
    BY <1>1, <1>10, <2>2, <2>3, QuietFrame
<1>11. CASE OnConnect \/ OnReceive \/ OnReceiveEnds \/ RunReturns \/ Answer \/ Say \/ Close
  <2>1. io'.posted = io.posted /\ io'.writes = io.writes /\ io'.failed = io.failed
    BY <1>11, <1>t DEF OnConnect, OnReceive, OnReceiveEnds, RunReturns, Answer, Say, Close,
                       Handle, Io
  <2> QED
    BY <1>1, <1>11, <2>1, QuietFrame
<1>12. CASE UNCHANGED vars
  BY <1>1, <1>12, QuietFrame DEF vars
<1> QED
  BY <1>2, <1>3, <1>4, <1>5, <1>6, <1>7, <1>8, <1>9, <1>10, <1>11, <1>12
     DEF Next, Main, Handlers, Terminated

-----------------------------------------------------------------------------
(* The promise of the next message.                                        *)

LEMMA SlotInit == Init => SlotInv
<1> SUFFICES ASSUME Init PROVE SlotInv
  OBVIOUS
<1>1. /\ mark = 0 /\ slot = NoMsg /\ heard = <<>> /\ inbox = <<>> /\ begun = <<>>
      /\ msgQueue = <<>> /\ io.posted = 0 /\ io.writes = <<>> /\ ~isSending
      /\ pc = IF mode = "c" THEN "prompt" ELSE "connect"
      /\ Len(heard) = 0 /\ Len(inbox) = 0
  BY EmptySeq DEF Init
<1> QED
  BY <1>1 DEF SlotInv, Unasked

\* Before -ec has asked for the first write.
Idle == io.posted = 0 /\ io.writes = <<>> /\ begun = <<>> /\ Unasked(inbox) /\ Unasked(heard)

LEMMA SlotStep ==
    ASSUME IInv, [Next]_vars
    PROVE  SlotInv'
<1>s. SlotInv
  BY DEF IInv
<1>t. /\ msgQueue \in Seq(Texts) /\ io \in Io /\ mark \in Nat /\ mode \in {"c", "ec"}
      /\ heard \in Seq(Lines \union {Torn}) /\ inbox \in Seq(Lines)
      /\ slot \in Lines \union {NoMsg, Torn} /\ Len(heard) \in Nat /\ Len(inbox) \in Nat
  BY ConstantsAssumption DEF ConstantsAssumption, IInv, TypeOK
<1>io. io.posted \in Nat /\ io.writes \in Seq(Write)
  BY <1>t, IoFacts
<1>i. mode = "ec" /\ pc \in {"connect", "test", "push", "renew", "post"} => Idle
  BY <1>s DEF SlotInv, Idle
<1>1. ASSUME UNCHANGED <<mark, heard, slot, mode>>,
             pc' = "recv" => mode = "ec",
             mode = "ec" =>
                /\ pc' # "prompt"
                /\ pc' \in {"connect", "test", "push"} => msgQueue' = <<>>
                /\ pc' = "push" => ~isSending'
                /\ pc' \in {"connect", "test", "push", "renew", "post"} => Idle'
      PROVE  SlotInv'
  BY <1>s, <1>1 DEF SlotInv, Idle
<1>2. CASE Type \/ IsConnected \/ SendTest \/ SendPush
  <2>1. UNCHANGED <<mark, heard, slot, mode, io, begun, inbox>>
    BY <1>2 DEF Type, IsConnected, SendTest, SendPush, Goto, netVars
  <2>2. Idle => Idle'
    BY <2>1 DEF Idle, Unasked
  <2>3. CASE Type
    BY <1>1, <1>s, <1>2, <2>1, <2>3 DEF Type, Goto, SlotInv
  <2>4. CASE IsConnected
    BY <1>1, <1>s, <1>i, <2>1, <2>2, <2>4 DEF IsConnected, Goto, SlotInv
  <2>5. CASE SendTest
    BY <1>1, <1>s, <1>i, <2>1, <2>2, <2>5 DEF SendTest, Goto, SlotInv
  <2>6. CASE SendPush
    BY <1>1, <1>s, <1>i, <2>1, <2>2, <2>6 DEF SendPush, Goto, SlotInv
  <2> QED
    BY <1>2, <2>3, <2>4, <2>5, <2>6
<1>3. CASE SendRenew
  <2>1. /\ pc = "renew" /\ pc' = "post" /\ slot' = NoMsg /\ mark' = Len(heard)
        /\ UNCHANGED <<mode, heard, io, begun, inbox>>
    BY <1>3 DEF SendRenew, Goto, netVars
  <2>2. Idle => Idle'
    BY <2>1 DEF Idle, Unasked
  <2>3. mode = "ec" => \A k \in 1 .. mark' : heard'[k] \in {Output, Torn}
    BY <1>i, <2>1 DEF Idle, Unasked
  <2> QED
    BY <1>t, <1>i, <2>1, <2>2, <2>3 DEF SlotInv, Idle
<1>4. CASE SendPost \/ LastRecv \/ Exit \/ Join
  <2>1. /\ pc' \in {"recv", "stop", "join", "returned", "prompt"}
        /\ pc' = "recv" => mode = "ec"
        /\ mode = "ec" => pc' # "prompt"
        /\ UNCHANGED <<mode, heard, slot, mark>>
    BY <1>4 DEF SendPost, AfterSend, LastRecv, Exit, Join, Goto, sendVars
  <2> QED
    BY <1>1, <2>1
<1>5. CASE AsyncWrite \/ OnWrite
  <2>1. PICK i \in Io :
           /\ io.posted > 0 \/ io.writes # <<>>
           /\ WriteOrReturn(i)
    BY <1>5, <1>t, WriteCases
  <2>2. UNCHANGED <<pc, mode, isSending, mark, slot, heard, inbox>>
    BY <2>1, WriteFrame
  <2>3. ~Idle
    BY <1>io, <2>1 DEF Idle
  <2> QED
    BY <1>1, <1>s, <1>i, <2>2, <2>3 DEF SlotInv
<1>6. CASE OnConnect \/ OnReceiveEnds \/ OnWriteFails \/ RunReturns
  <2>1. UNCHANGED <<pc, mode, isSending, mark, slot, heard, inbox, begun, msgQueue>>
    BY <1>6, QuietFrame
       DEF OnConnect, OnReceiveEnds, OnWriteFails, RunReturns, Handle, clientVars, netVars
  <2>2. CASE OnWriteFails
    <3>1. ~Idle
      BY <2>2 DEF OnWriteFails, Idle
    <3> QED
      BY <1>1, <1>s, <1>i, <2>1, <3>1 DEF SlotInv
  <2>3. CASE OnConnect \/ OnReceiveEnds \/ RunReturns
    <3>1. io'.posted = io.posted /\ io'.writes = io.writes
      BY <1>t, <2>3 DEF OnConnect, OnReceiveEnds, RunReturns, Handle, Io
    <3>2. Idle => Idle'
      BY <2>1, <3>1 DEF Idle, Unasked
    <3> QED
      BY <1>1, <1>s, <1>i, <2>1, <3>2 DEF SlotInv
  <2> QED
    BY <1>6, <2>2, <2>3
<1>7. CASE OnReceive
  <2> DEFINE text == IF cut THEN Torn ELSE Head(inbox)
  <2>1. /\ UNCHANGED <<pc, mode, isSending, mark, begun, msgQueue, io>> /\ inbox # <<>>
        /\ slot' = IF slot = NoMsg THEN text ELSE slot
        /\ heard' = Append(heard, text)
    BY <1>7, QuietFrame DEF OnReceive, Handle
  <2>2. text \in Lines \union {Torn} /\ (Unasked(inbox) => text \in {Output, Torn})
    <3>1. Head(inbox) \in Lines /\ Head(inbox) = inbox[1] /\ 1 \in 1 .. Len(inbox)
      BY <1>t, <2>1, HeadTailProperties, EmptySeq
    <3> QED
      BY <3>1 DEF Unasked
  <2> HIDE DEF text
  <2>3. /\ Len(heard') = Len(heard) + 1 /\ heard'[Len(heard) + 1] = text
        /\ \A k \in 1 .. Len(heard) : heard'[k] = heard[k]
    BY <1>t, <2>1, <2>2, AppendProperties
  <2>4. Unasked(inbox) => Unasked(inbox')
    <3>1. PICK n \in 1 .. Len(inbox) : inbox' = SubSeq(inbox, n + 1, Len(inbox))
      BY <1>7 DEF OnReceive
    <3>2. \A k \in 1 .. Len(inbox') : k + n \in 1 .. Len(inbox) /\ inbox'[k] = inbox[k + n]
      BY <1>t, <3>1, SubSeqProperties
    <3> QED
      BY <3>2 DEF Unasked
  <2>5. Idle => Idle'
    BY <1>t, <2>1, <2>2, <2>3, <2>4 DEF Idle, Unasked
  <2>6. mark' <= Len(heard') /\ mark \in 0 .. Len(heard)
    BY <1>s, <1>t, <2>1, <2>3 DEF SlotInv
  <2>7. slot' = IF Len(heard') > mark' THEN heard'[mark' + 1] ELSE NoMsg
    <3>1. CASE Len(heard) > mark
      <4>1. mark + 1 \in 1 .. Len(heard) /\ slot = heard[mark + 1]
        BY <1>s, <1>t, <2>6, <3>1 DEF SlotInv
      <4>2. slot # NoMsg
        BY <1>t, <4>1, ElementOfSeq, LineFacts DEF Lines
      <4> QED
        BY <1>t, <2>1, <2>3, <4>1, <4>2, <3>1
    <3>2. CASE Len(heard) = mark
      <4>1. slot = NoMsg
        BY <1>s, <1>t, <3>2 DEF SlotInv
      <4> QED
        BY <1>t, <2>1, <2>3, <4>1, <3>2
    <3> QED
      BY <1>t, <2>6, <3>1, <3>2
  <2>8. mode = "ec" => \A k \in 1 .. mark' : heard'[k] \in {Output, Torn}
    <3>1. mode = "ec" => \A k \in 1 .. mark : heard[k] \in {Output, Torn}
      BY <1>s DEF SlotInv
    <3> QED
      BY <1>t, <2>1, <2>3, <2>6, <3>1
  <2> QED
    BY <1>s, <1>i, <2>1, <2>5, <2>6, <2>7, <2>8 DEF SlotInv, Idle
<1>8. CASE Establish \/ Refuse
  <2>1. UNCHANGED <<pc, mode, isSending, mark, slot, heard, inbox, begun, msgQueue>>
    BY <1>8, QuietFrame DEF Establish, Refuse, World, clientVars
  <2>2. PICK res \in {"ok", "error"} : io' = [io EXCEPT !.writes = Done(res)]
    BY <1>8 DEF Establish, Refuse
  <2>3. io.writes = <<>> => Done(res) = <<>>
    BY <1>t, <1>io, DoneType, EmptySeq
  <2>4. Idle => Idle'
    BY <1>t, <2>1, <2>2, <2>3 DEF Idle, Unasked, Io
  <2> QED
    BY <1>1, <1>s, <1>i, <2>1, <2>4 DEF SlotInv
<1>9. CASE Answer \/ Say \/ Close
  <2>1. UNCHANGED <<pc, mode, isSending, mark, slot, heard, begun, msgQueue, io>>
    BY <1>9, QuietFrame DEF Answer, Say, Close, World, clientVars
  <2>2. Idle => Unasked(inbox')
    <3>1. CASE Answer
      <4>1. ASSUME Idle PROVE FALSE
        <5>1. Len(wire) = 0
          BY <4>1, EmptySeq DEF Idle, IInv, TypeOK, WireInv
        <5>2. server.answered \in Nat
          BY DEF IInv, TypeOK
        <5> QED
          BY <3>1, <5>1, <5>2 DEF Answer
      <4> QED
        BY <4>1
    <3>2. CASE Say
      <4>1. inbox' = Append(inbox, Output)
        BY <3>2 DEF Say
      <4> QED
        BY <1>t, <4>1, AppendProperties DEF Idle, Unasked, Lines
    <3>3. CASE Close
      BY <3>3, EmptySeq DEF Close, Idle, Unasked
    <3> QED
      BY <1>9, <3>1, <3>2, <3>3
  <2>3. Idle => Idle'
    BY <2>1, <2>2 DEF Idle, Unasked
  <2> QED
    BY <1>1, <1>s, <1>i, <2>1, <2>3 DEF SlotInv
<1>10. CASE UNCHANGED vars
  <2>1. UNCHANGED <<pc, mode, isSending, mark, slot, heard, inbox, begun, msgQueue, io>>
    BY <1>10 DEF vars, sendVars, clientVars, netVars
  <2>2. Idle => Idle'
    BY <2>1 DEF Idle, Unasked
  <2> QED
    BY <1>1, <1>s, <1>i, <2>1, <2>2 DEF SlotInv
<1> QED
  BY <1>2, <1>3, <1>4, <1>5, <1>6, <1>7, <1>8, <1>9, <1>10
     DEF Next, Main, Handlers, Terminated

-----------------------------------------------------------------------------
(* The answers.                                                            *)

(* What went out whole is ordered, as the commands are.                    *)
LEMMA WireOrdered ==
    ASSUME TypeOK, QueueInv, WireInv, NEW i \in 1 .. Len(wire), NEW j \in 1 .. Len(wire),
           i < j, wire[i] # Junk, wire[j] # Junk
    PROVE  wire[i] < wire[j]
<1>1. /\ begun \in Seq(Texts) /\ msgQueue \in Seq(Texts)
      /\ Len(wire) \in Nat /\ Len(begun) \in Nat /\ Len(msgQueue) \in Nat
  BY DEF TypeOK
<1>2. /\ i \in 1 .. Len(begun) /\ j \in 1 .. Len(begun)
      /\ wire[i] = begun[i] /\ wire[j] = begun[j]
  BY <1>1 DEF WireInv
<1>3. /\ Len(pushed) = Len(begun) + Len(msgQueue)
      /\ pushed[i] = begun[i] /\ pushed[j] = begun[j]
  BY <1>1, <1>2, ConcatProperties DEF QueueInv
<1>4. i \in 1 .. Len(pushed) /\ j \in 1 .. Len(pushed) /\ i # Len(pushed)
  BY <1>1, <1>2, <1>3
<1>5. /\ pushed[i] = i /\ i \in Messages
      /\ pushed[j] = j \/ pushed[j] = EXIT
  BY <1>4 DEF QueueInv
<1> QED
  BY <1>2, <1>3, <1>5, LineFacts

LEMMA AnswerInit == Init => AnswerInv
  BY EmptySeq DEF Init, AnswerInv, Answers, Ordered, Before

LEMMA AnswerStep ==
    ASSUME IInv, [Next]_vars
    PROVE  AnswerInv'
<1>a. AnswerInv
  BY DEF IInv
<1>t. /\ wire \in Seq(Texts \union {Junk}) /\ heard \in Seq(Lines \union {Torn})
      /\ inbox \in Seq(Lines) /\ msgQueue \in Seq(Texts)
      /\ Len(wire) \in Nat /\ Len(heard) \in Nat /\ Len(inbox) \in Nat
      /\ server.answered \in Nat /\ io \in Io
  BY DEF IInv, TypeOK
<1>1. ASSUME UNCHANGED <<heard, inbox, wire, server>>
      PROVE  AnswerInv'
  BY <1>a, <1>1 DEF AnswerInv, Answers, Ordered, Before
<1>2. CASE Type \/ Main
  BY <1>1, <1>2, MainFrame
<1>3. CASE AsyncWrite \/ OnWrite
  <2>1. PICK i \in Io : WriteOrReturn(i)
    BY <1>3, <1>t, WriteCases
  <2>2. UNCHANGED <<heard, inbox, server>>
    BY <2>1, WriteFrame
  <2>3. Len(wire) <= Len(wire') /\ \A k \in 1 .. Len(wire) : wire'[k] = wire[k]
    <3>1. CASE UNCHANGED wire
      BY <1>t, <3>1
    <3>2. CASE msgQueue # <<>> /\ wire' = Append(wire, Head(msgQueue))
      <4>1. Head(msgQueue) \in Texts \union {Junk}
        BY <1>t, <3>2, HeadTailProperties
      <4> QED
        BY <1>t, <3>2, <4>1, AppendProperties
    <3> QED
      BY <2>1, <3>1, <3>2 DEF WriteOrReturn, WriteFront
  <2>4. Len(wire') \in Nat
    BY TypeStep DEF TypeOK
  <2>5. server.answered <= Len(wire') /\ server.answered <= Len(wire)
    BY <1>a, <1>t, <2>3, <2>4 DEF AnswerInv
  <2>6. \A k \in 1 .. server.answered : wire'[k] = wire[k]
    BY <1>t, <2>3, <2>5
  <2> QED
    BY <1>a, <2>2, <2>5, <2>6 DEF AnswerInv, Answers, Ordered, Before
<1>4. CASE OnConnect \/ OnReceiveEnds \/ OnWriteFails \/ RunReturns \/ Refuse
  BY <1>1, <1>4 DEF OnConnect, OnReceiveEnds, OnWriteFails, RunReturns, Refuse, Handle, World,
                    clientVars, netVars
<1>5. CASE OnReceive
  <2> DEFINE text == IF cut THEN Torn ELSE Head(inbox)
  <2>1. inbox # <<>> /\ heard' = Append(heard, text) /\ UNCHANGED <<wire, server>>
    BY <1>5 DEF OnReceive, Handle
  <2>2. 1 \in 1 .. Len(inbox) /\ Head(inbox) = inbox[1] /\ Head(inbox) \in Lines
    BY <1>t, <2>1, HeadTailProperties, EmptySeq
  <2>3. text \in Lines \union {Torn} /\ (text \in Texts => text = inbox[1])
    BY <2>2, LineFacts
  <2> HIDE DEF text
  <2>4. PICK n \in 1 .. Len(inbox) : inbox' = SubSeq(inbox, n + 1, Len(inbox))
    BY <1>5 DEF OnReceive
  <2>5. /\ Len(inbox') = Len(inbox) - n
        /\ \A k \in 1 .. Len(inbox') : k + n \in 2 .. Len(inbox) /\ inbox'[k] = inbox[k + n]
    BY <1>t, <2>4, SubSeqProperties
  <2>6. /\ Len(heard') = Len(heard) + 1 /\ heard'[Len(heard) + 1] = text
        /\ \A k \in 1 .. Len(heard) : heard'[k] = heard[k]
    BY <1>t, <2>1, <2>3, AppendProperties
  <2>7. ASSUME NEW i \in 1 .. Len(heard')
        PROVE  i \in 1 .. Len(heard) \/ i = Len(heard) + 1
    <3>1. Len(heard') = Len(heard) + 1 /\ Len(heard) \in Nat
      BY <1>t, <2>6
    <3> QED
      BY <2>7, <3>1
  <2>8. Answers(heard, server.answered)'
    <3>1. ASSUME NEW i \in 1 .. Len(heard'), heard'[i] \in Texts
          PROVE  \E k \in 1 .. server.answered : wire[k] = heard'[i]
      <4>1. CASE i \in 1 .. Len(heard)
        BY <1>a, <2>6, <3>1, <4>1 DEF AnswerInv, Answers
      <4>2. CASE i = Len(heard) + 1
        BY <1>a, <2>2, <2>3, <2>6, <3>1, <4>2 DEF AnswerInv, Answers
      <4> QED
        BY <2>7, <4>1, <4>2
    <3> QED
      BY <2>1, <3>1 DEF Answers
  <2>9. Answers(inbox, server.answered)'
    <3>1. ASSUME NEW i \in 1 .. Len(inbox'), inbox'[i] \in Texts
          PROVE  \E k \in 1 .. server.answered : wire[k] = inbox'[i]
      <4>1. i + n \in 1 .. Len(inbox) /\ inbox'[i] = inbox[i + n]
        BY <1>t, <2>5
      <4> QED
        BY <1>a, <3>1, <4>1 DEF AnswerInv, Answers
    <3> QED
      BY <2>1, <3>1 DEF Answers
  <2>10. Ordered(inbox)'
    <3>1. ASSUME NEW i \in 1 .. Len(inbox'), NEW j \in 1 .. Len(inbox'),
                 i < j, inbox'[i] \in Texts, inbox'[j] \in Texts
          PROVE  inbox'[i] < inbox'[j]
      <4>1. /\ i + n \in 1 .. Len(inbox) /\ inbox'[i] = inbox[i + n]
            /\ j + n \in 1 .. Len(inbox) /\ inbox'[j] = inbox[j + n]
        BY <1>t, <2>5
      <4>2. i + n < j + n
        BY <3>1, <1>t, <2>5
      <4> QED
        BY <1>a, <3>1, <4>1, <4>2 DEF AnswerInv, Ordered
    <3> QED
      BY <3>1 DEF Ordered
  <2>11. Ordered(heard)'
    <3>1. ASSUME NEW i \in 1 .. Len(heard'), NEW j \in 1 .. Len(heard'),
                 i < j, heard'[i] \in Texts, heard'[j] \in Texts
          PROVE  heard'[i] < heard'[j]
      <4>1. i \in 1 .. Len(heard) /\ heard'[i] = heard[i]
        BY <1>t, <2>6, <3>1
      <4>2. CASE j \in 1 .. Len(heard)
        BY <1>a, <2>6, <3>1, <4>1, <4>2 DEF AnswerInv, Ordered
      <4>3. CASE j = Len(heard) + 1
        BY <1>a, <2>2, <2>3, <2>6, <3>1, <4>1, <4>3 DEF AnswerInv, Before
      <4> QED
        BY <2>7, <4>2, <4>3
    <3> QED
      BY <3>1 DEF Ordered
  <2>12. Before(heard, inbox)'
    <3>1. ASSUME NEW i \in 1 .. Len(heard'), NEW j \in 1 .. Len(inbox'),
                 heard'[i] \in Texts, inbox'[j] \in Texts
          PROVE  heard'[i] < inbox'[j]
      <4>1. j + n \in 1 .. Len(inbox) /\ 1 < j + n /\ inbox'[j] = inbox[j + n]
        BY <1>t, <2>5
      <4>2. CASE i \in 1 .. Len(heard)
        BY <1>a, <2>6, <3>1, <4>1, <4>2 DEF AnswerInv, Before
      <4>3. CASE i = Len(heard) + 1
        BY <1>a, <2>2, <2>3, <2>6, <3>1, <4>1, <4>3 DEF AnswerInv, Ordered
      <4> QED
        BY <2>7, <4>2, <4>3
    <3> QED
      BY <3>1 DEF Before
  <2> QED
    <3>1. server'.answered <= Len(wire')
      BY <1>a, <2>1 DEF AnswerInv
    <3> QED
      BY <2>8, <2>9, <2>10, <2>11, <2>12, <3>1 DEF AnswerInv
<1>6. CASE Establish
  <2>1. Len(wire) = 0 /\ UNCHANGED <<heard, inbox, server>>
    BY <1>6, EmptySeq DEF IInv, WireInv, Establish, World, clientVars
  <2>2. server.answered = 0
    BY <1>a, <1>t, <2>1 DEF AnswerInv
  <2>3. Len(wire') \in Nat
    BY TypeStep DEF TypeOK
  <2> QED
    BY <1>a, <2>1, <2>2, <2>3 DEF AnswerInv, Answers, Ordered, Before
<1>7. CASE Answer
  <2>1. PICK k \in server.answered + 1 .. Len(wire) :
           server' = [server EXCEPT !.answered = k] /\ inbox' = Append(inbox, wire[k])
    BY <1>7 DEF Answer
  <2>2. UNCHANGED <<heard, wire>> /\ server'.answered = k
    BY <1>7, <2>1 DEF Answer, World, clientVars, IInv, TypeOK
  <2>3. k \in 1 .. Len(wire) /\ server.answered < k
    BY <1>t, <2>1
  <2>4. wire[k] \in Lines
    BY <1>t, <2>3, ElementOfSeq DEF Lines
  <2>5. /\ Len(inbox') = Len(inbox) + 1 /\ inbox'[Len(inbox) + 1] = wire[k]
        /\ \A i \in 1 .. Len(inbox) : inbox'[i] = inbox[i]
    BY <1>t, <2>1, <2>4, AppendProperties
  <2>6. ASSUME NEW t \in Texts, NEW j \in 1 .. server.answered, wire[j] = t, wire[k] \in Texts
        PROVE  t < wire[k]
    <3>1. j \in 1 .. Len(wire) /\ j < k /\ wire[j] # Junk /\ wire[k] # Junk
      <4>1. j \in 1 .. Len(wire) /\ j < k
        BY <1>t, <2>3
      <4> QED
        BY <2>6, <4>1, LineFacts
    <3> QED
      BY <2>3, <2>6, <3>1, WireOrdered DEF IInv
  <2>7. ASSUME NEW i \in 1 .. Len(inbox')
        PROVE  i \in 1 .. Len(inbox) \/ i = Len(inbox) + 1
    BY <1>t, <2>5
  <2>8. ASSUME NEW j \in 1 .. server.answered
        PROVE  j \in 1 .. k
    BY <1>t, <2>3
  <2>9. Answers(heard, server.answered)'
    BY <1>a, <2>2, <2>8 DEF AnswerInv, Answers
  <2>10. Answers(inbox, server.answered)'
    <3>1. ASSUME NEW i \in 1 .. Len(inbox'), inbox'[i] \in Texts
          PROVE  \E j \in 1 .. k : wire[j] = inbox'[i]
      <4>1. CASE i \in 1 .. Len(inbox)
        BY <1>a, <2>5, <2>8, <3>1, <4>1 DEF AnswerInv, Answers
      <4>2. CASE i = Len(inbox) + 1
        BY <2>3, <2>5, <4>2
      <4> QED
        BY <2>7, <4>1, <4>2
    <3> QED
      BY <2>2, <3>1 DEF Answers
  <2>11. Ordered(inbox)'
    <3>1. ASSUME NEW i \in 1 .. Len(inbox'), NEW j \in 1 .. Len(inbox'),
                 i < j, inbox'[i] \in Texts, inbox'[j] \in Texts
          PROVE  inbox'[i] < inbox'[j]
      <4>1. i \in 1 .. Len(inbox) /\ inbox'[i] = inbox[i]
        BY <1>t, <2>5, <3>1
      <4>2. CASE j \in 1 .. Len(inbox)
        BY <1>a, <2>5, <3>1, <4>1, <4>2 DEF AnswerInv, Ordered
      <4>3. CASE j = Len(inbox) + 1
        <5>1. PICK a \in 1 .. server.answered : wire[a] = inbox[i]
          BY <1>a, <3>1, <4>1 DEF AnswerInv, Answers
        <5> QED
          BY <2>5, <2>6, <3>1, <4>1, <4>3, <5>1
      <4> QED
        BY <2>7, <4>2, <4>3
    <3> QED
      BY <3>1 DEF Ordered
  <2>12. Before(heard, inbox)'
    <3>1. ASSUME NEW i \in 1 .. Len(heard'), NEW j \in 1 .. Len(inbox'),
                 heard'[i] \in Texts, inbox'[j] \in Texts
          PROVE  heard'[i] < inbox'[j]
      <4>1. i \in 1 .. Len(heard) /\ heard'[i] = heard[i]
        BY <2>2
      <4>2. CASE j \in 1 .. Len(inbox)
        BY <1>a, <2>5, <3>1, <4>1, <4>2 DEF AnswerInv, Before
      <4>3. CASE j = Len(inbox) + 1
        <5>1. PICK a \in 1 .. server.answered : wire[a] = heard[i]
          BY <1>a, <3>1, <4>1 DEF AnswerInv, Answers
        <5> QED
          BY <2>5, <2>6, <3>1, <4>1, <4>3, <5>1
      <4> QED
        BY <2>7, <4>2, <4>3
    <3> QED
      BY <3>1 DEF Before
  <2> QED
    <3>1. server'.answered <= Len(wire')
      BY <2>2, <2>3
    <3>2. Ordered(heard)'
      BY <1>a, <2>2 DEF AnswerInv, Ordered
    <3> QED
      BY <2>9, <2>10, <2>11, <2>12, <3>1, <3>2 DEF AnswerInv
<1>8. CASE Say
  <2>1. inbox' = Append(inbox, Output) /\ UNCHANGED <<heard, wire>>
    BY <1>8 DEF Say, World, clientVars
  <2>2. server'.answered = server.answered
    BY <1>8 DEF Say, IInv, TypeOK
  <2>3. /\ Len(inbox') = Len(inbox) + 1 /\ inbox'[Len(inbox) + 1] = Output
        /\ \A i \in 1 .. Len(inbox) : inbox'[i] = inbox[i]
    BY <1>t, <2>1, AppendProperties DEF Lines
  <2>4. Output \notin Texts
    BY LineFacts
  <2> QED
    BY <1>a, <1>t, <2>1, <2>2, <2>3, <2>4 DEF AnswerInv, Answers, Ordered, Before
<1>9. CASE Close
  <2>1. UNCHANGED <<heard, wire, server>> /\ (inbox' = inbox \/ (inbox' = <<>> /\ Len(inbox') = 0))
    BY <1>9, EmptySeq DEF Close, World, clientVars
  <2> QED
    BY <1>a, <2>1 DEF AnswerInv, Answers, Ordered, Before
<1>10. CASE UNCHANGED vars
  BY <1>1, <1>10 DEF vars, clientVars, netVars
<1> QED
  BY <1>2, <1>3, <1>4, <1>5, <1>6, <1>7, <1>8, <1>9, <1>10
     DEF Next, Main, Handlers, Terminated

-----------------------------------------------------------------------------
(* The inductive invariant, and what follows from it.                      *)

LEMMA Invariance == Spec => []IInv
<1>1. Init => IInv
  BY TypeInit, QueueInit, WireInit, StrandInit, SlotInit, AnswerInit DEF IInv
<1>2. IInv /\ [Next]_vars => IInv'
  BY TypeStep, QueueStep, WireStep, StrandStep, SlotStep, AnswerStep DEF IInv
<1> QED
  BY <1>1, <1>2, PTL DEF Spec

(* The state stays of its type: nothing else is ever sent or printed, and  *)
(* the server's lines stay within the bound.                               *)
THEOREM TypeCorrect == Spec => []TypeOK
<1>1. IInv => TypeOK
  BY DEF IInv
<1> QED
  BY <1>1, Invariance, PTL

(* What send pushes is given to async_write once and in order, and goes    *)
(* out so, however the two threads interleave on the queue.                *)
THEOREM InOrder == Spec => []SentInOrder
<1>1. IInv => SentInOrder
  BY WireOrdered DEF IInv, QueueInv, SentInOrder
<1> QED
  BY <1>1, Invariance, PTL

(* Only the race between send's test and its push, or a failed write,      *)
(* leaves a message behind.                                                *)
THEOREM Stranding == Spec => []StrandedByRace
<1>1. IInv => StrandedByRace
  BY DEF IInv, StrandInv
<1> QED
  BY <1>1, Invariance, PTL

(* -ec looks at the first line that came since send replaced the promise,  *)
(* and has not missed the answer.                                          *)
THEOREM AnswerNotMissed == Spec => []FirstAnswer
<1>1. IInv => FirstAnswer
  BY DEF IInv, SlotInv, FirstAnswer
<1> QED
  BY <1>1, Invariance, PTL

-----------------------------------------------------------------------------
(* The client implements the abstract Conversation: a push is Ask, the     *)
(* begin of a write HandOver, and a line that is received PrintAnswer or   *)
(* PrintOther; everything else leaves the conversation as it is.           *)

(* What the conversation does not see.                                     *)
LEMMA QuietStep ==
    ASSUME UNCHANGED <<pushed, begun, heard>>
    PROVE  UNCHANGED C!convVars
  BY DEF C!convVars

LEMMA PushIsAsk ==
    ASSUME IInv, SendPush
    PROVE  \E m \in Texts : C!Ask(m)
<1>1. pushed' = Append(pushed, line) /\ UNCHANGED <<begun, heard>> /\ pc = "push"
  BY DEF SendPush, Goto
<1>2. line \in Texts /\ Len(pushed) \in Nat
  BY <1>1 DEF IInv, QueueInv, TypeOK
<1>3. line \in {EXIT, Len(pushed) + 1} /\ Plain
  BY <1>1 DEF IInv, QueueInv
<1>4. ASSUME NEW i \in 1 .. Len(pushed)
      PROVE  pushed[i] < line
  <2>1. pushed[i] = i /\ i \in Messages
    BY <1>3 DEF Plain
  <2> QED
    BY <1>2, <1>3, <2>1, LineFacts
<1> QED
  BY <1>1, <1>2, <1>4 DEF C!Ask, C!Later

LEMMA WriteIsHandOver ==
    ASSUME IInv, NEW i, WriteOrReturn(i)
    PROVE  C!HandOver \/ UNCHANGED C!convVars
<1>1. UNCHANGED <<pushed, heard>>
  BY WriteFrame
<1>2. /\ begun \in Seq(Texts) /\ msgQueue \in Seq(Texts)
      /\ Len(begun) \in Nat /\ Len(msgQueue) \in Nat
      /\ pushed = begun \o msgQueue
  BY DEF IInv, TypeOK, QueueInv
<1>3. CASE msgQueue # <<>> /\ begun' = Append(begun, Head(msgQueue))
  <2>1. Len(msgQueue) > 0
    BY <1>2, <1>3, EmptySeq
  <2>2. Len(pushed) = Len(begun) + Len(msgQueue)
    BY <1>2, ConcatProperties
  <2>3. Len(begun') = Len(begun) + 1
    BY <1>2, <1>3, HeadTailProperties, AppendProperties
  <2> QED
    BY <1>1, <1>2, <2>1, <2>2, <2>3 DEF C!HandOver
<1>4. CASE begun' = begun
  BY <1>1, <1>4, QuietStep
<1> QED
  BY <1>3, <1>4 DEF WriteOrReturn, WriteFront, clientVars

(* A text that is received was sent, and is later than those printed.      *)
LEMMA ReceiveIsPrint ==
    ASSUME IInv, OnReceive
    PROVE  (\E m \in Texts : C!PrintAnswer(m)) \/ \E l \in {Junk, Output, Torn} : C!PrintOther(l)
<1> DEFINE text == IF cut THEN Torn ELSE Head(inbox)
<1>1. inbox # <<>> /\ heard' = Append(heard, text) /\ UNCHANGED <<pushed, begun>>
  BY DEF OnReceive, Handle, sendVars
<1>2. /\ inbox \in Seq(Lines) /\ wire \in Seq(Texts \union {Junk})
      /\ begun \in Seq(Texts) /\ msgQueue \in Seq(Texts)
      /\ Len(wire) \in Nat /\ Len(begun) \in Nat /\ Len(msgQueue) \in Nat
      /\ Len(inbox) \in Nat /\ server.answered \in Nat
  BY DEF IInv, TypeOK
<1>3. 1 \in 1 .. Len(inbox) /\ Head(inbox) = inbox[1] /\ inbox[1] \in Lines
  BY <1>1, <1>2, HeadTailProperties, EmptySeq
<1>4. text \in Texts \union {Junk, Output, Torn} /\ (text \in Texts => text = inbox[1])
  BY <1>3, LineFacts DEF Lines
<1> HIDE DEF text
<1>5. CASE text \in Texts
  <2>1. PICK k \in 1 .. server.answered : wire[k] = text
    BY <1>3, <1>4, <1>5 DEF IInv, AnswerInv, Answers
  <2>2. server.answered <= Len(wire) /\ Len(wire) <= Len(begun)
    BY DEF IInv, AnswerInv, WireInv
  <2>3. k \in 1 .. Len(wire) /\ k \in 1 .. Len(begun)
    BY <1>2, <2>2
  <2>4. begun[k] = text
    <3>1. wire[k] \in {Junk, begun[k]}
      BY <2>3 DEF IInv, WireInv
    <3> QED
      BY <1>5, <2>1, <3>1, LineFacts
  <2>5. pushed[k] = begun[k]
    <3>1. pushed = begun \o msgQueue
      BY DEF IInv, QueueInv
    <3> QED
      BY <1>2, <2>3, <3>1, ConcatProperties
  <2>6. ASSUME NEW i \in 1 .. Len(heard), heard[i] \in Texts
        PROVE  heard[i] < text
    BY <1>3, <1>4, <1>5, <2>6 DEF IInv, AnswerInv, Before
  <2>7. C!PrintAnswer(text)
    BY <1>1, <2>3, <2>4, <2>5, <2>6 DEF C!PrintAnswer, C!Later
  <2> QED
    BY <1>5, <2>7
<1>6. CASE text \notin Texts
  BY <1>1, <1>4, <1>6 DEF C!PrintOther
<1> QED
  BY <1>5, <1>6

LEMMA StepConverses ==
    ASSUME IInv, [Next]_vars
    PROVE  C!ConvNext \/ UNCHANGED C!convVars
<1>1. CASE SendPush
  BY <1>1, PushIsAsk DEF C!ConvNext
<1>2. CASE (Type \/ Main) /\ ~SendPush
  <2>1. UNCHANGED <<begun, heard>>
    BY <1>2, MainFrame
  <2>2. pushed' = pushed
    BY <1>2 DEF Type, Main, IsConnected, SendTest, SendRenew, SendPost, LastRecv, Exit, Join,
                sendVars
  <2> QED
    BY <2>1, <2>2, QuietStep
<1>3. CASE AsyncWrite \/ OnWrite
  BY <1>3, WriteIsHandOver DEF AsyncWrite, OnWrite, C!ConvNext
<1>4. CASE OnReceive
  BY <1>4, ReceiveIsPrint DEF C!ConvNext
<1>5. CASE OnConnect \/ OnReceiveEnds \/ OnWriteFails
  <2>1. UNCHANGED <<pushed, begun, heard>>
    BY <1>5 DEF OnConnect, OnReceiveEnds, OnWriteFails, Handle, sendVars, clientVars
  <2> QED
    BY <2>1, QuietStep
<1>6. CASE RunReturns \/ Establish \/ Refuse \/ Answer \/ Say \/ Close \/ UNCHANGED vars
  <2>1. UNCHANGED <<pushed, begun, heard>>
    BY <1>6 DEF RunReturns, Establish, Refuse, Answer, Say, Close, World, sendVars, clientVars,
                vars
  <2> QED
    BY <2>1, QuietStep
<1> QED
  BY <1>1, <1>2, <1>3, <1>4, <1>5, <1>6 DEF Next, Handlers, Terminated

(* ClientConverses: the client implements the abstract conversation: what  *)
(* send pushes goes to async_write in order, and _on_receive prints an     *)
(* answer only to what went there before, in order and once.               *)
THEOREM ClientConverses == Spec => Converses
<1>1. Init => C!ConvInit
  BY EmptySeq DEF Init, C!ConvInit
<1>2. IInv /\ [Next]_vars => [C!ConvNext]_(C!convVars)
  BY StepConverses
<1> QED
  BY <1>1, <1>2, Invariance, PTL DEF Spec, Converses, C!ConvSpec
=============================================================================
