--------------------------- MODULE CommandService ---------------------------
(***************************************************************************)
(* What the TCP server promises to its clients, without threads, promises, *)
(* queues or server objects: commands are carried out one by one, each     *)
(* once at most and in the order in which they were sent, though some may  *)
(* be lost; what is answered is the last command carried out, once and     *)
(* before the next one; and a client gets what was said since it came,     *)
(* line by line and in order.  TcpServer implements this.                  *)
(***************************************************************************)
EXTENDS Naturals, Sequences

CONSTANTS Commands,    \* the commands, numbered in the order of sending
          Failure,     \* the text of an error, executed in place of one
          Notice       \* what is said without being asked

VARIABLES asked,       \* number of commands sent by clients
          carried,     \* what was carried out
          lines,       \* what was said to the current client
          delivered    \* what of it went to the connection

servVars == <<asked, carried, lines, delivered>>

ServInit ==
    /\ asked = 0
    /\ carried = <<>>
    /\ lines = <<>> /\ delivered = <<>>

\* Command c is later than all the commands of a sequence.
Later(c, s) == \A i \in 1 .. Len(s) : s[i] \in Commands => s[i] < c

Ask ==
    /\ asked' = asked + 1
    /\ UNCHANGED <<carried, lines, delivered>>

(* The commands between the last one and c are lost.                       *)
CarryOut(c) ==
    /\ carried' = Append(carried, c)
    /\ c \in Commands => c <= asked /\ Later(c, carried)
    /\ UNCHANGED <<asked, lines, delivered>>

Answer ==
    /\ carried # <<>>
    /\ LET c == carried[Len(carried)]
       IN  /\ lines' = Append(lines, c)
           /\ c \in Commands => Later(c, lines)
    /\ UNCHANGED <<asked, carried, delivered>>

Notify ==
    /\ lines' = Append(lines, Notice)
    /\ UNCHANGED <<asked, carried, delivered>>

Deliver ==
    /\ Len(delivered) < Len(lines)
    /\ delivered' = Append(delivered, lines[Len(delivered) + 1])
    /\ UNCHANGED <<asked, carried, lines>>

(* The connection is gone; the next client has heard nothing yet.          *)
Reconnect ==
    /\ lines' = <<>> /\ delivered' = <<>>
    /\ UNCHANGED <<asked, carried>>

ServNext ==
    \/ Ask \/ Answer \/ Notify \/ Deliver \/ Reconnect
    \/ \E c \in Commands \union {Failure} : CarryOut(c)

ServSpec == ServInit /\ [][ServNext]_servVars
=============================================================================
