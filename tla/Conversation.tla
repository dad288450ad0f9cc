---------------------------- MODULE Conversation ----------------------------
(***************************************************************************)
(* What the client mode promises to its user, without threads, handlers,   *)
(* promises or buffers: what is typed is handed to the network message by  *)
(* message in the order of typing, each once; and what is printed answers  *)
(* a message that was handed over, each once at most and in that order,    *)
(* with other lines between them.  Messages may be left behind, answers    *)
(* may be missing.  TcpClient implements this.                             *)
(***************************************************************************)
EXTENDS Naturals, Sequences

CONSTANTS Messages,    \* what can be typed, numbered in the order of typing
          Others       \* the lines that answer no message

VARIABLES typed,       \* the messages
          handed,      \* how many of them were handed to the network
          printed      \* the lines

convVars == <<typed, handed, printed>>

ConvInit == typed = <<>> /\ handed = 0 /\ printed = <<>>

\* Message m is later than all the messages of a sequence.
Later(m, s) == \A i \in 1 .. Len(s) : s[i] \in Messages => s[i] < m

Ask(m) ==
    /\ Later(m, typed)
    /\ typed' = Append(typed, m)
    /\ UNCHANGED <<handed, printed>>

HandOver ==
    /\ handed < Len(typed)
    /\ handed' = handed + 1
    /\ UNCHANGED <<typed, printed>>

(* The answers between the last one and this one are lost.                 *)
PrintAnswer(m) ==
    /\ \E i \in 1 .. handed : typed[i] = m
    /\ Later(m, printed)
    /\ printed' = Append(printed, m)
    /\ UNCHANGED <<typed, handed>>

PrintOther(l) ==
    /\ printed' = Append(printed, l)
    /\ UNCHANGED <<typed, handed>>

ConvNext ==
    \/ \E m \in Messages : Ask(m) \/ PrintAnswer(m)
    \/ HandOver
    \/ \E l \in Others : PrintOther(l)

ConvSpec == ConvInit /\ [][ConvNext]_convVars
=============================================================================
