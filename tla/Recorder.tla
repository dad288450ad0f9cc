------------------------------ MODULE Recorder ------------------------------
(***************************************************************************)
(* What one recording session promises, without threads or queues: the     *)
(* blocks the DAQ device returned are numbered in the order of their       *)
(* arrival, every stream (a channel in one file format) is a log to which  *)
(* the blocks are appended one by one in that order, and the session is    *)
(* over only when every log holds every block.  A stream may have no file, *)
(* which is no concern of the others, and the process may abort.           *)
(* WriteHddThread implements this with one queue and one thread per        *)
(* channel.                                                                *)
(***************************************************************************)
EXTENDS Naturals, Sequences

CONSTANT Streams      \* the files of the session

VARIABLES accepted,   \* number of blocks read from the device
          log,        \* log[s]: the blocks written to stream s, in order
          broken,     \* the streams whose file could not be opened
          stage       \* "running", "over" or "aborted"

rvars == <<accepted, log, broken, stage>>

RecInit ==
    /\ accepted = 0
    /\ log = [s \in Streams |-> <<>>]
    /\ broken = {}
    /\ stage = "running"

Accept ==
    /\ stage = "running"
    /\ accepted' = accepted + 1
    /\ UNCHANGED <<log, broken, stage>>

(* Files are opened before anything is written to them.                    *)
Fail(F) ==
    /\ stage = "running"
    /\ \A s \in F : log[s] = <<>>
    /\ broken' = broken \union F
    /\ UNCHANGED <<accepted, log, stage>>

Store(s) ==
    /\ stage = "running"
    /\ s \notin broken
    /\ Len(log[s]) < accepted
    /\ log' = [log EXCEPT ![s] = Append(@, Len(@) + 1)]
    /\ UNCHANGED <<accepted, broken, stage>>

Finish ==
    /\ stage = "running"
    /\ \A s \in Streams \ broken : Len(log[s]) = accepted
    /\ stage' = "over"
    /\ UNCHANGED <<accepted, log, broken>>

Abort ==
    /\ stage = "running"
    /\ stage' = "aborted"
    /\ UNCHANGED <<accepted, log, broken>>

RecNext ==
    \/ Accept \/ Finish \/ Abort
    \/ \E s \in Streams : Store(s)
    \/ \E F \in SUBSET Streams : Fail(F)

RecSafeSpec == RecInit /\ [][RecNext]_rvars

(* A block that was accepted does not wait forever in memory. *)
RecSpec == RecSafeSpec /\ \A s \in Streams : WF_rvars(Store(s))
=============================================================================
