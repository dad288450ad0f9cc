--------------------------- MODULE WriteHddThread ---------------------------
(***************************************************************************)
(* One recording session: readThread (main.cpp) constructs one             *)
(* WriteHddThread per channel, pushes every block it reads from the DAQ    *)
(* device to all of them, and destroys them at the end of the session.     *)
(* Each WriteHddThread owns a std::queue and a thread that takes blocks    *)
(* off the queue and writes them to a .dat (BIT) and/or a .raw (RAW) file. *)
(*                                                                         *)
(* The queue is shared without a lock.  It is modelled as the counted      *)
(* deque of the Windows and macOS builds: an offset of the first element,  *)
(* a number of elements, and slots; push_back and pop_front each load the  *)
(* number and store it back one step later, so that the outcomes of their  *)
(* data race (a lost update, an element placed behind a gap) are states of *)
(* the model.  Overlap = FALSE is the schedule in which a push and a pop   *)
(* of one queue do not run at the same instant, which a block per second   *)
(* makes the usual one.                                                    *)
(*                                                                         *)
(* Blocks are the numbers 1, 2, 3 ... in the order the device returned     *)
(* them; 0 is the content of a slot that holds no constructed element.     *)
(***************************************************************************)
EXTENDS Naturals, Sequences

CONSTANTS NumChannels,  \* wthreadNum: commas in "channel" plus one
          MaxBlocks,    \* bound on the blocks of the session
          WriteFlag,    \* WriteFlag[c]: the file formats of channel c
          Overlap,      \* may a push and a pop of one queue overlap?
          DryReads,     \* may a DAQ read return no sample (an error, a timeout)?
          OpenFails     \* may opening an output file fail?

Channels == 1 .. NumChannels
Formats == {"BIT", "RAW"}
Blocks == 1 .. MaxBlocks

ASSUME ConstantsAssumption ==
    /\ NumChannels \in Nat \ {0}
    /\ MaxBlocks \in Nat
    /\ WriteFlag \in [Channels -> SUBSET Formats]
    /\ Overlap \in BOOLEAN
    /\ DryReads \in BOOLEAN
    /\ OpenFails \in BOOLEAN

VARIABLES
    rpc,        \* control point of readThread
    ch,         \* its loop variable i: the channel it works on
    blk,        \* number of blocks read so far
    dry,        \* the blocks that came back with pointsRead = 0
    preg,       \* readThread's copy of a queue's element count, in push
    writeCmd,   \* _writeCmd of each channel
    wpc,        \* control point of each channel's _threadFunction
    start,      \* deque: elements popped so far (offset of the first one)
    size,       \* deque: the element count
    slot,       \* deque: the elements
    creg,       \* the writer's copy of the element count, in pop
    open,       \* the output files that were opened
    file,       \* the blocks written to each output stream
    disk,       \* how many of them have left the stream's buffer
    aborted     \* std::terminate was called

readerVars == <<rpc, ch, blk, dry, preg>>
queueVars == <<start, size, slot>>
streamVars == <<open, file, disk>>
writerVars == <<writeCmd, wpc, creg, open, file, disk>>
vars == <<rpc, ch, blk, dry, preg, writeCmd, wpc, start, size, slot, creg,
          open, file, disk, aborted>>

\* A pop raced by pushes can run past the last element, never further than
\* one slot per push.
Cap == 3 * MaxBlocks + 1

TypeOK ==
    /\ rpc \in {"construct", "read", "push", "count", "destroy", "join", "joined"}
    /\ ch \in Channels
    /\ blk \in 0 .. MaxBlocks
    /\ dry \in SUBSET Blocks
    /\ preg \in Nat
    /\ writeCmd \in [Channels -> {"HOLD", "EXIT"}]
    /\ wpc \in [Channels -> {"none", "open", "cmd", "last", "size", "encode",
                             "raw", "pop", "uncount", "close", "done"}]
    /\ start \in [Channels -> Nat]
    /\ size \in [Channels -> Nat]
    /\ slot \in [Channels -> [1 .. Cap -> 0 .. MaxBlocks]]
    /\ creg \in [Channels -> Nat]
    /\ open \in [Channels -> SUBSET Formats]
    /\ file \in [Channels -> [Formats -> Seq(0 .. MaxBlocks)]]
    /\ disk \in [Channels -> [Formats -> Nat]]
    /\ aborted \in BOOLEAN

Init ==
    /\ rpc = "construct"
    /\ ch = 1
    /\ blk = 0
    /\ dry = {}
    /\ preg = 0
    /\ writeCmd = [c \in Channels |-> "HOLD"]
    /\ wpc = [c \in Channels |-> "none"]
    /\ start = [c \in Channels |-> 0]
    /\ size = [c \in Channels |-> 0]
    /\ slot = [c \in Channels |-> [i \in 1 .. Cap |-> 0]]
    /\ creg = [c \in Channels |-> 0]
    /\ open = [c \in Channels |-> {}]
    /\ file = [c \in Channels |-> [f \in Formats |-> <<>>]]
    /\ disk = [c \in Channels |-> [f \in Formats |-> 0]]
    /\ aborted = FALSE

-----------------------------------------------------------------------------
(* readThread, for one session.                                            *)

(* The constructor starts the thread of channel ch. *)
Construct ==
    /\ rpc = "construct"
    /\ writeCmd' = [writeCmd EXCEPT ![ch] = "HOLD"]
    /\ wpc' = [wpc EXCEPT ![ch] = "open"]
    /\ ch' = IF ch < NumChannels THEN ch + 1 ELSE 1
    /\ rpc' = IF ch < NumChannels THEN "construct" ELSE "read"
    /\ UNCHANGED <<blk, dry, preg, queueVars, creg, streamVars, aborted>>

(* DAQmxBaseReadAnalogF64: its status is ignored, and pointsRead stays 0   *)
(* when it fails.                                                          *)
ReadBlock ==
    /\ rpc = "read"
    /\ blk < MaxBlocks
    /\ blk' = blk + 1
    /\ dry' \in {dry} \union (IF DryReads THEN {dry \union {blk + 1}} ELSE {})
    /\ rpc' = "push"
    /\ ch' = 1
    /\ UNCHANGED <<preg, queueVars, writerVars, aborted>>

(* std::queue::push, first half: construct the element behind the last one *)
(* and load the element count.                                             *)
PushItem ==
    /\ rpc = "push"
    /\ Overlap \/ wpc[ch] # "uncount"
    /\ slot' = [slot EXCEPT ![ch][start[ch] + size[ch] + 1] = blk]
    /\ preg' = size[ch]
    /\ rpc' = "count"
    /\ UNCHANGED <<ch, blk, dry, start, size, writerVars, aborted>>

\* Mutant: the loop over the writers runs with i <= wthreadNum.
PushCountOnePast ==
    /\ rpc = "count"
    /\ size' = [size EXCEPT ![ch] = preg + 1]
    /\ ch' = IF ch <= NumChannels THEN ch + 1 ELSE 1
    /\ rpc' = IF ch <= NumChannels THEN "push" ELSE "read"
    /\ UNCHANGED <<blk, dry, preg, start, slot, writerVars, aborted>>

(* Second half: store the incremented count, then go to the next channel.  *)
PushCount ==
    /\ rpc = "count"
    /\ size' = [size EXCEPT ![ch] = preg + 1]
    /\ ch' = IF ch < NumChannels THEN ch + 1 ELSE 1
    /\ rpc' = IF ch < NumChannels THEN "push" ELSE "read"
    /\ UNCHANGED <<blk, dry, preg, start, slot, writerVars, aborted>>

(* The reading loop ends; the vector of writers goes out of scope.         *)
StopReading ==
    /\ rpc = "read"
    /\ rpc' = "destroy"
    /\ ch' = 1
    /\ UNCHANGED <<blk, dry, preg, queueVars, writerVars, aborted>>

\* Mutant: the destructor joins without telling the thread to exit.
SetExitForgotten ==
    /\ rpc = "destroy"
    /\ rpc' = "join"
    /\ UNCHANGED <<ch, blk, dry, preg, queueVars, writeCmd, wpc, creg, streamVars,
                  aborted>>

(* ~WriteHddThread: _writeCmd = EXIT, then join.                           *)
SetExit ==
    /\ rpc = "destroy"
    /\ writeCmd' = [writeCmd EXCEPT ![ch] = "EXIT"]
    /\ rpc' = "join"
    /\ UNCHANGED <<ch, blk, dry, preg, queueVars, wpc, creg, streamVars, aborted>>

Join ==
    /\ rpc = "join"
    /\ wpc[ch] = "done"
    /\ ch' = IF ch < NumChannels THEN ch + 1 ELSE 1
    /\ rpc' = IF ch < NumChannels THEN "destroy" ELSE "joined"
    /\ UNCHANGED <<blk, dry, preg, queueVars, writerVars, aborted>>

-----------------------------------------------------------------------------
(* _threadFunction of channel c.                                           *)

(* A file that cannot be opened is reported and otherwise ignored.         *)
OpenFiles(c) ==
    /\ wpc[c] = "open"
    /\ \E F \in IF OpenFails THEN SUBSET WriteFlag[c] ELSE {WriteFlag[c]} :
           open' = [open EXCEPT ![c] = F]
    /\ wpc' = [wpc EXCEPT ![c] = "cmd"]
    /\ UNCHANGED <<readerVars, queueVars, writeCmd, creg, file, disk, aborted>>

(* The test _writeCmd == EXIT && size() == 0 reads _writeCmd first.        *)
CheckCmd(c) ==
    /\ wpc[c] = "cmd"
    /\ wpc' = [wpc EXCEPT ![c] = IF writeCmd[c] = "EXIT" THEN "last" ELSE "size"]
    /\ UNCHANGED <<readerVars, queueVars, writeCmd, creg, streamVars, aborted>>

\* Mutant: EXIT is obeyed without looking at the queue.
CheckDrainedNever(c) ==
    /\ wpc[c] = "last"
    /\ wpc' = [wpc EXCEPT ![c] = "close"]
    /\ UNCHANGED <<readerVars, queueVars, writeCmd, creg, streamVars, aborted>>

CheckDrained(c) ==
    /\ wpc[c] = "last"
    /\ wpc' = [wpc EXCEPT ![c] = IF size[c] = 0 THEN "close" ELSE "size"]
    /\ UNCHANGED <<readerVars, queueVars, writeCmd, creg, streamVars, aborted>>

\* Mutant: the guard is _dataQueue.size() >= 0.
CheckSizeAlways(c) ==
    /\ wpc[c] = "size"
    /\ wpc' = [wpc EXCEPT ![c] = IF size[c] >= 0 THEN "encode" ELSE "cmd"]
    /\ UNCHANGED <<readerVars, queueVars, writeCmd, creg, streamVars, aborted>>

(* An empty queue is polled again after 10 ms.                             *)
CheckSize(c) ==
    /\ wpc[c] = "size"
    /\ wpc' = [wpc EXCEPT ![c] = IF size[c] > 0 THEN "encode" ELSE "cmd"]
    /\ UNCHANGED <<readerVars, queueVars, writeCmd, creg, streamVars, aborted>>

Front(c) == slot[c][start[c] + 1]

(* ofs.write: nothing happens on a stream that is not open.                *)
WriteTo(c, f) ==
    file' = IF f \in open[c]
            THEN [file EXCEPT ![c][f] = Append(@, Front(c))]
            ELSE file

(* What writeEncode calls ill data: an empty block, or (undefined          *)
(* behaviour) whatever a slot without an element looks like.               *)
IllData(c) == Front(c) = 0 \/ Front(c) \in dry

Encode(c) ==
    /\ wpc[c] = "encode"
    /\ "BIT" \in WriteFlag[c] => Front(c) \notin dry
    /\ IF "BIT" \in WriteFlag[c] THEN WriteTo(c, "BIT") ELSE file' = file
    /\ wpc' = [wpc EXCEPT ![c] = "raw"]
    /\ UNCHANGED <<readerVars, queueVars, writeCmd, creg, open, disk, aborted>>

(* throw "Ill data" leaves the thread function: std::terminate.            *)
EncodeThrows(c) ==
    /\ wpc[c] = "encode"
    /\ "BIT" \in WriteFlag[c]
    /\ IllData(c)
    /\ aborted' = TRUE
    /\ UNCHANGED <<readerVars, queueVars, writerVars>>

WriteRaw(c) ==
    /\ wpc[c] = "raw"
    /\ IF "RAW" \in WriteFlag[c] THEN WriteTo(c, "RAW") ELSE file' = file
    /\ wpc' = [wpc EXCEPT ![c] = "pop"]
    /\ UNCHANGED <<readerVars, queueVars, writeCmd, creg, open, disk, aborted>>

\* Mutant: _dataQueue.pop() is skipped after a block was written.
PopItemSkipped(c) ==
    /\ wpc[c] = "pop"
    /\ wpc' = [wpc EXCEPT ![c] = "cmd"]
    /\ UNCHANGED <<readerVars, queueVars, creg, writeCmd, streamVars, aborted>>

(* std::queue::pop, first half: destroy the first element, advance the     *)
(* offset and load the element count.                                      *)
PopItem(c) ==
    /\ wpc[c] = "pop"
    /\ Overlap \/ ~(rpc = "count" /\ ch = c)
    /\ slot' = [slot EXCEPT ![c][start[c] + 1] = 0]
    /\ start' = [start EXCEPT ![c] = @ + 1]
    /\ creg' = [creg EXCEPT ![c] = size[c]]
    /\ wpc' = [wpc EXCEPT ![c] = "uncount"]
    /\ UNCHANGED <<readerVars, size, writeCmd, streamVars, aborted>>

PopCount(c) ==
    /\ wpc[c] = "uncount"
    /\ size' = [size EXCEPT ![c] = creg[c] - 1]
    /\ wpc' = [wpc EXCEPT ![c] = "cmd"]
    /\ UNCHANGED <<readerVars, start, slot, writeCmd, creg, streamVars, aborted>>

(* A stream writes its buffer out whenever it is full ...                  *)
Flush(c, f) ==
    /\ disk[c][f] < Len(file[c][f])
    /\ wpc[c] # "done"
    /\ disk' = [disk EXCEPT ![c][f] = @ + 1]
    /\ UNCHANGED <<readerVars, queueVars, writeCmd, wpc, creg, open, file, aborted>>

(* ... and when it is closed, which ends the thread.                       *)
CloseFiles(c) ==
    /\ wpc[c] = "close"
    /\ disk' = [disk EXCEPT ![c] = [f \in Formats |-> Len(file[c][f])]]
    /\ wpc' = [wpc EXCEPT ![c] = "done"]
    /\ UNCHANGED <<readerVars, queueVars, writeCmd, creg, open, file, aborted>>

-----------------------------------------------------------------------------
Reader ==
    \/ Construct \/ ReadBlock \/ PushItem \/ PushCount
    \/ StopReading \/ SetExit \/ Join

Writer(c) ==
    \/ OpenFiles(c) \/ CheckCmd(c) \/ CheckDrained(c) \/ CheckSize(c)
    \/ Encode(c) \/ EncodeThrows(c) \/ WriteRaw(c)
    \/ PopItem(c) \/ PopCount(c) \/ CloseFiles(c)

Terminated ==
    /\ aborted \/ rpc = "joined"
    /\ UNCHANGED vars

Next ==
    \/ /\ ~aborted
       /\ \/ Reader
          \/ \E c \in Channels : Writer(c) \/ \E f \in Formats : Flush(c, f)
    \/ Terminated

(* Every thread keeps running; how many blocks are read is the business of *)
(* whoever controls readThread, so ReadBlock alone is not fair.            *)
Fairness ==
    /\ WF_vars(~aborted /\ (Construct \/ PushItem \/ PushCount \/ SetExit \/ Join))
    /\ \A c \in Channels : WF_vars(~aborted /\ Writer(c))

Spec == Init /\ [][Next]_vars
FairSpec == Spec /\ Fairness

-----------------------------------------------------------------------------
(* InOrder: every stream holds the blocks 1, 2, 3, ... in the order in     *)
(* which the device returned them, none missing in between, none twice,    *)
(* and never the content of a slot without an element -- whatever the      *)
(* interleaving of readThread's pushes with the writers' pops.             *)
InOrder ==
    \A c \in Channels, f \in Formats :
        \A i \in 1 .. Len(file[c][f]) : file[c][f][i] = i

(* JoinedComplete: when the destructor of the last writer has returned,    *)
(* every block that was read from the device is on disk in every file that *)
(* could be opened, on every channel: the writers drain their queues before*)
(* they obey EXIT, and the files are closed before join returns.           *)
JoinedComplete ==
    rpc = "joined" =>
        \A c \in Channels : \A f \in open[c] :
            Len(file[c][f]) = blk /\ disk[c][f] = blk

(* SessionEnds: once the reading loop has ended, the destructors come to   *)
(* an end, so that readThread can serve the next read command, unless the  *)
(* process was terminated.                                                 *)
SessionEnds == rpc = "destroy" ~> (rpc = "joined" \/ aborted)

(* NoIllData: a block handed to writeEncode is not empty, which it asserts *)
(* with throw "Ill data" (writeHddThread.cpp:49).                          *)
NoIllData ==
    \A c \in Channels :
        wpc[c] = "encode" /\ "BIT" \in WriteFlag[c] => ~IllData(c)

(* The streams of the abstract recorder, and the session as it sees it.    *)
Streams == {s \in Channels \X Formats : s[2] \in WriteFlag[s[1]]}
Broken == {s \in Streams : wpc[s[1]] \notin {"none", "open"} /\ s[2] \notin open[s[1]]}
Stage == IF aborted THEN "aborted" ELSE IF rpc = "joined" THEN "over" ELSE "running"
R == INSTANCE Recorder WITH
        accepted <- blk,
        log <- [s \in Streams |-> file[s[1]][s[2]]],
        broken <- Broken,
        stage <- Stage

(* Recording: the session implements the abstract recorder: streams are    *)
(* logs of the accepted blocks, the session is over only when all of them  *)
(* are complete, and no accepted block stays in memory forever.            *)
Recording == R!RecSpec
=============================================================================
