------------------------ MODULE WriteHddThread_proof ------------------------
(***************************************************************************)
(* Proofs about WriteHddThread, for every number of channels, every length *)
(* of a session, every choice of file formats and every interleaving in    *)
(* which a push and a pop of the same queue do not overlap.                *)
(***************************************************************************)
EXTENDS WriteHddThread, TLAPS

\* The number of blocks whose push to channel c has been completed.
Pushed(c) == IF rpc \in {"push", "count"} /\ ch <= c THEN blk - 1 ELSE blk

\* readThread constructs, feeds and destroys the writers in turn.
ReaderInv(c) ==
    /\ rpc \in {"push", "count"} => blk >= 1
    /\ rpc = "construct" => blk = 0
    /\ wpc[c] = "none" <=> rpc = "construct" /\ ch <= c
    /\ writeCmd[c] = "EXIT" <=> \/ rpc = "joined"
                                \/ rpc = "join" /\ c <= ch
                                \/ rpc = "destroy" /\ c < ch
    /\ \/ rpc = "joined"
       \/ rpc \in {"destroy", "join"} /\ c < ch
       => wpc[c] = "done"
    /\ wpc[c] \in {"last", "close", "done"} => writeCmd[c] = "EXIT"

\* The queue holds exactly the blocks that were pushed and not yet popped.
QueueInv(c) ==
    /\ start[c] <= Pushed(c)
    /\ start[c] + size[c] = Pushed(c) + (IF wpc[c] = "uncount" THEN 1 ELSE 0)
    /\ wpc[c] \in {"none", "open"} => start[c] = 0
    /\ wpc[c] = "uncount" => creg[c] = size[c] /\ size[c] >= 1
    /\ wpc[c] = "uncount" => ~(rpc = "count" /\ ch = c)
    /\ wpc[c] \in {"encode", "raw", "pop"} => size[c] >= 1
    /\ wpc[c] \in {"close", "done"} => size[c] = 0
    /\ rpc = "count" /\ ch = c => preg = size[c] /\ slot[c][blk] = blk
    /\ \A i \in start[c] + 1 .. Pushed(c) : slot[c][i] = i

\* The streams the writer has already given the block it is working on.
Ahead(c, f) == IF wpc[c] = "pop" \/ (wpc[c] = "raw" /\ f = "BIT") THEN 1 ELSE 0

\* A stream holds what was popped, and the block at the front when written.
FileInv(c, f) ==
    /\ f \in open[c] => f \in WriteFlag[c]
    /\ wpc[c] \in {"none", "open"} => file[c][f] = <<>>
    /\ f \in open[c] => Len(file[c][f]) = start[c] + Ahead(c, f)
    /\ \A i \in 1 .. Len(file[c][f]) : file[c][f][i] = i
    /\ disk[c][f] <= Len(file[c][f])
    /\ wpc[c] = "done" => disk[c][f] = Len(file[c][f])

IInv ==
    /\ TypeOK
    /\ \A c \in Channels : ReaderInv(c) /\ QueueInv(c)
    /\ \A c \in Channels, f \in Formats : FileInv(c, f)

(* The channel numbers are an interval of the naturals that starts at 1.   *)
LEMMA ChannelFacts ==
    /\ 1 \in Channels
    /\ \A c \in Channels : c \in Nat /\ 1 <= c /\ c <= NumChannels
    /\ \A c \in Channels : c < NumChannels => c + 1 \in Channels
  BY ConstantsAssumption DEF ConstantsAssumption, Channels

(* Updating one entry of a table of rows leaves a table of rows.           *)
LEMMA UpdateEntry ==
    ASSUME NEW S, NEW T, NEW V, NEW table \in [S -> [T -> V]],
           NEW a \in S, NEW b \in T, NEW v \in V
    PROVE  /\ [table EXCEPT ![a][b] = v] \in [S -> [T -> V]]
           /\ \A x \in S, y \in T :
                 [table EXCEPT ![a][b] = v][x][y] =
                     IF x = a /\ y = b THEN v ELSE table[x][y]
  OBVIOUS

(* The number of completed pushes is a number of blocks.                   *)
LEMMA PushedType ==
    ASSUME IInv, NEW c \in Channels
    PROVE  Pushed(c) \in Nat /\ Pushed(c) <= MaxBlocks
<1>1. ReaderInv(c) /\ blk \in 0 .. MaxBlocks
  BY DEF IInv, TypeOK
<1> QED
  BY <1>1, ConstantsAssumption DEF ConstantsAssumption, ReaderInv, Pushed

(* A writer that has found its queue non-empty has a block of the session  *)
(* at the front of it, the first one it has not popped.                    *)
LEMMA FrontOfQueue ==
    ASSUME IInv, NEW c \in Channels, wpc[c] \in {"encode", "raw", "pop"}
    PROVE  Front(c) = start[c] + 1 /\ Front(c) \in 1 .. MaxBlocks
<1>1. start[c] \in Nat /\ size[c] \in Nat
  BY DEF IInv, TypeOK
<1>2. QueueInv(c)
  BY DEF IInv
<1>3. start[c] + 1 \in start[c] + 1 .. Pushed(c)
  BY <1>1, <1>2, PushedType DEF QueueInv
<1> QED
  BY <1>1, <1>2, <1>3, PushedType, ConstantsAssumption
     DEF ConstantsAssumption, QueueInv, Front

(* Appending to one stream leaves every file a sequence of blocks.         *)
LEMMA WriteToType ==
    ASSUME IInv, NEW c \in Channels, NEW f \in Formats,
           Front(c) \in 0 .. MaxBlocks, WriteTo(c, f)
    PROVE  file' \in [Channels -> [Formats -> Seq(0 .. MaxBlocks)]]
<1>1. file \in [Channels -> [Formats -> Seq(0 .. MaxBlocks)]]
  BY DEF IInv, TypeOK
<1>2. Append(file[c][f], Front(c)) \in Seq(0 .. MaxBlocks)
  BY <1>1
<1>3. [file EXCEPT ![c][f] = Append(file[c][f], Front(c))]
        \in [Channels -> [Formats -> Seq(0 .. MaxBlocks)]]
  BY <1>1, <1>2, UpdateEntry
<1> QED
  BY <1>1, <1>3 DEF WriteTo

(* Every step preserves the type invariant. *)
LEMMA TypeStep ==
    ASSUME Overlap = FALSE, IInv, [Next]_vars
    PROVE  TypeOK'
<1>t. TypeOK
  BY DEF IInv
<1>b. blk < MaxBlocks => blk + 1 \in Blocks /\ blk + 1 \in 0 .. MaxBlocks
  BY <1>t, ConstantsAssumption DEF ConstantsAssumption, TypeOK, Blocks
<1>u. ASSUME NEW c \in Channels, wpc[c] = "uncount"
      PROVE  creg[c] - 1 \in Nat
  BY <1>u, <1>t DEF IInv, QueueInv, TypeOK
<1>f. ASSUME NEW c \in Channels, wpc[c] \in {"encode", "raw", "pop"}
      PROVE  Front(c) \in 0 .. MaxBlocks
  BY <1>f, FrontOfQueue, ConstantsAssumption DEF ConstantsAssumption
<1>1. CASE Construct
  BY <1>1, <1>t, ChannelFacts DEF Construct, queueVars, streamVars,
     TypeOK
<1>2. CASE ReadBlock
  BY <1>2, <1>t, ChannelFacts, <1>b DEF ReadBlock, queueVars,
     writerVars, TypeOK
<1>3. CASE PushItem
  <2>1. slot' \in [Channels -> [1 .. Cap -> 0 .. MaxBlocks]]
    BY <1>3, <1>t DEF PushItem, TypeOK
  <2>2. preg' \in Nat
    BY <1>3, <1>t DEF PushItem, TypeOK
  <2> QED
    BY <1>3, <1>t, <2>1, <2>2 DEF PushItem, writerVars, TypeOK
<1>4. CASE PushCount
  BY <1>4, <1>t, ChannelFacts DEF PushCount, writerVars, TypeOK
<1>5. CASE StopReading
  BY <1>5, <1>t, ChannelFacts DEF StopReading, queueVars, writerVars,
     TypeOK
<1>6. CASE SetExit
  BY <1>6, <1>t, ChannelFacts DEF SetExit, queueVars, streamVars,
     TypeOK
<1>7. CASE Join
  BY <1>7, <1>t, ChannelFacts DEF Join, queueVars, writerVars, TypeOK
<1>8. ASSUME NEW c \in Channels, OpenFiles(c)
      PROVE  TypeOK'
  <2>1. WriteFlag[c] \in SUBSET Formats
    BY ConstantsAssumption DEF ConstantsAssumption
  <2>2. open' \in [Channels -> SUBSET Formats]
    BY <1>8, <1>t, <2>1 DEF OpenFiles, TypeOK
  <2> QED
    BY <1>8, <1>t, <2>2 DEF OpenFiles, readerVars, queueVars, TypeOK
<1>9. ASSUME NEW c \in Channels, CheckCmd(c)
      PROVE  TypeOK'
  BY <1>9, <1>t, ChannelFacts DEF CheckCmd, readerVars, queueVars,
     streamVars, TypeOK
<1>10. ASSUME NEW c \in Channels, CheckDrained(c)
      PROVE  TypeOK'
  BY <1>10, <1>t, ChannelFacts DEF CheckDrained, readerVars, queueVars,
     streamVars, TypeOK
<1>11. ASSUME NEW c \in Channels, CheckSize(c)
      PROVE  TypeOK'
  BY <1>11, <1>t, ChannelFacts DEF CheckSize, readerVars, queueVars,
     streamVars, TypeOK
<1>12. ASSUME NEW c \in Channels, Encode(c)
      PROVE  TypeOK'
  <2>1. "BIT" \in WriteFlag[c] =>
          file' \in [Channels -> [Formats -> Seq(0 .. MaxBlocks)]]
    BY <1>12, <1>f, WriteToType DEF Encode, Formats
  <2>2. "BIT" \notin WriteFlag[c] =>
          file' \in [Channels -> [Formats -> Seq(0 .. MaxBlocks)]]
    BY <1>12, <1>t DEF Encode, TypeOK
  <2>3. file' \in [Channels -> [Formats -> Seq(0 .. MaxBlocks)]]
    BY <2>1, <2>2
  <2> QED
    BY <1>12, <1>t, <2>3 DEF Encode, readerVars, queueVars, TypeOK
<1>13. ASSUME NEW c \in Channels, EncodeThrows(c)
      PROVE  TypeOK'
  BY <1>13, <1>t, ChannelFacts DEF EncodeThrows, readerVars, queueVars,
     writerVars, TypeOK
<1>14. ASSUME NEW c \in Channels, WriteRaw(c)
      PROVE  TypeOK'
  <2>1. "RAW" \in WriteFlag[c] =>
          file' \in [Channels -> [Formats -> Seq(0 .. MaxBlocks)]]
    BY <1>14, <1>f, WriteToType DEF WriteRaw, Formats
  <2>2. "RAW" \notin WriteFlag[c] =>
          file' \in [Channels -> [Formats -> Seq(0 .. MaxBlocks)]]
    BY <1>14, <1>t DEF WriteRaw, TypeOK
  <2>3. file' \in [Channels -> [Formats -> Seq(0 .. MaxBlocks)]]
    BY <2>1, <2>2
  <2> QED
    BY <1>14, <1>t, <2>3 DEF WriteRaw, readerVars, queueVars, TypeOK
<1>15. ASSUME NEW c \in Channels, PopItem(c)
      PROVE  TypeOK'
  <2>0. 0 \in 0 .. MaxBlocks
    BY ConstantsAssumption DEF ConstantsAssumption
  <2>1. slot' \in [Channels -> [1 .. Cap -> 0 .. MaxBlocks]]
    BY <1>15, <1>t, <2>0 DEF PopItem, TypeOK
  <2> QED
    BY <1>15, <1>t, <2>1 DEF PopItem, readerVars, streamVars, TypeOK
<1>16. ASSUME NEW c \in Channels, PopCount(c)
      PROVE  TypeOK'
  BY <1>16, <1>t, ChannelFacts, <1>u DEF PopCount, readerVars,
     streamVars, TypeOK
<1>17. ASSUME NEW c \in Channels, CloseFiles(c)
      PROVE  TypeOK'
  <2>1. [f \in Formats |-> Len(file[c][f])] \in [Formats -> Nat]
    <3>1. \A f \in Formats : Len(file[c][f]) \in Nat
      BY <1>t DEF TypeOK
    <3> QED
      BY <3>1
  <2>2. disk' \in [Channels -> [Formats -> Nat]]
    BY <1>17, <1>t, <2>1 DEF CloseFiles, TypeOK
  <2> QED
    BY <1>17, <1>t, <2>2 DEF CloseFiles, readerVars, queueVars, TypeOK
<1>18. ASSUME NEW c \in Channels, NEW f \in Formats, Flush(c, f)
      PROVE  TypeOK'
  <2>1. disk[c][f] + 1 \in Nat
    BY <1>t DEF TypeOK
  <2>2. disk' \in [Channels -> [Formats -> Nat]]
    BY <1>18, <1>t, <2>1, UpdateEntry DEF Flush, TypeOK
  <2> QED
    BY <1>18, <1>t, <2>2 DEF Flush, readerVars, queueVars, TypeOK
<1>19. CASE UNCHANGED vars
  BY <1>19, <1>t, ChannelFacts DEF vars, TypeOK
<1> QED
  BY <1>1, <1>2, <1>3, <1>4, <1>5, <1>6, <1>7, <1>8, <1>9,
     <1>10, <1>11, <1>12, <1>13, <1>14, <1>15, <1>16, <1>17, <1>18, <1>19
     DEF Next, Reader, Writer, Terminated

(* Every step preserves the order in which readThread treats the writers.  *)
LEMMA ReaderStep ==
    ASSUME IInv, [Next]_vars, NEW d \in Channels
    PROVE  ReaderInv(d)'
<1>t. TypeOK /\ ReaderInv(d) /\ ReaderInv(ch)
  BY DEF IInv, TypeOK
<1>c. /\ ch \in Nat /\ 1 <= ch /\ ch <= NumChannels
      /\ d \in Nat /\ 1 <= d /\ d <= NumChannels
      /\ NumChannels \in Nat /\ blk \in Nat
  BY <1>t, ChannelFacts, ConstantsAssumption DEF ConstantsAssumption, TypeOK
<1>w. writeCmd \in [Channels -> {"HOLD", "EXIT"}] /\ DOMAIN wpc = Channels
  BY <1>t DEF TypeOK
<1>1. CASE Construct
  BY <1>1, <1>t, <1>c, <1>w DEF Construct, queueVars, streamVars,
     ReaderInv
<1>2. CASE ReadBlock
  BY <1>2, <1>t, <1>c, <1>w DEF ReadBlock, queueVars, writerVars,
     ReaderInv
<1>3. CASE PushItem
  BY <1>3, <1>t, <1>c, <1>w DEF PushItem, writerVars,
     ReaderInv
<1>4. CASE PushCount
  BY <1>4, <1>t, <1>c, <1>w DEF PushCount, writerVars,
     ReaderInv
<1>5. CASE StopReading
  BY <1>5, <1>t, <1>c, <1>w DEF StopReading, queueVars, writerVars,
     ReaderInv
<1>6. CASE SetExit
  BY <1>6, <1>t, <1>c, <1>w DEF SetExit, queueVars, streamVars,
     ReaderInv
<1>7. CASE Join
  BY <1>7, <1>t, <1>c, <1>w DEF Join, queueVars, writerVars,
     ReaderInv
<1>8. ASSUME NEW c \in Channels, OpenFiles(c)
      PROVE  ReaderInv(d)'
  BY <1>8, <1>t, <1>c, <1>w DEF OpenFiles, readerVars, queueVars,
     ReaderInv
<1>9. ASSUME NEW c \in Channels, CheckCmd(c)
      PROVE  ReaderInv(d)'
  BY <1>9, <1>t, <1>c, <1>w DEF CheckCmd, readerVars, queueVars, streamVars,
     ReaderInv
<1>10. ASSUME NEW c \in Channels, CheckDrained(c)
      PROVE  ReaderInv(d)'
  BY <1>10, <1>t, <1>c, <1>w DEF CheckDrained, readerVars, queueVars, streamVars,
     ReaderInv
<1>11. ASSUME NEW c \in Channels, CheckSize(c)
      PROVE  ReaderInv(d)'
  BY <1>11, <1>t, <1>c, <1>w DEF CheckSize, readerVars, queueVars, streamVars,
     ReaderInv
<1>12. ASSUME NEW c \in Channels, Encode(c)
      PROVE  ReaderInv(d)'
  BY <1>12, <1>t, <1>c, <1>w DEF Encode, readerVars, queueVars,
     ReaderInv
<1>13. ASSUME NEW c \in Channels, EncodeThrows(c)
      PROVE  ReaderInv(d)'
  BY <1>13, <1>t, <1>c, <1>w DEF EncodeThrows, readerVars, queueVars, writerVars,
     ReaderInv
<1>14. ASSUME NEW c \in Channels, WriteRaw(c)
      PROVE  ReaderInv(d)'
  BY <1>14, <1>t, <1>c, <1>w DEF WriteRaw, readerVars, queueVars,
     ReaderInv
<1>15. ASSUME NEW c \in Channels, PopItem(c)
      PROVE  ReaderInv(d)'
  BY <1>15, <1>t, <1>c, <1>w DEF PopItem, readerVars, streamVars,
     ReaderInv
<1>16. ASSUME NEW c \in Channels, PopCount(c)
      PROVE  ReaderInv(d)'
  BY <1>16, <1>t, <1>c, <1>w DEF PopCount, readerVars, streamVars,
     ReaderInv
<1>17. ASSUME NEW c \in Channels, CloseFiles(c)
      PROVE  ReaderInv(d)'
  BY <1>17, <1>t, <1>c, <1>w DEF CloseFiles, readerVars, queueVars,
     ReaderInv
<1>18. ASSUME NEW c \in Channels, NEW f \in Formats, Flush(c, f)
      PROVE  ReaderInv(d)'
  BY <1>18, <1>t, <1>c, <1>w DEF Flush, readerVars, queueVars,
     ReaderInv
<1>19. CASE UNCHANGED vars
  BY <1>19, <1>t, <1>c, <1>w DEF vars, ReaderInv
<1> QED
  BY <1>1, <1>2, <1>3, <1>4, <1>5, <1>6, <1>7, <1>8, <1>9,
     <1>10, <1>11, <1>12, <1>13, <1>14, <1>15, <1>16, <1>17, <1>18, <1>19
     DEF Next, Reader, Writer, Terminated

(* Every step preserves the relation between a queue and the blocks pushed.*)
LEMMA QueueStep ==
    ASSUME Overlap = FALSE, IInv, [Next]_vars, NEW d \in Channels
    PROVE  QueueInv(d)'
<1>t. TypeOK /\ ReaderInv(d) /\ QueueInv(d)
  BY DEF IInv
<1>c. /\ ch \in Nat /\ 1 <= ch /\ ch <= NumChannels
      /\ d \in Nat /\ 1 <= d /\ d <= NumChannels
      /\ NumChannels \in Nat /\ blk \in Nat
  BY <1>t, ChannelFacts, ConstantsAssumption DEF ConstantsAssumption, TypeOK
<1>w. /\ writeCmd \in [Channels -> {"HOLD", "EXIT"}] /\ DOMAIN wpc = Channels
      /\ start \in [Channels -> Nat] /\ size \in [Channels -> Nat]
      /\ creg \in [Channels -> Nat] /\ preg \in Nat
      /\ slot \in [Channels -> [1 .. Cap -> 0 .. MaxBlocks]]
  BY <1>t DEF TypeOK
<1>x. /\ start[d] \in Nat /\ size[d] \in Nat /\ creg[d] \in Nat
      /\ MaxBlocks \in Nat /\ Cap \in Nat /\ Cap >= MaxBlocks + 1
  BY <1>w, ConstantsAssumption DEF ConstantsAssumption, Cap
<1>1. CASE Construct
  BY <1>1, <1>t, <1>c, <1>w DEF Construct, queueVars, streamVars,
     ReaderInv, QueueInv, Pushed
<1>2. CASE ReadBlock
  BY <1>2, <1>t, <1>c, <1>w DEF ReadBlock, queueVars, writerVars,
     ReaderInv, QueueInv, Pushed
<1>3. CASE PushItem
  <2>1. /\ Pushed(d)' = Pushed(d) /\ Pushed(d) \in Nat
        /\ UNCHANGED <<start, size, wpc, creg, blk, ch>>
        /\ rpc = "push" /\ rpc' = "count" /\ preg' = size[ch]
    BY <1>3, <1>t, <1>c DEF PushItem, writerVars, Pushed, ReaderInv
  <2>2. CASE d # ch
    <3>1. slot'[d] = slot[d]
      BY <1>3, <1>w, <2>2 DEF PushItem
    <3> QED
      BY <1>t, <1>c, <1>w, <2>1, <2>2, <3>1 DEF QueueInv
  <2>3. CASE d = ch
    <3>1. wpc[d] # "uncount" /\ Pushed(d) = blk - 1 /\ blk >= 1
      BY <1>3, <1>t, <2>3, <1>c DEF PushItem, Pushed, ReaderInv
    <3>2. start[d] + size[d] + 1 = blk
      BY <1>t, <1>w, <1>c, <3>1 DEF QueueInv
    <3>3. blk \in 1 .. Cap
      BY <1>t, <3>1, ConstantsAssumption DEF ConstantsAssumption, TypeOK, Cap
    <3>4. \A i \in 1 .. Cap :
             slot'[d][i] = IF i = blk THEN blk ELSE slot[d][i]
      BY <1>3, <1>w, <2>3, <3>2 DEF PushItem
    <3>5. slot'[d][blk] = blk
      BY <3>3, <3>4
    <3>6. \A i \in start[d] + 1 .. Pushed(d) : slot'[d][i] = i
      <4> SUFFICES ASSUME NEW i \in start[d] + 1 .. Pushed(d)
                   PROVE  slot'[d][i] = i
        OBVIOUS
      <4>1. i \in 1 .. Cap /\ i # blk
        BY <1>x, <1>c, <3>1, <3>3
      <4>2. slot[d][i] = i
        BY <1>t DEF QueueInv
      <4> QED
        BY <3>4, <4>1, <4>2
    <3> QED
      BY <1>t, <1>c, <1>w, <2>1, <2>3, <3>1, <3>5, <3>6 DEF QueueInv
  <2> QED
    BY <2>2, <2>3
<1>4. CASE PushCount
  BY <1>4, <1>t, <1>c, <1>w DEF PushCount, writerVars,
     ReaderInv, QueueInv, Pushed
<1>5. CASE StopReading
  BY <1>5, <1>t, <1>c, <1>w DEF StopReading, queueVars, writerVars,
     ReaderInv, QueueInv, Pushed
<1>6. CASE SetExit
  BY <1>6, <1>t, <1>c, <1>w DEF SetExit, queueVars, streamVars,
     ReaderInv, QueueInv, Pushed
<1>7. CASE Join
  BY <1>7, <1>t, <1>c, <1>w DEF Join, queueVars, writerVars,
     ReaderInv, QueueInv, Pushed
<1>8. ASSUME NEW c \in Channels, OpenFiles(c)
      PROVE  QueueInv(d)'
  BY <1>8, <1>t, <1>c, <1>w DEF OpenFiles, readerVars, queueVars,
     ReaderInv, QueueInv, Pushed
<1>9. ASSUME NEW c \in Channels, CheckCmd(c)
      PROVE  QueueInv(d)'
  BY <1>9, <1>t, <1>c, <1>w DEF CheckCmd, readerVars, queueVars, streamVars,
     ReaderInv, QueueInv, Pushed
<1>10. ASSUME NEW c \in Channels, CheckDrained(c)
      PROVE  QueueInv(d)'
  BY <1>10, <1>t, <1>c, <1>w DEF CheckDrained, readerVars, queueVars, streamVars,
     ReaderInv, QueueInv, Pushed
<1>11. ASSUME NEW c \in Channels, CheckSize(c)
      PROVE  QueueInv(d)'
  BY <1>11, <1>t, <1>c, <1>w DEF CheckSize, readerVars, queueVars, streamVars,
     ReaderInv, QueueInv, Pushed
<1>12. ASSUME NEW c \in Channels, Encode(c)
      PROVE  QueueInv(d)'
  BY <1>12, <1>t, <1>c, <1>w DEF Encode, readerVars, queueVars,
     ReaderInv, QueueInv, Pushed
<1>13. ASSUME NEW c \in Channels, EncodeThrows(c)
      PROVE  QueueInv(d)'
  BY <1>13, <1>t, <1>c, <1>w DEF EncodeThrows, readerVars, queueVars, writerVars,
     ReaderInv, QueueInv, Pushed
<1>14. ASSUME NEW c \in Channels, WriteRaw(c)
      PROVE  QueueInv(d)'
  BY <1>14, <1>t, <1>c, <1>w DEF WriteRaw, readerVars, queueVars,
     ReaderInv, QueueInv, Pushed
<1>15. ASSUME NEW c \in Channels, PopItem(c)
       PROVE  QueueInv(d)'
  <2>1. /\ Pushed(d)' = Pushed(d) /\ Pushed(d) \in Nat
        /\ UNCHANGED <<size, rpc, ch, blk, preg>>
    BY <1>15, <1>t, <1>c DEF PopItem, readerVars, Pushed, ReaderInv
  <2>2. CASE d # c
    <3>1. /\ slot'[d] = slot[d] /\ start'[d] = start[d]
          /\ wpc'[d] = wpc[d] /\ creg'[d] = creg[d]
      BY <1>15, <1>t, <1>w, <2>2 DEF PopItem, TypeOK
    <3> QED
      BY <1>t, <1>c, <1>w, <2>1, <3>1 DEF QueueInv
  <2>3. CASE d = c
    <3>1. /\ wpc[d] = "pop" /\ wpc'[d] = "uncount" /\ creg'[d] = size[d]
          /\ start'[d] = start[d] + 1 /\ ~(rpc = "count" /\ ch = d)
      BY <1>15, <1>t, <1>w, <2>3 DEF PopItem, TypeOK
    <3>2. size[d] >= 1 /\ start[d] + size[d] = Pushed(d)
      BY <1>t, <1>x, <2>1, <3>1 DEF QueueInv
    <3>3. \A i \in 1 .. Cap : i # start[d] + 1 => slot'[d][i] = slot[d][i]
      BY <1>15, <1>w, <2>3 DEF PopItem
    <3>4. Pushed(d) <= MaxBlocks /\ MaxBlocks \in Nat
      BY PushedType, ConstantsAssumption DEF ConstantsAssumption
    <3>5. \A i \in start[d] + 2 .. Pushed(d) : slot'[d][i] = i
      <4> SUFFICES ASSUME NEW i \in start[d] + 2 .. Pushed(d)
                   PROVE  slot'[d][i] = i
        OBVIOUS
      <4>1. /\ i \in 1 .. Cap /\ i # start[d] + 1
            /\ i \in start[d] + 1 .. Pushed(d)
        BY <1>x, <2>1, <3>4
      <4>2. slot[d][i] = i
        BY <1>t, <4>1 DEF QueueInv
      <4> QED
        BY <3>3, <4>1, <4>2
    <3> QED
      BY <1>x, <2>1, <3>1, <3>2, <3>5, <1>t DEF QueueInv
  <2> QED
    BY <2>2, <2>3
<1>16. ASSUME NEW c \in Channels, PopCount(c)
      PROVE  QueueInv(d)'
  BY <1>16, <1>t, <1>c, <1>w DEF PopCount, readerVars, streamVars,
     ReaderInv, QueueInv, Pushed
<1>17. ASSUME NEW c \in Channels, CloseFiles(c)
      PROVE  QueueInv(d)'
  BY <1>17, <1>t, <1>c, <1>w DEF CloseFiles, readerVars, queueVars,
     ReaderInv, QueueInv, Pushed
<1>18. ASSUME NEW c \in Channels, NEW f \in Formats, Flush(c, f)
      PROVE  QueueInv(d)'
  BY <1>18, <1>t, <1>c, <1>w DEF Flush, readerVars, queueVars,
     ReaderInv, QueueInv, Pushed
<1>19. CASE UNCHANGED vars
  BY <1>19, <1>t, <1>c, <1>w DEF vars, ReaderInv, QueueInv, Pushed
<1> QED
  BY <1>1, <1>2, <1>3, <1>4, <1>5, <1>6, <1>7, <1>8, <1>9,
     <1>10, <1>11, <1>12, <1>13, <1>14, <1>15, <1>16, <1>17, <1>18, <1>19
     DEF Next, Reader, Writer, Terminated

(* Appending the next number to 1, 2, ..., n gives 1, 2, ..., n + 1.        *)
LEMMA AppendNext ==
    ASSUME NEW s \in Seq(0 .. MaxBlocks), NEW e \in 0 .. MaxBlocks,
           e = Len(s) + 1, \A i \in 1 .. Len(s) : s[i] = i
    PROVE  /\ Len(Append(s, e)) = Len(s) + 1
           /\ \A i \in 1 .. Len(Append(s, e)) : Append(s, e)[i] = i
  OBVIOUS

(* Writing the front of a queue to stream g of channel d, when the stream  *)
(* holds exactly what was popped, keeps the stream in order.               *)
LEMMA WriteInOrder ==
    ASSUME IInv, NEW d \in Channels, NEW g \in Formats, NEW f \in Formats,
           wpc[d] \in {"encode", "raw"}, Ahead(d, f) = 0, WriteTo(d, f)
    PROVE  /\ g # f => file'[d][g] = file[d][g]
           /\ f \notin open[d] => file' = file
           /\ f \in open[d] =>
                /\ Len(file'[d][f]) = start[d] + 1
                /\ \A i \in 1 .. Len(file'[d][f]) : file'[d][f][i] = i
<1>1. file \in [Channels -> [Formats -> Seq(0 .. MaxBlocks)]]
  BY DEF IInv, TypeOK
<1>2. Front(d) = start[d] + 1 /\ Front(d) \in 0 .. MaxBlocks
  BY FrontOfQueue, ConstantsAssumption DEF ConstantsAssumption
<1>3. FileInv(d, f) /\ start[d] \in Nat
  BY DEF IInv, TypeOK
<1>4. CASE f \in open[d]
  <2>1. Len(file[d][f]) = start[d] /\ \A i \in 1 .. Len(file[d][f]) : file[d][f][i] = i
    BY <1>3, <1>4 DEF FileInv
  <2>2. file'[d][f] = Append(file[d][f], Front(d)) /\ (g # f => file'[d][g] = file[d][g])
    BY <1>1, <1>4 DEF WriteTo
  <2>3. Len(file'[d][f]) = start[d] + 1
        /\ \A i \in 1 .. Len(file'[d][f]) : file'[d][f][i] = i
    BY <1>1, <1>2, <2>1, <2>2, AppendNext
  <2> QED
    BY <1>4, <2>2, <2>3
<1>5. CASE f \notin open[d]
  BY <1>5 DEF WriteTo
<1> QED
  BY <1>4, <1>5

(* Every step preserves the relation between a queue and the files.        *)
LEMMA FileStep ==
    ASSUME IInv, [Next]_vars, NEW d \in Channels, NEW g \in Formats
    PROVE  FileInv(d, g)'
<1>t. TypeOK /\ QueueInv(d) /\ FileInv(d, g) /\ ReaderInv(d)
  BY DEF IInv
<1>w. /\ wpc \in [Channels -> {"none", "open", "cmd", "last", "size", "encode",
                              "raw", "pop", "uncount", "close", "done"}]
      /\ start \in [Channels -> Nat]
      /\ open \in [Channels -> SUBSET Formats]
      /\ file \in [Channels -> [Formats -> Seq(0 .. MaxBlocks)]]
      /\ disk \in [Channels -> [Formats -> Nat]]
  BY <1>t DEF TypeOK
<1>x. /\ start[d] \in Nat /\ disk[d][g] \in Nat /\ Len(file[d][g]) \in Nat
      /\ file[d][g] \in Seq(0 .. MaxBlocks)
  BY <1>w
<1>c. ch \in Nat /\ d \in Nat
  BY <1>t, ChannelFacts DEF TypeOK
<1>1. CASE Construct
  BY <1>1, <1>t, <1>w, <1>x, <1>c DEF Construct, queueVars, streamVars,
     FileInv, Ahead, ReaderInv
<1>2. CASE ReadBlock
  BY <1>2, <1>t, <1>w, <1>x DEF ReadBlock, queueVars, writerVars,
     FileInv, Ahead
<1>3. CASE PushItem
  BY <1>3, <1>t, <1>w, <1>x DEF PushItem, writerVars,
     FileInv, Ahead
<1>4. CASE PushCount
  BY <1>4, <1>t, <1>w, <1>x DEF PushCount, writerVars,
     FileInv, Ahead
<1>5. CASE StopReading
  BY <1>5, <1>t, <1>w, <1>x DEF StopReading, queueVars, writerVars,
     FileInv, Ahead
<1>6. CASE SetExit
  BY <1>6, <1>t, <1>w, <1>x DEF SetExit, queueVars, streamVars,
     FileInv, Ahead
<1>7. CASE Join
  BY <1>7, <1>t, <1>w, <1>x DEF Join, queueVars, writerVars,
     FileInv, Ahead
<1>8. ASSUME NEW c \in Channels, OpenFiles(c)
      PROVE  FileInv(d, g)'
  BY <1>8, <1>t, <1>w, <1>x, ConstantsAssumption DEF ConstantsAssumption,
     OpenFiles, readerVars, queueVars, FileInv, Ahead, QueueInv
<1>9. ASSUME NEW c \in Channels, CheckCmd(c)
      PROVE  FileInv(d, g)'
  BY <1>9, <1>t, <1>w, <1>x DEF CheckCmd, readerVars, queueVars, streamVars,
     FileInv, Ahead
<1>10. ASSUME NEW c \in Channels, CheckDrained(c)
      PROVE  FileInv(d, g)'
  BY <1>10, <1>t, <1>w, <1>x DEF CheckDrained, readerVars, queueVars, streamVars,
     FileInv, Ahead
<1>11. ASSUME NEW c \in Channels, CheckSize(c)
      PROVE  FileInv(d, g)'
  BY <1>11, <1>t, <1>w, <1>x DEF CheckSize, readerVars, queueVars, streamVars,
     FileInv, Ahead
<1>12. ASSUME NEW c \in Channels, Encode(c)
       PROVE  FileInv(d, g)'
  <2>1. /\ wpc[c] = "encode" /\ wpc' = [wpc EXCEPT ![c] = "raw"]
        /\ UNCHANGED <<start, open, disk>>
        /\ IF "BIT" \in WriteFlag[c] THEN WriteTo(c, "BIT") ELSE file' = file
    BY <1>12 DEF Encode, queueVars
  <2>2. CASE d # c
    <3>1. wpc'[d] = wpc[d] /\ file'[d] = file[d]
      BY <1>w, <2>1, <2>2 DEF WriteTo
    <3> QED
      BY <1>t, <2>1, <3>1 DEF FileInv, Ahead
  <2>3. CASE d = c
    <3>1. wpc[d] = "encode" /\ wpc'[d] = "raw"
      BY <1>w, <2>1, <2>3
    <3>2. CASE "BIT" \in open[d]
      <4>1. "BIT" \in WriteFlag[d] /\ "BIT" \in Formats
        BY <3>2 DEF IInv, FileInv, Formats
      <4>2. Ahead(d, "BIT") = 0
        BY <3>1 DEF Ahead
      <4>3. /\ g # "BIT" => file'[d][g] = file[d][g]
            /\ Len(file'[d]["BIT"]) = start[d] + 1
            /\ \A i \in 1 .. Len(file'[d]["BIT"]) : file'[d]["BIT"][i] = i
        BY <2>1, <2>3, <3>1, <3>2, <4>1, <4>2, WriteInOrder
      <4> QED
        <5>1. CASE g = "RAW"
          BY <1>t, <1>x, <2>1, <3>1, <3>2, <4>3, <5>1 DEF FileInv, Ahead
        <5>2. CASE g = "BIT"
          BY <1>t, <1>x, <2>1, <3>1, <3>2, <4>3, <5>2 DEF FileInv, Ahead
        <5> QED
          BY <5>1, <5>2 DEF Formats
    <3>3. CASE "BIT" \notin open[d]
      <4>1. file' = file
        BY <2>1, <2>3, <3>3 DEF WriteTo
      <4> QED
        BY <1>t, <1>x, <2>1, <3>1, <3>3, <4>1 DEF FileInv, Ahead, Formats
    <3> QED
      BY <3>2, <3>3
  <2> QED
    BY <2>2, <2>3
<1>13. ASSUME NEW c \in Channels, EncodeThrows(c)
      PROVE  FileInv(d, g)'
  BY <1>13, <1>t, <1>w, <1>x DEF EncodeThrows, readerVars, queueVars, writerVars,
     FileInv, Ahead
<1>14. ASSUME NEW c \in Channels, WriteRaw(c)
       PROVE  FileInv(d, g)'
  <2>1. /\ wpc[c] = "raw" /\ wpc' = [wpc EXCEPT ![c] = "pop"]
        /\ UNCHANGED <<start, open, disk>>
        /\ IF "RAW" \in WriteFlag[c] THEN WriteTo(c, "RAW") ELSE file' = file
    BY <1>14 DEF WriteRaw, queueVars
  <2>2. CASE d # c
    <3>1. wpc'[d] = wpc[d] /\ file'[d] = file[d]
      BY <1>w, <2>1, <2>2 DEF WriteTo
    <3> QED
      BY <1>t, <2>1, <3>1 DEF FileInv, Ahead
  <2>3. CASE d = c
    <3>1. wpc[d] = "raw" /\ wpc'[d] = "pop"
      BY <1>w, <2>1, <2>3
    <3>2. CASE "RAW" \in open[d]
      <4>1. "RAW" \in WriteFlag[d] /\ "RAW" \in Formats
        BY <3>2 DEF IInv, FileInv, Formats
      <4>2. Ahead(d, "RAW") = 0
        BY <3>1 DEF Ahead
      <4>3. /\ g # "RAW" => file'[d][g] = file[d][g]
            /\ Len(file'[d]["RAW"]) = start[d] + 1
            /\ \A i \in 1 .. Len(file'[d]["RAW"]) : file'[d]["RAW"][i] = i
        BY <2>1, <2>3, <3>1, <3>2, <4>1, <4>2, WriteInOrder
      <4> QED
        <5>1. CASE g = "RAW"
          BY <1>t, <1>x, <2>1, <3>1, <3>2, <4>3, <5>1 DEF FileInv, Ahead
        <5>2. CASE g = "BIT"
          BY <1>t, <1>x, <2>1, <3>1, <3>2, <4>3, <5>2 DEF FileInv, Ahead
        <5> QED
          BY <5>1, <5>2 DEF Formats
    <3>3. CASE "RAW" \notin open[d]
      <4>1. file' = file
        BY <2>1, <2>3, <3>3 DEF WriteTo
      <4> QED
        BY <1>t, <1>x, <2>1, <3>1, <3>3, <4>1 DEF FileInv, Ahead, Formats
    <3> QED
      BY <3>2, <3>3
  <2> QED
    BY <2>2, <2>3
<1>15. ASSUME NEW c \in Channels, PopItem(c)
      PROVE  FileInv(d, g)'
  BY <1>15, <1>t, <1>w, <1>x DEF PopItem, readerVars, streamVars,
     FileInv, Ahead
<1>16. ASSUME NEW c \in Channels, PopCount(c)
      PROVE  FileInv(d, g)'
  BY <1>16, <1>t, <1>w, <1>x DEF PopCount, readerVars, streamVars,
     FileInv, Ahead
<1>17. ASSUME NEW c \in Channels, CloseFiles(c)
      PROVE  FileInv(d, g)'
  BY <1>17, <1>t, <1>w, <1>x DEF CloseFiles, readerVars, queueVars,
     FileInv, Ahead
<1>18. ASSUME NEW c \in Channels, NEW f \in Formats, Flush(c, f)
      PROVE  FileInv(d, g)'
  BY <1>18, <1>t, <1>w, <1>x DEF Flush, readerVars, queueVars,
     FileInv, Ahead
<1>19. CASE UNCHANGED vars
  BY <1>19, <1>t, <1>w, <1>x DEF vars, FileInv, Ahead
<1> QED
  BY <1>1, <1>2, <1>3, <1>4, <1>5, <1>6, <1>7, <1>8, <1>9,
     <1>10, <1>11, <1>12, <1>13, <1>14, <1>15, <1>16, <1>17, <1>18, <1>19
     DEF Next, Reader, Writer, Terminated

-----------------------------------------------------------------------------
(* At the start no thread runs, no block was read and no file is open.     *)
LEMMA InitIInv ==
    ASSUME Init
    PROVE  IInv
<1>1. TypeOK
  <2>1. 0 \in 0 .. MaxBlocks
    BY ConstantsAssumption DEF ConstantsAssumption
  <2>2. slot \in [Channels -> [1 .. Cap -> 0 .. MaxBlocks]]
    BY <2>1 DEF Init
  <2>3. <<>> \in Seq(0 .. MaxBlocks)
    OBVIOUS
  <2>4. file \in [Channels -> [Formats -> Seq(0 .. MaxBlocks)]]
    BY <2>3 DEF Init
  <2> QED
    BY <2>1, <2>2, <2>4, ChannelFacts DEF Init, TypeOK
<1>2. ASSUME NEW c \in Channels
      PROVE  ReaderInv(c) /\ QueueInv(c)
  BY <1>2, ChannelFacts DEF Init, ReaderInv, QueueInv, Pushed
<1>3. ASSUME NEW c \in Channels, NEW f \in Formats
      PROVE  FileInv(c, f)
  BY <1>3 DEF Init, FileInv, Ahead
<1> QED
  BY <1>1, <1>2, <1>3 DEF IInv

(* Every step preserves the inductive invariant.                           *)
LEMMA NextIInv ==
    ASSUME Overlap = FALSE, IInv, [Next]_vars
    PROVE  IInv'
BY TypeStep, ReaderStep, QueueStep, FileStep DEF IInv

(* What has been proved of a step holds in every state of the session.     *)
LEMMA AlwaysIInv ==
    ASSUME Overlap = FALSE
    PROVE  Spec => []IInv
<1>1. Init => IInv
  BY InitIInv
<1>2. IInv /\ [Next]_vars => IInv'
  BY NextIInv
<1> QED
  BY <1>1, <1>2, PTL DEF Spec

(* TypeCorrect: every variable keeps its type; in particular a writer      *)
(* never decrements the element count of an empty queue, which the source  *)
(* leaves to the test size() > 0 made two steps earlier.                   *)
THEOREM TypeCorrect ==
    ASSUME Overlap = FALSE
    PROVE  Spec => []TypeOK
<1>1. IInv => TypeOK
  BY DEF IInv
<1> QED
  BY <1>1, AlwaysIInv, PTL

(* StreamsInOrder: for any number of channels and blocks, every file holds *)
(* the blocks in the order of their arrival, without a gap or a repetition.*)
THEOREM StreamsInOrder ==
    ASSUME Overlap = FALSE
    PROVE  Spec => []InOrder
<1>1. IInv => InOrder
  BY DEF IInv, InOrder, FileInv
<1> QED
  BY <1>1, AlwaysIInv, PTL

(* NothingLost: for any number of channels and blocks, the destructors     *)
(* return only after every block read from the device is on disk in every  *)
(* file that was opened.                                                   *)
THEOREM NothingLost ==
    ASSUME Overlap = FALSE
    PROVE  Spec => []JoinedComplete
<1>1. IInv => JoinedComplete
  <2> SUFFICES ASSUME IInv, rpc = "joined", NEW c \in Channels, NEW f \in open[c]
               PROVE  Len(file[c][f]) = blk /\ disk[c][f] = blk
    BY DEF JoinedComplete
  <2>1. f \in Formats /\ start[c] \in Nat /\ size[c] \in Nat /\ blk \in Nat
    BY ConstantsAssumption DEF ConstantsAssumption, IInv, TypeOK
  <2>2. wpc[c] = "done" /\ Pushed(c) = blk
    BY DEF IInv, ReaderInv, Pushed
  <2>3. start[c] = blk
    BY <2>1, <2>2 DEF IInv, QueueInv
  <2> QED
    BY <2>1, <2>2, <2>3 DEF IInv, FileInv, Ahead
<1> QED
  BY <1>1, AlwaysIInv, PTL

-----------------------------------------------------------------------------
(* A session implements the safety part of Recorder: every step of it is a *)
(* step of the recorder or leaves the recorder's variables unchanged.      *)

\* The logs as the refinement mapping has them.
Log == [s \in Streams |-> file[s[1]][s[2]]]

\* The thread of channel c has not opened its files yet.
Unopened(c) == wpc[c] \in {"none", "open"}

(* A stream is a channel with one of its formats.                          *)
LEMMA StreamFacts ==
    /\ \A s \in Streams : /\ s[1] \in Channels
                          /\ s[2] \in WriteFlag[s[1]]
                          /\ s[2] \in Formats
                          /\ s = <<s[1], s[2]>>
    /\ \A c \in Channels : \A f \in WriteFlag[c] : <<c, f>> \in Streams
<1>1. \A c \in Channels : WriteFlag[c] \subseteq Formats
  BY ConstantsAssumption DEF ConstantsAssumption
<1> QED
  BY <1>1 DEF Streams

(* What the recorder does not see.                                         *)
LEMMA QuietStep ==
    ASSUME blk' = blk, file' = file, open' = open, aborted' = aborted,
           rpc' = "joined" <=> rpc = "joined",
           \A c \in Channels : Unopened(c)' <=> Unopened(c)
    PROVE  UNCHANGED R!rvars
<1>1. Broken' = Broken
  BY StreamFacts DEF Broken, Unopened
<1>2. Stage' = Stage
  BY DEF Stage
<1>3. Log' = Log
  BY DEF Log
<1> QED
  BY <1>1, <1>2, <1>3 DEF R!rvars, Log

(* While a thread of the session is at work, the recorder is running.      *)
LEMMA Working ==
    ASSUME IInv, ~aborted, NEW c \in Channels, wpc[c] # "done"
    PROVE  rpc # "joined" /\ Stage = "running"
BY DEF IInv, ReaderInv, Stage

(* Writing the front of the queue to an open stream is Store.              *)
LEMMA WriteIsStore ==
    ASSUME IInv, ~aborted, NEW c \in Channels, NEW f \in WriteFlag[c],
           f \in open[c],
           \/ wpc[c] = "encode" /\ f = "BIT"
           \/ wpc[c] = "raw" /\ f = "RAW",
           WriteTo(c, f),
           blk' = blk, open' = open, aborted' = aborted, rpc' = rpc,
           \A d \in Channels : Unopened(d)' <=> Unopened(d)
    PROVE  R!Store(<<c, f>>)
<1> DEFINE s == <<c, f>>
<1>1. s \in Streams /\ f \in Formats /\ s[1] = c /\ s[2] = f
  BY StreamFacts
<1>2. Stage = "running" /\ Stage' = Stage
  BY Working DEF Stage
<1>3. Broken' = Broken /\ s \notin Broken
  BY <1>1, StreamFacts DEF Broken, Unopened
<1>4. Len(file[c][f]) < blk /\ Front(c) = Len(file[c][f]) + 1
  <2>1. start[c] \in Nat /\ size[c] \in Nat /\ blk \in Nat
    BY ConstantsAssumption DEF ConstantsAssumption, IInv, TypeOK
  <2>2. QueueInv(c) /\ FileInv(c, f) /\ ReaderInv(c)
    BY <1>1 DEF IInv
  <2>3. Len(file[c][f]) = start[c]
    BY <2>1, <2>2 DEF FileInv, Ahead
  <2>4. start[c] < Pushed(c) /\ Pushed(c) <= blk
    BY <2>1, <2>2 DEF QueueInv, ReaderInv, Pushed
  <2> QED
    BY <2>1, <2>3, <2>4, PushedType, FrontOfQueue
<1>5. Log' = [Log EXCEPT ![s] = Append(@, Len(@) + 1)]
  <2>1. file' = [file EXCEPT ![c][f] = Append(@, Len(@) + 1)]
    BY <1>4 DEF WriteTo
  <2>2. file \in [Channels -> [Formats -> Seq(0 .. MaxBlocks)]]
    BY DEF IInv, TypeOK
  <2>3. ASSUME NEW t \in Streams
        PROVE  file'[t[1]][t[2]] =
                 IF t = s THEN Append(file[c][f], Len(file[c][f]) + 1)
                 ELSE file[t[1]][t[2]]
    BY <1>1, <2>1, <2>2, StreamFacts
  <2>4. Log' = [t \in Streams |-> IF t = s THEN Append(Log[s], Len(Log[s]) + 1)
                                  ELSE Log[t]]
    BY <1>1, <2>3 DEF Log
  <2> QED
    BY <1>1, <2>4 DEF Log
<1> QED
  BY <1>1, <1>2, <1>3, <1>4, <1>5 DEF R!Store, Log
(* The session begins as the recorder does.                                *)
LEMMA InitRefines ==
    ASSUME Init
    PROVE  R!RecInit
<1>1. \A s \in Streams : file[s[1]][s[2]] = <<>> /\ wpc[s[1]] = "none"
  BY StreamFacts DEF Init
<1>2. Log = [s \in Streams |-> <<>>]
  BY <1>1 DEF Log
<1>3. Broken = {}
  BY <1>1 DEF Broken
<1>4. Stage = "running" /\ blk = 0
  BY DEF Init, Stage
<1> QED
  BY <1>2, <1>3, <1>4 DEF R!RecInit, Log

(* Opening the files of channel c, some of which may fail.                 *)
LEMMA OpenIsFail ==
    ASSUME IInv, ~aborted, NEW c \in Channels, OpenFiles(c)
    PROVE  R!RecNext
<1> DEFINE F == {s \in Streams : s[1] = c /\ s[2] \notin open'[c]}
<1>1. wpc[c] = "open" /\ Stage = "running"
  BY Working DEF OpenFiles
<1>2. Stage' = Stage /\ Log' = Log /\ blk' = blk
  BY DEF OpenFiles, Stage, Log, readerVars
<1>3. Broken' = Broken \union F
  <2>1. /\ wpc \in [Channels -> {"none", "open", "cmd", "last", "size", "encode",
                                "raw", "pop", "uncount", "close", "done"}]
        /\ open \in [Channels -> SUBSET Formats]
    BY DEF IInv, TypeOK
  <2>2. ASSUME NEW d \in Channels
        PROVE  d # c => open'[d] = open[d] /\ wpc'[d] = wpc[d]
    BY <2>1 DEF OpenFiles
  <2>3. wpc'[c] = "cmd"
    BY <2>1 DEF OpenFiles
  <2>4. \A s \in Streams : s \in Broken' <=> s \in Broken \/ s \in F
    BY <1>1, <2>2, <2>3, StreamFacts DEF Broken
  <2> QED
    BY <2>4 DEF Broken
<1>4. \A s \in F : Log[s] = <<>>
  BY <1>1, StreamFacts DEF Log, IInv, FileInv
<1>5. R!Fail(F)
  BY <1>1, <1>2, <1>3, <1>4 DEF R!Fail, Log
<1>6. F \in SUBSET Streams
  OBVIOUS
<1> QED
  BY <1>5, <1>6 DEF R!RecNext

(* When the last writer has been joined, every log is complete.            *)
LEMMA JoinIsFinish ==
    ASSUME IInv, IInv', ~aborted, Join, rpc' = "joined"
    PROVE  R!Finish
<1>1. Stage = "running" /\ Stage' = "over"
  BY DEF Join, Stage, writerVars
<1>2. Broken' = Broken /\ Log' = Log /\ blk' = blk
  BY DEF Join, Broken, Log, writerVars
<1>3. ASSUME NEW s \in Streams \ Broken
      PROVE  Len(Log[s]) = blk
  <2>1. s[1] \in Channels /\ s[2] \in Formats
    BY StreamFacts
  <2>2. ReaderInv(s[1])' /\ QueueInv(s[1])' /\ FileInv(s[1], s[2])'
    BY <2>1 DEF IInv
  <2>3. wpc'[s[1]] = "done" /\ Pushed(s[1])' = blk'
    BY <2>2 DEF ReaderInv, Pushed
  <2>4. UNCHANGED <<wpc, open, file, blk>>
    BY DEF Join, writerVars
  <2>5. s[2] \in open'[s[1]]
    BY <2>3, <2>4 DEF Broken
  <2>6. start'[s[1]] \in Nat /\ size'[s[1]] = 0 /\ start'[s[1]] + size'[s[1]] = blk'
    <3>1. TypeOK'
      BY DEF IInv
    <3>2. start' \in [Channels -> Nat] /\ size' \in [Channels -> Nat] /\ blk' \in 0 .. MaxBlocks
      BY <3>1 DEF TypeOK
    <3>3. start'[s[1]] \in Nat /\ size'[s[1]] \in Nat /\ blk' \in Nat
      BY <2>1, <3>2
    <3> QED
      BY <2>2, <2>3, <3>3 DEF QueueInv
  <2>7. Len(file'[s[1]][s[2]]) = start'[s[1]]
    BY <2>2, <2>3, <2>5, <2>6 DEF FileInv, Ahead
  <2> QED
    BY <2>4, <2>6, <2>7 DEF Log
<1> QED
  BY <1>1, <1>2, <1>3 DEF R!Finish, Log
(* Every step of the session is one of the recorder, or none.              *)
LEMMA StepRefines ==
    ASSUME IInv, IInv', [Next]_vars
    PROVE  [R!RecNext]_(R!rvars)
<1>w. wpc \in [Channels -> {"none", "open", "cmd", "last", "size", "encode",
                            "raw", "pop", "uncount", "close", "done"}]
  BY DEF IInv, TypeOK
<1>1. CASE Construct /\ ~aborted
  <2>1. ch \in Channels /\ Unopened(ch) /\ rpc # "joined" /\ rpc' # "joined"
    BY <1>1 DEF Construct, IInv, TypeOK, ReaderInv, Unopened
  <2>2. \A c \in Channels : Unopened(c)' <=> Unopened(c)
    BY <1>1, <1>w, <2>1 DEF Construct, Unopened
  <2> QED
    BY <1>1, <2>1, <2>2, QuietStep DEF Construct, streamVars
<1>2. CASE ReadBlock /\ ~aborted
  <2>1. Stage = "running" /\ Stage' = "running"
    BY <1>2 DEF ReadBlock, Stage
  <2>2. Broken' = Broken /\ Log' = Log
    BY <1>2 DEF ReadBlock, Broken, Log, writerVars
  <2>3. R!Accept
    BY <1>2, <2>1, <2>2 DEF ReadBlock, R!Accept, Log
  <2> QED
    BY <2>3 DEF R!RecNext
<1>3. CASE (PushItem \/ PushCount \/ StopReading \/ SetExit) /\ ~aborted
  <2>1. /\ UNCHANGED <<blk, file, open, aborted, wpc>>
        /\ rpc # "joined" /\ rpc' # "joined"
    BY <1>3 DEF PushItem, PushCount, StopReading, SetExit, writerVars, streamVars
  <2> QED
    BY <2>1, QuietStep DEF Unopened
<1>4. CASE Join /\ ~aborted
  <2>1. CASE rpc' = "joined"
    BY <1>4, <2>1, JoinIsFinish DEF R!RecNext
  <2>2. CASE rpc' # "joined"
    <3>1. UNCHANGED <<blk, file, open, aborted, wpc>> /\ rpc # "joined"
      BY <1>4 DEF Join, writerVars
    <3> QED
      BY <2>2, <3>1, QuietStep DEF Unopened
  <2> QED
    BY <2>1, <2>2
<1>5. ASSUME NEW c \in Channels, OpenFiles(c), ~aborted
      PROVE  R!RecNext
  BY <1>5, OpenIsFail
<1>6. ASSUME NEW c \in Channels, ~aborted,
             CheckCmd(c) \/ CheckDrained(c) \/ CheckSize(c) \/ PopItem(c)
                \/ PopCount(c) \/ CloseFiles(c)
      PROVE  UNCHANGED R!rvars
  <2>1. UNCHANGED <<blk, file, open, aborted, rpc>>
    BY <1>6 DEF CheckCmd, CheckDrained, CheckSize, PopItem, PopCount, CloseFiles,
       readerVars, streamVars
  <2>2. \A d \in Channels : Unopened(d)' <=> Unopened(d)
    BY <1>6, <1>w DEF CheckCmd, CheckDrained, CheckSize, PopItem, PopCount,
       CloseFiles, Unopened
  <2> QED
    BY <2>1, <2>2, QuietStep
<1>7. ASSUME NEW c \in Channels, ~aborted, Encode(c) \/ WriteRaw(c)
      PROVE  R!RecNext \/ UNCHANGED R!rvars
  <2>1. UNCHANGED <<blk, open, aborted, rpc>>
    BY <1>7 DEF Encode, WriteRaw, readerVars
  <2>2. \A d \in Channels : Unopened(d)' <=> Unopened(d)
    BY <1>7, <1>w DEF Encode, WriteRaw, Unopened
  <2>3. PICK f \in Formats :
            /\ \/ wpc[c] = "encode" /\ f = "BIT"
               \/ wpc[c] = "raw" /\ f = "RAW"
            /\ IF f \in WriteFlag[c] THEN WriteTo(c, f) ELSE file' = file
    BY <1>7 DEF Encode, WriteRaw, Formats
  <2>4. CASE f \in WriteFlag[c] /\ f \in open[c]
    <3>1. R!Store(<<c, f>>)
      BY <1>7, <2>1, <2>2, <2>3, <2>4, WriteIsStore
    <3> QED
      BY <2>4, <3>1, StreamFacts DEF R!RecNext
  <2>5. CASE ~(f \in WriteFlag[c] /\ f \in open[c])
    <3>1. file' = file
      BY <2>3, <2>5 DEF WriteTo
    <3> QED
      BY <2>1, <2>2, <3>1, QuietStep
  <2> QED
    BY <2>4, <2>5
<1>8. ASSUME NEW c \in Channels, EncodeThrows(c), ~aborted
      PROVE  R!RecNext
  <2>1. Stage = "running" /\ Stage' = "aborted"
    BY <1>8, Working DEF EncodeThrows, Stage
  <2>2. Broken' = Broken /\ Log' = Log /\ blk' = blk
    BY <1>8 DEF EncodeThrows, Broken, Log, writerVars, readerVars
  <2> QED
    BY <2>1, <2>2 DEF R!Abort, R!RecNext, Log
<1>9. ASSUME NEW c \in Channels, NEW f \in Formats, Flush(c, f)
      PROVE  UNCHANGED R!rvars
  <2>1. UNCHANGED <<blk, file, open, aborted, rpc, wpc>>
    BY <1>9 DEF Flush, readerVars
  <2> QED
    BY <2>1, QuietStep DEF Unopened
<1>10. CASE UNCHANGED vars
  <2>1. UNCHANGED <<blk, file, open, aborted, rpc, wpc>>
    BY <1>10 DEF vars
  <2> QED
    BY <2>1, QuietStep DEF Unopened
<1> QED
  BY <1>1, <1>2, <1>3, <1>4, <1>5, <1>6, <1>7, <1>8, <1>9, <1>10
     DEF Next, Reader, Writer, Terminated

(* SessionRecords: for any number of channels, blocks and files that fail, *)
(* a session stores the blocks it was given in every log one by one and in *)
(* order, and is over only when all the logs are complete: the safety part *)
(* of Recording.                                                           *)
THEOREM SessionRecords ==
    ASSUME Overlap = FALSE
    PROVE  Spec => R!RecSafeSpec
<1>1. Init => R!RecInit
  BY InitRefines
<1>2. IInv /\ IInv' /\ [Next]_vars => [R!RecNext]_(R!rvars)
  BY StepRefines
<1> QED
  BY <1>1, <1>2, AlwaysIInv, PTL DEF Spec, R!RecSafeSpec
=============================================================================
