------------------------------- MODULE Codec --------------------------------
(***************************************************************************)
(* The file formats: what writeEncode and writeRaw (writeHddThread.cpp)    *)
(* append to a .dat and a .raw file for each block, and what decode,       *)
(* decode_raw and timeDiff (main.cpp and the separate program Decoder)     *)
(* make of such a file, whole or cut short by a crash of the recorder.     *)
(*                                                                         *)
(* A .dat file is a sequence of words: for each block one word for its     *)
(* header, then one int32 for each run of equal states.  A cut inside a    *)
(* header is the same as one before it: the read fails either way.  A .raw *)
(* file is the sequence of the samples.  Samples are numbers; a position   *)
(* is an int32; IntHalf stands for 2^31.                                   *)
(***************************************************************************)
EXTENDS Integers, Sequences, SequencesExt

CONSTANTS Samples,     \* the voltages
          CheckA,      \* a sample x is "on" iff CheckA * x + CheckB > 0
          CheckB,
          MaxSamples,  \* bound on the samples of a block
          MaxBlocks,   \* bound on the blocks of a file
          IntHalf,     \* the decoder's integers go from -IntHalf to IntHalf - 1
          BufferSize,  \* bufferSize: samples decode_raw reads at a time
          Garbage      \* what uninitialised integers may hold

ASSUME ConstantsAssumption ==
    /\ Samples \subseteq Int /\ CheckA \in Int /\ CheckB \in Int
    /\ MaxSamples \in Nat \ {0} /\ MaxBlocks \in Nat
    /\ IntHalf \in Nat \ {0} /\ BufferSize \in Nat \ {0}
    /\ Garbage \subseteq Int /\ Garbage # {}

Wrap(n) == ((n + IntHalf) % (2 * IntHalf)) - IntHalf

CheckOnOff(x) == IF CheckA * x + CheckB > 0 THEN 1 ELSE 0

\* Blocks are at least one and at most two units of time apart.
Block == [gap : {1, 2}, data : UNION {[1 .. n -> Samples] : n \in 1 .. MaxSamples}]

-----------------------------------------------------------------------------
(* writeEncode: the state of the first sample, and the lengths of the runs.*)

\* Mutant: offset = 0 comes after the increment.
EncodeStepFromZero(run, x) ==
    IF CheckOnOff(x) = run.status
    THEN [run EXCEPT !.offset = @ + 1]
    ELSE [status |-> 1 - run.status, offset |-> 0,
          body |-> Append(run.body, run.offset)]

EncodeStep(run, x) ==
    IF CheckOnOff(x) = run.status
    THEN [run EXCEPT !.offset = @ + 1]
    ELSE [status |-> 1 - run.status, offset |-> 1,
          body |-> Append(run.body, run.offset)]

\* What the loop has when it has seen the first i samples.
Encode(data) ==
    LET run[i \in 1 .. Len(data)] ==
            IF i = 1 THEN [status |-> CheckOnOff(data[1]), offset |-> 1, body |-> <<>>]
            ELSE EncodeStep(run[i - 1], data[i])
    IN  run

Runs(data) ==
    LET last == Encode(data)[Len(data)]
    IN  Append(last.body, last.offset)

\* A word is a header (size > 0) or a number of a body.
Header(n, t, x) == [size |-> n, time |-> t, value |-> x]
Number(n) == [size |-> 0, time |-> 0, value |-> n]

WriteEncode(t, data) ==
    LET body == Runs(data)
    IN  <<Header(Len(body), t, CheckOnOff(data[1]))>>
            \o [i \in DOMAIN body |-> Number(body[i])]

-----------------------------------------------------------------------------
VARIABLES
    blocks,    \* the blocks recorded, and how long the files were before
    dat, raw,  \* the two files
    tool,      \* "record", then the decoder that runs: "-d", "-dr" or "-dt"
    done,      \* the decoder has returned
    rd,        \* words it has read
    buffer,    \* the body it works on
    first,     \* its variables
    position,  \* (count, in decode_raw)
    status,
    ptime,
    out        \* the lines it has written

recorder == <<blocks, dat, raw, tool>>
vars == <<recorder, done, rd, buffer, first, position, status, ptime, out>>

TypeOK ==
    /\ blocks \in Seq([time : Nat, data : Seq(Samples), word : Nat, sample : Nat])
    /\ \A i \in DOMAIN dat : dat[i] \in [size : Nat, time : Nat, value : Nat]
    /\ raw \in Seq(Samples)
    /\ tool \in {"record", "-d", "-dr", "-dt"}
    /\ done \in BOOLEAN
    /\ rd \in 0 .. (IF tool = "-dr" THEN Len(raw) ELSE Len(dat))
    /\ buffer \in Seq(Nat \union Garbage)
    /\ first \in BOOLEAN
    /\ position \in -IntHalf .. IntHalf - 1
    /\ status \in {0, 1}
    /\ ptime \in Nat
    /\ out \in Seq({"#", "p", "dt"} \X Int \X Int)

Init ==
    /\ blocks = <<>> /\ dat = <<>> /\ raw = <<>>
    /\ tool = "record" /\ done = FALSE
    /\ rd = 0 /\ buffer = <<>>
    /\ first = TRUE /\ position = 0 /\ ptime = 0
    /\ status \in {0, 1}                          \* bool status; is not set
    /\ out = <<>>

LastTime == IF blocks = <<>> THEN 0 ELSE blocks[Len(blocks)].time

(* The writer thread appends a block to both files.                        *)
Record(b) ==
    /\ tool = "record"
    /\ Len(blocks) < MaxBlocks
    /\ LET t == LastTime + b.gap
       IN  /\ blocks' = Append(blocks, [time |-> t, data |-> b.data,
                                      word |-> Len(dat), sample |-> Len(raw)])
           /\ dat' = dat \o WriteEncode(t, b.data)
           /\ raw' = raw \o b.data
    /\ UNCHANGED <<tool, done, rd, buffer, first, position, status, ptime, out>>

(* The files are decoded, whole or as a crash of the recorder left them.   *)
Decode(t) ==
    /\ tool = "record"
    /\ tool' = t
    /\ \/ UNCHANGED <<dat, raw>>
       \/ t = "-dr" /\ dat' = dat /\ \E n \in 0 .. Len(raw) : raw' = SubSeq(raw, 1, n)
       \/ t # "-dr" /\ raw' = raw /\ \E n \in 0 .. Len(dat) : dat' = SubSeq(dat, 1, n)
    /\ UNCHANGED <<blocks, done, rd, buffer, first, position, status, ptime, out>>

-----------------------------------------------------------------------------
(* decode and timeDiff.                                                    *)

Point(p, x) == <<"p", p, x>>
Change(p, x) == <<Point(Wrap(p - 1), x), Point(p, 1 - x)>>

\* Mutant: the end of the file is not looked at while a body is read.
ReadBodyPastEnd(h) ==
    /\ buffer' = [i \in 1 .. h.size |->
                    IF rd + 1 + i \in DOMAIN dat THEN dat[rd + 1 + i].value ELSE 0]
    /\ rd' = rd + 1 + h.size

(* The body of the header just read; a number the file does not hold is    *)
(* what the new buffer happens to contain.                                 *)
ReadBody(h) ==
    LET got == SubSeq(dat, rd + 2, IF rd + 1 + h.size < Len(dat)
                                   THEN rd + 1 + h.size ELSE Len(dat))
    IN  /\ \E g \in [1 .. h.size - Len(got) -> Garbage] :
               buffer' = [i \in DOMAIN got |-> got[i].value] \o g
        /\ rd' = rd + 1 + Len(got)

\* Mutant: a change between two blocks is not plotted.
DecodeHeaderNoChange ==
    /\ tool = "-d" /\ ~done
    /\ buffer = <<>> /\ rd < Len(dat)
    /\ LET h == dat[rd + 1]
           stamp == <<"#", h.time, 0>>
       IN  /\ ReadBody(h)
           /\ status' = h.value
           /\ out' = out \o <<stamp>> \o
                       (IF first THEN <<Point(position, h.value)>> ELSE <<>>)
    /\ first' = FALSE
    /\ UNCHANGED <<recorder, done, position, ptime>>

(* A header: its time, and the first state or a change between two blocks. *)
DecodeHeader ==
    /\ tool = "-d" /\ ~done
    /\ buffer = <<>> /\ rd < Len(dat)
    /\ LET h == dat[rd + 1]
           stamp == <<"#", h.time, 0>>
       IN  /\ ReadBody(h)
           /\ status' = h.value
           /\ out' = out \o <<stamp>> \o
                       CASE first -> <<Point(position, h.value)>>
                         [] ~first /\ status # h.value -> Change(position, status)
                         [] OTHER -> <<>>
    /\ first' = FALSE
    /\ UNCHANGED <<recorder, done, position, ptime>>

DecodeNumber ==
    /\ tool = "-d"
    /\ buffer # <<>>
    /\ position' = Wrap(position + Head(buffer))
    /\ buffer' = Tail(buffer)
    /\ IF Len(buffer) > 1
       THEN out' = out \o Change(position', status) /\ status' = 1 - status
       ELSE UNCHANGED <<out, status>>
    /\ UNCHANGED <<recorder, done, rd, first, ptime>>

(* A read at the end of the file fails; the last line is written.          *)
DecodeEnd ==
    /\ tool = "-d" /\ ~done
    /\ buffer = <<>> /\ rd = Len(dat)
    /\ done' = TRUE
    /\ position' = Wrap(position - 1)
    /\ out' = Append(out, Point(position', status))
    /\ UNCHANGED <<recorder, rd, buffer, first, status, ptime>>

\* Mutant: count starts anew with each buffer.
DecodeRawRestart ==
    /\ tool = "-dr" /\ ~done
    /\ LET n == IF Len(raw) - rd < BufferSize THEN Len(raw) - rd ELSE BufferSize
       IN  /\ out' = out \o [i \in 1 .. n |-> Point(i - 1, raw[rd + i])]
           /\ rd' = rd + n
           /\ done' = (n < BufferSize)
    /\ UNCHANGED <<recorder, buffer, first, position, status, ptime>>

(* decode_raw: a full buffer, or what is left and then the end.            *)
DecodeRaw ==
    /\ tool = "-dr" /\ ~done
    /\ LET n == IF Len(raw) - rd < BufferSize THEN Len(raw) - rd ELSE BufferSize
       IN  /\ out' = out \o [i \in 1 .. n |-> Point(Wrap(position + i - 1), raw[rd + i])]
           /\ position' = Wrap(position + n)
           /\ rd' = rd + n
           /\ done' = (n < BufferSize)
    /\ UNCHANGED <<recorder, buffer, first, status, ptime>>

\* Mutant: first is not reset.
TimeDiffHeaderAlwaysFirst ==
    /\ tool = "-dt" /\ ~done
    /\ buffer = <<>> /\ rd < Len(dat)
    /\ LET h == dat[rd + 1]
       IN  /\ ReadBody(h)
           /\ ptime' = h.time
           /\ out' = IF first THEN out ELSE Append(out, <<"dt", h.time - ptime, 0>>)
    /\ UNCHANGED <<recorder, done, first, position, status>>

(* timeDiff: the times between blocks; it reads the bodies as decode does. *)
TimeDiffHeader ==
    /\ tool = "-dt" /\ ~done
    /\ buffer = <<>> /\ rd < Len(dat)
    /\ LET h == dat[rd + 1]
       IN  /\ ReadBody(h)
           /\ ptime' = h.time
           /\ out' = IF first THEN out ELSE Append(out, <<"dt", h.time - ptime, 0>>)
    /\ first' = FALSE
    /\ UNCHANGED <<recorder, done, position, status>>

TimeDiffNumber ==
    /\ tool = "-dt"
    /\ buffer # <<>>
    /\ position' = Wrap(position + Head(buffer))
    /\ buffer' = Tail(buffer)
    /\ status' = IF Len(buffer) > 1 THEN 1 - status ELSE status
    /\ UNCHANGED <<recorder, done, rd, first, ptime, out>>

TimeDiffEnd ==
    /\ tool = "-dt" /\ ~done
    /\ buffer = <<>> /\ rd = Len(dat)
    /\ done' = TRUE
    /\ position' = Wrap(position - 1)
    /\ UNCHANGED <<recorder, rd, buffer, first, status, ptime, out>>

Terminated == done /\ UNCHANGED vars

Next ==
    \/ \E b \in Block : Record(b)
    \/ \E t \in {"-d", "-dr", "-dt"} : Decode(t)
    \/ DecodeHeader \/ DecodeNumber \/ DecodeEnd
    \/ DecodeRaw
    \/ TimeDiffHeader \/ TimeDiffNumber \/ TimeDiffEnd
    \/ Terminated

Spec == Init /\ [][Next]_vars

-----------------------------------------------------------------------------
(* The reference: what should be plotted, sample by sample.                *)

\* The on/off state of sample k; -d leaves the file of the samples alone.
State(k) == CheckOnOff(raw[k])

\* The lines for sample k: the time of a block before its first sample, then
\* the first state or both ends of a change.
LinesAt(k) ==
    LET starts == {j \in DOMAIN blocks : blocks[j].sample = k - 1}
    IN  (IF starts # {} THEN <<<<"#", blocks[CHOOSE j \in starts : TRUE].time, 0>>>>
         ELSE <<>>)
        \o CASE k = 1 -> <<Point(0, State(1))>>
              [] k > 1 /\ State(k) # State(k - 1) ->
                     <<Point(k - 2, State(k - 1)), Point(k - 1, State(k))>>
              [] OTHER -> <<>>

\* What is to be plotted of the first n samples, and at the end.
Waveform(n) == FlattenSeq([k \in 1 .. n |-> LinesAt(k)])
LastPoint(n) == Point(n - 1, State(n))

\* Where block j ends in the .dat file that was not cut.
End(j) == blocks[j].word + 1 + Len(Runs(blocks[j].data))

\* The number of blocks that are complete in the .dat file, and of their samples.
Complete == CHOOSE c \in 0 .. Len(blocks) :
                \A j \in DOMAIN blocks : j <= c <=> End(j) <= Len(dat)
SamplesOf(c) == IF c = 0 THEN 0 ELSE blocks[c].sample + Len(blocks[c].data)

(* RoundTrip: decoding a whole .dat file plots the on/off state of every   *)
(* sample that was recorded, at its position, across the borders of the    *)
(* blocks (README.md:15-16: "the binary data [...] can be decoded").       *)
RoundTrip ==
    tool = "-d" /\ done /\ blocks # <<>> /\ Complete = Len(blocks) =>
        out = Append(Waveform(Len(raw)), LastPoint(Len(raw)))

(* TornPrefix: a .dat file that a crash cut short anywhere yields at least *)
(* the lines of all its complete blocks, whatever follows them.            *)
TornPrefix ==
    tool = "-d" /\ done => IsPrefix(Waveform(SamplesOf(Complete)), out)

(* RawRoundTrip: decode_raw prints every sample of the .raw file once and  *)
(* in order, also when its length is a multiple of the buffer's.           *)
RawRoundTrip ==
    tool = "-dr" /\ done => out = [i \in DOMAIN raw |-> Point(i - 1, raw[i])]

(* TimeDiffs: timeDiff prints the time from each block of the file to the  *)
(* next one, however the number of runs in their bodies differs.           *)
TimeDiffs ==
    tool = "-dt" /\ done =>
        LET n == IF \E j \in DOMAIN blocks : End(j) > Len(dat) /\ blocks[j].word < Len(dat)
                 THEN Complete + 1
                 ELSE Complete
        IN  out = [i \in 1 .. n - 1 |-> <<"dt", blocks[i + 1].time - blocks[i].time, 0>>]
=============================================================================
