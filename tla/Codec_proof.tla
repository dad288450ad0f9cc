---------------------------- MODULE Codec_proof -----------------------------
(***************************************************************************)
(* Proofs about Codec, for samples, blocks and files of any number and     *)
(* length: the types, what timeDiff prints and what decode plots of a .dat *)
(* file, whole or cut anywhere, and what decode_raw prints of a .raw file. *)
(*                                                                         *)
(*   TypeInv  where the blocks are in the files, the types, and where the  *)
(*            decoder can be: no property of a decoder is inductive        *)
(*            without it, since ReadBody trusts the size in the file.      *)
(*   DiffInv  between two reads of timeDiff, what it has printed.          *)
(*   PlotInv  between two steps of decode, which samples are plotted, and  *)
(*            what the buffer, position and status have to do with them.   *)
(*   RawInv   between two buffers of decode_raw, what it has printed.      *)
(***************************************************************************)
EXTENDS Codec, SequenceLemmas

\* The position of each sample in the file can be told by an int.
Countable == Len(raw) < IntHalf

-----------------------------------------------------------------------------
(* writeEncode.                                                            *)

Run == [status : {0, 1}, offset : Nat \ {0}, body : Seq(Nat \ {0})]
FirstRun(data) == [status |-> CheckOnOff(data[1]), offset |-> 1, body |-> <<>>]

LEMMA OnOff == \A x : CheckOnOff(x) \in {0, 1}
  BY DEF CheckOnOff

LEMMA EncodeStepType ==
    ASSUME NEW run \in Run, NEW x
    PROVE  EncodeStep(run, x) \in Run
<1>1. CASE CheckOnOff(x) = run.status
  BY <1>1 DEF EncodeStep, Run
<1>2. CASE CheckOnOff(x) # run.status
  <2>1. Append(run.body, run.offset) \in Seq(Nat \ {0}) /\ 1 - run.status \in {0, 1}
    BY AppendProperties DEF Run
  <2> QED
    BY <1>2, <2>1 DEF EncodeStep, Run
<1> QED
  BY <1>1, <1>2

\* e is the function by which Encode is defined.
Encodes(e, data) ==
    /\ e \in [1 .. Len(data) -> Run]
    /\ e[1] = FirstRun(data)
    /\ \A i \in 1 .. Len(data) - 1 : e[i + 1] = EncodeStep(e[i], data[i + 1])

LEMMA EncodeDefined ==
    ASSUME NEW data \in Seq(Samples), data # <<>>
    PROVE  Encodes(Encode(data), data)
<1> DEFINE n == Len(data)
           step == [i \in 1 .. n |-> [r \in Run |-> EncodeStep(r, data[i])]]
           Is(f) == f = [i \in 1 .. n |->
                            IF i = 1 THEN FirstRun(data) ELSE EncodeStep(f[i - 1], data[i])]
<1>1. n \in Nat \ {0} /\ 1 \in 1 .. n
  BY LenProperties, EmptySeq
<1>2. FirstRun(data) \in Run
  BY OnOff, EmptySeq DEF FirstRun, Run
<1>3. step \in [1 .. n -> [Run -> Run]]
  BY EncodeStepType
<1>4. \A i \in 1 .. n : \A r \in Run : step[i][r] = EncodeStep(r, data[i])
  OBVIOUS
<1> HIDE DEF step, n
<1>5. PICK f \in [1 .. n -> Run] : Recurs(f, n, FirstRun(data), step)
  BY <1>1, <1>2, <1>3, RecursionExists
<1>6. f[1] = FirstRun(data)
  BY <1>1, <1>5 DEF Recurs
<1>7. ASSUME NEW i \in 1 .. n - 1
      PROVE  f[i + 1] = EncodeStep(f[i], data[i + 1])
  <2>1. i \in 1 .. n /\ i + 1 \in 1 .. n
    BY <1>1
  <2>2. f[i + 1] = step[i + 1][f[i]] /\ f[i] \in Run
    BY <1>5, <2>1 DEF Recurs
  <2> QED
    BY <1>4, <2>1, <2>2
<1>8. ASSUME NEW i \in 1 .. n
      PROVE  f[i] = IF i = 1 THEN FirstRun(data) ELSE EncodeStep(f[i - 1], data[i])
  <2>1. CASE i = 1
    BY <1>6, <2>1
  <2>2. CASE i # 1
    <3>1. i - 1 \in 1 .. n - 1 /\ (i - 1) + 1 = i
      BY <1>1, <2>2
    <3>2. f[(i - 1) + 1] = EncodeStep(f[i - 1], data[(i - 1) + 1])
      BY <1>7, <3>1
    <3> QED
      BY <2>2, <3>1, <3>2
  <2> QED
    BY <2>1, <2>2
<1>9. Is(f)
  BY <1>8
<1>10. Encode(data) = CHOOSE h : Is(h)
  BY DEF Encode, FirstRun, n
<1>11. Is(Encode(data))
  <2> HIDE DEF Is
  <2> QED
    BY <1>9, <1>10
<1> DEFINE h == Encode(data)
<1> HIDE DEF h
<1>12. ASSUME NEW i \in 1 .. n
       PROVE  h[i] = IF i = 1 THEN FirstRun(data) ELSE EncodeStep(h[i - 1], data[i])
  BY <1>11 DEF h
<1>13. \A i \in 1 .. n : h[i] = f[i]
  <2> DEFINE S == {i \in Nat : i \in 1 .. n => h[i] = f[i]}
  <2>1. 0 \in S
    OBVIOUS
  <2>2. ASSUME NEW i \in Nat, i \in S
        PROVE  i + 1 \in S
    <3> SUFFICES ASSUME i + 1 \in 1 .. n PROVE h[i + 1] = f[i + 1]
      OBVIOUS
    <3>1. h[i + 1] = IF i + 1 = 1 THEN FirstRun(data)
                     ELSE EncodeStep(h[(i + 1) - 1], data[i + 1])
      BY <1>12
    <3>2. f[i + 1] = IF i + 1 = 1 THEN FirstRun(data)
                     ELSE EncodeStep(f[(i + 1) - 1], data[i + 1])
      BY <1>8
    <3>3. (i + 1) - 1 = i /\ (i = 0 \/ h[i] = f[i])
      BY <1>1, <2>2
    <3> QED
      BY <3>1, <3>2, <3>3
  <2> HIDE DEF S
  <2>3. \A i \in Nat : i \in S
    BY <2>1, <2>2, InductionOnSet
  <2>4. ASSUME NEW i \in 1 .. n
        PROVE  h[i] = f[i]
    <3>1. i \in S
      BY <1>1, <2>3
    <3> QED
      BY <3>1 DEF S
  <2> QED
    BY <2>4
<1>14. h = f
  BY <1>11, <1>13 DEF h
<1> QED
  BY <1>5, <1>6, <1>7, <1>14 DEF h, n, Encodes

\* The first n samples of data are cut at edge[1], ... into runs of equal
\* states, whose lengths are lens.
Cuts(edge, lens, data, n) ==
    /\ lens \in Seq(Nat \ {0}) /\ lens # <<>>
    /\ edge \in [0 .. Len(lens) -> 0 .. n]
    /\ edge[0] = 0 /\ edge[Len(lens)] = n
    /\ \A m \in 0 .. Len(lens) - 1 :
          /\ edge[m + 1] = edge[m] + lens[m + 1]
          /\ \A k \in edge[m] + 1 .. edge[m + 1] :
                CheckOnOff(data[k]) = CheckOnOff(data[edge[m + 1]])
    /\ \A m \in 1 .. Len(lens) - 1 :
          CheckOnOff(data[edge[m] + 1]) # CheckOnOff(data[edge[m]])

(* A sample that is like the last one makes the last run longer.           *)
LEMMA CutLonger ==
    ASSUME NEW data, NEW n \in Nat \ {0}, NEW body \in Seq(Nat \ {0}),
           NEW offset \in Nat \ {0}, NEW edge,
           Cuts(edge, Append(body, offset), data, n),
           CheckOnOff(data[n + 1]) = CheckOnOff(data[n])
    PROVE  \E e : Cuts(e, Append(body, offset + 1), data, n + 1)
<1> DEFINE lens == Append(body, offset)
           more == Append(body, offset + 1)
           L == Len(body) + 1
           e == [edge EXCEPT ![L] = n + 1]
<1>1. /\ lens \in Seq(Nat \ {0}) /\ Len(lens) = L /\ lens[L] = offset
      /\ more \in Seq(Nat \ {0}) /\ Len(more) = L /\ more[L] = offset + 1
      /\ L \in Nat \ {0} /\ \A i \in 1 .. L - 1 : more[i] = lens[i]
      /\ more # <<>>
  BY AppendProperties, LenProperties
<1> HIDE DEF lens, more, L
<1>2. /\ edge \in [0 .. L -> 0 .. n] /\ edge[0] = 0 /\ edge[L] = n
      /\ \A m \in 0 .. L - 1 :
            /\ edge[m + 1] = edge[m] + lens[m + 1]
            /\ \A k \in edge[m] + 1 .. edge[m + 1] :
                  CheckOnOff(data[k]) = CheckOnOff(data[edge[m + 1]])
      /\ \A m \in 1 .. L - 1 :
            CheckOnOff(data[edge[m] + 1]) # CheckOnOff(data[edge[m]])
  BY <1>1 DEF Cuts, lens
<1>3. /\ e \in [0 .. L -> 0 .. n + 1] /\ e[0] = 0 /\ e[L] = n + 1
      /\ \A m \in 0 .. L - 1 : e[m] = edge[m]
  BY <1>1, <1>2
<1> HIDE DEF e
<1>4. ASSUME NEW m \in 0 .. L - 1
      PROVE  /\ e[m + 1] = e[m] + more[m + 1]
             /\ \A k \in e[m] + 1 .. e[m + 1] :
                   CheckOnOff(data[k]) = CheckOnOff(data[e[m + 1]])
  <2>1. /\ edge[m + 1] = edge[m] + lens[m + 1] /\ edge[m] \in Nat
        /\ \A k \in edge[m] + 1 .. edge[m + 1] :
              CheckOnOff(data[k]) = CheckOnOff(data[edge[m + 1]])
    BY <1>1, <1>2
  <2>2. CASE m = L - 1
    <3>1. m + 1 = L
      BY <1>1, <2>2
    <3>2. e[m] = edge[m] /\ edge[m] + offset = n
      BY <1>1, <1>2, <1>3, <2>1, <3>1
    <3>3. ASSUME NEW k \in e[m] + 1 .. n + 1
          PROVE  CheckOnOff(data[k]) = CheckOnOff(data[n + 1])
      <4>1. k = n + 1 \/ k \in edge[m] + 1 .. n
        BY <2>1, <3>2
      <4> QED
        BY <1>2, <2>1, <3>1, <4>1
    <3>4. e[m + 1] = n + 1 /\ more[m + 1] = offset + 1 /\ edge[m] \in Nat
      BY <1>1, <1>3, <2>1, <3>1
    <3>5. e[m + 1] = e[m] + more[m + 1]
      BY <3>2, <3>4
    <3> QED
      BY <3>3, <3>4, <3>5
  <2>3. CASE m # L - 1
    <3>1. m + 1 \in 0 .. L - 1 /\ m + 1 \in 1 .. L - 1
      BY <1>1, <2>3
    <3>2. e[m] = edge[m] /\ e[m + 1] = edge[m + 1] /\ more[m + 1] = lens[m + 1]
      BY <1>1, <1>3, <3>1
    <3> QED
      BY <2>1, <3>2
  <2> QED
    BY <2>2, <2>3
<1>5. ASSUME NEW m \in 1 .. L - 1
      PROVE  CheckOnOff(data[e[m] + 1]) # CheckOnOff(data[e[m]])
  <2>1. e[m] = edge[m]
    BY <1>3
  <2> QED
    BY <1>2, <2>1
<1>6. Cuts(e, more, data, n + 1)
  BY <1>1, <1>3, <1>4, <1>5 DEF Cuts
<1> QED
  BY <1>6 DEF more

(* A sample that is unlike the last one begins a run.                      *)
LEMMA CutHere ==
    ASSUME NEW data, NEW n \in Nat \ {0}, NEW lens, NEW edge,
           Cuts(edge, lens, data, n),
           CheckOnOff(data[n + 1]) # CheckOnOff(data[n])
    PROVE  \E e : Cuts(e, Append(lens, 1), data, n + 1)
<1> DEFINE L == Len(lens)
           more == Append(lens, 1)
           e == [m \in 0 .. L + 1 |-> IF m = L + 1 THEN n + 1 ELSE edge[m]]
<1>1. /\ lens \in Seq(Nat \ {0}) /\ L \in Nat \ {0}
      /\ more \in Seq(Nat \ {0}) /\ Len(more) = L + 1 /\ more[L + 1] = 1
      /\ \A i \in 1 .. L : more[i] = lens[i]
      /\ more # <<>>
  BY AppendProperties, LenProperties, EmptySeq DEF Cuts
<1> HIDE DEF more, L
<1>2. /\ edge \in [0 .. L -> 0 .. n] /\ edge[0] = 0 /\ edge[L] = n
      /\ \A m \in 0 .. L - 1 :
            /\ edge[m + 1] = edge[m] + lens[m + 1]
            /\ \A k \in edge[m] + 1 .. edge[m + 1] :
                  CheckOnOff(data[k]) = CheckOnOff(data[edge[m + 1]])
      /\ \A m \in 1 .. L - 1 :
            CheckOnOff(data[edge[m] + 1]) # CheckOnOff(data[edge[m]])
  BY DEF Cuts, L
<1>3. /\ e \in [0 .. L + 1 -> 0 .. n + 1] /\ e[0] = 0 /\ e[L + 1] = n + 1
      /\ \A m \in 0 .. L : e[m] = edge[m]
  BY <1>1, <1>2
<1> HIDE DEF e
<1>4. ASSUME NEW m \in 0 .. L
      PROVE  /\ e[m + 1] = e[m] + more[m + 1]
             /\ \A k \in e[m] + 1 .. e[m + 1] :
                   CheckOnOff(data[k]) = CheckOnOff(data[e[m + 1]])
  <2>1. CASE m = L
    <3>1. e[m] = n /\ e[m + 1] = n + 1 /\ more[m + 1] = 1
      BY <1>1, <1>2, <1>3, <2>1
    <3>2. \A k \in e[m] + 1 .. e[m + 1] : k = e[m + 1]
      BY <3>1
    <3> QED
      BY <3>1, <3>2
  <2>2. CASE m # L
    <3>1. m \in 0 .. L - 1 /\ m + 1 \in 0 .. L /\ m + 1 \in 1 .. L
      BY <1>1, <2>2
    <3>2. e[m] = edge[m] /\ e[m + 1] = edge[m + 1] /\ more[m + 1] = lens[m + 1]
      BY <1>1, <1>3, <3>1
    <3> QED
      BY <1>2, <3>1, <3>2
  <2> QED
    BY <2>1, <2>2
<1>5. ASSUME NEW m \in 1 .. L
      PROVE  CheckOnOff(data[e[m] + 1]) # CheckOnOff(data[e[m]])
  <2>1. e[m] = edge[m]
    BY <1>3
  <2>2. m = L \/ m \in 1 .. L - 1
    BY <1>1
  <2> QED
    BY <1>2, <2>1, <2>2
<1>6. Cuts(e, more, data, n + 1)
  <2>1. (L + 1) - 1 = L
    BY <1>1
  <2> QED
    BY <1>1, <1>3, <1>4, <1>5, <2>1 DEF Cuts
<1> QED
  BY <1>6 DEF more

\* What the loop has after i samples is the lengths of the runs in them.
Encoded(run, data, i) ==
    /\ run \in Run
    /\ run.status = CheckOnOff(data[i])
    /\ \E edge : Cuts(edge, Append(run.body, run.offset), data, i)

LEMMA EncodedFirst ==
    ASSUME NEW data
    PROVE  Encoded(FirstRun(data), data, 1)
<1> DEFINE edge == [m \in 0 .. 1 |-> m]
           run == FirstRun(data)
<1>1. run \in Run /\ run.status = CheckOnOff(data[1]) /\ run.body = <<>> /\ run.offset = 1
  BY OnOff, EmptySeq DEF FirstRun, Run
<1>2. <<1>> \in Seq(Nat \ {0}) /\ Len(<<1>>) = 1 /\ <<1>>[1] = 1 /\ <<1>> # <<>>
  OBVIOUS
<1>3. edge \in [0 .. 1 -> 0 .. 1] /\ edge[0] = 0 /\ edge[1] = 1
  OBVIOUS
<1> HIDE DEF edge
<1>4. ASSUME NEW m \in 0 .. 1 - 1
      PROVE  /\ edge[m + 1] = edge[m] + <<1>>[m + 1]
             /\ \A k \in edge[m] + 1 .. edge[m + 1] :
                   CheckOnOff(data[k]) = CheckOnOff(data[edge[m + 1]])
  <2>1. m = 0
    OBVIOUS
  <2>2. \A k \in edge[m] + 1 .. edge[m + 1] : k = edge[m + 1]
    BY <1>3, <2>1
  <2> QED
    BY <1>3, <2>1, <2>2
<1>5. Cuts(edge, <<1>>, data, 1)
  BY <1>2, <1>3, <1>4 DEF Cuts
<1>6. Append(run.body, run.offset) = <<1>>
  BY <1>1
<1> QED
  BY <1>1, <1>5, <1>6 DEF Encoded

LEMMA EncodedStep ==
    ASSUME NEW data, NEW i \in Nat \ {0}, NEW run, Encoded(run, data, i)
    PROVE  Encoded(EncodeStep(run, data[i + 1]), data, i + 1)
<1> DEFINE next == EncodeStep(run, data[i + 1])
           lens == Append(run.body, run.offset)
<1>1. run \in Run /\ run.status = CheckOnOff(data[i]) /\ next \in Run
  BY EncodeStepType DEF Encoded
<1>2. PICK edge : Cuts(edge, lens, data, i)
  BY DEF Encoded
<1>3. CASE CheckOnOff(data[i + 1]) = run.status
  <2>1. next.status = run.status /\ next.body = run.body /\ next.offset = run.offset + 1
    BY <1>1, <1>3 DEF EncodeStep, Run
  <2>2. run.body \in Seq(Nat \ {0}) /\ run.offset \in Nat \ {0}
    BY <1>1 DEF Run
  <2>3. \E e : Cuts(e, Append(run.body, run.offset + 1), data, i + 1)
    BY <1>1, <1>2, <1>3, <2>2, CutLonger
  <2> QED
    BY <1>1, <1>3, <2>1, <2>3 DEF Encoded
<1>4. CASE CheckOnOff(data[i + 1]) # run.status
  <2>1. next.status = 1 - run.status /\ next.body = lens /\ next.offset = 1
    BY <1>4 DEF EncodeStep
  <2>2. next.status = CheckOnOff(data[i + 1])
    BY <1>1, <1>4, <2>1, OnOff
  <2>3. \E e : Cuts(e, Append(lens, 1), data, i + 1)
    BY <1>1, <1>2, <1>4, CutHere
  <2> QED
    BY <1>1, <2>1, <2>2, <2>3 DEF Encoded
<1> QED
  BY <1>3, <1>4

(* The body that writeEncode writes is the lengths of the runs.            *)
LEMMA RunsCut ==
    ASSUME NEW data \in Seq(Samples), data # <<>>
    PROVE  \E edge : Cuts(edge, Runs(data), data, Len(data))
<1> DEFINE e == Encode(data)
           n == Len(data)
           S == {i \in Nat : i \in 1 .. n => Encoded(e[i], data, i)}
<1>1. n \in Nat \ {0}
  BY LenProperties, EmptySeq
<1>2. Encodes(e, data)
  BY EncodeDefined
<1> HIDE DEF e
<1>3. 0 \in S
  OBVIOUS
<1>4. ASSUME NEW i \in Nat, i \in S
      PROVE  i + 1 \in S
  <2> SUFFICES ASSUME i + 1 \in 1 .. n PROVE Encoded(e[i + 1], data, i + 1)
    OBVIOUS
  <2>1. CASE i = 0
    BY <1>2, <2>1, EncodedFirst DEF Encodes
  <2>2. CASE i # 0
    <3>1. i \in 1 .. n - 1 /\ i \in Nat \ {0} /\ Encoded(e[i], data, i)
      BY <1>1, <1>4, <2>2
    <3>2. e[i + 1] = EncodeStep(e[i], data[i + 1])
      BY <1>2, <3>1 DEF Encodes
    <3> QED
      BY <3>1, <3>2, EncodedStep
  <2> QED
    BY <2>1, <2>2
<1>5. n \in S
  <2> HIDE DEF S
  <2> QED
    BY <1>1, <1>3, <1>4, InductionOnSet
<1>6. Encoded(e[n], data, n)
  BY <1>1, <1>5
<1>7. Runs(data) = Append(e[n].body, e[n].offset)
  BY DEF Runs, e
<1> QED
  BY <1>6, <1>7 DEF Encoded
-----------------------------------------------------------------------------
(* The files and where the blocks are in them.                             *)

Word == [size : Nat, time : Nat, value : Nat]
Line == {"#", "p", "dt"} \X Int \X Int
BlockRecord == [time : Nat, data : Seq(Samples), word : Nat, sample : Nat]

\* Words in the first c blocks of the .dat file that was not cut.
WordsOf(c) == IF c = 0 THEN 0 ELSE End(c)

\* Each block begins where the one before it ends.
Layout ==
    /\ blocks \in Seq(BlockRecord)
    /\ \A j \in 1 .. Len(blocks) :
          /\ blocks[j].data # <<>>
          /\ blocks[j].word = WordsOf(j - 1)
          /\ blocks[j].sample = SamplesOf(j - 1)

\* The files hold the blocks as far as they go.
Files ==
    /\ dat \in Seq(Word)
    /\ raw \in Seq(Samples)
    /\ Len(dat) <= WordsOf(Len(blocks))
    /\ tool = "record" => Len(dat) = WordsOf(Len(blocks))
    /\ tool # "-dr" => Len(raw) = SamplesOf(Len(blocks))
    /\ \A j \in 1 .. Len(blocks) :
          /\ \A i \in 1 .. 1 + Len(Runs(blocks[j].data)) :
                blocks[j].word + i <= Len(dat) =>
                    dat[blocks[j].word + i] = WriteEncode(blocks[j].time, blocks[j].data)[i]
          /\ tool # "-dr" =>
                \A i \in 1 .. Len(blocks[j].data) :
                    raw[blocks[j].sample + i] = blocks[j].data[i]

\* The decoder's variables.
Decoder ==
    /\ tool \in {"record", "-d", "-dr", "-dt"}
    /\ done \in BOOLEAN /\ first \in BOOLEAN
    /\ rd \in Nat
    /\ buffer \in Seq(Nat \union Garbage)
    /\ position \in -IntHalf .. IntHalf - 1
    /\ status \in {0, 1} /\ ptime \in Nat
    /\ out \in Seq(Line)
    /\ tool = "record" =>
          rd = 0 /\ buffer = <<>> /\ done = FALSE /\ out = <<>> /\ first = TRUE /\ position = 0
    /\ tool = "-dr" => rd <= Len(raw)

\* decode and timeDiff have read h headers.
HeadersRead(h) ==
    \/ rd = WordsOf(h) /\ rd <= Len(dat)
    \/ h >= 1 /\ blocks[h].word < Len(dat) /\ Len(dat) < End(h) /\ rd = Len(dat)

Reading == tool \in {"-d", "-dt"} => \E h \in 0 .. Len(blocks) : HeadersRead(h)

TypeInv == Layout /\ Files /\ Decoder /\ Reading

-----------------------------------------------------------------------------
(* timeDiff.                                                               *)

Diffs(h) == [i \in 1 .. h - 1 |-> <<"dt", blocks[i + 1].time - blocks[i].time, 0>>]

DiffInv ==
    tool = "-dt" =>
        \E h \in 0 .. Len(blocks) :
            /\ HeadersRead(h)
            /\ (first <=> h = 0)
            /\ h > 0 => ptime = blocks[h].time
            /\ out = Diffs(h)
            /\ done => rd = Len(dat)

-----------------------------------------------------------------------------
(* decode.                                                                 *)

\* What decode knows when it has plotted the first c blocks.
Plotted(c) ==
    /\ buffer = <<>> /\ rd = WordsOf(c) /\ rd <= Len(dat)
    /\ (first <=> c = 0)
    /\ c > 0 => status = State(SamplesOf(c))

Between(c) ==
    /\ Plotted(c) /\ ~done
    /\ position = SamplesOf(c)
    /\ out = Waveform(SamplesOf(c))

\* How many samples of the file are before number m of the body of block j.
At(j, edge, m) == blocks[j].sample + edge[m]

\* It has read m numbers of the body of block b.
Inside(b, m) ==
    LET data == blocks[b].data
        lens == Runs(data)
    IN  /\ ~done /\ ~first /\ rd = End(b) /\ rd <= Len(dat)
        /\ buffer = SubSeq(lens, m + 1, Len(lens))
        /\ m < Len(lens)
        /\ \E edge : /\ Cuts(edge, lens, data, Len(data))
                     /\ position = At(b, edge, m)
        /\ status = State(position + 1)
        /\ out = Waveform(position + 1)

\* Block c + 1 is cut, and what it plots of it is of no interest.
Torn(c) ==
    /\ c < Len(blocks)
    /\ WordsOf(c) < Len(dat) /\ Len(dat) < End(c + 1) /\ rd = Len(dat)
    /\ IsPrefix(Waveform(SamplesOf(c)), out)

Ended(c) ==
    /\ Plotted(c) /\ done /\ rd = Len(dat)
    /\ out = Append(Waveform(SamplesOf(c)), Point(Wrap(SamplesOf(c) - 1), status))

PlotInv ==
    tool = "-d" =>
        \/ \E c \in 0 .. Len(blocks) : Between(c) \/ Torn(c) \/ Ended(c)
        \/ \E b \in 1 .. Len(blocks), m \in Nat : Inside(b, m)
-----------------------------------------------------------------------------
(* What the types say of a block.                                          *)

LEMMA WrapType == \A n \in Int : Wrap(n) \in -IntHalf .. IntHalf - 1
  BY ConstantsAssumption DEF ConstantsAssumption, Wrap

LEMMA WrapSmall == \A n \in -IntHalf .. IntHalf - 1 : Wrap(n) = n
  BY ConstantsAssumption DEF ConstantsAssumption, Wrap

LEMMA RunsType ==
    ASSUME NEW data \in Seq(Samples), data # <<>>
    PROVE  Runs(data) \in Seq(Nat \ {0}) /\ Len(Runs(data)) \in Nat \ {0}
<1>1. PICK edge : Cuts(edge, Runs(data), data, Len(data))
  BY RunsCut
<1>2. Runs(data) \in Seq(Nat \ {0}) /\ Runs(data) # <<>>
  BY <1>1 DEF Cuts
<1> QED
  BY <1>2, EmptySeq

(* A header, then the body.                                                *)
LEMMA Written ==
    ASSUME NEW t \in Nat, NEW data \in Seq(Samples), data # <<>>
    PROVE  /\ WriteEncode(t, data) \in Seq(Word)
           /\ Len(WriteEncode(t, data)) = 1 + Len(Runs(data))
           /\ WriteEncode(t, data)[1] = Header(Len(Runs(data)), t, CheckOnOff(data[1]))
           /\ \A i \in 1 .. Len(Runs(data)) :
                 WriteEncode(t, data)[1 + i] = Number(Runs(data)[i])
<1> DEFINE body == Runs(data)
           head == Header(Len(body), t, CheckOnOff(data[1]))
           numbers == [i \in DOMAIN body |-> Number(body[i])]
<1>1. body \in Seq(Nat \ {0}) /\ Len(body) \in Nat \ {0} /\ DOMAIN body = 1 .. Len(body)
  BY RunsType, LenProperties
<1>2. head \in Word
  BY <1>1, OnOff DEF Header, Word
<1>3. \A i \in 1 .. Len(body) : Number(body[i]) \in Word
  BY <1>1, ElementOfSeq DEF Number, Word
<1>4. /\ numbers \in Seq(Word) /\ Len(numbers) = Len(body)
      /\ \A i \in 1 .. Len(body) : numbers[i] = Number(body[i])
  <2> HIDE DEF body
  <2> QED
    BY <1>1, <1>3
<1>5. <<head>> \in Seq(Word) /\ Len(<<head>>) = 1 /\ <<head>>[1] = head
  BY <1>2
<1>6. WriteEncode(t, data) = <<head>> \o numbers
  BY DEF WriteEncode
<1> HIDE DEF numbers, head, body
<1>7. /\ <<head>> \o numbers \in Seq(Word)
      /\ Len(<<head>> \o numbers) = 1 + Len(body)
      /\ \A i \in 1 .. 1 + Len(body) :
            (<<head>> \o numbers)[i] = IF i <= 1 THEN <<head>>[i] ELSE numbers[i - 1]
  BY <1>4, <1>5, ConcatProperties
<1>8. (<<head>> \o numbers)[1] = head
  BY <1>1, <1>5, <1>7
<1>9. ASSUME NEW i \in 1 .. Len(body)
      PROVE  (<<head>> \o numbers)[1 + i] = Number(body[i])
  <2>1. 1 + i \in 1 .. 1 + Len(body) /\ ~(1 + i <= 1) /\ (1 + i) - 1 = i
    BY <1>1
  <2> QED
    BY <1>4, <1>7, <2>1
<1> QED
  BY <1>6, <1>7, <1>8, <1>9 DEF head, body

-----------------------------------------------------------------------------
(* The borders of the blocks.                                              *)

LEMMA BlockAt ==
    ASSUME Layout, NEW j \in 1 .. Len(blocks)
    PROVE  /\ blocks[j].data \in Seq(Samples) /\ blocks[j].data # <<>>
           /\ Len(blocks[j].data) \in Nat \ {0}
           /\ Runs(blocks[j].data) \in Seq(Nat \ {0})
           /\ Len(Runs(blocks[j].data)) \in Nat \ {0}
           /\ blocks[j].time \in Nat /\ blocks[j].word \in Nat /\ blocks[j].sample \in Nat
<1>1. blocks[j] \in BlockRecord
  BY ElementOfSeq DEF Layout
<1>2. blocks[j].data \in Seq(Samples) /\ blocks[j].data # <<>>
  BY <1>1 DEF BlockRecord, Layout
<1> QED
  BY <1>1, <1>2, RunsType, EmptySeq DEF BlockRecord

LEMMA Border ==
    ASSUME Layout, NEW j \in 1 .. Len(blocks)
    PROVE  /\ WordsOf(j - 1) = blocks[j].word
           /\ WordsOf(j) = End(j)
           /\ End(j) = blocks[j].word + 1 + Len(Runs(blocks[j].data))
           /\ SamplesOf(j - 1) = blocks[j].sample
           /\ SamplesOf(j) = blocks[j].sample + Len(blocks[j].data)
           /\ End(j) \in Nat /\ blocks[j].word < End(j)
           /\ SamplesOf(j) \in Nat /\ blocks[j].sample < SamplesOf(j)
<1>1. /\ WordsOf(j - 1) = blocks[j].word
      /\ WordsOf(j) = End(j)
      /\ End(j) = blocks[j].word + 1 + Len(Runs(blocks[j].data))
      /\ SamplesOf(j - 1) = blocks[j].sample
      /\ SamplesOf(j) = blocks[j].sample + Len(blocks[j].data)
  BY DEF Layout, WordsOf, SamplesOf, End
<1>2. /\ Len(blocks[j].data) \in Nat \ {0} /\ Len(Runs(blocks[j].data)) \in Nat \ {0}
      /\ blocks[j].word \in Nat /\ blocks[j].sample \in Nat
  BY BlockAt
<1> QED
  BY <1>1, <1>2

LEMMA BordersType ==
    ASSUME Layout, NEW c \in 0 .. Len(blocks)
    PROVE  WordsOf(c) \in Nat /\ SamplesOf(c) \in Nat
<1>1. CASE c = 0
  BY <1>1 DEF WordsOf, SamplesOf
<1>2. CASE c # 0
  <2>1. c \in 1 .. Len(blocks)
    BY <1>2
  <2> QED
    BY <2>1, Border
<1> QED
  BY <1>1, <1>2

LEMMA Ordered ==
    ASSUME Layout, NEW k \in 0 .. Len(blocks), NEW j \in 0 .. k
    PROVE  WordsOf(j) <= WordsOf(k) /\ SamplesOf(j) <= SamplesOf(k)
<1> DEFINE N == Len(blocks)
           S == {n \in Nat : n <= N =>
                    \A i \in 0 .. n : WordsOf(i) <= WordsOf(n) /\ SamplesOf(i) <= SamplesOf(n)}
<1>1. N \in Nat
  BY LenProperties DEF Layout
<1>2. 0 \in S
  <2>1. \A i \in 0 .. 0 : i = 0
    OBVIOUS
  <2> QED
    BY <2>1, <1>1, BordersType
<1>3. ASSUME NEW n \in Nat, n \in S
      PROVE  n + 1 \in S
  <2> SUFFICES ASSUME n + 1 <= N, NEW i \in 0 .. n + 1
               PROVE  WordsOf(i) <= WordsOf(n + 1) /\ SamplesOf(i) <= SamplesOf(n + 1)
    OBVIOUS
  <2>1. n + 1 \in 1 .. N /\ n + 1 \in 0 .. N /\ n \in 0 .. N /\ (n + 1) - 1 = n /\ i \in 0 .. N
    BY <1>1
  <2>2. WordsOf(n) <= WordsOf(n + 1) /\ SamplesOf(n) <= SamplesOf(n + 1)
    <3>1. /\ WordsOf((n + 1) - 1) < WordsOf(n + 1)
          /\ SamplesOf((n + 1) - 1) < SamplesOf(n + 1)
          /\ WordsOf((n + 1) - 1) \in Nat /\ WordsOf(n + 1) \in Nat
          /\ SamplesOf((n + 1) - 1) \in Nat /\ SamplesOf(n + 1) \in Nat
      BY <2>1, Border, BordersType
    <3> QED
      BY <2>1, <3>1
  <2>3. /\ WordsOf(n) \in Nat /\ SamplesOf(n) \in Nat
        /\ WordsOf(n + 1) \in Nat /\ SamplesOf(n + 1) \in Nat
        /\ WordsOf(i) \in Nat /\ SamplesOf(i) \in Nat
    BY <2>1, BordersType
  <2>4. CASE i = n + 1
    BY <2>3, <2>4
  <2>5. CASE i # n + 1
    <3>1. WordsOf(i) <= WordsOf(n) /\ SamplesOf(i) <= SamplesOf(n)
      BY <1>3, <2>1, <2>5
    <3> QED
      BY <2>2, <2>3, <3>1
  <2> QED
    BY <2>4, <2>5
<1>4. k \in S
  <2> HIDE DEF S
  <2> QED
    BY <1>1, <1>2, <1>3, InductionOnSet
<1> QED
  BY <1>1, <1>4

(* Complete is the number of blocks that the .dat file holds.              *)
LEMMA CompleteIs ==
    ASSUME Layout, Files, NEW c \in 0 .. Len(blocks), WordsOf(c) <= Len(dat),
           c < Len(blocks) => Len(dat) < End(c + 1)
    PROVE  Complete = c
<1> DEFINE N == Len(blocks)
           Is(n) == \A j \in DOMAIN blocks : j <= n <=> End(j) <= Len(dat)
<1>1. N \in Nat /\ DOMAIN blocks = 1 .. N /\ Len(dat) \in Nat
  BY LenProperties DEF Layout, Files
<1>2. ASSUME NEW j \in 1 .. N
      PROVE  j <= c <=> End(j) <= Len(dat)
  <2>1. j \in 0 .. N /\ WordsOf(j) = End(j) /\ WordsOf(j) \in Nat /\ WordsOf(c) \in Nat
    BY <1>1, Border, BordersType
  <2>2. CASE j <= c
    <3>1. WordsOf(j) <= WordsOf(c)
      BY <2>1, <2>2, Ordered
    <3> QED
      BY <1>1, <2>1, <2>2, <3>1
  <2>3. CASE ~(j <= c)
    <3>1. c + 1 \in 1 .. N /\ c + 1 \in 0 .. j /\ c < N
      BY <1>1, <2>3
    <3>2. WordsOf(c + 1) <= WordsOf(j) /\ WordsOf(c + 1) = End(c + 1) /\ WordsOf(c + 1) \in Nat
      BY <2>1, <3>1, Ordered, Border, BordersType
    <3> QED
      BY <1>1, <2>1, <2>3, <3>1, <3>2
  <2> QED
    BY <2>2, <2>3
<1>3. Is(c)
  BY <1>1, <1>2
<1>4. ASSUME NEW n \in 0 .. N, Is(n)
      PROVE  n = c
  <2>1. CASE n < c
    <3>1. c \in DOMAIN blocks /\ c <= c /\ ~(c <= n)
      BY <1>1, <2>1
    <3> QED
      BY <1>3, <1>4, <3>1
  <2>2. CASE n > c
    <3>1. n \in DOMAIN blocks /\ n <= n /\ ~(n <= c)
      BY <1>1, <2>2
    <3> QED
      BY <1>3, <1>4, <3>1
  <2> QED
    BY <1>1, <2>1, <2>2
<1>5. Complete = CHOOSE n \in 0 .. N : Is(n)
  BY DEF Complete
<1> HIDE DEF Is
<1> QED
  BY <1>3, <1>4, <1>5
(* A number of a part of a file is one of the file.                        *)
LEMMA Within ==
    \A start, n, all, more \in Nat : start + n <= all =>
        \A i \in 1 .. n : start + i <= all /\ start + i \in 1 .. all + more
  OBVIOUS
-----------------------------------------------------------------------------
(* The steps of the recorder.                                              *)

(* A block that is recorded begins where the last one ends.                *)
LEMMA RecordFiles ==
    ASSUME Layout, Files, NEW b \in Block, Record(b)
    PROVE  Layout' /\ Files'
<1>18. PICK n \in Nat : n = Len(blocks)
  BY LenProperties DEF Layout
<1> DEFINE t == LastTime + b.gap
           new == [time |-> t, data |-> b.data, word |-> Len(dat), sample |-> Len(raw)]
           words == WriteEncode(t, b.data)
<1>1. /\ n \in Nat /\ n = Len(blocks) /\ Len(dat) \in Nat /\ Len(raw) \in Nat
      /\ blocks \in Seq(BlockRecord) /\ dat \in Seq(Word) /\ raw \in Seq(Samples)
  BY <1>18, LenProperties DEF Layout, Files
<1>2. b.data \in Seq(Samples) /\ b.data # <<>> /\ b.gap \in Nat
  <2>1. PICK k \in 1 .. MaxSamples : b.data \in [1 .. k -> Samples]
    BY DEF Block
  <2>2. k \in Nat \ {0} /\ b.data \in Seq(Samples) /\ Len(b.data) = k
    BY <2>1, ConstantsAssumption DEF ConstantsAssumption
  <2>3. b.data # <<>>
    BY <2>2, EmptySeq
  <2> QED
    BY <2>2, <2>3 DEF Block
<1>3. t \in Nat
  <2>1. LastTime \in Nat
    <3>1. CASE blocks = <<>>
      BY <3>1 DEF LastTime
    <3>2. CASE blocks # <<>>
      <4>1. Len(blocks) \in 1 .. Len(blocks)
        BY <1>1, <3>2, EmptySeq
      <4>2. blocks[Len(blocks)].time \in Nat
        BY <4>1, BlockAt
      <4> QED
        BY <3>2, <4>2 DEF LastTime
    <3> QED
      BY <3>1, <3>2
  <2> QED
    BY <1>2, <2>1
<1>4. new \in BlockRecord
  BY <1>1, <1>2, <1>3 DEF BlockRecord
<1>5. /\ tool = "record" /\ tool' = "record"
      /\ blocks' = Append(blocks, new) /\ dat' = dat \o words /\ raw' = raw \o b.data
  BY DEF Record
<1>6. /\ new.data = b.data /\ new.word = Len(dat) /\ new.sample = Len(raw) /\ new.time = t
  OBVIOUS
<1> HIDE DEF t, new
<1>7. Len(words) = 1 + Len(Runs(b.data)) /\ Len(Runs(b.data)) \in Nat
  BY <1>2, <1>3, Written, RunsType
<1>17. words \in Seq(Word) /\ Len(words) \in Nat /\ Len(b.data) \in Nat
  BY <1>2, <1>3, Written, LenProperties
<1> HIDE DEF words
<1>8. /\ blocks' \in Seq(BlockRecord) /\ Len(blocks') = n + 1
      /\ blocks'[n + 1] = new /\ \A j \in 1 .. n : blocks'[j] = blocks[j]
  BY <1>1, <1>4, <1>5, AppendProperties
<1>9. /\ dat' \in Seq(Word) /\ Len(dat') = Len(dat) + Len(words)
      /\ \A i \in 1 .. Len(dat) + Len(words) :
            dat'[i] = IF i <= Len(dat) THEN dat[i] ELSE words[i - Len(dat)]
  <2>1. /\ dat \o words \in Seq(Word) /\ Len(dat \o words) = Len(dat) + Len(words)
        /\ \A i \in 1 .. Len(dat) + Len(words) :
              (dat \o words)[i] = IF i <= Len(dat) THEN dat[i] ELSE words[i - Len(dat)]
    BY <1>1, <1>17, ConcatProperties
  <2> QED
    BY <1>5, <2>1
<1>10. /\ raw' \in Seq(Samples) /\ Len(raw') = Len(raw) + Len(b.data)
       /\ \A i \in 1 .. Len(raw) + Len(b.data) :
             raw'[i] = IF i <= Len(raw) THEN raw[i] ELSE b.data[i - Len(raw)]
  BY <1>1, <1>2, <1>5, ConcatProperties
<1>11. \A c \in 0 .. n : WordsOf(c)' = WordsOf(c) /\ SamplesOf(c)' = SamplesOf(c)
  BY <1>8 DEF WordsOf, SamplesOf, End
<1>12. Len(dat) = WordsOf(n) /\ Len(raw) = SamplesOf(n)
  BY <1>1, <1>5 DEF Files
<1>13. /\ WordsOf(n + 1)' = Len(dat) + Len(words)
       /\ SamplesOf(n + 1)' = Len(raw) + Len(b.data)
  <2>1. n + 1 # 0
    BY <1>1
  <2>2. /\ WordsOf(n + 1)' = blocks'[n + 1].word + 1 + Len(Runs(blocks'[n + 1].data))
        /\ SamplesOf(n + 1)' = blocks'[n + 1].sample + Len(blocks'[n + 1].data)
    <3>1. /\ WordsOf(n + 1)' = End(n + 1)'
          /\ SamplesOf(n + 1)' = blocks'[n + 1].sample + Len(blocks'[n + 1].data)
      BY <2>1 DEF WordsOf, SamplesOf
    <3> QED
      BY <3>1 DEF End
  <2>3. /\ WordsOf(n + 1)' = Len(dat) + 1 + Len(Runs(b.data))
        /\ SamplesOf(n + 1)' = Len(raw) + Len(b.data)
    BY <1>6, <1>8, <2>2
  <2> QED
    BY <1>1, <1>7, <2>3
<1>14. Layout'
  <2>1. ASSUME NEW j \in 1 .. n + 1
        PROVE  /\ blocks'[j].data # <<>>
               /\ blocks'[j].word = WordsOf(j - 1)'
               /\ blocks'[j].sample = SamplesOf(j - 1)'
    <3>1. CASE j = n + 1
      <4>1. j - 1 = n /\ n \in 0 .. n
        BY <1>1, <3>1
      <4> QED
        BY <1>2, <1>6, <1>8, <1>11, <1>12, <3>1, <4>1
    <3>2. CASE j # n + 1
      <4>1. j \in 1 .. n /\ j - 1 \in 0 .. n
        BY <1>1, <3>2
      <4>2. blocks[j].data # <<>> /\ blocks[j].word = WordsOf(j - 1)
            /\ blocks[j].sample = SamplesOf(j - 1)
        BY <1>1, <4>1 DEF Layout
      <4> QED
        BY <1>8, <1>11, <4>1, <4>2
    <3> QED
      BY <3>1, <3>2
  <2> QED
    BY <1>8, <2>1 DEF Layout
<1>15. ASSUME NEW j \in 1 .. n + 1
       PROVE  /\ \A i \in 1 .. 1 + Len(Runs(blocks'[j].data)) :
                    dat'[blocks'[j].word + i]
                        = WriteEncode(blocks'[j].time, blocks'[j].data)[i]
              /\ \A i \in 1 .. Len(blocks'[j].data) :
                    raw'[blocks'[j].sample + i] = blocks'[j].data[i]
  <2>1. CASE j = n + 1
    <3>1. ASSUME NEW i \in 1 .. Len(words)
          PROVE  dat'[Len(dat) + i] = words[i]
      <4>1. Len(dat) + i \in 1 .. Len(dat) + Len(words) /\ ~(Len(dat) + i <= Len(dat))
            /\ (Len(dat) + i) - Len(dat) = i
        BY <1>1, <1>7, LenProperties
      <4> QED
        BY <1>9, <4>1
    <3>2. ASSUME NEW i \in 1 .. Len(b.data)
          PROVE  raw'[Len(raw) + i] = b.data[i]
      <4>1. Len(raw) + i \in 1 .. Len(raw) + Len(b.data) /\ ~(Len(raw) + i <= Len(raw))
            /\ (Len(raw) + i) - Len(raw) = i
        BY <1>1, <1>2, LenProperties
      <4> QED
        BY <1>10, <4>1
    <3> QED
      BY <1>6, <1>7, <1>8, <2>1, <3>1, <3>2 DEF words
  <2>2. CASE j # n + 1
    <3>1. j \in 1 .. Len(blocks) /\ j \in 0 .. n /\ n \in 0 .. Len(blocks)
          /\ blocks'[j] = blocks[j]
      BY <1>1, <1>8, <2>2
    <3>2. /\ blocks[j].word + (1 + Len(Runs(blocks[j].data))) <= Len(dat)
          /\ blocks[j].sample + Len(blocks[j].data) <= Len(raw)
      <4>1. WordsOf(j) <= WordsOf(n) /\ SamplesOf(j) <= SamplesOf(n)
        BY <3>1, Ordered
      <4>2. /\ WordsOf(j) = blocks[j].word + 1 + Len(Runs(blocks[j].data))
            /\ SamplesOf(j) = blocks[j].sample + Len(blocks[j].data)
        BY <3>1, Border
      <4>3. /\ blocks[j].word \in Nat /\ Len(Runs(blocks[j].data)) \in Nat
        BY <3>1, BlockAt
      <4> QED
        BY <1>12, <4>1, <4>2, <4>3
    <3>3. /\ blocks[j].word \in Nat /\ blocks[j].sample \in Nat
          /\ Len(blocks[j].data) \in Nat /\ Len(Runs(blocks[j].data)) \in Nat
          /\ 1 + Len(Runs(blocks[j].data)) \in Nat
      BY <3>1, BlockAt
    <3>4. ASSUME NEW i \in 1 .. 1 + Len(Runs(blocks[j].data))
          PROVE  dat'[blocks[j].word + i]
                     = WriteEncode(blocks[j].time, blocks[j].data)[i]
      <4>1. blocks[j].word + i <= Len(dat) /\ blocks[j].word + i \in 1 .. Len(dat) + Len(words)
        BY <1>1, <1>17, <3>2, <3>3, Within
      <4>2. dat[blocks[j].word + i] = WriteEncode(blocks[j].time, blocks[j].data)[i]
        BY <3>1, <4>1 DEF Files
      <4> QED
        BY <1>9, <4>1, <4>2
    <3>5. ASSUME NEW i \in 1 .. Len(blocks[j].data)
          PROVE  raw'[blocks[j].sample + i] = blocks[j].data[i]
      <4>1. blocks[j].sample + i <= Len(raw)
            /\ blocks[j].sample + i \in 1 .. Len(raw) + Len(b.data)
        BY <1>1, <1>17, <3>2, <3>3, Within
      <4>2. raw[blocks[j].sample + i] = blocks[j].data[i]
        BY <1>5, <3>1 DEF Files
      <4> QED
        BY <1>10, <4>1, <4>2
    <3> QED
      BY <3>1, <3>4, <3>5
  <2> QED
    BY <2>1, <2>2
<1>16. Files'
  <2>1. Len(dat') = WordsOf(Len(blocks))' /\ Len(raw') = SamplesOf(Len(blocks))'
    <3>1. WordsOf(Len(blocks))' = WordsOf(n + 1)' /\ SamplesOf(Len(blocks))' = SamplesOf(n + 1)'
      BY <1>8
    <3> QED
      BY <1>9, <1>10, <1>13, <3>1
  <2>2. Len(dat') <= WordsOf(Len(blocks))'
    BY <1>9, <2>1, LenProperties
  <2>3. dat' \in Seq(Word) /\ raw' \in Seq(Samples)
    BY <1>9, <1>10
  <2>4. \A j \in 1 .. Len(blocks') :
            /\ \A i \in 1 .. 1 + Len(Runs(blocks'[j].data)) :
                  dat'[blocks'[j].word + i] = WriteEncode(blocks'[j].time, blocks'[j].data)[i]
            /\ \A i \in 1 .. Len(blocks'[j].data) :
                  raw'[blocks'[j].sample + i] = blocks'[j].data[i]
    BY <1>8, <1>15
  <2> QED
    BY <1>5, <2>1, <2>2, <2>3, <2>4 DEF Files
<1> QED
  BY <1>14, <1>16

LEMMA Frame ==
    ASSUME UNCHANGED recorder
    PROVE  /\ UNCHANGED <<blocks, dat, raw, tool>>
           /\ Layout' = Layout /\ Files' = Files
           /\ \A c : WordsOf(c)' = WordsOf(c) /\ SamplesOf(c)' = SamplesOf(c)
           /\ \A j : End(j)' = End(j)
  BY DEF recorder, Layout, Files, WordsOf, SamplesOf, End

(* A cut file holds the blocks as far as it goes.                          *)
LEMMA DecodeFiles ==
    ASSUME Layout, Files, NEW t \in {"-d", "-dr", "-dt"}, Decode(t)
    PROVE  Layout' /\ Files' /\ \A c : WordsOf(c)' = WordsOf(c) /\ SamplesOf(c)' = SamplesOf(c)
<1>1. tool = "record" /\ tool' = t /\ blocks' = blocks
  BY DEF Decode
<1>2. /\ \A c : WordsOf(c)' = WordsOf(c) /\ SamplesOf(c)' = SamplesOf(c)
      /\ Layout'
  BY <1>1 DEF Layout, WordsOf, SamplesOf, End
<1>3. /\ dat \in Seq(Word) /\ raw \in Seq(Samples) /\ Len(dat) \in Nat /\ Len(raw) \in Nat
  BY LenProperties DEF Files
<1>4. /\ dat' \in Seq(Word) /\ Len(dat') \in Nat /\ Len(dat') <= Len(dat)
      /\ \A i \in 1 .. Len(dat') : dat'[i] = dat[i]
  <2>1. CASE dat' = dat
    BY <1>3, <2>1
  <2>2. ASSUME NEW n \in 0 .. Len(dat), dat' = SubSeq(dat, 1, n)
        PROVE  /\ dat' \in Seq(Word) /\ Len(dat') \in Nat /\ Len(dat') <= Len(dat)
               /\ \A i \in 1 .. Len(dat') : dat'[i] = dat[i]
    <3>1. \A i \in 1 .. n : dat[i] \in Word
      BY <1>3, ElementOfSeq
    <3>2. /\ dat' \in Seq(Word) /\ Len(dat') = IF 1 <= n THEN n - 1 + 1 ELSE 0
          /\ \A i \in 1 .. n - 1 + 1 : dat'[i] = dat[1 + i - 1]
      BY <1>3, <2>2, <3>1, SubSeqProperties
    <3> QED
      BY <1>3, <3>2
  <2> QED
    BY <2>1, <2>2 DEF Decode
<1>5. raw' \in Seq(Samples) /\ (t # "-dr" => raw' = raw)
  <2>1. CASE raw' = raw
    BY <1>3, <2>1
  <2>2. ASSUME NEW n \in 0 .. Len(raw), raw' = SubSeq(raw, 1, n)
        PROVE  raw' \in Seq(Samples)
    <3>1. \A i \in 1 .. n : raw[i] \in Samples
      BY <1>3, ElementOfSeq
    <3> QED
      BY <2>2, <3>1, SubSeqProperties
  <2> QED
    BY <2>1, <2>2 DEF Decode
<1>6. Len(dat') <= WordsOf(Len(blocks))
  <2>1. WordsOf(Len(blocks)) \in Nat /\ Len(dat) <= WordsOf(Len(blocks))
    <3>1. Len(blocks) \in 0 .. Len(blocks)
      BY LenProperties DEF Layout
    <3> QED
      BY <3>1, BordersType DEF Files
  <2> QED
    BY <1>3, <1>4, <2>1
<1>7. ASSUME NEW j \in 1 .. Len(blocks), NEW i \in 1 .. 1 + Len(Runs(blocks[j].data)),
             blocks[j].word + i <= Len(dat')
      PROVE  dat'[blocks[j].word + i] = WriteEncode(blocks[j].time, blocks[j].data)[i]
  <2>1. blocks[j].word \in Nat /\ Len(Runs(blocks[j].data)) \in Nat
    BY BlockAt
  <2>2. blocks[j].word + i \in 1 .. Len(dat') /\ blocks[j].word + i <= Len(dat)
    BY <1>3, <1>4, <1>7, <2>1
  <2>3. dat[blocks[j].word + i] = WriteEncode(blocks[j].time, blocks[j].data)[i]
    BY <2>2 DEF Files
  <2> QED
    BY <1>4, <2>2, <2>3
<1>8. Files'
  BY <1>1, <1>2, <1>4, <1>5, <1>6, <1>7 DEF Files
<1> QED
  BY <1>2, <1>8
-----------------------------------------------------------------------------
(* The reads of decode and timeDiff.                                       *)

\* What a read has put into the buffer of the body of block b.
BodyRead(b) ==
    \/ rd' = End(b) /\ End(b) <= Len(dat) /\ buffer' = Runs(blocks[b].data)
    \/ rd' = Len(dat) /\ blocks[b].word < Len(dat) /\ Len(dat) < End(b)

(* A decoder that reads on at the border of two blocks finds a header.     *)
LEMMA HeaderHere ==
    ASSUME Layout, Files, NEW h \in 0 .. Len(blocks), HeadersRead(h), rd < Len(dat)
    PROVE  /\ h + 1 \in 1 .. Len(blocks)
           /\ rd = WordsOf(h) /\ rd = blocks[h + 1].word
           /\ dat[rd + 1] = Header(Len(Runs(blocks[h + 1].data)), blocks[h + 1].time,
                                   CheckOnOff(blocks[h + 1].data[1]))
<1>1. Len(dat) \in Nat /\ Len(blocks) \in Nat /\ WordsOf(h) \in Nat
  BY LenProperties, BordersType DEF Layout, Files
<1>2. rd = WordsOf(h)
  BY <1>1 DEF HeadersRead
<1>3. h # Len(blocks)
  BY <1>1, <1>2 DEF Files
<1>4. h + 1 \in 1 .. Len(blocks) /\ (h + 1) - 1 = h
  BY <1>1, <1>3
<1> DEFINE b == blocks[h + 1]
<1>5. rd = b.word
  BY <1>2, <1>4, Border
<1>6. /\ b.time \in Nat /\ b.data \in Seq(Samples) /\ b.data # <<>>
      /\ Len(Runs(b.data)) \in Nat
  BY <1>4, BlockAt
<1>7. 1 \in 1 .. 1 + Len(Runs(b.data)) /\ b.word + 1 <= Len(dat)
  BY <1>1, <1>2, <1>5, <1>6
<1>8. dat[b.word + 1] = WriteEncode(b.time, b.data)[1]
  BY <1>4, <1>7 DEF Files
<1>9. dat[b.word + 1] = Header(Len(Runs(b.data)), b.time, CheckOnOff(b.data[1]))
  BY <1>6, <1>8, Written
<1> QED
  BY <1>2, <1>4, <1>5, <1>9

LEMMA WordsRead ==
    ASSUME NEW s \in Seq(Word), NEW r \in Nat, NEW last \in Nat, r + 1 <= last,
           last <= Len(s)
    PROVE  /\ SubSeq(s, r + 2, last) \in Seq(Word)
           /\ Len(SubSeq(s, r + 2, last)) = last - r - 1
           /\ \A i \in 1 .. last - r - 1 : SubSeq(s, r + 2, last)[i] = s[r + 1 + i]
<1> DEFINE got == SubSeq(s, r + 2, last)
<1>1. \A i \in r + 2 .. last : s[i] \in Word
  <2> SUFFICES ASSUME NEW i \in r + 2 .. last PROVE s[i] \in Word
    OBVIOUS
  <2>1. Len(s) \in Nat
    BY LenProperties
  <2>2. i \in 1 .. Len(s)
    BY <2>1
  <2> QED
    BY <2>2, ElementOfSeq
<1>2. /\ got \in Seq(Word) /\ Len(got) = IF r + 2 <= last THEN last - (r + 2) + 1 ELSE 0
      /\ \A i \in 1 .. last - (r + 2) + 1 : got[i] = s[r + 2 + i - 1]
  <2>1. r + 2 \in Int /\ last \in Int
    OBVIOUS
  <2> QED
    BY <1>1, <2>1, SubSeqProperties
<1> HIDE DEF got
<1>3. /\ last - r - 1 = IF r + 2 <= last THEN last - (r + 2) + 1 ELSE 0
      /\ last - r - 1 = last - (r + 2) + 1
  OBVIOUS
<1>4. ASSUME NEW i \in 1 .. last - r - 1
      PROVE  got[i] = s[r + 1 + i]
  <2>1. i \in 1 .. last - (r + 2) + 1 /\ r + 2 + i - 1 = r + 1 + i
    OBVIOUS
  <2> QED
    BY <1>2, <2>1
<1>5. got \in Seq(Word) /\ Len(got) = last - r - 1
  BY <1>2, <1>3
<1> QED
  BY <1>4, <1>5 DEF got

(* It reads the whole body, or as much as the file holds.                  *)
LEMMA BodyHere ==
    ASSUME Layout, Files, NEW j \in 1 .. Len(blocks), NEW hd
    PROVE  /\ rd = blocks[j].word /\ rd < Len(dat)
           /\ hd.size = Len(Runs(blocks[j].data)) /\ ReadBody(hd)
           => buffer' \in Seq(Nat \union Garbage) /\ BodyRead(j)
<1>0. SUFFICES ASSUME rd = blocks[j].word, rd < Len(dat),
                      hd.size = Len(Runs(blocks[j].data)), ReadBody(hd)
               PROVE  buffer' \in Seq(Nat \union Garbage) /\ BodyRead(j)
  OBVIOUS
<1> DEFINE body == Runs(blocks[j].data)
           T == Nat \union Garbage
<1>1. /\ Len(dat) \in Nat /\ dat \in Seq(Word) /\ rd \in Nat
      /\ body \in Seq(Nat \ {0}) /\ rd < Len(dat)
  BY <1>0, LenProperties, BlockAt DEF Files
<1>2. PICK k \in Nat \ {0} : k = Len(body) /\ k = hd.size
  BY <1>0, BlockAt
<1>3. PICK last : last = IF rd + 1 + k < Len(dat) THEN rd + 1 + k ELSE Len(dat)
  OBVIOUS
<1>4. PICK n : n = last - rd - 1
  OBVIOUS
<1>5. /\ last \in Nat /\ rd + 1 <= last /\ last <= Len(dat)
      /\ n \in Nat /\ k - n \in Nat /\ rd + 1 + n = last
      /\ rd + 1 + k <= Len(dat) => n = k /\ last = rd + 1 + k
      /\ Len(dat) < rd + 1 + k => last = Len(dat)
  <2>1. /\ last \in Nat /\ rd + 1 <= last /\ last <= Len(dat)
        /\ last - rd - 1 \in Nat /\ k - (last - rd - 1) \in Nat
        /\ rd + 1 + (last - rd - 1) = last
        /\ rd + 1 + k <= Len(dat) => last - rd - 1 = k /\ last = rd + 1 + k
        /\ Len(dat) < rd + 1 + k => last = Len(dat)
    <3>1. k \in Nat /\ rd \in Nat /\ Len(dat) \in Nat /\ rd < Len(dat)
      BY <1>1
    <3>2. CASE rd + 1 + k < Len(dat)
      <4>1. last = rd + 1 + k
        BY <1>3, <3>2
      <4> QED
        BY <3>1, <3>2, <4>1
    <3>3. CASE ~(rd + 1 + k < Len(dat))
      <4>1. last = Len(dat)
        BY <1>3, <3>3
      <4> QED
        BY <3>1, <3>3, <4>1
    <3> QED
      BY <3>2, <3>3
  <2> QED
    BY <1>4, <2>1
<1> DEFINE got == SubSeq(dat, rd + 2, last)
           values == [i \in DOMAIN got |-> got[i].value]
<1> HIDE DEF body
<1>6. /\ rd' = rd + 1 + Len(got)
      /\ \E g \in [1 .. k - Len(got) -> Garbage] : buffer' = values \o g
  BY <1>0, <1>2, <1>3 DEF ReadBody
<1>7. got \in Seq(Word) /\ Len(got) = n /\ \A i \in 1 .. n : got[i] = dat[rd + 1 + i]
  <2>1. /\ got \in Seq(Word) /\ Len(got) = last - rd - 1
        /\ \A i \in 1 .. last - rd - 1 : got[i] = dat[rd + 1 + i]
    BY <1>1, <1>5, WordsRead
  <2> QED
    BY <1>4, <2>1
<1> HIDE DEF got
<1>8. rd' = last /\ \E g \in [1 .. k - n -> Garbage] : buffer' = values \o g
  BY <1>5, <1>6, <1>7
<1>9. /\ values \in Seq(Nat) /\ Len(values) = n
      /\ \A i \in 1 .. n : values[i] = dat[rd + 1 + i].value
  <2>1. \A i \in 1 .. n : got[i] \in Word
    BY <1>7, ElementOfSeq
  <2>2. DOMAIN got = 1 .. n /\ \A i \in 1 .. n : got[i].value \in Nat
    BY <1>7, <2>1, LenProperties DEF Word
  <2>3. values = [i \in 1 .. n |-> got[i].value]
    BY <2>2
  <2> HIDE DEF values
  <2>4. values \in Seq(Nat) /\ Len(values) = n /\ \A i \in 1 .. n : values[i] = got[i].value
    BY <1>5, <2>2, <2>3
  <2> QED
    BY <1>7, <2>4
<1> HIDE DEF values
<1>10. PICK g \in [1 .. k - n -> Garbage] : buffer' = values \o g
  BY <1>8
<1>11. g \in Seq(Garbage) /\ Len(g) = k - n
  BY <1>5
<1>12. buffer' \in Seq(T)
  <2>1. values \in Seq(T) /\ g \in Seq(T)
    BY <1>9, <1>11, SeqMonotonic
  <2>2. values \o g \in Seq(T)
    BY <2>1, ConcatProperties
  <2> QED
    BY <1>10, <2>2
<1>13. End(j) = rd + 1 + k
  BY <1>0, <1>2, Border DEF body
<1>14. CASE End(j) <= Len(dat)
  <2>1. n = k /\ last = End(j)
    BY <1>5, <1>13, <1>14
  <2>2. g = <<>>
    <3>1. Len(g) = 0
      BY <1>2, <1>11, <2>1
    <3> QED
      BY <1>11, <3>1, EmptySeq
  <2>3. buffer' = values
    BY <1>9, <1>10, <2>2, ConcatEmptySeq
  <2>4. ASSUME NEW i \in 1 .. k
        PROVE  values[i] = body[i]
    <3>1. rd + (1 + i) = rd + 1 + i /\ rd + 1 + i <= Len(dat)
      <4>1. rd + 1 + k <= Len(dat)
        BY <1>13, <1>14
      <4> QED
        BY <1>1, <4>1
    <3>2. 1 + i \in 1 .. 1 + Len(body) /\ i \in 1 .. Len(body)
      BY <1>2
    <3>3. dat[rd + (1 + i)] = WriteEncode(blocks[j].time, blocks[j].data)[1 + i]
      BY <1>0, <3>1, <3>2 DEF Files, body
    <3>4. /\ blocks[j].time \in Nat /\ blocks[j].data \in Seq(Samples)
          /\ blocks[j].data # <<>>
      BY BlockAt
    <3>5. WriteEncode(blocks[j].time, blocks[j].data)[1 + i] = Number(body[i])
      BY <3>2, <3>4, Written DEF body
    <3>6. dat[rd + 1 + i].value = body[i]
      BY <3>1, <3>3, <3>5 DEF Number
    <3> QED
      BY <1>9, <2>1, <3>6
  <2>5. values = body
    <3>1. body \in Seq(Nat)
      BY <1>1, SeqMonotonic
    <3> QED
      BY <1>2, <1>9, <2>1, <2>4, <3>1, SeqEqual
  <2> QED
    BY <1>8, <1>12, <1>14, <2>1, <2>3, <2>5 DEF BodyRead, body
<1>15. CASE Len(dat) < End(j)
  BY <1>5, <1>8, <1>12, <1>0, <1>13, <1>15 DEF BodyRead
<1>16. End(j) \in Nat
  BY Border
<1> QED
  BY <1>1, <1>14, <1>15, <1>16

(* So a header that decode or timeDiff reads is that of the next block.    *)
LEMMA HeaderRead ==
    ASSUME Layout, Files, NEW h \in 0 .. Len(blocks), HeadersRead(h), rd < Len(dat),
           ReadBody(dat[rd + 1]), UNCHANGED recorder
    PROVE  /\ h + 1 \in 1 .. Len(blocks)
           /\ rd = WordsOf(h) /\ rd = blocks[h + 1].word
           /\ dat[rd + 1] = Header(Len(Runs(blocks[h + 1].data)), blocks[h + 1].time,
                                   CheckOnOff(blocks[h + 1].data[1]))
           /\ buffer' \in Seq(Nat \union Garbage) /\ BodyRead(h + 1)
           /\ rd' \in Nat /\ HeadersRead(h + 1)'
<1>1. /\ h + 1 \in 1 .. Len(blocks)
      /\ rd = WordsOf(h) /\ rd = blocks[h + 1].word
      /\ dat[rd + 1] = Header(Len(Runs(blocks[h + 1].data)), blocks[h + 1].time,
                              CheckOnOff(blocks[h + 1].data[1]))
  BY HeaderHere
<1>2. dat[rd + 1].size = Len(Runs(blocks[h + 1].data))
  BY <1>1 DEF Header
<1>3. buffer' \in Seq(Nat \union Garbage) /\ BodyRead(h + 1)
  BY <1>1, <1>2, BodyHere
<1>4. End(h + 1) \in Nat /\ Len(dat) \in Nat /\ WordsOf(h + 1) = End(h + 1) /\ h + 1 >= 1
  BY <1>1, Border, LenProperties DEF Files
<1>5. UNCHANGED <<blocks, dat>> /\ WordsOf(h + 1)' = WordsOf(h + 1) /\ End(h + 1)' = End(h + 1)
  BY Frame
<1>6. rd' \in Nat /\ HeadersRead(h + 1)'
  <2>1. CASE rd' = End(h + 1) /\ End(h + 1) <= Len(dat)
    BY <1>4, <1>5, <2>1 DEF HeadersRead
  <2>2. CASE rd' = Len(dat) /\ blocks[h + 1].word < Len(dat) /\ Len(dat) < End(h + 1)
    BY <1>4, <1>5, <2>2 DEF HeadersRead
  <2> QED
    BY <1>3, <2>1, <2>2 DEF BodyRead
<1> QED
  BY <1>1, <1>3, <1>6
-----------------------------------------------------------------------------
(* The types.                                                              *)

LEMMA PointType == \A p, x \in Int : Point(p, x) \in Line
  BY DEF Point, Line

LEMMA ChangeType ==
    ASSUME NEW p \in Int, NEW x \in Int
    PROVE  Change(p, x) \in Seq(Line) /\ Len(Change(p, x)) = 2
<1>1. Wrap(p - 1) \in Int
  BY WrapType, ConstantsAssumption DEF ConstantsAssumption
<1>2. Point(Wrap(p - 1), x) \in Line /\ Point(p, 1 - x) \in Line
  BY <1>1, PointType
<1> QED
  BY <1>2 DEF Change

LEMMA PositionType == position \in -IntHalf .. IntHalf - 1 => position \in Int
  BY ConstantsAssumption DEF ConstantsAssumption

LEMMA BufferType == \A x \in Nat \union Garbage : x \in Int
  BY ConstantsAssumption DEF ConstantsAssumption

LEMMA RecordType ==
    ASSUME TypeInv, NEW b \in Block, Record(b)
    PROVE  TypeInv'
<1>1. Layout' /\ Files'
  BY RecordFiles DEF TypeInv
<1>2. tool' = tool /\ tool = "record"
      /\ UNCHANGED <<done, rd, buffer, first, position, status, ptime, out>>
  BY DEF Record
<1>3. Decoder'
  BY <1>2 DEF TypeInv, Decoder
<1> QED
  BY <1>1, <1>2, <1>3 DEF TypeInv, Reading

LEMMA DecodeType ==
    ASSUME TypeInv, NEW t \in {"-d", "-dr", "-dt"}, Decode(t)
    PROVE  TypeInv' /\ HeadersRead(0)'
<1>1. Layout' /\ Files' /\ WordsOf(0)' = WordsOf(0)
  BY DecodeFiles DEF TypeInv
<1>2. tool' = t /\ tool = "record" /\ blocks' = blocks
      /\ UNCHANGED <<done, rd, buffer, first, position, status, ptime, out>>
  BY DEF Decode
<1>3. rd' = 0 /\ Len(dat)' \in Nat /\ Len(raw)' \in Nat /\ Len(blocks)' \in Nat
  BY <1>1, <1>2, LenProperties DEF TypeInv, Decoder, Layout, Files
<1>4. Decoder'
  BY <1>2, <1>3 DEF TypeInv, Decoder
<1>5. HeadersRead(0)'
  BY <1>1, <1>3 DEF HeadersRead, WordsOf
<1>6. 0 \in 0 .. Len(blocks)'
  BY <1>3
<1>7. Reading'
  BY <1>5, <1>6 DEF Reading
<1> QED
  BY <1>1, <1>4, <1>5, <1>7 DEF TypeInv

LEMMA SameReading ==
    ASSUME Layout, Files, Reading, UNCHANGED recorder, UNCHANGED rd
    PROVE  Layout' /\ Files' /\ Reading' /\ \A h : HeadersRead(h)' = HeadersRead(h)
<1>1. /\ UNCHANGED <<blocks, dat, raw, tool>> /\ Layout' /\ Files'
      /\ \A c : WordsOf(c)' = WordsOf(c)
      /\ \A j : End(j)' = End(j)
  BY Frame
<1>2. \A h : HeadersRead(h)' = HeadersRead(h)
  BY <1>1 DEF HeadersRead
<1> QED
  BY <1>1, <1>2 DEF Reading

LEMMA HeaderType ==
    ASSUME TypeInv, DecodeHeader \/ TimeDiffHeader
    PROVE  TypeInv'
<1> DEFINE hd == dat[rd + 1]
           stamp == <<"#", hd.time, 0>>
<1>1. /\ tool \in {"-d", "-dt"} /\ rd < Len(dat) /\ ReadBody(hd) /\ UNCHANGED recorder
      /\ UNCHANGED <<done, position>>
  BY DEF DecodeHeader, TimeDiffHeader
<1>2. PICK h \in 0 .. Len(blocks) : HeadersRead(h)
  BY <1>1 DEF TypeInv, Reading
<1>3. /\ h + 1 \in 1 .. Len(blocks)
      /\ hd = Header(Len(Runs(blocks[h + 1].data)), blocks[h + 1].time,
                     CheckOnOff(blocks[h + 1].data[1]))
      /\ buffer' \in Seq(Nat \union Garbage) /\ rd' \in Nat /\ HeadersRead(h + 1)'
  BY <1>1, <1>2, HeaderRead DEF TypeInv
<1>4. hd.value \in {0, 1} /\ hd.time \in Nat
  BY <1>3, OnOff, BlockAt DEF Header, TypeInv
<1>5. Layout' /\ Files' /\ UNCHANGED <<blocks, dat, raw, tool>>
  BY <1>1, Frame DEF TypeInv
<1>6. Reading'
  <2>1. h + 1 \in 0 .. Len(blocks)'
    BY <1>3, <1>5
  <2> QED
    BY <1>3, <2>1 DEF Reading
<1>7. out \in Seq(Line) /\ position \in Int /\ status \in {0, 1} /\ ptime \in Nat
  BY PositionType DEF TypeInv, Decoder
<1> HIDE DEF hd
<1>8. CASE DecodeHeader
  <2> DEFINE more == CASE first -> <<Point(position, hd.value)>>
                       [] ~first /\ status # hd.value -> Change(position, status)
                       [] OTHER -> <<>>
  <2>1. /\ status' = hd.value /\ first' = FALSE /\ ptime' = ptime
        /\ out' = out \o <<stamp>> \o more
    BY <1>8 DEF DecodeHeader, hd
  <2>2. more \in Seq(Line)
    <3>1. <<Point(position, hd.value)>> \in Seq(Line)
      <4>1. Point(position, hd.value) \in Line
        BY <1>4, <1>7, PointType
      <4> QED
        BY <4>1
    <3>2. Change(position, status) \in Seq(Line)
      BY <1>7, ChangeType
    <3>3. <<>> \in Seq(Line)
      OBVIOUS
    <3>4. more = <<Point(position, hd.value)>> \/ more = Change(position, status) \/ more = <<>>
      OBVIOUS
    <3> HIDE DEF more
    <3> QED
      BY <3>1, <3>2, <3>3, <3>4
  <2>3. <<stamp>> \in Seq(Line)
    <3>1. stamp \in Line
      BY <1>4 DEF Line
    <3> HIDE DEF stamp
    <3> QED
      BY <3>1
  <2> HIDE DEF more, stamp
  <2>4. out \o <<stamp>> \in Seq(Line)
    BY <1>7, <2>3, ConcatProperties
  <2>5. out \o <<stamp>> \o more \in Seq(Line)
    BY <2>2, <2>4, ConcatProperties
  <2>6. Decoder'
    BY <1>1, <1>3, <1>4, <1>5, <2>1, <2>5 DEF TypeInv, Decoder
  <2> QED
    BY <1>5, <1>6, <2>6 DEF TypeInv
<1>9. CASE TimeDiffHeader
  <2> DEFINE diff == <<"dt", hd.time - ptime, 0>>
  <2>1. /\ ptime' = hd.time /\ first' = FALSE /\ status' = status
        /\ out' = IF first THEN out ELSE Append(out, diff)
    BY <1>9 DEF TimeDiffHeader, hd
  <2>2. diff \in Line
    BY <1>4, <1>7 DEF Line
  <2> HIDE DEF diff
  <2>3. Append(out, diff) \in Seq(Line)
    BY <1>7, <2>2, AppendProperties
  <2>4. out' \in Seq(Line)
    BY <1>7, <2>1, <2>3
  <2>5. Decoder'
    BY <1>1, <1>3, <1>4, <1>5, <2>1, <2>4 DEF TypeInv, Decoder
  <2> QED
    BY <1>5, <1>6, <2>5 DEF TypeInv
<1> QED
  BY <1>8, <1>9

LEMMA NumberType ==
    ASSUME TypeInv, DecodeNumber \/ TimeDiffNumber
    PROVE  TypeInv'
<1>1. /\ tool \in {"-d", "-dt"} /\ buffer # <<>>
      /\ position' = Wrap(position + Head(buffer)) /\ buffer' = Tail(buffer)
      /\ UNCHANGED <<done, rd, first, ptime>> /\ UNCHANGED recorder
  BY DEF DecodeNumber, TimeDiffNumber
<1>2. Layout' /\ Files' /\ Reading' /\ UNCHANGED <<blocks, dat, raw, tool>>
  BY <1>1, SameReading, Frame DEF TypeInv
<1>3. Head(buffer) \in Nat \union Garbage /\ buffer' \in Seq(Nat \union Garbage)
  BY <1>1, HeadTailProperties DEF TypeInv, Decoder
<1>4. position \in Int /\ status \in {0, 1} /\ out \in Seq(Line)
  BY PositionType DEF TypeInv, Decoder
<1>5. position' \in -IntHalf .. IntHalf - 1
  <2>1. position + Head(buffer) \in Int
    <3>1. Head(buffer) \in Int
      BY <1>3, BufferType
    <3> QED
      BY <1>4, <3>1
  <2> QED
    BY <1>1, <2>1, WrapType
<1>6. status' \in {0, 1}
  BY <1>4 DEF DecodeNumber, TimeDiffNumber
<1>7. out' \in Seq(Line)
  <2>1. position' \in Int
    BY <1>5, ConstantsAssumption DEF ConstantsAssumption
  <2>2. Change(position', status) \in Seq(Line)
    BY <1>4, <2>1, ChangeType
  <2>3. out \o Change(position', status) \in Seq(Line)
    BY <1>4, <2>2, ConcatProperties
  <2> QED
    BY <1>4, <2>3 DEF DecodeNumber, TimeDiffNumber
<1>8. Decoder'
  BY <1>1, <1>2, <1>3, <1>5, <1>6, <1>7 DEF TypeInv, Decoder
<1> QED
  BY <1>2, <1>8 DEF TypeInv

LEMMA EndType ==
    ASSUME TypeInv, DecodeEnd \/ TimeDiffEnd
    PROVE  TypeInv'
<1>1. /\ tool \in {"-d", "-dt"} /\ done' = TRUE /\ position' = Wrap(position - 1)
      /\ UNCHANGED <<rd, buffer, first, status, ptime>> /\ UNCHANGED recorder
  BY DEF DecodeEnd, TimeDiffEnd
<1>2. Layout' /\ Files' /\ Reading' /\ UNCHANGED <<blocks, dat, raw, tool>>
  BY <1>1, SameReading, Frame DEF TypeInv
<1>3. position \in Int /\ status \in {0, 1} /\ out \in Seq(Line)
  BY PositionType DEF TypeInv, Decoder
<1>4. position' \in -IntHalf .. IntHalf - 1
  BY <1>1, <1>3, WrapType
<1>5. out' \in Seq(Line)
  <2>1. Point(position', status) \in Line
    BY <1>3, <1>4, PointType, ConstantsAssumption DEF ConstantsAssumption
  <2>2. Append(out, Point(position', status)) \in Seq(Line)
    BY <1>3, <2>1, AppendProperties
  <2> QED
    BY <1>3, <2>2 DEF DecodeEnd, TimeDiffEnd
<1>6. Decoder'
  BY <1>1, <1>2, <1>4, <1>5 DEF TypeInv, Decoder
<1> QED
  BY <1>2, <1>6 DEF TypeInv

LEMMA RawType ==
    ASSUME TypeInv, DecodeRaw
    PROVE  TypeInv'
<1> DEFINE k == IF Len(raw) - rd < BufferSize THEN Len(raw) - rd ELSE BufferSize
<1>1. /\ tool = "-dr" /\ raw \in Seq(Samples) /\ Len(raw) \in Nat
      /\ rd \in Nat /\ rd <= Len(raw) /\ position \in Int /\ out \in Seq(Line)
  BY PositionType, LenProperties DEF TypeInv, Decoder, Files, DecodeRaw
<1>2. /\ out' = out \o [i \in 1 .. k |-> Point(Wrap(position + i - 1), raw[rd + i])]
      /\ position' = Wrap(position + k) /\ rd' = rd + k /\ done' = (k < BufferSize)
      /\ UNCHANGED <<buffer, first, status, ptime>> /\ UNCHANGED recorder
  BY DEF DecodeRaw
<1>3. PICK n \in Nat : n = k /\ rd + n <= Len(raw)
  <2>1. BufferSize \in Nat \ {0}
    BY ConstantsAssumption DEF ConstantsAssumption
  <2>2. k \in Nat /\ rd + k <= Len(raw)
    <3>1. CASE Len(raw) - rd < BufferSize
      BY <1>1, <3>1
    <3>2. CASE ~(Len(raw) - rd < BufferSize)
      BY <1>1, <2>1, <3>2
    <3> QED
      BY <3>1, <3>2
  <2> QED
    BY <2>2
<1> DEFINE lines == [i \in 1 .. n |-> Point(Wrap(position + i - 1), raw[rd + i])]
<1>4. /\ out' = out \o lines /\ position' = Wrap(position + n) /\ rd' = rd + n
      /\ done' \in BOOLEAN
  BY <1>2, <1>3
<1>5. lines \in Seq(Line)
  <2>1. ASSUME NEW i \in 1 .. n
        PROVE  Point(Wrap(position + i - 1), raw[rd + i]) \in Line
    <3>1. Wrap(position + i - 1) \in Int
      <4>1. position + i - 1 \in Int
        BY <1>1
      <4> QED
        BY <4>1, WrapType, ConstantsAssumption DEF ConstantsAssumption
    <3>2. rd + i \in 1 .. Len(raw)
      BY <1>1, <1>3
    <3>3. raw[rd + i] \in Int
      BY <1>1, <3>2, ElementOfSeq, ConstantsAssumption DEF ConstantsAssumption
    <3> QED
      BY <3>1, <3>3, PointType
  <2> QED
    BY <2>1
<1> HIDE DEF k, lines
<1>6. out' \in Seq(Line)
  BY <1>1, <1>4, <1>5, ConcatProperties
<1>7. position' \in -IntHalf .. IntHalf - 1
  BY <1>1, <1>4, WrapType
<1>8. Layout' /\ Files' /\ UNCHANGED <<blocks, dat, raw, tool>>
  BY <1>2, Frame DEF TypeInv
<1>9. rd' \in Nat /\ rd' <= Len(raw)'
  BY <1>1, <1>3, <1>4, <1>8
<1>10. Decoder'
  BY <1>1, <1>2, <1>4, <1>6, <1>7, <1>8, <1>9 DEF TypeInv, Decoder
<1>11. Reading'
  BY <1>1, <1>8 DEF Reading
<1> QED
  BY <1>8, <1>10, <1>11 DEF TypeInv

LEMMA InitType == Init => TypeInv
<1> SUFFICES ASSUME Init PROVE TypeInv
  OBVIOUS
<1>1. /\ <<>> \in Seq(BlockRecord) /\ <<>> \in Seq(Word) /\ <<>> \in Seq(Samples)
      /\ <<>> \in Seq(Line) /\ <<>> \in Seq(Nat \union Garbage) /\ Len(<<>>) = 0
  BY EmptySeq
<1>2. Layout
  BY <1>1 DEF Init, Layout
<1>3. Files
  BY <1>1 DEF Init, Files, WordsOf, SamplesOf
<1>4. 0 \in -IntHalf .. IntHalf - 1
  BY ConstantsAssumption DEF ConstantsAssumption
<1>5. Decoder
  BY <1>1, <1>4 DEF Init, Decoder
<1>6. Reading
  BY DEF Init, Reading
<1> QED
  BY <1>2, <1>3, <1>5, <1>6 DEF TypeInv

LEMMA NextType == TypeInv /\ [Next]_vars => TypeInv'
<1> SUFFICES ASSUME TypeInv, [Next]_vars PROVE TypeInv'
  OBVIOUS
<1>1. CASE UNCHANGED vars
  <2>1. UNCHANGED recorder /\ UNCHANGED rd
        /\ UNCHANGED <<done, buffer, first, position, status, ptime, out>>
    BY <1>1 DEF vars
  <2>2. Layout' /\ Files' /\ Reading' /\ UNCHANGED <<blocks, dat, raw, tool>>
    BY <2>1, SameReading, Frame DEF TypeInv
  <2>3. Decoder'
    BY <2>1, <2>2 DEF TypeInv, Decoder
  <2> QED
    BY <2>2, <2>3 DEF TypeInv
<1>2. CASE Next
  BY <1>1, <1>2, RecordType, DecodeType, HeaderType, NumberType, EndType, RawType
     DEF Next, Terminated
<1> QED
  BY <1>1, <1>2

(* TypeCorrect: every variable has its type, however long the files are    *)
(* and wherever they were cut: a decoder takes no number of a body for a   *)
(* header, and never reads past the end of a file.                         *)
THEOREM TypeCorrect == Spec => []TypeOK
<1>1. TypeInv => TypeOK
  <2> SUFFICES ASSUME TypeInv PROVE TypeOK
    OBVIOUS
  <2>1. \A i \in DOMAIN dat : dat[i] \in [size : Nat, time : Nat, value : Nat]
    BY ElementOfSeq, LenProperties DEF TypeInv, Files, Word
  <2>2. blocks \in Seq([time : Nat, data : Seq(Samples), word : Nat, sample : Nat])
    BY DEF TypeInv, Layout, BlockRecord
  <2>3. rd \in 0 .. (IF tool = "-dr" THEN Len(raw) ELSE Len(dat))
    <3>1. Len(raw) \in Nat /\ Len(dat) \in Nat /\ rd \in Nat
      BY LenProperties DEF TypeInv, Files, Decoder
    <3>2. CASE tool = "-dr"
      BY <3>1, <3>2 DEF TypeInv, Decoder
    <3>3. CASE tool = "record"
      BY <3>1, <3>3 DEF TypeInv, Decoder
    <3>4. CASE tool \in {"-d", "-dt"}
      <4>1. PICK h \in 0 .. Len(blocks) : HeadersRead(h)
        BY <3>4 DEF TypeInv, Reading
      <4>2. rd <= Len(dat)
        BY <3>1, <4>1 DEF HeadersRead
      <4> QED
        BY <3>1, <3>4, <4>2
    <3> QED
      BY <3>2, <3>3, <3>4 DEF TypeInv, Decoder
  <2>4. out \in Seq({"#", "p", "dt"} \X Int \X Int)
    BY DEF TypeInv, Decoder, Line
  <2> QED
    BY <2>1, <2>2, <2>3, <2>4 DEF TypeInv, Files, Decoder, TypeOK
<1> QED
  BY <1>1, InitType, NextType, PTL DEF Spec
-----------------------------------------------------------------------------
(* timeDiff: see DiffInv.                                                  *)

LEMMA NoDiffs ==
    ASSUME NEW h \in {0, 1}
    PROVE  Diffs(h) = <<>>
<1>1. \A f : DOMAIN f = 1 .. h - 1 /\ f = [i \in 1 .. h - 1 |-> f[i]] => f = <<>>
  <2>1. CASE h = 0
    BY <2>1
  <2>2. CASE h = 1
    BY <2>2
  <2> QED
    BY <2>1, <2>2
<1> QED
  BY <1>1 DEF Diffs

(* The time to one more block.                                             *)
LEMMA DiffsOn ==
    ASSUME Layout, NEW h \in 1 .. Len(blocks) - 1
    PROVE  Append(Diffs(h), <<"dt", blocks[h + 1].time - blocks[h].time, 0>>) = Diffs(h + 1)
<1> DEFINE dt == <<"dt", blocks[h + 1].time - blocks[h].time, 0>>
           S == {<<"dt", blocks[i + 1].time - blocks[i].time, 0>> : i \in 1 .. h}
<1>1. h \in Nat \ {0} /\ h - 1 \in Nat /\ (h + 1) - 1 = h /\ (h - 1) + 1 = h
  BY LenProperties DEF Layout
<1>2. /\ Diffs(h) \in Seq(S) /\ Len(Diffs(h)) = h - 1
      /\ Diffs(h + 1) \in Seq(S) /\ Len(Diffs(h + 1)) = h
      /\ \A i \in 1 .. h - 1 : Diffs(h)[i] = Diffs(h + 1)[i]
      /\ Diffs(h + 1)[h] = dt
  <2>1. \A i \in 1 .. h : <<"dt", blocks[i + 1].time - blocks[i].time, 0>> \in S
    OBVIOUS
  <2> HIDE DEF S
  <2>2. /\ Diffs(h) \in Seq(S) /\ Len(Diffs(h)) = h - 1
        /\ \A i \in 1 .. h - 1 :
              Diffs(h)[i] = <<"dt", blocks[i + 1].time - blocks[i].time, 0>>
    BY <1>1, <2>1 DEF Diffs
  <2>3. /\ Diffs(h + 1) \in Seq(S) /\ Len(Diffs(h + 1)) = h
        /\ \A i \in 1 .. h :
              Diffs(h + 1)[i] = <<"dt", blocks[i + 1].time - blocks[i].time, 0>>
    BY <1>1, <2>1 DEF Diffs
  <2> QED
    BY <1>1, <2>2, <2>3
<1>3. dt \in S
  BY <1>1
<1> HIDE DEF dt, S
<1>4. /\ Append(Diffs(h), dt) \in Seq(S) /\ Len(Append(Diffs(h), dt)) = (h - 1) + 1
      /\ \A i \in 1 .. h - 1 : Append(Diffs(h), dt)[i] = Diffs(h)[i]
      /\ Append(Diffs(h), dt)[(h - 1) + 1] = dt
  <2>1. /\ Append(Diffs(h), dt) \in Seq(S) /\ Len(Append(Diffs(h), dt)) = Len(Diffs(h)) + 1
        /\ \A i \in 1 .. Len(Diffs(h)) : Append(Diffs(h), dt)[i] = Diffs(h)[i]
        /\ Append(Diffs(h), dt)[Len(Diffs(h)) + 1] = dt
    BY <1>2, <1>3, AppendProperties
  <2> QED
    BY <1>2, <2>1
<1>5. ASSUME NEW i \in 1 .. h
      PROVE  Append(Diffs(h), dt)[i] = Diffs(h + 1)[i]
  <2>1. i = h \/ i \in 1 .. h - 1
    BY <1>1
  <2> QED
    BY <1>1, <1>2, <1>4, <2>1
<1>6. Append(Diffs(h), dt) = Diffs(h + 1)
  <2>1. Len(Append(Diffs(h), dt)) = h
    BY <1>1, <1>4
  <2> QED
    BY <1>2, <1>4, <1>5, <2>1, SeqEqual
<1> QED
  BY <1>6 DEF dt

LEMMA DiffHeaderStep ==
    ASSUME TypeInv, DiffInv, TimeDiffHeader
    PROVE  DiffInv'
<1> DEFINE hd == dat[rd + 1]
<1>1. /\ tool = "-dt" /\ ~done /\ rd < Len(dat) /\ ReadBody(hd) /\ UNCHANGED recorder
      /\ done' = done /\ first' = FALSE /\ ptime' = hd.time
      /\ out' = IF first THEN out ELSE Append(out, <<"dt", hd.time - ptime, 0>>)
  BY DEF TimeDiffHeader
<1>2. PICK h \in 0 .. Len(blocks) :
          /\ HeadersRead(h)
          /\ (first <=> h = 0)
          /\ h > 0 => ptime = blocks[h].time
          /\ out = Diffs(h)
  BY <1>1 DEF DiffInv
<1>3. h + 1 \in 1 .. Len(blocks) /\ hd.time = blocks[h + 1].time /\ HeadersRead(h + 1)'
  <2>1. h + 1 \in 1 .. Len(blocks) /\ HeadersRead(h + 1)'
        /\ hd = Header(Len(Runs(blocks[h + 1].data)), blocks[h + 1].time,
                       CheckOnOff(blocks[h + 1].data[1]))
    BY <1>1, <1>2, HeaderRead DEF TypeInv
  <2> QED
    BY <2>1 DEF Header
<1>4. UNCHANGED <<blocks, dat, tool>>
  BY <1>1, Frame
<1> HIDE DEF hd
<1>5. Len(blocks) \in Nat
  BY LenProperties DEF TypeInv, Layout
<1>6. out' = Diffs(h + 1)
  <2>1. CASE h = 0
    <3>1. Diffs(0) = <<>> /\ Diffs(1) = <<>>
      BY NoDiffs
    <3>2. h + 1 = 1 /\ first
      BY <1>2, <2>1
    <3> QED
      BY <1>1, <1>2, <2>1, <3>1, <3>2
  <2>2. CASE h # 0
    <3>1. h \in 1 .. Len(blocks) - 1 /\ h > 0
      BY <1>3, <1>5, <2>2
    <3>2. out' = Append(Diffs(h), <<"dt", blocks[h + 1].time - blocks[h].time, 0>>)
      BY <1>1, <1>2, <1>3, <2>2, <3>1
    <3> QED
      BY <3>1, <3>2, DiffsOn DEF TypeInv
  <2> QED
    BY <2>1, <2>2
<1>7. Diffs(h + 1)' = Diffs(h + 1)
  BY <1>4 DEF Diffs
<1>8. /\ h + 1 \in 0 .. Len(blocks)' /\ (first' <=> h + 1 = 0) /\ ptime' = blocks[h + 1].time'
      /\ done' = FALSE
  <2>1. h + 1 # 0 /\ h + 1 \in 0 .. Len(blocks)
    BY <1>3, <1>5
  <2> QED
    BY <1>1, <1>3, <1>4, <2>1 DEF TypeInv, Decoder
<1> QED
  BY <1>3, <1>6, <1>7, <1>8 DEF DiffInv

LEMMA DiffOtherStep ==
    ASSUME TypeInv, DiffInv, TimeDiffNumber \/ TimeDiffEnd \/ UNCHANGED vars
    PROVE  DiffInv'
<1>1. /\ UNCHANGED recorder /\ UNCHANGED rd /\ UNCHANGED <<first, ptime, out>>
      /\ done' # done => rd = Len(dat)
  BY DEF TimeDiffNumber, TimeDiffEnd, vars
<1>2. UNCHANGED <<blocks, dat, tool>> /\ \A h : HeadersRead(h)' = HeadersRead(h)
  BY <1>1, SameReading, Frame DEF TypeInv
<1>3. \A h : Diffs(h)' = Diffs(h)
  BY <1>2 DEF Diffs
<1>4. SUFFICES ASSUME tool = "-dt" PROVE DiffInv'
  BY <1>2 DEF DiffInv
<1>5. PICK h \in 0 .. Len(blocks) :
          /\ HeadersRead(h)
          /\ (first <=> h = 0)
          /\ h > 0 => ptime = blocks[h].time
          /\ out = Diffs(h)
          /\ done => rd = Len(dat)
  BY <1>4 DEF DiffInv
<1>6. done' => rd' = Len(dat)'
  BY <1>1, <1>2, <1>5
<1> QED
  BY <1>1, <1>2, <1>3, <1>5, <1>6 DEF DiffInv

LEMMA NextDiff == TypeInv /\ DiffInv /\ [Next]_vars => DiffInv'
<1> SUFFICES ASSUME TypeInv, DiffInv, [Next]_vars PROVE DiffInv'
  OBVIOUS
<1>1. ASSUME NEW b \in Block, Record(b)
      PROVE  DiffInv'
  BY <1>1 DEF Record, DiffInv
<1>2. ASSUME NEW t \in {"-d", "-dr", "-dt"}, Decode(t)
      PROVE  DiffInv'
  <2>1. HeadersRead(0)' /\ Layout'
    BY <1>2, DecodeType DEF TypeInv
  <2>2. tool = "record" /\ UNCHANGED <<first, out, done>>
    BY <1>2 DEF Decode
  <2>3. first' = TRUE /\ out' = <<>> /\ done' = FALSE
    BY <2>2 DEF TypeInv, Decoder
  <2>4. Diffs(0)' = <<>>
    <3>1. Diffs(0) = <<>>
      BY NoDiffs
    <3>2. \A f, g : DOMAIN f = 1 .. -1 /\ DOMAIN g = 1 .. -1
                    /\ f = [i \in 1 .. -1 |-> f[i]] /\ g = [i \in 1 .. -1 |-> g[i]] => f = g
      OBVIOUS
    <3> QED
      BY <3>1, <3>2 DEF Diffs
  <2>5. 0 \in 0 .. Len(blocks)'
    BY <2>1, LenProperties DEF Layout
  <2>6. (first' <=> 0 = 0) /\ ~(0 > 0) /\ out' = Diffs(0)'
    BY <2>3, <2>4
  <2> QED
    BY <2>1, <2>3, <2>5, <2>6 DEF DiffInv
<1>3. CASE DecodeHeader \/ DecodeNumber \/ DecodeEnd \/ DecodeRaw
  <2>1. tool \in {"-d", "-dr"} /\ UNCHANGED recorder
    BY <1>3 DEF DecodeHeader, DecodeNumber, DecodeEnd, DecodeRaw
  <2> QED
    BY <2>1 DEF DiffInv, recorder
<1> QED
  BY <1>1, <1>2, <1>3, DiffHeaderStep, DiffOtherStep DEF Next, Terminated

LEMMA DiffsPrinted == TypeInv /\ DiffInv => TimeDiffs
<1> SUFFICES ASSUME TypeInv, DiffInv, tool = "-dt", done
             PROVE  TimeDiffs
  BY DEF TimeDiffs
<1> DEFINE torn == \E j \in DOMAIN blocks : End(j) > Len(dat) /\ blocks[j].word < Len(dat)
           n == IF torn THEN Complete + 1 ELSE Complete
<1>1. PICK h \in 0 .. Len(blocks) : HeadersRead(h) /\ out = Diffs(h) /\ rd = Len(dat)
  BY DEF DiffInv
<1>2. Layout /\ Files /\ DOMAIN blocks = 1 .. Len(blocks) /\ Len(blocks) \in Nat /\ Len(dat) \in Nat
  BY LenProperties DEF TypeInv, Layout, Files
<1>3. CASE Len(dat) = WordsOf(h)
  <2>1. ASSUME NEW j \in 1 .. Len(blocks)
        PROVE  End(j) <= Len(dat) \/ blocks[j].word >= Len(dat)
    <3>1. /\ WordsOf(j) = End(j) /\ WordsOf(j - 1) = blocks[j].word
          /\ WordsOf(j) \in Nat /\ WordsOf(j - 1) \in Nat /\ WordsOf(h) \in Nat
      BY <1>2, Border, BordersType
    <3>2. CASE j <= h
      <4>1. WordsOf(j) <= WordsOf(h)
        BY <1>2, <3>2, Ordered
      <4> QED
        BY <1>3, <3>1, <4>1
    <3>3. CASE j > h
      <4>1. WordsOf(h) <= WordsOf(j - 1)
        <5>1. j - 1 \in 0 .. Len(blocks) /\ h \in 0 .. j - 1
          BY <1>2, <3>3
        <5> QED
          BY <1>2, <5>1, Ordered
      <4> QED
        BY <1>3, <3>1, <4>1
    <3> QED
      BY <1>2, <3>2, <3>3
  <2>2. ~torn
    <3>1. ASSUME NEW j \in 1 .. Len(blocks)
          PROVE  ~(End(j) > Len(dat) /\ blocks[j].word < Len(dat))
      <4>1. End(j) \in Nat /\ blocks[j].word \in Nat
        BY <1>2, Border, BlockAt
      <4> QED
        BY <1>2, <2>1, <4>1
    <3> QED
      BY <1>2, <3>1
  <2>3. Complete = h
    <3>1. h < Len(blocks) => Len(dat) < End(h + 1)
      <4> SUFFICES ASSUME h < Len(blocks) PROVE Len(dat) < End(h + 1)
        OBVIOUS
      <4>1. h + 1 \in 1 .. Len(blocks) /\ (h + 1) - 1 = h
        BY <1>2
      <4> QED
        BY <1>2, <1>3, <4>1, Border
    <3>2. WordsOf(h) <= Len(dat)
      BY <1>2, <1>3
    <3> QED
      BY <1>2, <3>1, <3>2, CompleteIs
  <2> QED
    BY <1>1, <2>2, <2>3 DEF TimeDiffs, Diffs
<1>4. CASE h >= 1 /\ blocks[h].word < Len(dat) /\ Len(dat) < End(h)
  <2>1. torn
    <3>1. h \in 1 .. Len(blocks)
      BY <1>2, <1>4
    <3>2. End(h) \in Nat
      BY <1>2, <3>1, Border
    <3>3. End(h) > Len(dat)
      BY <1>2, <1>4, <3>2
    <3> QED
      BY <1>2, <1>4, <3>1, <3>3
  <2>2. Complete = h - 1
    <3>1. h \in 1 .. Len(blocks) /\ h - 1 \in 0 .. Len(blocks) /\ (h - 1) + 1 = h
      BY <1>2, <1>4
    <3>2. WordsOf(h - 1) <= Len(dat)
      BY <1>2, <1>4, <3>1, Border, BlockAt
    <3> QED
      BY <1>2, <1>4, <3>1, <3>2, CompleteIs
  <2>3. (h - 1) + 1 = h
    BY <1>2
  <2> QED
    BY <1>1, <2>1, <2>2, <2>3 DEF TimeDiffs, Diffs
<1> QED
  BY <1>1, <1>3, <1>4 DEF HeadersRead

(* TimeDiffsPrinted: of every .dat file, whole or cut anywhere, timeDiff   *)
(* prints the time from each block whose header it holds to the next one;  *)
(* the numbers it reads past the end of the file do no harm.               *)
THEOREM TimeDiffsPrinted == Spec => []TimeDiffs
<1>1. Init => DiffInv
  BY DEF Init, DiffInv
<1> QED
  BY <1>1, InitType, NextType, NextDiff, DiffsPrinted, PTL DEF Spec
-----------------------------------------------------------------------------
(* What should be plotted.                                                 *)

\* The lines for sample k but for the time of its block.
Plot(k) ==
    CASE k = 1 -> <<Point(0, State(1))>>
      [] k > 1 /\ State(k) # State(k - 1) ->
             <<Point(k - 2, State(k - 1)), Point(k - 1, State(k))>>
      [] OTHER -> <<>>

Stamp(j) == <<"#", blocks[j].time, 0>>

LEMMA PlotType ==
    ASSUME NEW k \in Nat
    PROVE  Plot(k) \in Seq(Line)
<1>1. \A i : State(i) \in {0, 1}
  BY OnOff DEF State
<1>2. Point(0, State(1)) \in Line /\ Point(k - 2, State(k - 1)) \in Line
      /\ Point(k - 1, State(k)) \in Line
  BY <1>1, PointType
<1>3. <<Point(0, State(1))>> \in Seq(Line)
      /\ <<Point(k - 2, State(k - 1)), Point(k - 1, State(k))>> \in Seq(Line)
      /\ <<>> \in Seq(Line)
  BY <1>2
<1> QED
  BY <1>3 DEF Plot

LEMMA StampType ==
    ASSUME Layout, NEW j \in 1 .. Len(blocks)
    PROVE  <<Stamp(j)>> \in Seq(Line)
<1>1. Stamp(j) \in Line
  BY BlockAt DEF Stamp, Line
<1> QED
  BY <1>1

LEMMA LinesType ==
    ASSUME Layout, NEW k \in Nat
    PROVE  LinesAt(k) \in Seq(Line)
<1> DEFINE starts == {j \in DOMAIN blocks : blocks[j].sample = k - 1}
           j == CHOOSE j \in starts : TRUE
           stamp == IF starts # {} THEN <<Stamp(j)>> ELSE <<>>
<1>1. stamp \in Seq(Line)
  <2>1. CASE starts # {}
    <3>1. j \in starts
      BY <2>1
    <3>2. j \in 1 .. Len(blocks)
      BY <3>1, LenProperties DEF Layout
    <3> QED
      BY <2>1, <3>2, StampType
  <2>2. CASE starts = {}
    BY <2>2
  <2> QED
    BY <2>1, <2>2
<1>2. LinesAt(k) = stamp \o Plot(k)
  BY DEF LinesAt, Plot, Stamp
<1> HIDE DEF stamp
<1> QED
  BY <1>1, <1>2, PlotType, ConcatProperties

LEMMA NoWaveform == Waveform(0) = <<>>
<1>1. [k \in 1 .. 0 |-> LinesAt(k)] = <<>>
  OBVIOUS
<1> QED
  BY <1>1 DEF Waveform, FlattenSeq

LEMMA WaveformOn ==
    ASSUME Layout, NEW n \in Nat
    PROVE  /\ Waveform(n) \in Seq(Line)
           /\ Waveform(n + 1) = Waveform(n) \o LinesAt(n + 1)
<1> DEFINE g == [k \in 1 .. n + 1 |-> LinesAt(k)]
<1>1. g \in [1 .. n + 1 -> Seq(Line)]
  BY LinesType
<1>2. /\ [k \in 1 .. n |-> g[k]] = [k \in 1 .. n |-> LinesAt(k)]
      /\ [k \in 1 .. n + 1 |-> g[k]] = [k \in 1 .. n + 1 |-> LinesAt(k)]
      /\ g[n + 1] = LinesAt(n + 1)
  OBVIOUS
<1> HIDE DEF g
<1>3. GoesOn(Line, g, n)
  BY <1>1, FlattenGoesOn
<1> QED
  BY <1>2, <1>3 DEF GoesOn, Waveform

(* Nothing is plotted where nothing changes.                               *)
LEMMA Quiet ==
    ASSUME Layout, NEW p \in Nat, NEW q \in Nat, p <= q,
           \A k \in p + 1 .. q : LinesAt(k) = <<>>
    PROVE  Waveform(q) = Waveform(p)
<1> DEFINE S == {d \in Nat : p + d <= q => Waveform(p + d) = Waveform(p)}
<1>1. 0 \in S
  OBVIOUS
<1>2. ASSUME NEW d \in Nat, d \in S
      PROVE  d + 1 \in S
  <2> SUFFICES ASSUME p + (d + 1) <= q PROVE Waveform(p + (d + 1)) = Waveform(p)
    OBVIOUS
  <2>1. p + d \in Nat /\ p + d <= q /\ (p + d) + 1 = p + (d + 1) /\ (p + d) + 1 \in p + 1 .. q
    OBVIOUS
  <2>2. /\ Waveform(p + d) \in Seq(Line)
        /\ Waveform((p + d) + 1) = Waveform(p + d) \o LinesAt((p + d) + 1)
    BY <2>1, WaveformOn
  <2>3. LinesAt((p + d) + 1) = <<>>
    BY <2>1
  <2>4. Waveform(p + d) \o <<>> = Waveform(p + d)
    BY <2>2, ConcatEmptySeq
  <2> QED
    BY <1>2, <2>1, <2>2, <2>3, <2>4
<1>3. q - p \in S
  <2> HIDE DEF S
  <2>1. q - p \in Nat
    OBVIOUS
  <2> QED
    BY <1>1, <1>2, <2>1, InductionOnSet
<1>4. p + (q - p) = q
  OBVIOUS
<1> QED
  BY <1>3, <1>4

(* The blocks that begin with sample i of block j: j with its first one.   *)
LEMMA StartsAt ==
    ASSUME Layout, NEW j \in 1 .. Len(blocks), NEW i \in 1 .. Len(blocks[j].data),
           NEW l \in 1 .. Len(blocks)
    PROVE  blocks[l].sample = blocks[j].sample + i - 1 <=> l = j /\ i = 1
<1>1. Len(blocks) \in Nat
  BY LenProperties DEF Layout
<1>2. /\ blocks[j].sample \in Nat /\ blocks[l].sample \in Nat
      /\ Len(blocks[j].data) \in Nat \ {0} /\ Len(blocks[l].data) \in Nat \ {0}
  BY BlockAt
<1>3. CASE l = j
  BY <1>2, <1>3
<1>4. CASE l < j
  <2>1. l \in 0 .. j - 1 /\ j - 1 \in 0 .. Len(blocks)
    BY <1>1, <1>4
  <2>2. SamplesOf(l) <= SamplesOf(j - 1)
    BY <2>1, Ordered
  <2>3. blocks[l].sample + Len(blocks[l].data) <= blocks[j].sample
    BY <2>2, Border
  <2>4. blocks[l].sample < blocks[j].sample + i - 1
    BY <1>2, <2>3
  <2> QED
    BY <1>2, <1>4, <2>4
<1>5. CASE l > j
  <2>1. j \in 0 .. l - 1 /\ l - 1 \in 0 .. Len(blocks)
    BY <1>1, <1>5
  <2>2. SamplesOf(j) <= SamplesOf(l - 1)
    BY <2>1, Ordered
  <2>3. blocks[j].sample + Len(blocks[j].data) <= blocks[l].sample
    BY <2>2, Border
  <2>4. blocks[l].sample > blocks[j].sample + i - 1
    BY <1>2, <2>3
  <2> QED
    BY <1>2, <1>5, <2>4
<1> QED
  BY <1>1, <1>3, <1>4, <1>5

LEMMA LinesFirst ==
    ASSUME Layout, NEW j \in 1 .. Len(blocks)
    PROVE  LinesAt(blocks[j].sample + 1) = <<Stamp(j)>> \o Plot(blocks[j].sample + 1)
<1> DEFINE k == blocks[j].sample + 1
           starts == {l \in DOMAIN blocks : blocks[l].sample = k - 1}
<1>1. DOMAIN blocks = 1 .. Len(blocks) /\ 1 \in 1 .. Len(blocks[j].data)
      /\ blocks[j].sample + 1 - 1 = blocks[j].sample
  BY LenProperties, BlockAt DEF Layout
<1>2. starts = {j}
  <2>1. ASSUME NEW l \in 1 .. Len(blocks)
        PROVE  blocks[l].sample = k - 1 <=> l = j
    <3>1. k - 1 = blocks[j].sample + 1 - 1
      BY BlockAt
    <3> QED
      BY <1>1, <3>1, StartsAt
  <2> HIDE DEF k
  <2> QED
    BY <1>1, <2>1
<1>3. starts # {} /\ (CHOOSE l \in starts : TRUE) = j
  BY <1>2
<1> QED
  BY <1>3 DEF LinesAt, Plot, Stamp

LEMMA LinesInside ==
    ASSUME Layout, NEW j \in 1 .. Len(blocks), NEW i \in 2 .. Len(blocks[j].data)
    PROVE  LinesAt(blocks[j].sample + i) = Plot(blocks[j].sample + i)
<1> DEFINE k == blocks[j].sample + i
           starts == {l \in DOMAIN blocks : blocks[l].sample = k - 1}
<1>1. DOMAIN blocks = 1 .. Len(blocks) /\ i \in 1 .. Len(blocks[j].data) /\ i # 1
      /\ k \in Nat
  BY LenProperties, BlockAt DEF Layout
<1>2. starts = {}
  <2>1. ASSUME NEW l \in 1 .. Len(blocks)
        PROVE  blocks[l].sample # k - 1
    <3>1. k - 1 = blocks[j].sample + i - 1
      <4>1. blocks[j].sample \in Nat /\ i \in Int
        BY BlockAt
      <4> QED
        BY <4>1
    <3> QED
      BY <1>1, <3>1, StartsAt
  <2> HIDE DEF k
  <2> QED
    BY <1>1, <2>1
<1>3. LinesAt(k) = <<>> \o Plot(k)
  BY <1>2 DEF LinesAt, Plot
<1>4. <<>> \o Plot(k) = Plot(k)
  BY <1>1, PlotType, ConcatEmptySeq
<1> QED
  BY <1>3, <1>4

(* The states of the samples of a block.                                   *)
LEMMA StateIn ==
    ASSUME Layout, Files, tool # "-dr", NEW j \in 1 .. Len(blocks),
           NEW i \in 1 .. Len(blocks[j].data)
    PROVE  State(blocks[j].sample + i) = CheckOnOff(blocks[j].data[i])
  BY DEF Files, State

LEMMA SamePlot ==
    ASSUME UNCHANGED <<blocks, raw>>
    PROVE  /\ \A k : State(k)' = State(k)
           /\ \A n : Waveform(n)' = Waveform(n)
<1>1. \A k : State(k)' = State(k)
  BY DEF State
<1>2. \A k : LinesAt(k)' = LinesAt(k)
  BY <1>1 DEF LinesAt
<1>3. ASSUME NEW n
      PROVE  Waveform(n)' = Waveform(n)
  BY <1>2 DEF Waveform
<1> QED
  BY <1>1, <1>3
-----------------------------------------------------------------------------
(* decode: see PlotInv.                                                    *)

(* A sequence begins with what it was before something was appended.       *)
LEMMA PrefixOn ==
    ASSUME NEW S, NEW s \in Seq(S), NEW t \in Seq(S), NEW u \in Seq(S), IsPrefix(s, t)
    PROVE  IsPrefix(s, t \o u)
<1>1. Len(s) \in Nat /\ Len(t) \in Nat /\ Len(u) \in Nat /\ Len(s) <= Len(t)
  BY LenProperties DEF IsPrefix
<1>2. Len(t \o u) = Len(t) + Len(u)
  BY ConcatProperties
<1>3. SubSeq(t \o u, 1, Len(s)) = SubSeq(t, 1, Len(s))
  <2>1. CASE Len(s) = 0
    BY <2>1, SubSeqEmpty
  <2>2. CASE Len(s) # 0
    <3>1. Len(s) \in 1 .. Len(t) /\ 1 \in 1 .. Len(t)
      BY <1>1, <2>2
    <3> QED
      BY <3>1, SubSeqOfConcat1
  <2> QED
    BY <2>1, <2>2
<1>4. Len(s) <= Len(t \o u)
  BY <1>1, <1>2
<1> QED
  BY <1>3, <1>4 DEF IsPrefix

LEMMA PrefixSelf ==
    ASSUME NEW S, NEW s \in Seq(S)
    PROVE  IsPrefix(s, s)
  BY LenProperties DEF IsPrefix

(* At a change Change gives what should be plotted.                        *)
LEMMA ChangePlotted ==
    ASSUME NEW p \in Nat \ {0}, p < IntHalf, State(p + 1) # State(p)
    PROVE  Change(p, State(p)) = Plot(p + 1)
<1>1. State(p) \in {0, 1} /\ State(p + 1) \in {0, 1}
  BY OnOff DEF State
<1>2. 1 - State(p) = State(p + 1)
  BY <1>1
<1>3. Wrap(p - 1) = p - 1
  <2>1. p - 1 \in -IntHalf .. IntHalf - 1
    BY ConstantsAssumption DEF ConstantsAssumption
  <2> QED
    BY <2>1, WrapSmall
<1>4. p + 1 # 1 /\ p + 1 > 1 /\ (p + 1) - 1 = p /\ (p + 1) - 2 = p - 1
  OBVIOUS
<1> QED
  BY <1>2, <1>3, <1>4 DEF Change, Plot

LEMMA NothingPlotted ==
    ASSUME NEW p \in Nat \ {0}, State(p + 1) = State(p)
    PROVE  Plot(p + 1) = <<>>
<1>1. p + 1 # 1 /\ (p + 1) - 1 = p
  OBVIOUS
<1> QED
  BY <1>1 DEF Plot

LEMMA InFile ==
    ASSUME Layout, Files, tool = "-d", Countable, NEW j \in 1 .. Len(blocks)
    PROVE  /\ SamplesOf(j) = blocks[j].sample + Len(blocks[j].data)
           /\ SamplesOf(j) <= Len(raw) /\ SamplesOf(j) < IntHalf /\ SamplesOf(j) \in Nat
<1>1. Len(blocks) \in 0 .. Len(blocks) /\ j \in 0 .. Len(blocks)
  BY LenProperties DEF Layout
<1>2. SamplesOf(j) <= SamplesOf(Len(blocks))
  BY <1>1, Ordered
<1>3. SamplesOf(Len(blocks)) = Len(raw)
  BY DEF Files
<1>4. Len(raw) \in Nat /\ SamplesOf(j) \in Nat
  BY <1>1, LenProperties, BordersType DEF Files
<1> QED
  BY <1>2, <1>3, <1>4, Border, ConstantsAssumption DEF Countable, ConstantsAssumption

\* Samples a + 1 to b have one state.
Same(data, a, b) == \A k \in a + 1 .. b : CheckOnOff(data[k]) = CheckOnOff(data[b])

(* A run of samples that writeEncode counted.                              *)
LEMMA Edges ==
    ASSUME NEW data, NEW n \in Nat, NEW lens, NEW edge, Cuts(edge, lens, data, n),
           NEW m \in Nat, m < Len(lens)
    PROVE  /\ edge[m] \in Nat /\ edge[m + 1] \in Nat /\ edge[m] < edge[m + 1]
           /\ edge[m + 1] <= n /\ edge[m + 1] = edge[m] + lens[m + 1]
           /\ lens[m + 1] \in Nat
           /\ Same(data, edge[m], edge[m + 1])
           /\ m + 1 < Len(lens) =>
                 /\ edge[m + 1] < n
                 /\ CheckOnOff(data[edge[m + 1] + 1]) # CheckOnOff(data[edge[m + 1]])
           /\ m + 1 = Len(lens) => edge[m + 1] = n
<1>1. /\ lens \in Seq(Nat \ {0}) /\ edge \in [0 .. Len(lens) -> 0 .. n]
      /\ edge[Len(lens)] = n
  BY DEF Cuts
<1>2. PICK L \in Nat : L = Len(lens)
  BY <1>1, LenProperties
<1>3. m + 1 \in 1 .. L /\ m \in 0 .. L - 1 /\ m \in 0 .. L /\ m + 1 \in 0 .. L
  BY <1>2
<1>4. lens[m + 1] \in Nat \ {0}
  BY <1>1, <1>2, <1>3, ElementOfSeq
<1>5. edge[m] \in 0 .. n /\ edge[m + 1] \in 0 .. n
  BY <1>1, <1>2, <1>3
<1>6. /\ edge[m + 1] = edge[m] + lens[m + 1]
      /\ \A k \in edge[m] + 1 .. edge[m + 1] :
            CheckOnOff(data[k]) = CheckOnOff(data[edge[m + 1]])
  BY <1>2, <1>3 DEF Cuts
<1>7. edge[m] < edge[m + 1]
  BY <1>4, <1>5, <1>6
<1>8. ASSUME m + 1 < L
      PROVE  /\ edge[m + 1] < n
             /\ CheckOnOff(data[edge[m + 1] + 1]) # CheckOnOff(data[edge[m + 1]])
  <2>1. /\ m + 1 \in 1 .. L - 1 /\ m + 1 \in 0 .. L - 1
        /\ (m + 1) + 1 \in 1 .. L /\ (m + 1) + 1 \in 0 .. L
    BY <1>8
  <2>2. /\ CheckOnOff(data[edge[m + 1] + 1]) # CheckOnOff(data[edge[m + 1]])
        /\ edge[(m + 1) + 1] = edge[m + 1] + lens[(m + 1) + 1]
    BY <1>2, <2>1 DEF Cuts
  <2>3. lens[(m + 1) + 1] \in Nat \ {0}
    BY <1>1, <1>2, <2>1, ElementOfSeq
  <2>4. edge[(m + 1) + 1] \in 0 .. n
    BY <1>1, <1>2, <2>1
  <2>5. edge[m + 1] < n
    BY <1>5, <2>2, <2>3, <2>4
  <2> QED
    BY <2>2, <2>5
<1>9. m + 1 = L => edge[m + 1] = n
  BY <1>1, <1>2
<1>10. edge[m + 1] <= n /\ edge[m] \in Nat /\ edge[m + 1] \in Nat
  BY <1>5
<1>11. Same(data, edge[m], edge[m + 1])
  BY <1>6 DEF Same
<1> QED
  BY <1>2, <1>4, <1>6, <1>7, <1>8, <1>9, <1>10, <1>11

(* A run of equal states, from sample At(m) + 1 to At(m + 1).              *)
LEMMA RunPlotted ==
    ASSUME Layout, Files, tool = "-d", NEW j \in 1 .. Len(blocks), NEW edge,
           Cuts(edge, Runs(blocks[j].data), blocks[j].data, Len(blocks[j].data)),
           NEW m \in Nat, m < Len(Runs(blocks[j].data))
    PROVE  /\ At(j, edge, m) \in Nat /\ At(j, edge, m + 1) \in Nat \ {0}
           /\ At(j, edge, m + 1) <= SamplesOf(j)
           /\ At(j, edge, m + 1) = At(j, edge, m) + Runs(blocks[j].data)[m + 1]
           /\ State(At(j, edge, m + 1)) = State(At(j, edge, m) + 1)
           /\ Waveform(At(j, edge, m + 1)) = Waveform(At(j, edge, m) + 1)
           /\ m + 1 < Len(Runs(blocks[j].data)) =>
                 State(At(j, edge, m + 1) + 1) # State(At(j, edge, m + 1))
           /\ m + 1 = Len(Runs(blocks[j].data)) => At(j, edge, m + 1) = SamplesOf(j)
<1> DEFINE data == blocks[j].data
           lens == Runs(data)
<1>1. PICK s \in Nat : s = blocks[j].sample
  BY BlockAt
<1>2. PICK n \in Nat : n = Len(data) /\ SamplesOf(j) = s + n
  BY <1>1, BlockAt, Border
<1>3. PICK a : a = edge[m]
  OBVIOUS
<1>4. PICK b : b = edge[m + 1]
  OBVIOUS
<1>5. a \in Nat /\ b \in Nat /\ a < b /\ b <= n
  BY <1>2, <1>3, <1>4, Edges
<1>14. b = a + lens[m + 1] /\ lens[m + 1] \in Nat
  <2>1. lens[m + 1] \in Nat
    BY <1>2, Edges
  <2>2. edge[m + 1] = edge[m] + lens[m + 1]
    BY <1>2, Edges
  <2> HIDE DEF lens
  <2> QED
    BY <1>3, <1>4, <2>1, <2>2
<1>15. \A k \in a + 1 .. b : CheckOnOff(data[k]) = CheckOnOff(data[b])
  <2>1. Same(data, edge[m], edge[m + 1])
    BY <1>2, Edges
  <2> QED
    BY <1>3, <1>4, <2>1 DEF Same
<1>16. m + 1 < Len(lens) => b < n /\ CheckOnOff(data[b + 1]) # CheckOnOff(data[b])
  BY <1>2, <1>4, Edges
<1>17. m + 1 = Len(lens) => b = n
  BY <1>2, <1>4, Edges
<1>6. \A i \in 1 .. n : State(s + i) = CheckOnOff(data[i])
  BY <1>1, <1>2, StateIn
<1>7. \A i \in 2 .. n : LinesAt(s + i) = Plot(s + i)
  BY <1>1, <1>2, LinesInside
<1>8. At(j, edge, m) = s + a /\ At(j, edge, m + 1) = s + b
  BY <1>1, <1>3, <1>4 DEF At
<1> HIDE DEF data, lens
<1>9. ASSUME NEW i \in a + 1 .. b
      PROVE  State(s + i) = State(s + b)
  <2>1. i \in 1 .. n /\ b \in 1 .. n
    BY <1>5
  <2> QED
    BY <1>6, <1>15, <2>1
<1>10. State(s + b) = State((s + a) + 1)
  <2>1. a + 1 \in a + 1 .. b /\ s + (a + 1) = (s + a) + 1
    BY <1>5
  <2> QED
    BY <1>9, <2>1
<1>11. Waveform(s + b) = Waveform((s + a) + 1)
  <2>1. ASSUME NEW k \in ((s + a) + 1) + 1 .. s + b
        PROVE  LinesAt(k) = <<>>
    <3>1. PICK i \in Int : i = k - s
      BY <1>5
    <3>2. /\ i \in a + 1 .. b /\ i - 1 \in a + 1 .. b /\ i \in 2 .. n
          /\ s + i = k /\ s + (i - 1) = k - 1 /\ k - 1 \in Nat \ {0} /\ (k - 1) + 1 = k
      BY <1>5, <3>1
    <3>3. State(k) = State(k - 1)
      <4>1. State(s + i) = State(s + b) /\ State(s + (i - 1)) = State(s + b)
        BY <1>9, <3>2
      <4> QED
        BY <3>2, <4>1
    <3>4. LinesAt(k) = Plot(k)
      BY <1>7, <3>2
    <3>5. Plot((k - 1) + 1) = <<>>
      BY <3>2, <3>3, NothingPlotted
    <3> QED
      BY <3>2, <3>4, <3>5
  <2>2. (s + a) + 1 \in Nat /\ s + b \in Nat /\ (s + a) + 1 <= s + b
    BY <1>5
  <2> QED
    BY <2>1, <2>2, Quiet
<1>12. ASSUME m + 1 < Len(lens)
       PROVE  State((s + b) + 1) # State(s + b)
  <2>1. b + 1 \in 1 .. n /\ b \in 1 .. n /\ s + (b + 1) = (s + b) + 1
    <3>1. b < n
      BY <1>12, <1>16
    <3> QED
      BY <1>5, <3>1
  <2>2. CheckOnOff(data[b + 1]) # CheckOnOff(data[b])
    BY <1>12, <1>16
  <2>3. State(s + (b + 1)) # State(s + b)
    BY <1>6, <2>1, <2>2
  <2> QED
    BY <2>1, <2>3
<1>13. /\ s + a \in Nat /\ s + b \in Nat \ {0} /\ s + b <= s + n
       /\ s + b = (s + a) + lens[m + 1]
       /\ m + 1 = Len(lens) => s + b = s + n
  <2>1. s + a \in Nat /\ s + b \in Nat \ {0} /\ s + b <= s + n
    BY <1>5
  <2>2. s + b = (s + a) + lens[m + 1]
    BY <1>5, <1>14
  <2> QED
    BY <1>17, <2>1, <2>2
<1> QED
  BY <1>2, <1>8, <1>10, <1>11, <1>12, <1>13 DEF lens, data
-----------------------------------------------------------------------------
(* The steps of decode.                                                    *)

LEMMA PlotHeaderStep ==
    ASSUME TypeInv, Countable, NEW c \in 0 .. Len(blocks), Between(c), DecodeHeader
    PROVE  PlotInv'
<1> DEFINE hd == dat[rd + 1]
           j == c + 1
           more == CASE first -> <<Point(position, hd.value)>>
                     [] ~first /\ status # hd.value -> Change(position, status)
                     [] OTHER -> <<>>
<1>1. /\ tool = "-d" /\ rd < Len(dat) /\ ReadBody(hd) /\ UNCHANGED recorder
      /\ UNCHANGED <<done, position>> /\ status' = hd.value /\ first' = FALSE
      /\ out' = out \o <<<<"#", hd.time, 0>>>> \o more
  BY DEF DecodeHeader
<1>2. /\ Layout /\ Files /\ first \in BOOLEAN /\ done' = FALSE
      /\ Len(blocks) \in Nat /\ Len(raw) \in Nat /\ Len(dat) \in Nat
  BY <1>1, LenProperties DEF TypeInv, Files, Layout, Decoder, Between
<1>3. /\ rd = WordsOf(c) /\ rd <= Len(dat) /\ (first <=> c = 0)
      /\ c > 0 => status = State(SamplesOf(c))
      /\ position = SamplesOf(c) /\ out = Waveform(SamplesOf(c))
  BY DEF Between, Plotted
<1>4. /\ j \in 1 .. Len(blocks) /\ rd = WordsOf(c) /\ rd = blocks[j].word
      /\ hd = Header(Len(Runs(blocks[j].data)), blocks[j].time, CheckOnOff(blocks[j].data[1]))
      /\ BodyRead(j)
  BY <1>1, <1>2, <1>3, HeaderRead DEF HeadersRead
<1>5. PICK p \in Nat : p = blocks[j].sample
  BY <1>2, <1>4, BlockAt
<1>6. SamplesOf(c) = p /\ position = p /\ out = Waveform(p)
  <2>1. j - 1 = c
    BY <1>2
  <2> QED
    BY <1>2, <1>3, <1>4, <1>5, <2>1, Border
<1>7. /\ hd.value = State(p + 1) /\ hd.time = blocks[j].time
      /\ p < IntHalf /\ p + 1 <= Len(raw)
  <2>1. 1 \in 1 .. Len(blocks[j].data) /\ Len(blocks[j].data) \in Nat \ {0}
    BY <1>2, <1>4, BlockAt
  <2>2. State(p + 1) = CheckOnOff(blocks[j].data[1])
    BY <1>1, <1>2, <1>4, <1>5, <2>1, StateIn
  <2>3. /\ SamplesOf(j) = p + Len(blocks[j].data)
        /\ SamplesOf(j) <= Len(raw) /\ SamplesOf(j) < IntHalf
    BY <1>1, <1>2, <1>4, <1>5, InFile
  <2>4. p < IntHalf /\ p + 1 <= Len(raw)
    BY <1>2, <2>1, <2>3, ConstantsAssumption DEF ConstantsAssumption
  <2> QED
    BY <1>4, <2>2, <2>4 DEF Header
<1> HIDE DEF hd
<1>8. more = Plot(p + 1)
  <2>1. CASE c = 0
    <3>1. p = 0
      BY <1>6, <2>1 DEF SamplesOf
    <3>2. Plot(p + 1) = <<Point(0, State(1))>>
      BY <3>1 DEF Plot
    <3>3. more = <<Point(p, hd.value)>>
      BY <1>3, <1>6, <2>1
    <3> QED
      BY <1>7, <3>1, <3>2, <3>3
  <2>2. CASE c # 0
    <3>1. c > 0 /\ c \in 1 .. Len(blocks) /\ c - 1 \in 0 .. Len(blocks)
      BY <2>2
    <3>2. p \in Nat \ {0}
      <4>1. SamplesOf(c) > blocks[c].sample /\ blocks[c].sample \in Nat
        BY <1>2, <3>1, Border, BlockAt
      <4> QED
        BY <1>6, <4>1
    <3>3. ~first /\ status = State(p)
      BY <1>3, <1>6, <2>2, <3>1
    <3>4. CASE State(p + 1) = State(p)
      <4>1. more = <<>>
        BY <1>7, <3>3, <3>4
      <4> QED
        BY <3>2, <3>4, <4>1, NothingPlotted
    <3>5. CASE State(p + 1) # State(p)
      <4>1. more = Change(p, State(p))
        BY <1>6, <1>7, <3>3, <3>5
      <4> QED
        BY <1>7, <3>2, <3>5, <4>1, ChangePlotted
    <3> QED
      BY <3>4, <3>5
  <2> QED
    BY <2>1, <2>2
<1> HIDE DEF more, j
<1>9. /\ Waveform(p) \in Seq(Line) /\ <<Stamp(j)>> \in Seq(Line) /\ Plot(p + 1) \in Seq(Line)
      /\ Waveform(p + 1) = Waveform(p) \o LinesAt(p + 1)
      /\ LinesAt(p + 1) = <<Stamp(j)>> \o Plot(p + 1)
      /\ LinesAt(p + 1) \in Seq(Line)
  <2>1. p + 1 \in Nat
    OBVIOUS
  <2> QED
    BY <1>2, <1>4, <1>5, <2>1, WaveformOn, StampType, PlotType, LinesFirst, LinesType
<1>10. out' = Waveform(p + 1)
  <2>1. (Waveform(p) \o <<Stamp(j)>>) \o Plot(p + 1) = Waveform(p) \o (<<Stamp(j)>> \o Plot(p + 1))
    BY <1>9, ConcatAssociative
  <2>2. out' = (Waveform(p) \o <<Stamp(j)>>) \o Plot(p + 1)
    BY <1>1, <1>6, <1>7, <1>8 DEF Stamp
  <2> QED
    BY <1>9, <2>1, <2>2
<1>11. UNCHANGED <<blocks, dat, raw, tool>>
       /\ (\A k : State(k)' = State(k)) /\ (\A n : Waveform(n)' = Waveform(n))
       /\ (\A n : SamplesOf(n)' = SamplesOf(n) /\ WordsOf(n)' = WordsOf(n))
       /\ \A n : End(n)' = End(n)
  BY <1>1, Frame, SamePlot
<1>12. CASE rd' = End(j) /\ End(j) <= Len(dat) /\ buffer' = Runs(blocks[j].data)
  <2> DEFINE data == blocks[j].data
             lens == Runs(data)
  <2>1. lens \in Seq(Nat \ {0}) /\ Len(lens) \in Nat \ {0} /\ data \in Seq(Samples) /\ data # <<>>
    BY <1>2, <1>4, BlockAt
  <2>2. PICK edge : Cuts(edge, lens, data, Len(data))
    BY <2>1, RunsCut
  <2>3. edge[0] = 0
    BY <2>2 DEF Cuts
  <2>4. buffer' = SubSeq(lens, 0 + 1, Len(lens))
    BY <1>12, <2>1, SubSeqFull
  <2>5. position' = At(j, edge, 0)
    BY <1>1, <1>5, <1>6, <2>3 DEF At
  <2>6. status' = State(position' + 1) /\ out' = Waveform(position' + 1)
    BY <1>1, <1>6, <1>7, <1>10
  <2>7. 0 < Len(lens)
    BY <2>1
  <2> HIDE DEF data, lens
  <2>8. /\ ~done' /\ ~first' /\ rd' = End(j)' /\ rd' <= Len(dat)'
        /\ status' = State(position + 1)' /\ out' = Waveform(position + 1)'
    BY <1>1, <1>2, <1>11, <1>12, <2>6
  <2>9. Inside(j, 0)'
    BY <1>11, <2>2, <2>4, <2>5, <2>7, <2>8 DEF Inside, At, data, lens
  <2>10. j \in 1 .. Len(blocks)'
    BY <1>4, <1>11
  <2> QED
    BY <2>9, <2>10 DEF PlotInv
<1>13. CASE rd' = Len(dat) /\ blocks[j].word < Len(dat) /\ Len(dat) < End(j)
  <2>1. IsPrefix(Waveform(p), out')
    <3>1. IsPrefix(Waveform(p), Waveform(p) \o LinesAt(p + 1))
      BY <1>9, PrefixSelf, PrefixOn
    <3> QED
      BY <1>9, <1>10, <3>1
  <2>2. c < Len(blocks)
    BY <1>2, <1>4 DEF j
  <2>3. Torn(c)'
    BY <1>3, <1>4, <1>6, <1>11, <1>13, <2>1, <2>2 DEF Torn, j
  <2>4. c \in 0 .. Len(blocks)'
    BY <1>11
  <2> QED
    BY <2>3, <2>4 DEF PlotInv
<1> QED
  BY <1>4, <1>12, <1>13 DEF BodyRead
LEMMA PlotNumberStep ==
    ASSUME TypeInv, Countable, NEW j \in 1 .. Len(blocks), NEW m \in Nat, Inside(j, m),
           DecodeNumber
    PROVE  PlotInv'
<1> DEFINE data == blocks[j].data
           lens == Runs(data)
<1>1. /\ tool = "-d" /\ position' = Wrap(position + Head(buffer)) /\ buffer' = Tail(buffer)
      /\ UNCHANGED recorder /\ UNCHANGED <<done, rd, first>>
      /\ IF Len(buffer) > 1
         THEN out' = out \o Change(position', status) /\ status' = 1 - status
         ELSE UNCHANGED <<out, status>>
  BY DEF DecodeNumber
<1>2. /\ Layout /\ Files /\ Len(blocks) \in Nat /\ Len(raw) \in Nat
  BY LenProperties DEF TypeInv, Files, Layout
<1>3. /\ ~done /\ ~first /\ rd = End(j) /\ rd <= Len(dat)
      /\ buffer = SubSeq(lens, m + 1, Len(lens)) /\ m < Len(lens)
      /\ status = State(position + 1) /\ out = Waveform(position + 1)
  BY DEF Inside
<1>4. PICK edge : Cuts(edge, lens, data, Len(data)) /\ position = At(j, edge, m)
  BY DEF Inside
<1>5. lens \in Seq(Nat \ {0}) /\ Len(lens) \in Nat \ {0} /\ m < Len(lens)
  BY <1>2, <1>3, BlockAt
<1>6. PICK p \in Nat : p = At(j, edge, m)
  BY <1>1, <1>2, <1>3, <1>4, RunPlotted
<1>7. PICK q \in Nat \ {0} : q = At(j, edge, m + 1)
  BY <1>1, <1>2, <1>3, <1>4, RunPlotted
<1>8. q <= SamplesOf(j) /\ q = p + lens[m + 1]
  BY <1>1, <1>2, <1>3, <1>4, <1>6, <1>7, RunPlotted
<1>9. State(q) = State(p + 1) /\ Waveform(q) = Waveform(p + 1)
  BY <1>1, <1>2, <1>3, <1>4, <1>6, <1>7, RunPlotted
<1>10. /\ m + 1 < Len(lens) => State(q + 1) # State(q)
       /\ m + 1 = Len(lens) => q = SamplesOf(j)
  BY <1>1, <1>2, <1>3, <1>4, <1>7, RunPlotted
<1>11. q < IntHalf
  <2>1. SamplesOf(j) \in Nat /\ SamplesOf(j) < IntHalf
    BY <1>1, <1>2, InFile
  <2>2. IntHalf \in Nat
    BY ConstantsAssumption DEF ConstantsAssumption
  <2> QED
    BY <1>8, <2>1, <2>2
<1> HIDE DEF data, lens
<1>12. PICK L \in Nat \ {0} : L = Len(lens) /\ m < L
  BY <1>5
<1>13. /\ Head(buffer) = lens[m + 1] /\ buffer' = SubSeq(lens, (m + 1) + 1, L)
       /\ Len(buffer) = L - m
  <2>1. m + 1 \in 1 .. L /\ L \in m + 1 .. L
    BY <1>12
  <2>2. /\ Head(SubSeq(lens, m + 1, L)) = lens[m + 1]
        /\ Tail(SubSeq(lens, m + 1, L)) = SubSeq(lens, (m + 1) + 1, L)
    BY <1>5, <1>12, <2>1, HeadTailOfSubSeq
  <2>3. \A i \in m + 1 .. L : lens[i] \in Nat \ {0}
    BY <1>5, <1>12, ElementOfSeq
  <2>4. Len(SubSeq(lens, m + 1, L)) = IF m + 1 <= L THEN L - (m + 1) + 1 ELSE 0
    BY <2>3, SubSeqProperties
  <2>5. m + 1 <= L /\ L - (m + 1) + 1 = L - m
    BY <1>12
  <2>6. buffer = SubSeq(lens, m + 1, L)
    BY <1>3, <1>12
  <2> QED
    BY <1>1, <2>2, <2>4, <2>5, <2>6
<1>14. position' = q
  <2>1. position' = Wrap(q)
    BY <1>1, <1>4, <1>6, <1>8, <1>13
  <2>2. q \in -IntHalf .. IntHalf - 1
    BY <1>11, ConstantsAssumption DEF ConstantsAssumption
  <2> QED
    BY <2>1, <2>2, WrapSmall
<1>15. status = State(q) /\ out = Waveform(q)
  BY <1>3, <1>4, <1>6, <1>9
<1>16. UNCHANGED <<blocks, dat, raw, tool>>
       /\ (\A k : State(k)' = State(k)) /\ (\A n : Waveform(n)' = Waveform(n))
       /\ (\A n : SamplesOf(n)' = SamplesOf(n) /\ WordsOf(n)' = WordsOf(n))
       /\ \A n : End(n)' = End(n)
  BY <1>1, Frame, SamePlot
<1>17. CASE m + 1 < L
  <2>1. Len(buffer) > 1
    BY <1>13, <1>17
  <2>2. out' = Waveform(q) \o Change(q, State(q)) /\ status' = 1 - State(q)
    BY <1>1, <1>14, <1>15, <2>1
  <2>3. State(q + 1) # State(q)
    BY <1>10, <1>12, <1>17
  <2>4. status' = State(q + 1)
    <3>1. State(q) \in {0, 1} /\ State(q + 1) \in {0, 1}
      BY OnOff DEF State
    <3> QED
      BY <2>2, <2>3, <3>1
  <2>5. Change(q, State(q)) = Plot(q + 1)
    BY <1>11, <2>3, ChangePlotted
  <2>6. LinesAt(q + 1) = Plot(q + 1)
    <3>1. PICK s \in Nat : s = blocks[j].sample
      BY <1>2, BlockAt
    <3>2. PICK n \in Nat : n = Len(blocks[j].data) /\ SamplesOf(j) = s + n
      BY <1>2, <3>1, BlockAt, Border
    <3>3. PICK i \in Int : i = q + 1 - s
      BY <3>1
    <3>4. q < s + n
      <4>1. PICK e : e = edge[m + 1]
        OBVIOUS
      <4>2. e < n /\ e \in Nat
        BY <1>4, <1>12, <1>17, <3>2, <4>1, Edges DEF data
      <4>3. q = s + e
        BY <1>7, <3>1, <4>1 DEF At
      <4> QED
        BY <4>2, <4>3
    <3>5. s < q
      <4>1. PICK e : e = edge[m + 1]
        OBVIOUS
      <4>2. edge[m] \in Nat /\ e \in Nat /\ edge[m] < e
        BY <1>4, <1>12, <3>2, <4>1, Edges DEF data
      <4>3. q = s + e
        BY <1>7, <3>1, <4>1 DEF At
      <4> QED
        BY <4>2, <4>3
    <3>6. i \in 2 .. n /\ s + i = q + 1
      BY <3>3, <3>4, <3>5
    <3> QED
      BY <1>2, <3>1, <3>2, <3>6, LinesInside
  <2>7. out' = Waveform(q + 1)
    BY <1>2, <2>2, <2>5, <2>6, WaveformOn
  <2>8. /\ ~done' /\ ~first' /\ rd' = End(j)' /\ rd' <= Len(dat)'
        /\ status' = State(position + 1)' /\ out' = Waveform(position + 1)'
    BY <1>1, <1>3, <1>14, <1>16, <2>4, <2>7
  <2>9. Inside(j, m + 1)'
    BY <1>4, <1>7, <1>12, <1>13, <1>14, <1>16, <1>17, <2>8 DEF Inside, At, data, lens
  <2>10. m + 1 \in Nat /\ j \in 1 .. Len(blocks)'
    BY <1>16
  <2> QED
    BY <2>9, <2>10 DEF PlotInv
<1>18. CASE m + 1 = L
  <2>1. ~(Len(buffer) > 1)
    BY <1>13, <1>18
  <2>2. out' = Waveform(q) /\ status' = State(q)
    BY <1>1, <1>15, <2>1
  <2>3. buffer' = <<>>
    <3>1. L < (m + 1) + 1
      BY <1>18
    <3> QED
      BY <1>13, <3>1, SubSeqEmpty
  <2>4. q = SamplesOf(j) /\ WordsOf(j) = End(j)
    BY <1>2, <1>10, <1>12, <1>18, Border
  <2>5. j # 0 /\ j \in 0 .. Len(blocks)'
    BY <1>2, <1>16
  <2>6. Between(j)'
    BY <1>1, <1>3, <1>14, <1>16, <2>2, <2>3, <2>4, <2>5 DEF Between, Plotted
  <2> QED
    BY <2>5, <2>6 DEF PlotInv
<1> QED
  BY <1>12, <1>17, <1>18

LEMMA PlotEndStep ==
    ASSUME TypeInv, NEW c \in 0 .. Len(blocks), Between(c), DecodeEnd
    PROVE  PlotInv'
<1>1. /\ rd = Len(dat) /\ done' = TRUE /\ position' = Wrap(position - 1)
      /\ out' = Append(out, Point(position', status))
      /\ UNCHANGED recorder /\ UNCHANGED <<rd, buffer, first, status, ptime>>
  BY DEF DecodeEnd
<1>2. UNCHANGED <<blocks, dat, raw, tool>>
      /\ (\A k : State(k)' = State(k)) /\ (\A n : Waveform(n)' = Waveform(n))
      /\ (\A n : SamplesOf(n)' = SamplesOf(n) /\ WordsOf(n)' = WordsOf(n))
  BY <1>1, Frame, SamePlot
<1>3. Plotted(c)'
  BY <1>1, <1>2 DEF Between, Plotted
<1>4. out' = Append(Waveform(SamplesOf(c)), Point(Wrap(SamplesOf(c) - 1), status))
  BY <1>1 DEF Between
<1>5. Ended(c)'
  BY <1>1, <1>2, <1>3, <1>4 DEF Ended
<1>6. c \in 0 .. Len(blocks)'
  BY <1>2
<1> QED
  BY <1>5, <1>6 DEF PlotInv

LEMMA PlotTornStep ==
    ASSUME TypeInv, NEW c \in 0 .. Len(blocks), Torn(c), DecodeNumber \/ DecodeEnd
    PROVE  PlotInv'
<1>1. UNCHANGED recorder /\ UNCHANGED rd
  BY DEF DecodeNumber, DecodeEnd
<1>2. UNCHANGED <<blocks, dat, raw, tool>> /\ (\A n : Waveform(n)' = Waveform(n))
      /\ (\A n : SamplesOf(n)' = SamplesOf(n) /\ WordsOf(n)' = WordsOf(n))
      /\ \A n : End(n)' = End(n)
  BY <1>1, Frame, SamePlot
<1>3. /\ Waveform(SamplesOf(c)) \in Seq(Line) /\ out \in Seq(Line)
      /\ IsPrefix(Waveform(SamplesOf(c)), out)
  <2>1. SamplesOf(c) \in Nat
    BY BordersType DEF TypeInv
  <2> QED
    BY <2>1, WaveformOn DEF TypeInv, Decoder, Torn
<1>4. TypeInv'
  BY NumberType, EndType
<1>5. position' \in Int /\ status \in {0, 1}
  BY <1>4, ConstantsAssumption DEF TypeInv, Decoder, ConstantsAssumption
<1>6. IsPrefix(Waveform(SamplesOf(c)), out')
  <2>1. Change(position', status) \in Seq(Line) /\ <<Point(position', status)>> \in Seq(Line)
    <3>1. Point(position', status) \in Line
      BY <1>5, PointType
    <3> QED
      BY <1>5, <3>1, ChangeType
  <2>2. CASE out' = out
    BY <1>3, <2>2
  <2>3. CASE out' = out \o Change(position', status)
    BY <1>3, <2>1, <2>3, PrefixOn
  <2>4. CASE out' = Append(out, Point(position', status))
    <3>1. Point(position', status) \in Line
      BY <1>5, PointType
    <3>2. out' = out \o <<Point(position', status)>>
      BY <1>3, <2>4, <3>1, AppendIsConcat
    <3> QED
      BY <1>3, <2>1, <3>2, PrefixOn
  <2> QED
    BY <2>2, <2>3, <2>4 DEF DecodeNumber, DecodeEnd
<1>7. Torn(c)'
  BY <1>1, <1>2, <1>6 DEF Torn
<1>8. c \in 0 .. Len(blocks)'
  BY <1>2
<1> QED
  BY <1>7, <1>8 DEF PlotInv

LEMMA PlotBegins ==
    ASSUME TypeInv, Decode("-d")
    PROVE  PlotInv'
<1>1. HeadersRead(0)' /\ TypeInv'
  BY DecodeType
<1>2. tool = "record"
      /\ UNCHANGED <<done, rd, buffer, first, position, status, out>>
  BY DEF Decode
<1>3. rd' = 0 /\ buffer' = <<>> /\ ~done' /\ first' = TRUE /\ position' = 0 /\ out' = <<>>
  BY <1>2 DEF TypeInv, Decoder
<1>4. SamplesOf(0)' = 0 /\ WordsOf(0)' = 0 /\ Waveform(0)' = <<>>
  <2>1. Waveform(0)' = <<>>
    <3>1. [k \in 1 .. 0 |-> LinesAt(k)]' = <<>>
      OBVIOUS
    <3> QED
      BY <3>1 DEF Waveform, FlattenSeq
  <2> QED
    BY <2>1 DEF SamplesOf, WordsOf
<1>5. Len(dat)' \in Nat /\ Len(blocks)' \in Nat
  BY <1>1, LenProperties DEF TypeInv, Files, Layout
<1>6. Waveform(SamplesOf(0))' = <<>>
  BY <1>4 DEF SamplesOf
<1>7. Between(0)'
  BY <1>3, <1>4, <1>5, <1>6 DEF Between, Plotted
<1>8. 0 \in 0 .. Len(blocks)'
  BY <1>5
<1> QED
  BY <1>7, <1>8 DEF PlotInv

LEMMA PlotSame ==
    ASSUME PlotInv, UNCHANGED vars
    PROVE  PlotInv'
<1>1. UNCHANGED recorder /\ UNCHANGED <<done, rd, buffer, first, position, status, out>>
  BY DEF vars
<1>2. UNCHANGED <<blocks, dat, raw, tool>>
      /\ (\A k : State(k)' = State(k)) /\ (\A n : Waveform(n)' = Waveform(n))
      /\ (\A n : SamplesOf(n)' = SamplesOf(n) /\ WordsOf(n)' = WordsOf(n))
      /\ \A n : End(n)' = End(n)
  BY <1>1, Frame, SamePlot
<1>3. \A c : (Between(c) => Between(c)') /\ (Torn(c) => Torn(c)') /\ (Ended(c) => Ended(c)')
  BY <1>1, <1>2 DEF Between, Torn, Ended, Plotted
<1>4. \A j, m : Inside(j, m) => Inside(j, m)'
  BY <1>1, <1>2 DEF Inside, At
<1> QED
  BY <1>2, <1>3, <1>4 DEF PlotInv
LEMMA NextPlot == TypeInv /\ Countable /\ PlotInv /\ [Next]_vars => PlotInv'
<1> SUFFICES ASSUME TypeInv, Countable, PlotInv, [Next]_vars PROVE PlotInv'
  OBVIOUS
<1>1. ASSUME NEW b \in Block, Record(b)
      PROVE  PlotInv'
  BY <1>1 DEF Record, PlotInv
<1>2. ASSUME NEW t \in {"-d", "-dr", "-dt"}, Decode(t)
      PROVE  PlotInv'
  <2>1. CASE t = "-d"
    BY <1>2, <2>1, PlotBegins
  <2>2. CASE t # "-d"
    BY <1>2, <2>2 DEF Decode, PlotInv
  <2> QED
    BY <2>1, <2>2
<1>3. CASE DecodeRaw \/ TimeDiffHeader \/ TimeDiffNumber \/ TimeDiffEnd
  <2>1. tool \in {"-dr", "-dt"} /\ UNCHANGED recorder
    BY <1>3 DEF DecodeRaw, TimeDiffHeader, TimeDiffNumber, TimeDiffEnd
  <2> QED
    BY <2>1 DEF PlotInv, recorder
<1>4. CASE DecodeHeader \/ DecodeNumber \/ DecodeEnd
  <2>1. tool = "-d"
    BY <1>4 DEF DecodeHeader, DecodeNumber, DecodeEnd
  <2>2. ASSUME NEW c \in 0 .. Len(blocks), Between(c)
        PROVE  PlotInv'
    <3>1. ~DecodeNumber
      BY <2>2 DEF Between, Plotted, DecodeNumber
    <3> QED
      BY <1>4, <2>2, <3>1, PlotHeaderStep, PlotEndStep
  <2>3. ASSUME NEW c \in 0 .. Len(blocks), Torn(c)
        PROVE  PlotInv'
    <3>1. ~DecodeHeader
      <4>1. dat \in Seq(Word)
        BY DEF TypeInv, Files
      <4>2. Len(dat) \in Nat
        BY <4>1, LenProperties
      <4>3. rd = Len(dat)
        BY <2>3 DEF Torn
      <4>4. ~(rd < Len(dat))
        BY <4>2, <4>3
      <4> QED
        BY <4>4 DEF DecodeHeader
    <3> QED
      BY <1>4, <2>3, <3>1, PlotTornStep
  <2>4. ASSUME NEW c \in 0 .. Len(blocks), Ended(c)
        PROVE  PlotInv'
    BY <1>4, <2>4 DEF Ended, Plotted, DecodeHeader, DecodeNumber, DecodeEnd
  <2>5. ASSUME NEW j \in 1 .. Len(blocks), NEW m \in Nat, Inside(j, m)
        PROVE  PlotInv'
    <3>1. buffer # <<>>
      <4> DEFINE lens == Runs(blocks[j].data)
      <4>1. lens \in Seq(Nat \ {0}) /\ Len(lens) \in Nat
        BY BlockAt DEF TypeInv
      <4>2. buffer = SubSeq(lens, m + 1, Len(lens)) /\ m < Len(lens)
        BY <2>5 DEF Inside
      <4> HIDE DEF lens
      <4>3. PICK L \in Nat : L = Len(lens) /\ m < L
        BY <4>1, <4>2
      <4>4. \A i \in m + 1 .. L : lens[i] \in Nat \ {0}
        BY <4>1, <4>3, ElementOfSeq
      <4>5. Len(SubSeq(lens, m + 1, L)) = IF m + 1 <= L THEN L - (m + 1) + 1 ELSE 0
        BY <4>4, SubSeqProperties
      <4>6. Len(SubSeq(lens, m + 1, L)) # 0
        BY <4>3, <4>5
      <4> QED
        BY <4>2, <4>3, <4>6
    <3>2. DecodeNumber
      BY <1>4, <3>1 DEF DecodeHeader, DecodeEnd
    <3> QED
      BY <2>5, <3>2, PlotNumberStep
  <2> QED
    BY <2>1, <2>2, <2>3, <2>4, <2>5 DEF PlotInv
<1> QED
  BY <1>1, <1>2, <1>3, <1>4, PlotSame DEF Next, Terminated

(* What decode has plotted of c blocks when it ends.                       *)
LEMMA EndedComplete ==
    ASSUME TypeInv, NEW c \in 0 .. Len(blocks), Ended(c)
    PROVE  Complete = c
<1>1. Layout /\ Files /\ Len(blocks) \in Nat
  BY LenProperties DEF TypeInv, Layout
<1>2. Len(dat) = WordsOf(c) /\ WordsOf(c) \in Nat
  BY <1>1, BordersType DEF Ended, Plotted
<1>3. c < Len(blocks) => Len(dat) < End(c + 1)
  <2> SUFFICES ASSUME c < Len(blocks) PROVE Len(dat) < End(c + 1)
    OBVIOUS
  <2>1. c + 1 \in 1 .. Len(blocks) /\ (c + 1) - 1 = c
    BY <1>1
  <2> QED
    BY <1>1, <1>2, <2>1, Border
<1>4. WordsOf(c) <= Len(dat)
  BY <1>2
<1> QED
  BY <1>1, <1>3, <1>4, CompleteIs

LEMMA TornComplete ==
    ASSUME TypeInv, NEW c \in 0 .. Len(blocks), Torn(c)
    PROVE  Complete = c
<1>1. Layout /\ Files /\ Len(dat) \in Nat /\ WordsOf(c) \in Nat
  BY LenProperties, BordersType DEF TypeInv, Files
<1>2. WordsOf(c) <= Len(dat)
  BY <1>1 DEF Torn
<1> QED
  BY <1>1, <1>2, CompleteIs DEF Torn

LEMMA AllPlotted == TypeInv /\ Countable /\ PlotInv => RoundTrip
<1> SUFFICES ASSUME TypeInv, Countable, PlotInv, tool = "-d", done, blocks # <<>>,
                    Complete = Len(blocks)
             PROVE  out = Append(Waveform(Len(raw)), LastPoint(Len(raw)))
  BY DEF RoundTrip
<1>1. PICK c \in 0 .. Len(blocks) : Torn(c) \/ Ended(c)
  BY DEF PlotInv, Between, Inside
<1>2. Ended(c) /\ c = Len(blocks)
  BY <1>1, EndedComplete, TornComplete DEF Torn
<1>3. Len(blocks) \in Nat /\ Len(blocks) # 0 /\ c > 0
  BY <1>2, LenProperties, EmptySeq DEF TypeInv, Layout
<1>4. /\ SamplesOf(c) = Len(raw) /\ SamplesOf(c) \in Nat /\ SamplesOf(c) < IntHalf
      /\ SamplesOf(c) # 0
  <2>1. c \in 1 .. Len(blocks)
    BY <1>2, <1>3
  <2>2. /\ SamplesOf(c) \in Nat /\ SamplesOf(c) < IntHalf
        /\ blocks[c].sample < SamplesOf(c) /\ blocks[c].sample \in Nat
    BY <2>1, InFile, Border, BlockAt DEF TypeInv
  <2> QED
    BY <1>2, <2>2 DEF TypeInv, Files
<1>5. Wrap(SamplesOf(c) - 1) = SamplesOf(c) - 1
  <2>1. SamplesOf(c) - 1 \in -IntHalf .. IntHalf - 1
    BY <1>4, ConstantsAssumption DEF ConstantsAssumption
  <2> QED
    BY <2>1, WrapSmall
<1>6. /\ out = Append(Waveform(SamplesOf(c)), Point(Wrap(SamplesOf(c) - 1), status))
      /\ status = State(SamplesOf(c))
  BY <1>2, <1>3 DEF Ended, Plotted
<1> QED
  BY <1>4, <1>5, <1>6 DEF LastPoint

LEMMA PrefixPlotted == TypeInv /\ PlotInv => TornPrefix
<1> SUFFICES ASSUME TypeInv, PlotInv, tool = "-d", done
             PROVE  IsPrefix(Waveform(SamplesOf(Complete)), out)
  BY DEF TornPrefix
<1>1. PICK c \in 0 .. Len(blocks) : Torn(c) \/ Ended(c)
  BY DEF PlotInv, Between, Inside
<1>2. CASE Torn(c)
  BY <1>2, TornComplete DEF Torn
<1>3. CASE Ended(c)
  <2>1. Complete = c
    BY <1>3, EndedComplete
  <2>2. SamplesOf(c) \in Nat
    BY BordersType DEF TypeInv
  <2>3. Waveform(SamplesOf(c)) \in Seq(Line)
    BY <2>2, WaveformOn DEF TypeInv
  <2> DEFINE last == Point(Wrap(SamplesOf(c) - 1), status)
  <2>4. last \in Line
    <3>1. Wrap(SamplesOf(c) - 1) \in Int /\ status \in Int
      BY <2>2, WrapType, ConstantsAssumption DEF ConstantsAssumption, TypeInv, Decoder
    <3> QED
      BY <3>1, PointType
  <2>5. out = Append(Waveform(SamplesOf(c)), last)
    BY <1>3 DEF Ended
  <2> HIDE DEF last
  <2>6. out = Waveform(SamplesOf(c)) \o <<last>> /\ <<last>> \in Seq(Line)
    BY <2>3, <2>4, <2>5, AppendIsConcat
  <2> QED
    BY <2>1, <2>3, <2>6, PrefixSelf, PrefixOn
<1> QED
  BY <1>1, <1>2, <1>3

LEMMA InitPlot == Init => PlotInv
  BY DEF Init, PlotInv

(* Decoded: as long as an int can count the samples of the file, decoding  *)
(* a whole .dat file plots the on/off state of every sample recorded, at   *)
(* its position, however many blocks there are, however long they are, and *)
(* whatever the states at their borders.                                   *)
THEOREM Decoded == Spec /\ []Countable => []RoundTrip
  BY InitType, InitPlot, NextType, NextPlot, AllPlotted, PTL DEF Spec

(* TornDecoded: and of a file that a crash cut anywhere it plots at least  *)
(* all its complete blocks.                                                *)
THEOREM TornDecoded == Spec /\ []Countable => []TornPrefix
  BY InitType, InitPlot, NextType, NextPlot, PrefixPlotted, PTL DEF Spec
-----------------------------------------------------------------------------
(* decode_raw: see RawInv.                                                 *)

\* The first n samples of the file as decode_raw should print them.
Printed(n) == [i \in 1 .. n |-> Point(i - 1, raw[i])]

(* Between two buffers count is the number of samples read, and they are   *)
(* printed; the loop ends at the end of the file only.                     *)
RawInv ==
    /\ raw \in Seq(Samples)
    /\ tool \in {"record", "-d", "-dr", "-dt"}
    /\ tool = "record" => rd = 0 /\ position = 0 /\ out = <<>> /\ done = FALSE
    /\ tool = "-dr" =>
          /\ rd \in 0 .. Len(raw)
          /\ position = rd
          /\ out = Printed(rd)
          /\ done => rd = Len(raw)

-----------------------------------------------------------------------------
(* What is printed of a buffer continues what was printed before.          *)
LEMMA PrintedOn ==
    ASSUME NEW r \in Nat, NEW n \in Nat
    PROVE  Printed(r) \o [i \in 1 .. n |-> Point(r + i - 1, raw[r + i])] = Printed(r + n)
<1> DEFINE block == [i \in 1 .. n |-> Point(r + i - 1, raw[r + i])]
           S == {Point(i - 1, raw[i]) : i \in 1 .. r + n}
<1>1. /\ Printed(r) \in Seq(S) /\ Len(Printed(r)) = r
      /\ Printed(r + n) \in Seq(S) /\ Len(Printed(r + n)) = r + n
  BY DEF Printed
<1>2. block \in Seq(S) /\ Len(block) = n
  <2>1. ASSUME NEW i \in 1 .. n
        PROVE  Point(r + i - 1, raw[r + i]) \in S
    <3>1. r + i \in 1 .. r + n
      OBVIOUS
    <3> QED
      BY <3>1
  <2> QED
    BY <2>1
<1>3. \A i \in 1 .. n : block[i] = Point(r + i - 1, raw[r + i])
  OBVIOUS
<1>4. ASSUME NEW i \in 1 .. r + n
      PROVE  (Printed(r) \o block)[i] = Printed(r + n)[i]
  <2> HIDE DEF block, S
  <2>1. CASE i <= r
    <3>1. i \in 1 .. r
      BY <2>1
    <3>2. (Printed(r) \o block)[i] = Printed(r)[i]
      BY <1>1, <1>2, <3>1, ConcatProperties
    <3> QED
      BY <3>1, <3>2 DEF Printed
  <2>2. CASE i > r
    <3>1. i - r \in 1 .. n /\ r + (i - r) = i
      BY <2>2
    <3>2. (Printed(r) \o block)[i] = block[i - r]
      BY <1>1, <1>2, <2>2, ConcatProperties
    <3>3. block[i - r] = Point(i - 1, raw[i])
      BY <1>3, <3>1
    <3> QED
      BY <3>2, <3>3 DEF Printed
  <2>3. i <= r \/ i > r
    OBVIOUS
  <2> QED
    BY <2>1, <2>2, <2>3
<1> HIDE DEF block, S
<1>5. Printed(r) \o block \in Seq(S) /\ Len(Printed(r) \o block) = r + n
  BY <1>1, <1>2, ConcatProperties
<1>6. Printed(r) \o block = Printed(r + n)
  BY <1>1, <1>4, <1>5, SeqEqual
<1> QED
  BY <1>6 DEF block

(* Nothing is printed of an empty file.                                    *)
LEMMA PrintedNothing == Printed(0) = <<>>
<1>1. \A f : DOMAIN f = 1 .. 0 /\ f = [i \in 1 .. 0 |-> f[i]] => f = <<>>
  OBVIOUS
<1> QED
  BY <1>1 DEF Printed

-----------------------------------------------------------------------------
(* The steps.                                                              *)

LEMMA RecordRaw ==
    ASSUME RawInv, NEW b \in Block, Record(b)
    PROVE  RawInv'
<1>1. b.data \in Seq(Samples)
  BY DEF Block
<1>2. raw' = raw \o b.data /\ UNCHANGED <<tool, rd, position, out, done>> /\ tool = "record"
  BY DEF Record
<1>3. raw' \in Seq(Samples)
  BY <1>1, <1>2, ConcatProperties DEF RawInv
<1> QED
  BY <1>2, <1>3 DEF RawInv

LEMMA BeginRaw ==
    ASSUME RawInv, NEW t \in {"-d", "-dr", "-dt"}, Decode(t)
    PROVE  RawInv'
<1>1. tool = "record" /\ tool' = t /\ UNCHANGED <<rd, position, out, done>>
  BY DEF Decode
<1>2. raw' \in Seq(Samples)
  <2>1. CASE raw' = raw
    BY <2>1 DEF RawInv
  <2>2. ASSUME NEW n \in 0 .. Len(raw), raw' = SubSeq(raw, 1, n)
        PROVE  raw' \in Seq(Samples)
    <3>1. \A i \in 1 .. n : raw[i] \in Samples
      BY ElementOfSeq DEF RawInv
    <3> QED
      BY <2>2, <3>1, SubSeqProperties DEF RawInv
  <2> QED
    BY <2>1, <2>2 DEF Decode
<1>3. Len(raw') \in Nat
  BY <1>2, LenProperties
<1>4. 0 \in 0 .. Len(raw')
  BY <1>3
<1>5. Printed(0)' = <<>>
  BY PrintedNothing DEF Printed
<1> QED
  BY <1>1, <1>2, <1>4, <1>5 DEF RawInv

(* count is the number of samples.                                         *)
LEMMA WrapCount ==
    ASSUME Countable, Len(raw) \in Nat
    PROVE  \A n \in 0 .. Len(raw) : Wrap(n) = n
<1>1. IntHalf \in Nat \ {0}
  BY ConstantsAssumption DEF ConstantsAssumption
<1>2. \A n \in 0 .. Len(raw) : n \in -IntHalf .. IntHalf - 1
  BY <1>1 DEF Countable
<1> QED
  BY <1>2, WrapSmall

LEMMA PrintStep ==
    ASSUME RawInv, Countable, DecodeRaw
    PROVE  RawInv'
<1> DEFINE n == IF Len(raw) - rd < BufferSize THEN Len(raw) - rd ELSE BufferSize
<1>1. /\ tool = "-dr" /\ raw \in Seq(Samples) /\ Len(raw) \in Nat
      /\ rd \in 0 .. Len(raw) /\ position = rd /\ out = Printed(rd)
  BY LenProperties DEF RawInv, DecodeRaw
<1>2. BufferSize \in Nat \ {0}
  BY ConstantsAssumption DEF ConstantsAssumption
<1>3. n \in Nat /\ rd + n \in 0 .. Len(raw) /\ (n < BufferSize => rd + n = Len(raw))
  BY <1>1, <1>2
<1>4. /\ out' = out \o [i \in 1 .. n |-> Point(Wrap(position + i - 1), raw[rd + i])]
      /\ position' = Wrap(position + n) /\ rd' = rd + n /\ done' = (n < BufferSize)
      /\ UNCHANGED <<raw, tool>>
  BY DEF DecodeRaw, recorder
<1> HIDE DEF n
<1>5. position' = rd'
  BY <1>1, <1>3, <1>4, WrapCount
<1>6. ASSUME NEW i \in 1 .. n
      PROVE  Wrap(position + i - 1) = rd + i - 1
  <2>1. rd + i - 1 \in 0 .. Len(raw)
    BY <1>1, <1>3
  <2> QED
    BY <1>1, <2>1, WrapCount
<1>7. out' = Printed(rd) \o [i \in 1 .. n |-> Point(rd + i - 1, raw[rd + i])]
  BY <1>1, <1>4, <1>6
<1>8. out' = Printed(rd + n)
  <2>1. rd \in Nat
    BY <1>1
  <2> QED
    BY <1>3, <1>7, <2>1, PrintedOn
<1>9. out' = [i \in 1 .. rd' |-> Point(i - 1, raw'[i])]
  BY <1>4, <1>8 DEF Printed
<1>10. done' => rd' = Len(raw')
  BY <1>3, <1>4
<1>11. rd' \in 0 .. Len(raw') /\ tool' = "-dr" /\ raw' \in Seq(Samples)
  BY <1>1, <1>3, <1>4
<1> QED
  BY <1>5, <1>9, <1>10, <1>11 DEF RawInv, Printed

(* The other decoders are not about the .raw file.                         *)
LEMMA OtherRaw ==
    ASSUME RawInv,
           \/ DecodeHeader \/ DecodeNumber \/ DecodeEnd
           \/ TimeDiffHeader \/ TimeDiffNumber \/ TimeDiffEnd
    PROVE  RawInv'
<1>1. tool \in {"-d", "-dt"} /\ UNCHANGED <<raw, tool>>
  BY DEF DecodeHeader, DecodeNumber, DecodeEnd, TimeDiffHeader, TimeDiffNumber, TimeDiffEnd,
         recorder
<1> QED
  BY <1>1 DEF RawInv

LEMMA NextRaw == RawInv /\ Countable /\ [Next]_vars => RawInv'
<1> SUFFICES ASSUME RawInv, Countable, [Next]_vars PROVE RawInv'
  OBVIOUS
<1>1. CASE UNCHANGED vars
  <2>1. UNCHANGED <<raw, tool, rd, position, out, done>>
    BY <1>1 DEF vars, recorder
  <2> QED
    BY <2>1 DEF RawInv, Printed
<1>2. CASE Next
  BY <1>1, <1>2, RecordRaw, BeginRaw, PrintStep, OtherRaw DEF Next, Terminated
<1> QED
  BY <1>1, <1>2

(* RawDecoded: as long as count can tell the positions, decode_raw prints  *)
(* every sample of a .raw file once and in order, however long the file,   *)
(* wherever it was cut, and whether or not the buffer's size divides its   *)
(* length.                                                                 *)
THEOREM RawDecoded == Spec /\ []Countable => []RawRoundTrip
<1>1. Init => RawInv
  BY EmptySeq DEF Init, RawInv
<1>2. RawInv => RawRoundTrip
  <2> SUFFICES ASSUME RawInv, tool = "-dr", done
               PROVE  out = [i \in DOMAIN raw |-> Point(i - 1, raw[i])]
    BY DEF RawRoundTrip
  <2>1. DOMAIN raw = 1 .. Len(raw)
    BY LenProperties DEF RawInv
  <2> QED
    BY <2>1 DEF RawInv, Printed
<1> QED
  BY <1>1, <1>2, NextRaw, PTL DEF Spec
=============================================================================
